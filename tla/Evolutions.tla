----------------------------- MODULE Evolutions -----------------------------
(***************************************************************************)
(* The catalogue of Evolution providers, the products linked to them, and  *)
(* the admission of new instances against it.  Creations are those of      *)
(* CreationPromise, which the detailed creation is shown to implement;     *)
(* here they are admitted, counted and moved against providers that        *)
(* operators register, limit, pause, move, link, detach and retire.        *)
(*                                                                         *)
(* Every administrative transaction locks what it reads (the catalogue     *)
(* lock, then the product, then its providers) and compares the revision   *)
(* the operator saw with the current one.  So each is one action, taken by *)
(* an operator who is up to date: any other is refused without effect.     *)
(***************************************************************************)
EXTENDS Occupancy

CONSTANTS
  Tickets,        \* creations a client may ask for, one per candidate provider
  Products, Providers,
  Urls,           \* addresses a provider may be registered under
  Endpoint,       \* canonicalEvolutionEndpoint: the installation of an address, None if invalid
  ClientToken,    \* creations whose token is the client's own, which proves nothing
  Foreign,        \* sessions operators may create by hand: [provider, name, id]
  Workloads,      \* what behaviours start from, see Start; bounds what happens in them
  ProviderEdits, ProductEdits,  \* edits an operator may submit, where some fields are NotGiven
  AllocationEnabled,            \* EVOLUTION_ALLOCATION_ENABLED
  NotGiven

VARIABLES
  ask, phase, session, kept,  \* of CreationPromise
  stuck,           \* closed creations that still carry a lease
  product, provider, link, setup,
  reconciliation,  \* the last reconciliation of each provider
  foreign,         \* sessions nobody asked the Hub for
  undelivered,     \* deliveries not yet made
  edits            \* bound: administrative edits left

Creation == INSTANCE CreationPromise

creationVars == <<ask, phase, session, kept, stuck>>
evolutionVars == <<ask, phase, session, kept, stuck, product, provider, link, setup,
                   reconciliation, foreign, undelivered, edits>>

EvolutionsAssumption ==
  /\ None \notin Products \cup Providers \cup Tickets
  /\ Endpoint \in [Urls -> {Endpoint[u] : u \in Urls}]
  /\ ClientToken \subseteq Tickets
  /\ \A f \in Foreign : f.provider \in Providers /\ f.id \notin Tickets
  /\ IsFiniteSet(Tickets) /\ IsFiniteSet(Foreign)
ASSUME EvolutionsAssumption

ProviderFields ==
  {"known", "url", "endpoint", "identity", "active", "accepting", "host", "max", "rev", "occ",
   "status", "observed", "healthy", "seen", "callback", "entries", "absent"}
ProductFields == {"mode", "default", "rev", "relay", "active"}
LinkRecord == [accepting : BOOLEAN, rev : Nat]

(* Sessions a provider may list. *)
Listable ==
  [name : {ask[t].name : t \in Tickets} \cup {f.name : f \in Foreign},
   id : Tickets \cup {f.id : f \in Foreign}, product : {None}]

(* readers: who may have seen the current occupancy revision; listed: sets of sessions. *)
RecordOf(readers, listed, missing) ==
  [known : BOOLEAN, url : Urls, endpoint : {Endpoint[u] : u \in Urls} \cup {None},
   identity : {"pending", "verified"}, active : BOOLEAN, accepting : BOOLEAN, host : BOOLEAN,
   max : Nat \cup {None}, rev : Nat, occ : SUBSET readers,
   status : {"unknown", "ready", "unresolved"}, observed : {"never", "recent", "old"},
   healthy : BOOLEAN, seen : {"never", "recent", "old"}, callback : {"pending", "ready"},
   entries : SUBSET listed, absent : SUBSET missing]

ProviderRecord(readers) == RecordOf(readers, Listable, Tickets)

(* What a workload starts from: rows of the Hub's tables, linked and limited as its rules want. *)
WorkloadsAssumption ==
  /\ None \notin LinkRecord
  /\ \A w \in Workloads :
       /\ w.done \subseteq Tickets
       /\ DOMAIN w.ask = Tickets
       /\ \A t \in Tickets : w.ask[t].product \in Products /\ w.ask[t].provider \in Providers
       /\ DOMAIN w.product = Products
       /\ \A p \in Products : /\ DOMAIN w.product[p] = ProductFields
                              /\ w.product[p].default \in Providers \cup {None}
       /\ w.provider \in [Providers -> RecordOf({}, {}, {})]
       /\ w.link \in [Products -> [Providers -> LinkRecord \cup {None}]]
       /\ \A p \in Products :
            w.product[p].default # None => w.link[p][w.product[p].default] # None
       /\ \A t \in w.done : w.link[w.ask[t].product][w.ask[t].provider] # None
       /\ \A v, u \in Providers :
            /\ u # v /\ w.provider[v].known /\ w.provider[u].known
            /\ w.provider[v].max # None \/ ~w.provider[v].accepting
            => \/ Endpoint[w.provider[v].url] = None
               \/ Endpoint[w.provider[u].url] # Endpoint[w.provider[v].url]
ASSUME WorkloadsAssumption

EditsAssumption ==
  /\ \A e \in ProviderEdits :
       /\ e.url \in Urls \cup {NotGiven} /\ e.max \in Nat \cup {None, NotGiven}
       /\ e.active \in BOOLEAN \cup {NotGiven} /\ e.accepting \in BOOLEAN \cup {NotGiven}
  /\ \A d \in ProductEdits : d.default \in Providers \cup {None, NotGiven}
ASSUME EditsAssumption

Idle == [status |-> "none", owner |-> None, leased |-> FALSE]

(* w is a workload: what creations ask for, which are committed already, a catalogue, what *)
(* is to be delivered, edits.                                                              *)
Start(w) ==
  /\ ask = w.ask
  /\ phase = [t \in Tickets |-> IF t \in w.done THEN "committed" ELSE "none"]
  /\ session = [t \in Tickets |-> IF t \in w.done THEN "up" ELSE "unsent"]
  /\ kept = w.done
  /\ stuck = {}
  /\ product = w.product /\ provider = w.provider /\ link = w.link
  /\ setup = w.setup
  /\ reconciliation = [v \in Providers |-> Idle]
  /\ foreign = {}
  /\ undelivered = w.undelivered
  /\ edits = w.edits
-----------------------------------------------------------------------------
(* Who is on a provider. *)

OpenAt(v) == {t \in Tickets : Creation!Held(t) /\ ask[t].provider = v}
RowsAt(v) == {t \in kept : ask[t].provider = v}
ProductOf(t) == ask[t].product

Account(t, known) ==
  [name |-> ask[t].name, id |-> IF known THEN t ELSE None, product |-> ProductOf(t)]

RemoteAt(v) ==
  {[name |-> ask[t].name, id |-> t, product |-> None] :
     t \in {u \in Tickets : session[u] = "up" /\ ask[u].provider = v}}
  \cup {[name |-> f.name, id |-> f.id, product |-> None] : f \in {g \in foreign : g.provider = v}}

(* A mutant: reservations are not counted. *)
ReadSessions(v) ==
  Occupancy(provider[v].entries, {Account(t, TRUE) : t \in RowsAt(v) \ provider[v].absent}, {})

(* A row the last inventory missed does not count, unless it was written since. *)
ReadOccupancy(v) ==
  Occupancy(provider[v].entries,
            {Account(t, TRUE) : t \in RowsAt(v) \ provider[v].absent},
            {Account(t, t \in kept) : t \in OpenAt(v)})
-----------------------------------------------------------------------------
(* What a collection of sessions says of a provider. *)

(* A row of that name must be that session; without one, a ticket whose own token it carries. *)
Explained(v, s) ==
  LET rows == {t \in RowsAt(v) : ask[t].name = s.name}
  IN IF rows # {} THEN \A t \in rows : SameSession(Account(t, TRUE), s)
     ELSE \E t \in OpenAt(v) : ask[t].name = s.name /\ s.id = t /\ t \notin ClientToken

Missing(v, seen) == {t \in RowsAt(v) : ~\E s \in seen : SameSession(Account(t, TRUE), s)}

(* The provider with its inventory; rows written since the collection began are not absent. *)
Observed(v, seen, touched) ==
  [provider[v] EXCEPT
    !.entries = seen, !.absent = Missing(v, seen) \ touched,
    !.status = IF \A s \in seen : Explained(v, s) THEN "ready" ELSE "unresolved",
    !.observed = "recent", !.healthy = TRUE, !.seen = "recent"]
-----------------------------------------------------------------------------
(* What a provider is good for. *)

Aliases(u, v) ==
  {w \in Providers \ {v} :
     provider[w].known /\ Endpoint[u] # None /\ Endpoint[provider[w].url] = Endpoint[u]}

IsControlled(v) ==
  \/ provider[v].max # None
  \/ ~provider[v].accepting
  \/ \E p \in Products : link[p][v] # None /\ product[p].mode = "capacity"

(* A mutant: only the one that is limited is careful. *)
OwnSideAvailable(u, v, strict) == ~strict \/ Aliases(u, v) = {}

EndpointAvailable(u, v, strict) == \A w \in Aliases(u, v) : ~strict /\ ~IsControlled(w)

InventoryFresh(x) == x.observed = "recent" /\ x.status \in {"ready", "unresolved"}

IsFresh(x) ==
  x.healthy /\ x.seen = "recent" /\ x.status = "ready" /\ x.observed = "recent"

IdentityConfirmed(x) ==
  Endpoint[x.url] # None /\ x.endpoint = Endpoint[x.url] /\ x.identity = "verified"

Blocks(condition, code) == IF condition THEN {code} ELSE {}

(* Why a provider, as it is or as an edit would make it, cannot be relied upon. *)
Readiness(v, x, relay) ==
  Blocks(~IdentityConfirmed(x), "identity_unverified")
  \cup Blocks(Aliases(x.url, v) # {}, "endpoint_alias")
  \cup Blocks(~x.active, "provider_inactive")
  \cup Blocks(~x.host, "vps_inactive")
  \cup Blocks(~x.healthy \/ x.seen # "recent", "health_unconfirmed")
  \cup Blocks(x.status # "ready" \/ ~InventoryFresh(x), "inventory_unconfirmed")
  \cup Blocks(relay /\ x.callback # "ready", "callback_unconfirmed")
  \cup Blocks(ReadOccupancy(v).ambiguous, "occupancy_ambiguous")

(* A mutant: full only beyond the limit. *)
Overfull(v, max) == max # None /\ ReadOccupancy(v).effective > max

Full(v, max) == max # None /\ ReadOccupancy(v).effective >= max

Unused(v, identityChange) ==
  /\ RowsAt(v) = {} /\ OpenAt(v) = {} /\ provider[v].entries = {}
  /\ \A p \in Products : product[p].default # v
  /\ \A d \in undelivered : d.kind = "event" => d.provider # v
  /\ identityChange => \A p \in Products : link[p][v] = None

WritersCompatible(confirmed) == (confirmed \/ setup.confirmed) /\ setup.consolidated
-----------------------------------------------------------------------------
(* Admission of a creation, read and decided in one transaction. *)

Accepts(p, v) ==
  IF link[p][v] # None THEN link[p][v].accepting ELSE product[p].mode = "legacy"

(* own: the creation already counts, as it is being sent and not reserved. *)
Admissible(p, v, own) ==
  LET x == provider[v]
      capacity == product[p].mode = "capacity"
      used == ReadOccupancy(v)
  IN /\ product[p].active
     /\ IF capacity THEN AllocationEnabled ELSE product[p].default = v
     /\ x.active /\ x.accepting /\ Accepts(p, v)
     /\ capacity \/ x.max # None =>
          /\ IdentityConfirmed(x) /\ Aliases(x.url, v) = {}
          /\ x.host /\ IsFresh(x)
          /\ capacity /\ product[p].relay => x.callback = "ready"
          /\ ~used.ambiguous
          /\ x.max # None => used.effective + (IF own THEN 0 ELSE 1) <= x.max

NewLink(accepting) == [accepting |-> accepting, rev |-> 0]

EnsureLink(p, v, accepting) ==
  link' = IF link[p][v] = None THEN [link EXCEPT ![p][v] = NewLink(accepting)] ELSE link

EnsureAdmissionLink(p, v) ==
  IF product[p].mode = "legacy" THEN EnsureLink(p, v, TRUE) ELSE UNCHANGED link
-----------------------------------------------------------------------------
(* Creations, each at the provider its ticket was reserved for.  Whatever changes who is *)
(* on a provider advances its occupancy revision, kept as who has seen the current one.  *)

Advance(v) == provider' = [provider EXCEPT ![v].occ = {}]

RowGone(t) ==
  provider' = [provider EXCEPT ![ask[t].provider].occ = {},
                               ![ask[t].provider].absent = @ \ {t}]

catalogVars == <<product, link, setup, reconciliation, foreign, undelivered, edits>>

Admit(t, own) ==
  /\ Admissible(ProductOf(t), ask[t].provider, own)
  /\ EnsureAdmissionLink(ProductOf(t), ask[t].provider)
  /\ UNCHANGED <<product, setup, reconciliation, foreign, undelivered, edits>>

Reserve(t) ==
  /\ Creation!Hold(t)
  /\ \A e \in provider[ask[t].provider].entries : e.name # ask[t].name
  /\ Admit(t, FALSE)
  /\ Advance(ask[t].provider)
  /\ UNCHANGED stuck

(* Its request gives up and leaves a lease behind, or a scan finds it expired and does not.  *)
(* Giving up a creation already sent only advances the occupancy, and is left out: a         *)
(* collection it makes fail may fail in any case.                                            *)
Release(t) ==
  /\ Creation!Release(t)
  /\ stuck' \in {stuck, stuck \cup {t}}
  /\ Advance(ask[t].provider)
  /\ UNCHANGED catalogVars

MarkCreating(t) == Creation!Dispatch(t) /\ Admit(t, TRUE) /\ UNCHANGED <<stuck, provider>>

Call(t) == Creation!Call(t) /\ UNCHANGED <<stuck, provider, catalogVars>>

(* A provider refuses a name it has already. *)
Answer(t) ==
  /\ Creation!Answer(t)
  /\ session'[t] = "up" =>
       \A f \in foreign : f.provider = ask[t].provider => f.name # ask[t].name
  /\ UNCHANGED <<stuck, provider, catalogVars>>

Vanish(t) == Creation!Vanish(t) /\ UNCHANGED <<stuck, provider, catalogVars>>

Record(t) ==
  t \notin kept /\ Creation!Keep(t) /\ Advance(ask[t].provider) /\ UNCHANGED <<stuck, catalogVars>>

Commit(t) == Creation!Commit(t) /\ Advance(ask[t].provider) /\ UNCHANGED <<stuck, catalogVars>>

Undo(t) == Creation!Undo(t) /\ UNCHANGED <<stuck, provider, catalogVars>>

Drop(t) ==
  (Creation!Undone(t) \/ Creation!Discard(t)) /\ RowGone(t) /\ UNCHANGED <<stuck, catalogVars>>

Create(t) ==
  \/ Reserve(t) \/ Release(t) \/ MarkCreating(t) \/ Call(t) \/ Answer(t) \/ Vanish(t)
  \/ Record(t) \/ Commit(t) \/ Undo(t) \/ Drop(t)
-----------------------------------------------------------------------------
(* What keeps a link, or a mode, from being reversed. *)

(* p or v is None where any will do. *)
PendingProvisionings(p, v) ==
  \E t \in Tickets :
    /\ Creation!Held(t) \/ t \in stuck
    /\ p \in {None, ProductOf(t)} /\ v \in {None, ask[t].provider}

OriginsOf(d) == IF d.provider # None THEN {d.provider} ELSE d.origins

EventBlocks(d, p, vs) ==
  LET origins == OriginsOf(d)
      matches == {t \in kept : /\ ask[t].provider \in (IF origins = {} THEN vs ELSE origins)
                               /\ ask[t].name = d.name \/ t = d.id}
  IN /\ d.provider \in vs \cup {None}
     /\ IF d.instance \in kept THEN ProductOf(d.instance) = p
        ELSE IF d.ticket # None /\ phase[d.ticket] # "none" THEN ProductOf(d.ticket) = p
        ELSE /\ origins = {} \/ origins \cap vs # {}
             /\ matches = {} \/ \E t \in matches : ProductOf(t) = p

JobBlocks(d, p, vs) == d.product = p /\ d.provider \in vs \cup {None}

PendingDeliveries(p, vs) ==
  \E d \in undelivered :
    IF d.kind = "event" THEN EventBlocks(d, p, vs) ELSE JobBlocks(d, p, vs)

LinkedTo(p) == {v \in Providers : link[p][v] # None}
RowsOf(p) == {t \in kept : ProductOf(t) = p}

LegacyBlockers(p, target) ==
  LET x == provider[target]
      away == {t \in RowsOf(p) : ask[t].provider # target}
  IN Blocks(~x.known \/ ~x.active \/ ~x.host \/ link[p][target] = None, "target_unavailable")
     \cup Blocks(away # {}, "instances_outside_target")
     \cup Blocks(PendingProvisionings(p, None), "provisioning_pending")
     \cup Blocks(PendingDeliveries(p, LinkedTo(p) \ {target}), "delivery_pending")

(* A mutant: without the creations under way. *)
RowBlockers(p, v) ==
  Blocks(product[p].default = v, "default_provider")
  \cup Blocks(\E t \in RowsOf(p) : ask[t].provider = v, "instances_present")

DetachBlockers(p, v) ==
  Blocks(product[p].default = v, "default_provider")
  \cup Blocks(\E t \in RowsOf(p) : ask[t].provider = v, "instances_present")
  \cup Blocks(PendingProvisionings(p, v), "provisioning_pending")
  \cup Blocks(PendingDeliveries(p, {v}), "delivery_pending")

DetachEmptyLink(p, v) ==
  /\ DetachBlockers(p, v) = {}
  /\ link' = [link EXCEPT ![p][v] = None]

(* Events whose origin is not settled hold back every provider they may come from. *)
AmbiguousAt(v) ==
  {d \in undelivered :
     /\ d.kind = "event" /\ d.provider = None
     /\ IF d.instance \in kept THEN ask[d.instance].provider = v
        ELSE d.origins = {} \/ v \in d.origins}

RemovalBlockers(v) ==
  Blocks(~Unused(v, TRUE) \/ AmbiguousAt(v) # {} \/ PendingProvisionings(None, v), "usage_present")
  \cup Blocks(reconciliation[v].status \in {"pending", "running"}, "reconciliation_present")
  \cup Blocks(provider[v].status # "ready" \/ ~InventoryFresh(provider[v]), "inventory_unconfirmed")
=============================================================================
