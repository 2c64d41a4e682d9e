------------------------------ MODULE Catalog ------------------------------
(***************************************************************************)
(* The administration of providers, products and links, and what it shows. *)
(*                                                                         *)
(*   vps-provider.service.ts, vps.service.ts   providers and their hosts   *)
(*   evolutions.service.ts                     links, modes and views      *)
(*   evolution-setup.service.ts                confirmation, retirement    *)
(*   products.service.ts                       the product itself          *)
(*                                                                         *)
(* Priorities, labels and adapter types are left out: candidates may be    *)
(* tried in any order, and every provider and product is an Evolution's.   *)
(***************************************************************************)
EXTENDS Evolutions

Edit == edits > 0 /\ edits' = edits - 1
Given(x, y) == IF x = NotGiven THEN y ELSE x
Limits(e) == e.max \notin {NotGiven, None}

unedited == <<creationVars, reconciliation, foreign, undelivered>>
-----------------------------------------------------------------------------
(* Providers. *)

(* A row as the schema's defaults make it. *)
NewProvider(u) ==
  [known |-> TRUE, url |-> u, endpoint |-> Endpoint[u], identity |-> "pending",
   active |-> TRUE, accepting |-> TRUE, host |-> TRUE, max |-> None, rev |-> 0, occ |-> {},
   status |-> "unknown", observed |-> "never", healthy |-> TRUE, seen |-> "never",
   callback |-> "pending", entries |-> {}, absent |-> {}]

CreateRecord(v, u, strict) ==
  /\ Edit
  /\ ~provider[v].known
  /\ EndpointAvailable(u, v, strict)
  /\ provider' = [provider EXCEPT ![v] = NewProvider(u)]
  /\ UNCHANGED <<unedited, product, link, setup>>

(* To another address, host or adapter. *)
Moves(v, e) == e.moved \/ e.url \notin {NotGiven, provider[v].url}

Permitted(v, e) ==
  LET strict == e.policy \/ IsControlled(v)
      url == Given(e.url, provider[v].url)
  IN /\ Moves(v, e) /\ strict => Unused(v, TRUE)
     /\ e.active = FALSE /\ strict => Unused(v, FALSE)
     /\ Moves(v, e) => OpenAt(v) = {}
     /\ e.url # NotGiven => EndpointAvailable(url, v, strict)
     /\ e.confirm => Endpoint[url] # None
     /\ e.confirm \/ e.accepting = FALSE => EndpointAvailable(url, v, TRUE)

LimitReady(v, e) ==
  LET x == provider[v]
      confirmed == [x EXCEPT !.identity = "verified", !.endpoint = Endpoint[Given(e.url, x.url)]]
  IN /\ WritersCompatible(e.writers)
     /\ Readiness(v, IF e.confirm THEN confirmed ELSE x, FALSE) = {}
     /\ ~Moves(v, e) /\ ~e.key

Updated(x, e, moves) ==
  LET url == Given(e.url, x.url)
      forget == moves \/ e.key
  IN [x EXCEPT
       !.url = url,
       !.endpoint = IF e.url # NotGiven \/ e.confirm THEN Endpoint[url] ELSE @,
       !.identity = IF e.confirm THEN "verified" ELSE IF moves THEN "pending" ELSE @,
       !.callback = IF moves THEN "pending" ELSE @,
       !.active = Given(e.active, @), !.accepting = Given(e.accepting, @),
       !.max = Given(e.max, @), !.rev = @ + 1,
       !.status = IF forget THEN "unknown" ELSE @,
       !.observed = IF forget THEN "never" ELSE @]

UpdateRecord(v, e) ==
  /\ Edit
  /\ provider[v].known
  /\ Permitted(v, e)
  /\ Limits(e) => LimitReady(v, e)
  /\ provider' = [provider EXCEPT ![v] = Updated(@, e, Moves(v, e))]
  /\ UNCHANGED <<unedited, product, link, setup>>

(* The host has no revision. *)
UpdateHost(v, active) ==
  /\ Edit
  /\ provider' = [provider EXCEPT ![v].host = active]
  /\ UNCHANGED <<unedited, product, link, setup>>

Retire(v) ==
  /\ Edit
  /\ provider[v].known /\ provider[v].active
  /\ RemovalBlockers(v) = {}
  /\ provider' = [provider EXCEPT ![v].active = FALSE, ![v].rev = @ + 1]
  /\ UNCHANGED <<unedited, product, link, setup>>

(* The first authenticated event of a provider. *)
CallbackReceived(v) ==
  /\ provider[v].known /\ provider[v].callback # "ready"
  /\ provider' = [provider EXCEPT ![v].callback = "ready"]
  /\ UNCHANGED <<unedited, product, link, setup, edits>>
-----------------------------------------------------------------------------
(* What the administration shows of a product. *)

LinkBlockers(p, v) ==
  Readiness(v, provider[v], product[p].relay)
  \cup Blocks(~link[p][v].accepting, "link_paused")
  \cup Blocks(~provider[v].accepting, "provider_paused")
  \cup Blocks(Full(v, provider[v].max), "capacity_full")

Eligible(p, v) == link[p][v] # None /\ LinkBlockers(p, v) = {}

AllocationReady(p) ==
  /\ AllocationEnabled /\ setup.consolidated /\ product[p].active
  /\ \E v \in Providers : Eligible(p, v)

(* Rows and tickets an entry of the inventory may be: by name or id here, by name elsewhere. *)
MatchesOf(set, p, v, e) ==
  {t \in set :
     \/ ask[t].provider = v /\ (ask[t].name = e.name \/ (t \in kept /\ e.id = t))
     \/ ProductOf(t) = p /\ ask[t].name = e.name}

(* A mutant: whoever's it is. *)
AnyRow(p, v, e) ==
  \E t \in kept : MatchesOf(kept, p, v, e) = {t} /\ ask[t].provider = v /\ SameSession(Account(t, TRUE), e)

OwnRow(p, v, e) ==
  \E t \in kept :
    /\ MatchesOf(kept, p, v, e) = {t}
    /\ ProductOf(t) = p /\ ask[t].provider = v /\ SameSession(Account(t, TRUE), e)

(* Sessions an operator may import: its own, to be skipped, or nobody's. *)
Candidates(p, v) ==
  {e \in provider[v].entries :
     /\ link[p][v] # None /\ e.id # None
     /\ provider[v].observed # "never" /\ provider[v].status # "unknown"
     /\ MatchesOf({t \in Tickets : Creation!Held(t)}, p, v, e) = {}
     /\ MatchesOf(kept, p, v, e) = {} \/ OwnRow(p, v, e)}
-----------------------------------------------------------------------------
(* Products and their links. *)

NextRevision(p) == product' = [product EXCEPT ![p].rev = @ + 1]

Attach(p, v) ==
  /\ Edit
  /\ provider[v].known /\ provider[v].active
  /\ link[p][v] = None
  /\ link' = [link EXCEPT ![p][v] = NewLink(FALSE)]
  /\ NextRevision(p)
  /\ UNCHANGED <<unedited, provider, setup>>

UpdateLink(p, v, accepting) ==
  /\ Edit
  /\ link[p][v] # None
  /\ link' = [link EXCEPT ![p][v] = [accepting |-> accepting, rev |-> @.rev + 1]]
  /\ NextRevision(p)
  /\ UNCHANGED <<unedited, provider, setup>>

Detach(p, v) ==
  /\ Edit
  /\ link[p][v] # None
  /\ DetachEmptyLink(p, v)
  /\ NextRevision(p)
  /\ UNCHANGED <<unedited, provider, setup>>

SetAllocation(p, mode, writers) ==
  /\ Edit
  /\ product[p].mode # mode
  /\ IF mode = "capacity" THEN WritersCompatible(writers) /\ AllocationReady(p)
     ELSE product[p].default # None /\ LegacyBlockers(p, product[p].default) = {}
  /\ product' = [product EXCEPT ![p].mode = mode, ![p].rev = @ + 1]
  /\ UNCHANGED <<unedited, provider, link, setup>>

UpdateProduct(p, d) ==
  LET x == product[p]
      default == Given(d.default, x.default)
  IN /\ Edit
     /\ default # None => provider[default].known
     /\ product' = [product EXCEPT ![p] =
          [@ EXCEPT !.default = default, !.relay = Given(d.relay, @),
                    !.active = Given(d.active, @), !.rev = @ + 1]]
     /\ IF default # None THEN EnsureLink(p, default, x.mode = "legacy") ELSE UNCHANGED link
     /\ UNCHANGED <<unedited, provider, setup>>

(* Without a revision. *)
DeactivateProduct(p) ==
  /\ Edit
  /\ product' = [product EXCEPT ![p].active = FALSE]
  /\ UNCHANGED <<unedited, provider, link, setup>>

ConfirmSetup ==
  /\ Edit
  /\ setup.consolidated
  /\ setup' = [setup EXCEPT !.confirmed = TRUE]
  /\ UNCHANGED <<unedited, provider, product, link>>
-----------------------------------------------------------------------------
Deliver(d) ==
  /\ undelivered' = undelivered \ {d}
  /\ undelivered # undelivered'
  /\ UNCHANGED <<creationVars, provider, product, link, setup, reconciliation, foreign, edits>>

EditProvider ==
  \E v \in Providers :
    \/ \E u \in Urls, strict \in BOOLEAN : CreateRecord(v, u, strict)
    \/ \E e \in ProviderEdits : UpdateRecord(v, e)
    \/ \E active \in BOOLEAN : UpdateHost(v, active)
    \/ Retire(v)

EditProduct ==
  \E p \in Products :
    \/ \E v \in Providers :
         Attach(p, v) \/ Detach(p, v) \/ \E a \in BOOLEAN : UpdateLink(p, v, a)
    \/ \E mode \in {"legacy", "capacity"}, w \in BOOLEAN : SetAllocation(p, mode, w)
    \/ \E d \in ProductEdits : UpdateProduct(p, d)
    \/ DeactivateProduct(p)
=============================================================================
