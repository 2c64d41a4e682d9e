------------------------------ MODULE Changes ------------------------------
(***************************************************************************)
(* Prepared changes of how a product uses its Evolutions: an operator      *)
(* drafts one, a replica checks it in the background, and the operator     *)
(* applies it, while the catalogue, the creations and the inventories it   *)
(* was checked against move on.                                            *)
(*                                                                         *)
(*   evolution-changes.service.ts     the change and who works on it       *)
(*   evolution-change-checks.ts       what is compared and checked         *)
(*   products.service.ts              syncRelay, the remote callback       *)
(*                                                                         *)
(* A draft names a product, an action, a target or None, the accepting     *)
(* flag of some links (NotGiven where it has none), the limit of some      *)
(* providers, the identities it confirms, and the products that accept it. *)
(***************************************************************************)
EXTENDS Catalog

CONSTANTS
  ChangeIds,   \* preparations, each under a requestId of its own
  Replicas     \* replicas that process preparations

VARIABLES
  change,      \* the EvolutionChange rows
  proc,        \* what each replica is doing
  bounds       \* who runs, what may be drafted, and the crashes, stalls and agings left

changeVars == <<change, proc, bounds>>
vars == <<evolutionVars, changeVars>>

Actions == {"configure_capacity", "single_destination", "restore_legacy", "detach"}

(* evolutionChangeSchema: a target, or else links, limits and what they confirm. *)
WellFormed(d) ==
  /\ d.product \in Products /\ d.action \in Actions
  /\ IF d.action = "configure_capacity" THEN d.target = None
     ELSE /\ d.target \in Providers
          /\ DOMAIN d.links = {} /\ DOMAIN d.limits = {}
          /\ d.identities = {} /\ DOMAIN d.accepted = {}
  /\ \A v \in DOMAIN d.links : v \in Providers /\ d.links[v] \in BOOLEAN \cup {NotGiven}
  /\ \A v \in DOMAIN d.limits : d.limits[v] \in (Nat \ {0}) \cup {None}

ChangesAssumption ==
  /\ None \notin Replicas
  /\ \A w \in Workloads :
       "drafts" \in DOMAIN w.bounds /\ \A d \in w.bounds.drafts : WellFormed(d)
ASSUME ChangesAssumption

NoCallback == [state |-> "none", ticket |-> None]
Idling == [pc |-> "idle", change |-> None, callback |-> NoCallback, left |-> {},
           errors |-> {}, blocking |-> {}, offered |-> {}]
Unprepared ==
  [status |-> "none", draft |-> None, snapshot |-> None, seen |-> None, owner |-> None,
   leased |-> FALSE, late |-> FALSE, over |-> FALSE, callback |-> NoCallback,
   errors |-> {}, offered |-> {}, shown |-> None]

Init ==
  /\ \E w \in Workloads : Start(w) /\ bounds = w.bounds
  /\ change = [h \in ChangeIds |-> Unprepared]
  /\ proc = [r \in Replicas |-> Idling]
-----------------------------------------------------------------------------
(* What a change is compared with. *)

Concerned(d) ==
  LinkedTo(d.product) \cup DOMAIN d.links \cup DOMAIN d.limits \cup d.identities
    \cup ({d.target} \ {None})

ProductsAt(v) == {q \in Products : product[q].default = v \/ link[q][v] # None}

(* A mutant: without the revisions of the links. *)
ProvidersOnly(d) ==
  [product |-> product[d.product],
   links |-> [v \in LinkedTo(d.product) |-> NewLink(link[d.product][v].accepting)],
   providers |-> [v \in Concerned(d) |->
     [rev |-> 0, max |-> provider[v].max, identity |-> provider[v].identity,
      products |-> ProductsAt(v) \cup (IF v \in DOMAIN d.links THEN {d.product} ELSE {})]]]

Snapshot(d) ==
  [product |-> product[d.product],
   links |-> [v \in LinkedTo(d.product) |-> link[d.product][v]],
   providers |-> [v \in Concerned(d) |->
     [rev |-> provider[v].rev, max |-> provider[v].max, identity |-> provider[v].identity,
      products |-> ProductsAt(v) \cup (IF v \in DOMAIN d.links THEN {d.product} ELSE {})]]]

(* All an operator sees of it, of which the snapshot keeps revisions. *)
Configuration(d) ==
  [product |-> [mode |-> product[d.product].mode, default |-> product[d.product].default,
                relay |-> product[d.product].relay, active |-> product[d.product].active],
   links |-> [v \in LinkedTo(d.product) |-> link[d.product][v].accepting],
   providers |-> [v \in Concerned(d) |->
     [url |-> provider[v].url, active |-> provider[v].active, max |-> provider[v].max,
      accepting |-> provider[v].accepting, identity |-> provider[v].identity]]]
-----------------------------------------------------------------------------
(* What is checked of it, now, against the snapshot it was prepared with. *)

Reversal(d) == d.action \in {"restore_legacy", "detach"}

ReversalBlockers(d, s) ==
  (IF d.action = "detach" THEN DetachBlockers(d.product, d.target)
                          ELSE LegacyBlockers(d.product, d.target))
  \cup Blocks(d.target \notin DOMAIN s.links, "target_unavailable")

LinksAfter(d, s) ==
  [v \in DOMAIN s.links \cup DOMAIN d.links |->
     IF d.action = "single_destination" THEN v = d.target
     ELSE IF v \in DOMAIN d.links /\ d.links[v] # NotGiven THEN d.links[v]
     ELSE v \in DOMAIN s.links /\ s.links[v].accepting]

Confirmed(x) == [x EXCEPT !.identity = "verified", !.endpoint = Endpoint[x.url]]

Identified(v, d) == IF v \in d.identities THEN Confirmed(provider[v]) ELSE provider[v]

ProviderAfter(v, d) ==
  IF v \in DOMAIN d.limits THEN [Identified(v, d) EXCEPT !.max = d.limits[v]]
                           ELSE Identified(v, d)

LinkedBlockers(v, d, accepting) ==
  Readiness(v, ProviderAfter(v, d), accepting /\ product[d.product].relay)
  \cup Blocks(~provider[v].accepting, "provider_paused")

(* A mutant: room is not asked for. *)
Reachable(v, d) == LinkedBlockers(v, d, TRUE) = {}

Vacant(v, d) == LinkedBlockers(v, d, TRUE) = {} /\ ~Full(v, ProviderAfter(v, d).max)

(* A limit on a provider others use is theirs to know, and is set only on a ready provider. *)
LimitBlockers(v, d, s) ==
  LET seen == s.providers[v]
      known == v \in DOMAIN d.accepted /\ d.accepted[v] = seen.products
  IN Blocks(d.limits[v] # seen.max /\ Cardinality(seen.products) > 1 /\ ~known,
            "shared_limit_confirmation")
     \cup (IF d.limits[v] # None THEN Readiness(v, Identified(v, d), FALSE) ELSE {})

ActivationBlockers(d, s) ==
  LET after == LinksAfter(d, s)
      open == {v \in DOMAIN after : after[v]}
  IN Blocks(~AllocationEnabled, "distribution_disabled")
     \cup Blocks(~setup.consolidated, "database_not_consolidated")
     \cup Blocks(~setup.confirmed, "writers_unconfirmed")
     \cup Blocks(~product[d.product].active, "product_inactive")
     \cup Blocks(d.action = "single_destination" /\ d.target \notin DOMAIN after,
                 "target_unavailable")
     \cup (UNION {LinkedBlockers(v, d, TRUE) : v \in open})
     \cup Blocks(\A v \in open : ~Vacant(v, d), "no_capacity")
     \cup Blocks(\E v \in d.identities : Endpoint[provider[v].url] = None, "identity_unverified")
     \cup Blocks(\E v \in d.identities : Aliases(provider[v].url, v) # {}, "endpoint_alias")
     \cup (UNION {LimitBlockers(v, d, s) : v \in DOMAIN d.limits})

Evaluate(d, s) ==
  Blocks(Snapshot(d) # s, "configuration_changed")
  \cup (IF Reversal(d) THEN ReversalBlockers(d, s) ELSE ActivationBlockers(d, s))

(* Instances whose webhook may be confirmed, to learn that events arrive. *)
Offered(d, s) ==
  {t \in RowsOf(d.product) :
     /\ ~Reversal(d)
     /\ LET v == ask[t].provider
        IN /\ v \in DOMAIN LinksAfter(d, s) /\ LinksAfter(d, s)[v]
           /\ "callback_unconfirmed" \in LinkedBlockers(v, d, TRUE)}
-----------------------------------------------------------------------------
(* What operators do. Each names the revision it has seen, so is up to date or refused. *)

unchanged == <<creationVars, setup, reconciliation, foreign, undelivered, edits>>
catalog == <<unchanged, product, provider, link>>

(* A new revision: a view of the former can no longer be saved. *)
Revise(h, x) == change' = [change EXCEPT ![h] = [x EXCEPT !.shown = None]]

(* A mutant: the owner stays. *)
StillOwned(x, status) == [x EXCEPT !.status = status, !.leased = FALSE]

Unowned(x, status) == [x EXCEPT !.status = status, !.owner = None, !.leased = FALSE]

Valid(d) ==
  /\ \A v \in Concerned(d) : provider[v].known
  /\ DOMAIN d.limits \cup d.identities \cup DOMAIN d.accepted
       \subseteq LinkedTo(d.product) \cup DOMAIN d.links
  /\ \A v \in d.identities : provider[v].identity # "verified"
  /\ DOMAIN d.accepted \subseteq DOMAIN d.limits

(* A requestId prepares once: repeating it changes nothing. *)
Prepare(h, d) ==
  /\ change[h].status = "none" /\ h \in bounds.running
  /\ Valid(d)
  /\ Revise(h, [Unprepared EXCEPT !.status = "queued", !.draft = d, !.snapshot = Snapshot(d),
                                  !.seen = Configuration(d)])
  /\ UNCHANGED <<catalog, proc, bounds>>

Ended == {"applied", "cancelled", "expired", "failed"}

Expire(h) ==
  LET x == change[h]
  IN /\ x.status \notin Ended \cup {"none"}
     /\ x.over \/ (x.status \in {"queued", "running"} /\ x.late)
     /\ Revise(h, Unowned(x, "expired"))
     /\ UNCHANGED <<catalog, proc, bounds>>

(* An operator looks at it again: read and evaluated, then saved unless it was revised. *)
Get(h) ==
  LET x == change[h]
      failing == {v \in x.errors : ~IsFresh(provider[v])}
      ready == /\ Evaluate(x.draft, x.snapshot) = {} /\ failing = {}
               /\ x.status = "action_required" => ~x.late
      seen == [status |-> IF ready THEN "ready" ELSE "action_required",
               errors |-> failing, offered |-> Offered(x.draft, x.snapshot)]
  IN /\ x.status \in {"ready", "action_required"} /\ ~x.over
     /\ seen # [status |-> x.status, errors |-> x.errors, offered |-> x.offered]
     /\ change' = [change EXCEPT ![h].shown = seen]
     /\ UNCHANGED <<catalog, proc, bounds>>

SaveView(h) ==
  LET x == change[h]
  IN /\ x.shown # None
     /\ Revise(h, [x EXCEPT !.status = x.shown.status, !.errors = x.shown.errors,
                            !.offered = x.shown.offered])
     /\ UNCHANGED <<catalog, proc, bounds>>

Cancel(h) ==
  /\ change[h].status \notin {"none", "cancelled", "applied"}
  /\ Revise(h, Unowned(change[h], "cancelled"))
  /\ UNCHANGED <<catalog, proc, bounds>>

CallbackCheck(h, t) ==
  LET x == change[h]
  IN /\ x.status = "action_required" /\ ~x.late
     /\ product[x.draft.product].relay
     /\ t \in x.offered \cap RowsOf(x.draft.product)
     /\ Revise(h, [x EXCEPT !.status = "queued",
                            !.callback = [state |-> "queued", ticket |-> t]])
     /\ UNCHANGED <<catalog, proc, bounds>>

(* What applying a draft writes. *)
LinkAfter(d, v) ==
  LET x == link[d.product][v]
      own == IF v \notin DOMAIN d.links THEN x
             ELSE IF x = None THEN NewLink(d.links[v] = TRUE)
             ELSE [accepting |-> Given(d.links[v], x.accepting), rev |-> x.rev + 1]
  IN IF d.action = "detach" /\ v = d.target THEN None
     ELSE IF d.action = "single_destination" /\ own # None
     THEN [accepting |-> v = d.target, rev |-> own.rev + 1]
     ELSE own

ProductAfter(d) ==
  LET next == [product[d.product] EXCEPT !.rev = @ + 1]
  IN IF d.action = "restore_legacy" THEN [next EXCEPT !.mode = "legacy", !.default = d.target]
     ELSE IF d.action = "detach" THEN next
     ELSE [next EXCEPT !.mode = "capacity"]

Written(v, d) ==
  LET writes == Cardinality({v} \cap DOMAIN d.limits) + Cardinality({v} \cap d.identities)
  IN [ProviderAfter(v, d) EXCEPT !.rev = @ + writes]

Apply(h) ==
  LET x == change[h]
      d == x.draft
  IN /\ x.status = "ready" /\ ~x.over
     /\ Evaluate(d, x.snapshot) = {}
     /\ provider' = [v \in Providers |-> Written(v, d)]
     /\ link' = [link EXCEPT ![d.product] = [v \in Providers |-> LinkAfter(d, v)]]
     /\ product' = [product EXCEPT ![d.product] = ProductAfter(d)]
     /\ Revise(h, Unowned(x, "applied"))
     /\ UNCHANGED <<unchanged, proc, bounds>>
-----------------------------------------------------------------------------
(* What a replica does, one preparation at a time. *)

Mine(r) == LET x == change[proc[r].change] IN x.owner = r /\ x.status = "running"

(* A mutant: only what nobody has begun. *)
ClaimQueued(r, h) ==
  LET x == change[h]
  IN /\ r \in bounds.running
     /\ proc[r].pc = "idle"
     /\ x.status = "queued" /\ ~x.leased
     /\ Revise(h, [x EXCEPT !.status = "running", !.owner = r, !.leased = TRUE])
     /\ proc' = [proc EXCEPT ![r] = [Idling EXCEPT !.pc = "compare", !.change = h,
                                                   !.callback = x.callback]]
     /\ UNCHANGED <<catalog, bounds>>

Claim(r, h) ==
  LET x == change[h]
  IN /\ r \in bounds.running
     /\ proc[r].pc = "idle"
     /\ x.status \in {"queued", "running"} /\ ~x.leased
     /\ IF x.late THEN Revise(h, Unowned(x, "expired")) /\ UNCHANGED proc
        ELSE /\ Revise(h, [x EXCEPT !.status = "running", !.owner = r, !.leased = TRUE])
             /\ proc' = [proc EXCEPT ![r] = [Idling EXCEPT !.pc = "compare", !.change = h,
                                                           !.callback = x.callback]]
     /\ UNCHANGED <<catalog, bounds>>

Examined(d) ==
  IF d.action \in {"configure_capacity", "single_destination"} THEN Concerned(d) ELSE {}

Compare(r) ==
  LET x == change[proc[r].change]
  IN /\ proc[r].pc = "compare"
     /\ Snapshot(x.draft) = x.snapshot
     /\ proc' = [proc EXCEPT
          ![r].pc = IF proc[r].callback.state \in {"queued", "syncing"}
                    THEN "callback" ELSE "refresh",
          ![r].left = Examined(x.draft)]
     /\ UNCHANGED <<catalog, change, bounds>>

(* The intention is recorded first, if the preparation is still this replica's. *)
RecordCallback(r) ==
  LET h == proc[r].change
      syncing == [proc[r].callback EXCEPT !.state = "syncing"]
  IN /\ proc[r].pc = "callback"
     /\ syncing.ticket \in RowsOf(change[h].draft.product)
     /\ proc' = [proc EXCEPT ![r].pc = "sync", ![r].callback = syncing]
     /\ change' = IF Mine(r) THEN [change EXCEPT ![h].callback = syncing] ELSE change
     /\ UNCHANGED <<catalog, bounds>>

(* A mutant: the outcome is left for later. *)
SyncSilently(r) ==
  /\ proc[r].pc = "sync"
  /\ proc' = [proc EXCEPT ![r].pc = "refresh"]
  /\ UNCHANGED <<catalog, change, bounds>>

(* Repeated after a crash, it reads the remote setting before writing it again. *)
Sync(r) ==
  /\ proc[r].pc = "sync"
  /\ \E outcome \in {"uncertain"} \cup
          (IF session[proc[r].callback.ticket] = "up" THEN {"configured"} ELSE {}) :
       proc' = [proc EXCEPT ![r].pc = "refresh", ![r].callback.state = outcome]
  /\ UNCHANGED <<catalog, change, bounds>>

(* One provider at a time: skipped, collected or not. *)
Refresh(r, v) ==
  LET x == change[proc[r].change]
      chosen == \/ v \in DOMAIN LinksAfter(x.draft, x.snapshot) /\ LinksAfter(x.draft, x.snapshot)[v]
                \/ v \in DOMAIN x.draft.limits /\ x.draft.limits[v] # None
      next(errors) == proc' = [proc EXCEPT ![r].left = @ \ {v}, ![r].errors = @ \cup errors]
  IN /\ proc[r].pc = "refresh" /\ v \in proc[r].left
     /\ IF ~chosen \/ ~provider[v].active \/ IsFresh(provider[v])
        THEN next({}) /\ UNCHANGED provider
        ELSE \/ next({v}) /\ UNCHANGED provider
             \/ next({}) /\ provider' = [provider EXCEPT ![v] = Observed(v, RemoteAt(v), {})]
     /\ UNCHANGED <<unchanged, product, link, change, bounds>>

Diagnose(r) ==
  LET x == change[proc[r].change]
  IN /\ proc[r].pc = "refresh" /\ proc[r].left = {}
     /\ proc' = [proc EXCEPT ![r].pc = "settle",
                             ![r].blocking = Evaluate(x.draft, x.snapshot),
                             ![r].offered = Offered(x.draft, x.snapshot)]
     /\ UNCHANGED <<catalog, change, bounds>>

Settle(r) ==
  LET h == proc[r].change
      x == Unowned(change[h], IF proc[r].blocking = {} /\ proc[r].errors = {}
                              THEN "ready" ELSE "action_required")
  IN /\ proc[r].pc = "settle"
     /\ IF Mine(r) THEN Revise(h, [x EXCEPT !.callback = proc[r].callback,
                                            !.errors = proc[r].errors,
                                            !.offered = proc[r].offered])
        ELSE UNCHANGED change
     /\ proc' = [proc EXCEPT ![r] = Idling]
     /\ UNCHANGED <<catalog, bounds>>

(* The snapshot no longer holds, the lease or the deadline is lost, a query fails. *)
Throw(r) ==
  LET h == proc[r].change
  IN /\ proc[r].pc # "idle"
     /\ \E status \in {"failed", "expired"} :
          IF Mine(r) THEN Revise(h, [Unowned(change[h], status) EXCEPT
                                       !.callback = proc[r].callback,
                                       !.errors = {}, !.offered = {}])
          ELSE UNCHANGED change
     /\ proc' = [proc EXCEPT ![r] = Idling]
     /\ UNCHANGED <<catalog, bounds>>

Crash(r) ==
  /\ proc[r].pc # "idle" /\ bounds.crashes > 0
  /\ bounds' = [bounds EXCEPT !.crashes = @ - 1]
  /\ proc' = [proc EXCEPT ![r] = Idling]
  /\ UNCHANGED <<catalog, change>>

(* Renewed every second by the replica that has it, unless that stalls, to the deadline at most. *)
LeaseLost(h) ==
  LET x == change[h]
  IN /\ x.leased
     /\ IF ~x.late /\ proc[x.owner].change = h
        THEN bounds.stalls > 0 /\ bounds' = [bounds EXCEPT !.stalls = @ - 1]
        ELSE UNCHANGED bounds
     /\ change' = [change EXCEPT ![h].leased = FALSE]
     /\ UNCHANGED <<catalog, proc>>
-----------------------------------------------------------------------------
(* What goes on meanwhile. *)

Deadline(h) ==
  /\ change[h].status \notin Ended \cup {"none"} /\ ~change[h].late
  /\ change' = [change EXCEPT ![h].late = TRUE]
  /\ UNCHANGED <<catalog, proc, bounds>>

RunsOut(h) ==
  /\ change[h].status \notin Ended \cup {"none"} /\ change[h].late /\ ~change[h].over
  /\ change' = [change EXCEPT ![h].over = TRUE]
  /\ UNCHANGED <<catalog, proc, bounds>>

(* Someone else collects, see Inventory. *)
Observe(v) ==
  /\ provider[v].known /\ ~IsFresh(provider[v])
  /\ provider' = [provider EXCEPT ![v] = Observed(v, RemoteAt(v), {})]
  /\ UNCHANGED <<unchanged, product, link, changeVars>>

Fade(v) ==
  /\ bounds.agings > 0 /\ IsFresh(provider[v])
  /\ bounds' = [bounds EXCEPT !.agings = @ - 1]
  /\ \/ provider' = [provider EXCEPT ![v].observed = "old", ![v].seen = "old"]
     \/ provider' = [provider EXCEPT ![v].healthy = FALSE]
  /\ UNCHANGED <<unchanged, product, link, change, proc>>

Operate(h) ==
  \/ \E d \in bounds.drafts : Prepare(h, d)
  \/ Expire(h) \/ Get(h) \/ SaveView(h) \/ Cancel(h) \/ Apply(h)
  \/ \E t \in Tickets : CallbackCheck(h, t)

Process(r) ==
  \/ \E h \in ChangeIds : Claim(r, h)
  \/ Compare(r) \/ RecordCallback(r) \/ Sync(r) \/ (\E v \in Providers : Refresh(r, v))
  \/ Diagnose(r) \/ Settle(r) \/ Throw(r) \/ Crash(r)

Time == \E h \in ChangeIds : LeaseLost(h) \/ Deadline(h) \/ RunsOut(h)

Elsewhere ==
  \/ \E v \in Providers : Observe(v) \/ Fade(v)
  \/ /\ \/ \E t \in Tickets : Create(t)
        \/ EditProvider \/ EditProduct \/ ConfirmSetup
        \/ \E v \in Providers : CallbackReceived(v)
        \/ \E d \in undelivered : Deliver(d)
     /\ UNCHANGED changeVars

Next ==
  \/ \E h \in ChangeIds : Operate(h)
  \/ \E r \in Replicas : Process(r)
  \/ Time \/ Elsewhere

(* Time passes, the timer of every replica takes up what is due in the order it was made, and *)
(* what a replica has begun ends, by its deadline at the latest.                              *)
Fairness ==
  /\ \A h \in ChangeIds :
       /\ WF_vars(LeaseLost(h)) /\ WF_vars(Deadline(h))
       /\ SF_vars(\E r \in Replicas : Claim(r, h))
  /\ \A r \in Replicas : WF_vars(Throw(r))

Spec == Init /\ [][Next]_vars /\ Fairness
-----------------------------------------------------------------------------
Statuses == {"none", "queued", "running", "ready", "action_required"} \cup Ended

(* Every variable has its type; only a running change has an owner, who alone may have a lease. *)
TypeOK ==
  \A h \in ChangeIds :
    LET x == change[h]
    IN /\ x.status \in Statuses
       /\ x.status = "running" <=> x.owner # None
       /\ x.leased => x.owner # None
       /\ x.over => x.late

(* What is applied was prepared on the configuration there is now, though the snapshot keeps  *)
(* only revisions of most of it (evolution-change-checks.ts 98).                              *)
AppliedAsPrepared ==
  [][\A h \in ChangeIds :
       change'[h].status = "applied" /\ change[h].status # "applied"
       => change[h].seen = Configuration(change[h].draft)]_vars

(* A product moved to capacity can take an instance at once, and one given a single           *)
(* destination takes none elsewhere: what was checked of the edited copies holds of the rows  *)
(* written (evolution-changes.service.ts 438).                                                *)
AppliedIsUsable ==
  [][\A h \in ChangeIds :
       LET d == change[h].draft
       IN change'[h].status = "applied" /\ change[h].status # "applied" /\ ~Reversal(d)
          => /\ \E v \in Providers : Admissible(d.product, v, FALSE)'
             /\ d.action = "single_destination"
                => \A v \in Providers : Accepts(d.product, v)' <=> v = d.target]_vars

(* Default, instances and open creations of a product are on providers it is linked to,       *)
(* whatever is attached, detached, restored or retired around them                            *)
(* (evolution-base-diagnostics.ts 21).                                                        *)
NothingUnlinked ==
  /\ \A p \in Products : product[p].default # None => link[p][product[p].default] # None
  /\ \A t \in Tickets :
       t \in kept \/ Creation!Held(t) => link[ProductOf(t)][ask[t].provider] # None

(* A provider that is limited or paused is the only record of its installation: what is       *)
(* counted there is all there is (evolution-controls.ts 52).                                  *)
LimitedIsAlone ==
  \A v \in Providers :
    provider[v].known /\ (provider[v].max # None \/ ~provider[v].accepting)
    => Aliases(provider[v].url, v) = {}

(* A change that asks for review has no callback left half-way, whoever died while it was     *)
(* being synchronized (evolution-changes.service.ts 696).                                     *)
CallbackSettled ==
  \A h \in ChangeIds :
    change[h].status \in {"ready", "action_required", "applied"}
    => change[h].callback.state \notin {"queued", "syncing"}

(* A preparation under way ends, with or without the replica that began it                    *)
(* (evolution-changes.service.ts 600).                                                        *)
Pending(h) == change[h].status \in {"queued", "running"}
ChangeSettles == \A h \in ChangeIds : Pending(h) ~> ~Pending(h)
=============================================================================
