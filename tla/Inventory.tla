----------------------------- MODULE Inventory -----------------------------
(***************************************************************************)
(* How the Hub learns what sessions a provider has, and whether it is up,  *)
(* while creations open, are recorded, fail and disappear on it.           *)
(*                                                                         *)
(*   evolution-inventory.service.ts   collection under a lease             *)
(*   evolution-recovery.service.ts    the scan that resumes it             *)
(*   health-check.service.ts          the check that runs every minute     *)
(*                                                                         *)
(* A collection begins in one transaction, asks the provider, and ends in  *)
(* another; creations and edits happen in between.                         *)
(***************************************************************************)
EXTENDS Catalog

CONSTANTS
  Collectors,   \* scans, requests and preparations that refresh an inventory
  Checkers,     \* replicas that check the health of providers
  Threshold     \* UNHEALTHY_THRESHOLD

VARIABLES
  collector,  \* what each collector is doing
  checker,    \* the copy of the provider each checker works from
  failures,   \* consecutiveFailures, in each checker's memory
  down,       \* providers that do not answer
  bounds      \* who runs, and the crashes, stalls, outages and intruders left

collectionVars == <<collector, checker, failures, down, bounds>>
vars == <<evolutionVars, collectionVars>>

InventoryAssumption ==
  /\ None \notin Collectors
  /\ Threshold \in Nat \ {0}
ASSUME InventoryAssumption

Unchecked == [provider |-> None, healthy |-> FALSE, answer |-> None]
Resting == [pc |-> "idle", provider |-> None, rev |-> 0, seen |-> {}]

Init ==
  /\ \E w \in Workloads : Start(w) /\ bounds = w.bounds
  /\ collector = [c \in Collectors |-> Resting]
  /\ checker = [r \in Checkers |-> Unchecked]
  /\ failures = [r \in Checkers |-> [v \in Providers |-> 0]]
  /\ down = {}
-----------------------------------------------------------------------------
(* A collection. *)

Wanted(v) == reconciliation[v].status \in {"pending", "running"}
Owns(c, v) == reconciliation[v].owner = c /\ reconciliation[v].status = "running"

uncollected == <<creationVars, product, link, setup, foreign, undelivered, edits,
                 checker, failures, down>>

Request(v) ==
  /\ provider[v].known /\ ~Wanted(v)
  /\ reconciliation' = [reconciliation EXCEPT ![v] = [Idle EXCEPT !.status = "pending"]]
  /\ UNCHANGED <<uncollected, provider, collector, bounds>>

Begin(c, v) ==
  /\ c \in bounds.running
  /\ collector[c].pc = "idle"
  /\ provider[v].known
  /\ Wanted(v) \/ (provider[v].active /\ ~IsFresh(provider[v]))
  /\ ~reconciliation[v].leased
  /\ reconciliation' =
       [reconciliation EXCEPT ![v] = [status |-> "running", owner |-> c, leased |-> TRUE]]
  /\ collector' = [collector EXCEPT ![c] =
       [Resting EXCEPT !.pc = "collect", !.provider = v, !.rev = provider[v].rev]]
  /\ provider' = [provider EXCEPT ![v].occ = @ \cup {c}]
  /\ UNCHANGED <<uncollected, bounds>>

Collect(c) ==
  /\ collector[c].pc = "collect"
  /\ collector[c].provider \notin down
  /\ collector' = [collector EXCEPT ![c].pc = "write", ![c].seen = RemoteAt(collector[c].provider)]
  /\ UNCHANGED <<uncollected, provider, reconciliation, bounds>>

(* A mutant: creations meanwhile do not matter. *)
CurrentAsConfigured(c) ==
  LET v == collector[c].provider IN Owns(c, v) /\ provider[v].rev = collector[c].rev

Current(c) ==
  LET v == collector[c].provider
  IN Owns(c, v) /\ c \in provider[v].occ /\ provider[v].rev = collector[c].rev

(* Rows written for another reason since it began are not taken for absent. *)
Write(c) ==
  LET v == collector[c].provider
      seen == collector[c].seen
  IN /\ collector[c].pc = "write"
     /\ Current(c)
     /\ \E touched \in SUBSET Missing(v, seen) :
          provider' = [provider EXCEPT ![v] = Observed(v, seen, touched)]
     /\ reconciliation' = [reconciliation EXCEPT ![v] = Idle]
     /\ collector' = [collector EXCEPT ![c] = Resting]
     /\ UNCHANGED <<uncollected, bounds>>

(* A mutant: the failure is not recorded, and the lease is left to expire. *)
FailUnrecorded(c) ==
  /\ collector[c].pc \in {"collect", "write"}
  /\ collector' = [collector EXCEPT ![c] = Resting]
  /\ UNCHANGED <<uncollected, provider, reconciliation, bounds>>

(* A mutant: the lease stays. *)
FailStillLeased(c) ==
  LET v == collector[c].provider
  IN /\ collector[c].pc \in {"collect", "write"}
     /\ reconciliation' = IF Owns(c, v) THEN [reconciliation EXCEPT ![v].status = "none"]
                          ELSE reconciliation
     /\ collector' = [collector EXCEPT ![c] = Resting]
     /\ UNCHANGED <<uncollected, provider, bounds>>

(* No answer in time, or another took over, or something changed meanwhile. *)
Fail(c) ==
  LET v == collector[c].provider
  IN /\ collector[c].pc \in {"collect", "write"}
     /\ reconciliation' = IF Owns(c, v)
                          THEN [reconciliation EXCEPT ![v] = Idle]
                          ELSE reconciliation
     /\ collector' = [collector EXCEPT ![c] = Resting]
     /\ UNCHANGED <<uncollected, provider, bounds>>

Crash(c) ==
  /\ collector[c].pc # "idle" /\ bounds.crashes > 0
  /\ bounds' = [bounds EXCEPT !.crashes = @ - 1]
  /\ collector' = [collector EXCEPT ![c] = Resting]
  /\ UNCHANGED <<uncollected, provider, reconciliation>>

(* A lease outlasts its collection's deadline: only one that stalls ever meets its end. *)
LeaseExpires(v) ==
  /\ reconciliation[v].leased
  /\ IF \E c \in Collectors : Owns(c, v) /\ collector[c].provider = v
     THEN bounds.stalls > 0 /\ bounds' = [bounds EXCEPT !.stalls = @ - 1]
     ELSE UNCHANGED bounds
  /\ reconciliation' = [reconciliation EXCEPT ![v].leased = FALSE]
  /\ UNCHANGED <<uncollected, provider, collector>>
-----------------------------------------------------------------------------
(* What goes on meanwhile. *)

Age(v) ==
  /\ \/ provider[v].observed = "recent" /\ provider' = [provider EXCEPT ![v].observed = "old"]
     \/ provider[v].seen = "recent" /\ provider' = [provider EXCEPT ![v].seen = "old"]
  /\ UNCHANGED <<uncollected, reconciliation, collector, bounds>>

(* A row is written for another reason, its connection state say. *)
RowTouched(t) ==
  LET v == ask[t].provider
  IN /\ t \in provider[v].absent
     /\ provider' = [provider EXCEPT ![v].absent = @ \ {t}]
     /\ UNCHANGED <<uncollected, reconciliation, collector, bounds>>

Intrude(f) ==
  /\ bounds.intruders > 0
  /\ f \notin foreign
  /\ \A s \in RemoteAt(f.provider) : s.name # f.name
  /\ foreign' = foreign \cup {f}
  /\ bounds' = [bounds EXCEPT !.intruders = @ - 1]
  /\ UNCHANGED <<creationVars, provider, product, link, setup, reconciliation, undelivered,
                 edits, collector, checker, failures, down>>
-----------------------------------------------------------------------------
(* The health check: every replica on its own, from a copy of the row. *)

unchecked == <<creationVars, product, link, setup, reconciliation, foreign, undelivered, edits,
               collector>>

Outage(v) ==
  /\ IF v \in down THEN down' = down \ {v} /\ UNCHANGED bounds
     ELSE /\ bounds.outages > 0
          /\ down' = down \cup {v}
          /\ bounds' = [bounds EXCEPT !.outages = @ - 1]
  /\ UNCHANGED <<unchecked, provider, checker, failures>>

CheckBegins(r, v) ==
  /\ r \in bounds.running
  /\ checker[r].provider = None
  /\ provider[v].known /\ provider[v].active
  /\ checker' = [checker EXCEPT ![r] =
       [provider |-> v, healthy |-> provider[v].healthy, answer |-> None]]
  /\ UNCHANGED <<unchecked, provider, failures, down, bounds>>

Ping(r) ==
  /\ checker[r].provider # None /\ checker[r].answer = None
  /\ checker' = [checker EXCEPT ![r].answer = IF checker[r].provider \in down THEN "none" ELSE "healthy"]
  /\ UNCHANGED <<unchecked, provider, failures, down, bounds>>

Report(v, healthy) ==
  provider' = [provider EXCEPT ![v].healthy = healthy, ![v].seen = "recent"]

(* A mutant: at the threshold only. *)
CheckFailsOnce(r) ==
  LET v == checker[r].provider
      failed == failures[r][v] + 1
  IN /\ checker[r].answer = "none"
     /\ failures' = [failures EXCEPT ![r][v] = IF failed > Threshold THEN @ ELSE failed]
     /\ IF failed = Threshold /\ checker[r].healthy THEN Report(v, FALSE)
        ELSE UNCHANGED provider
     /\ checker' = [checker EXCEPT ![r] = Unchecked]
     /\ UNCHANGED <<unchecked, down, bounds>>

(* Failures beyond the threshold are as good as at it. *)
CheckFails(r) ==
  LET v == checker[r].provider
      failed == failures[r][v] + 1
  IN /\ checker[r].answer = "none"
     /\ failures' = [failures EXCEPT ![r][v] = IF failed > Threshold THEN @ ELSE failed]
     /\ IF failed >= Threshold /\ checker[r].healthy THEN Report(v, FALSE)
        ELSE UNCHANGED provider
     /\ checker' = [checker EXCEPT ![r] = Unchecked]
     /\ UNCHANGED <<unchecked, down, bounds>>

CheckPasses(r) ==
  LET v == checker[r].provider
  IN /\ checker[r].answer = "healthy"
     /\ failures' = [failures EXCEPT ![r][v] = 0]
     /\ IF checker[r].healthy THEN UNCHANGED provider ELSE Report(v, TRUE)
     /\ checker' = [checker EXCEPT ![r] = Unchecked]
     /\ UNCHANGED <<unchecked, down, bounds>>
-----------------------------------------------------------------------------
Collection ==
  \/ \E v \in Providers : Request(v) \/ LeaseExpires(v) \/ Age(v)
  \/ \E c \in Collectors :
       \/ \E v \in Providers : Begin(c, v)
       \/ Collect(c) \/ Write(c) \/ Fail(c) \/ Crash(c)
  \/ \E t \in Tickets : RowTouched(t)
  \/ \E f \in Foreign : Intrude(f)

Health ==
  \/ \E v \in Providers : Outage(v)
  \/ \E r \in Checkers :
       Ping(r) \/ CheckFails(r) \/ CheckPasses(r) \/ \E v \in Providers : CheckBegins(r, v)

Administration == EditProvider \/ EditProduct \/ ConfirmSetup \/ \E v \in Providers : CallbackReceived(v)

Next ==
  \/ Collection \/ Health
  \/ UNCHANGED collectionVars /\ ((\E t \in Tickets : Create(t)) \/ Administration)

(* Every minute a replica checks every provider; every interval it resumes collections. *)
Fairness ==
  /\ \A v \in Providers : WF_vars(LeaseExpires(v))
  /\ \A c \in Collectors : \A v \in Providers :
       WF_vars(Wanted(v) /\ Begin(c, v)) /\ WF_vars(Collect(c)) /\ WF_vars(Write(c) \/ Fail(c))
  /\ \A r \in Checkers, v \in Providers : 
       SF_vars(CheckBegins(r, v)) /\ WF_vars(Ping(r)) /\ WF_vars(CheckFails(r) \/ CheckPasses(r))

Spec == Init /\ [][Next]_vars /\ Fairness
-----------------------------------------------------------------------------
(* Every variable has its type; a lease has an owner, and only while its collection runs. *)
TypeOK ==
  /\ provider \in [Providers -> ProviderRecord(Collectors)]
  /\ \A v \in Providers :
       /\ reconciliation[v].leased => reconciliation[v].status = "running"
       /\ reconciliation[v].status = "running" <=> reconciliation[v].owner # None
  /\ failures \in [Checkers -> [Providers -> 0 .. Threshold + 1]]

(* Names that take a place on v as far as anyone can know: sessions and calls under way of the *)
(* Hub's own, its reservations, and whatever the last inventory listed.                        *)
Load(v) ==
  {ask[t].name : t \in OpenAt(v)}
  \cup {ask[t].name : t \in {u \in Tickets : /\ ask[u].provider = v
                                             /\ session[u] \in {"flight", "up"}}}
  \cup {e.name : e \in provider[v].entries}

(* A creation that admission lets in, or lets out to the provider, keeps every name with a place *)
(* there within the limit, whatever the snapshot missed (evolution-provisioning.service.ts 146). *)
LimitKept ==
  [][\A t \in Tickets :
       LET v == ask[t].provider
       IN phase'[t] # phase[t] /\ phase'[t] \in {"reserved", "sent"} /\ provider[v].max # None
          => Cardinality(Load(v)') <= provider[v].max]_vars

(* A row the last inventory missed, and which therefore does not count, has no session: however *)
(* a creation was recorded while it was collected (evolution-inventory.service.ts 277).         *)
AbsentIsGone == \A v \in Providers : \A t \in provider[v].absent : session[t] # "up"

(* What the administration shows as able to take an instance is what admission would let in:  *)
(* two readings of one state (evolution-controls.ts 156, evolution-provisioning.service.ts    *)
(* 100).                                                                                      *)
EligibleIsAdmitted ==
  \A p \in Products, v \in Providers :
    product[p].mode = "capacity" /\ product[p].active /\ AllocationEnabled
    => (Eligible(p, v) <=> Admissible(p, v, FALSE))

(* A session offered for import is not one that a creation has yet to record, nor that another *)
(* product has, even under a name used twice (evolutions.service.ts 444).                      *)
OfferedIsFree ==
  \A p \in Products, v \in Providers : \A e \in Candidates(p, v) : \A t \in Tickets :
    e.id = t /\ session[t] = "up" => t \in kept /\ ProductOf(t) = p

(* A reconciliation asked for ends, though collectors die with it (evolution-recovery.service.ts *)
(* 108).                                                                                         *)
ReconciliationEnds == \A v \in Providers : Wanted(v) ~> ~Wanted(v)

(* A provider that stays down is found out, and one that stays up is believed, whichever replica *)
(* counts and whatever an inventory just written says (health-check.service.ts 127).             *)
HealthFollows ==
  \A v \in Providers :
    /\ <>[](v \in down /\ provider[v].active) => <>[]~provider[v].healthy
    /\ <>[](v \notin down /\ provider[v].active) => <>[]provider[v].healthy
=============================================================================
