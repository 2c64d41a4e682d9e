--------------------------- MODULE InventoryProofs ---------------------------
(***************************************************************************)
(* The proof that an inventory never takes a row for absent whose session  *)
(* lives, and that no session is offered for import which a creation has   *)
(* yet to record: for any number of creations, collectors and providers.   *)
(*                                                                         *)
(* A collection reads the sessions of a provider in the middle of          *)
(* everything else.  What it writes is right because it is only written if *)
(* no row of that provider was recorded since it began: whatever had a row *)
(* then, and lives now, lived when it looked (ReadOK).                     *)
(*                                                                         *)
(* From this follows that a limit is kept: every session, every call under *)
(* way and every entry has a name that the occupancy counts (LoadCounted), *)
(* and a step of admission adds at most one name to them (LoadGrows).      *)
(***************************************************************************)
EXTENDS Inventory, CatalogProofs

Assumptions == EvolutionsAssumption /\ WorkloadsAssumption /\ InventoryAssumption
-----------------------------------------------------------------------------
(* The invariant. *)

(* What is left of a creation at each phase of it. *)
PromiseOK(t) ==
  /\ phase[t] \in Creation!Phases
  /\ phase[t] \in {"none", "reserved", "released"} => session[t] = "unsent"
  /\ phase[t] = "undoing" => t \in kept
  /\ phase[t] = "failed" => session[t] = "gone"
  /\ phase[t] = "committed" => t \in kept \/ session[t] = "gone"
  /\ t \in kept => session[t] \in {"up", "gone"}

CreationsOK ==
  /\ DOMAIN phase = Tickets /\ DOMAIN session = Tickets /\ kept \subseteq Tickets
  /\ \A t \in Tickets : ask[t].provider \in Providers /\ PromiseOK(t)

(* An account that carries the id of a creation's session is that session's. *)
Named(v, e) == \A t \in Tickets : e.id = t => ask[t].provider = v /\ ask[t].name = e.name

RowsOK ==
  /\ foreign \subseteq Foreign
  /\ DOMAIN provider = Providers
  /\ \A v \in Providers :
       /\ DOMAIN provider[v] = ProviderFields
       /\ \A e \in provider[v].entries : Named(v, e)
       /\ \A t \in provider[v].absent : t \in Tickets /\ session[t] = "gone"

Lives(v, t) == t \in kept /\ ask[t].provider = v /\ session[t] = "up"
Lists(seen, t) == \E s \in seen : s.name = ask[t].name /\ s.id = t

CollectorFields == {"pc", "provider", "rev", "seen"}

(* What a collection has seen is all that has a row and lives, unless a row was recorded since. *)
ReadOK(c) ==
  LET v == collector[c].provider
  IN /\ DOMAIN collector[c] = CollectorFields
     /\ collector[c].pc # "idle" => v \in Providers
     /\ collector[c].pc = "write" =>
          /\ \A s \in collector[c].seen : Named(v, s)
          /\ c \in provider[v].occ =>
               \A t \in Tickets : Lives(v, t) => Lists(collector[c].seen, t)

CollectorsOK == DOMAIN collector = Collectors /\ \A c \in Collectors : ReadOK(c)

InventoryInv == CreationsOK /\ RowsOK /\ CollectorsOK
-----------------------------------------------------------------------------
(* What steps other than a collection's do to the rows of the providers: they learn nothing. *)

RowLearnsNothing(v) ==
  /\ DOMAIN provider'[v] = ProviderFields
  /\ provider'[v].entries \subseteq provider[v].entries
  /\ provider'[v].absent \subseteq provider[v].absent
  /\ provider'[v].occ \subseteq provider[v].occ

NothingLearned ==
  DOMAIN provider' = Providers /\ \A v \in Providers : RowLearnsNothing(v)

(* What they do to the creations: the gone stay gone, and who lives with a row did so before, *)
(* or its provider has a new occupancy revision.                                              *)
Remembered(t) ==
  /\ session[t] = "gone" => session'[t] = "gone"
  /\ t \in kept' /\ session'[t] = "up" =>
       \/ t \in kept /\ session[t] = "up"
       \/ provider'[ask[t].provider].occ = {}

LEMMA RowsStay ==
  ASSUME CreationsOK, RowsOK, NothingLearned, ask' = ask, foreign' \subseteq Foreign,
         \A t \in Tickets : Remembered(t)
  PROVE  RowsOK'
BY DEF RowsOK, NothingLearned, RowLearnsNothing, Remembered, Named

LEMMA CollectorsStay ==
  ASSUME CollectorsOK, NothingLearned, UNCHANGED <<ask, collector>>,
         \A t \in Tickets : Remembered(t)
  PROVE  CollectorsOK'
<1> SUFFICES ASSUME NEW c \in Collectors
             PROVE  ReadOK(c)'
  BY DEF CollectorsOK
<1> DEFINE v == collector[c].provider
<1>1. ReadOK(c)
  BY DEF CollectorsOK
<1>2. ASSUME collector[c].pc = "write"
      PROVE  /\ \A s \in collector[c].seen : Named(v, s)'
             /\ c \in provider'[v].occ =>
                  \A t \in Tickets : Lives(v, t)' => Lists(collector[c].seen, t)'
  <2>1. v \in Providers /\ \A s \in collector[c].seen : Named(v, s)
    BY <1>1, <1>2 DEF ReadOK
  <2>2. ASSUME c \in provider'[v].occ, NEW t \in Tickets, Lives(v, t)'
        PROVE  Lists(collector[c].seen, t)'
    <3>1. c \in provider[v].occ
      BY <2>1, <2>2 DEF NothingLearned, RowLearnsNothing
    <3>2. Lives(v, t)
      BY <2>2 DEF Lives, Remembered
    <3> QED
      BY <1>1, <1>2, <2>1, <3>1, <3>2 DEF ReadOK, Lists
  <2> QED
    BY <2>1, <2>2 DEF Named
<1> QED
  BY <1>1, <1>2 DEF ReadOK

LEMMA InvStays ==
  ASSUME InventoryInv, CreationsOK', NothingLearned, UNCHANGED <<ask, collector>>,
         foreign' \subseteq Foreign, \A t \in Tickets : Remembered(t)
  PROVE  InventoryInv'
BY RowsStay, CollectorsStay DEF InventoryInv
-----------------------------------------------------------------------------
(* The creations. *)

LEMMA AdvanceLearns ==
  ASSUME RowsOK, NEW v \in Providers, Advance(v)
  PROVE  NothingLearned /\ provider'[v].occ = {}
BY DEF RowsOK, Advance, NothingLearned, RowLearnsNothing, ProviderFields

LEMMA RowGoneLearns ==
  ASSUME RowsOK, NEW t \in Tickets, ask[t].provider \in Providers, RowGone(t)
  PROVE  NothingLearned
<1> DEFINE v == ask[t].provider
           x == provider[v]
           y == [x EXCEPT !.occ = {}, !.absent = @ \ {t}]
<1>1. provider' = [provider EXCEPT ![v] = y]
  BY DEF RowsOK, RowGone
<1>2. DOMAIN y = ProviderFields /\ y.entries = x.entries /\ y.absent \subseteq x.absent
      /\ y.occ = {}
  BY DEF RowsOK, ProviderFields
<1> HIDE DEF y
<1> QED
  BY <1>1, <1>2 DEF RowsOK, NothingLearned, RowLearnsNothing

LEMMA SameLearns ==
  ASSUME RowsOK, provider' = provider
  PROVE  NothingLearned
BY DEF RowsOK, NothingLearned, RowLearnsNothing

(* One creation moves to another phase, with what is left of it. *)
LEMMA CreationMoves ==
  ASSUME CreationsOK, NEW t \in Tickets, ask' = ask,
         DOMAIN phase' = Tickets, DOMAIN session' = Tickets, PromiseOK(t)', kept' \subseteq Tickets,
         \A u \in Tickets \ {t} : /\ phase'[u] = phase[u] /\ session'[u] = session[u]
                                  /\ u \in kept' <=> u \in kept
  PROVE  CreationsOK'
BY DEF CreationsOK, PromiseOK

LEMMA CreateKeeps ==
  ASSUME InventoryInv, NEW t \in Tickets, Create(t), UNCHANGED collectionVars
  PROVE  InventoryInv'
<1>0. /\ CreationsOK /\ RowsOK /\ PromiseOK(t) /\ ask[t].provider \in Providers
      /\ DOMAIN phase = Tickets /\ DOMAIN session = Tickets /\ kept \subseteq Tickets
      /\ collector' = collector
  BY DEF InventoryInv, CreationsOK, collectionVars
<1> DEFINE Effect == /\ UNCHANGED <<ask, foreign>> /\ CreationsOK' /\ NothingLearned
                     /\ \A u \in Tickets : Remembered(u)
<1> USE DEF Creation!Become, Creation!Turn
<1>1. ASSUME Reserve(t)
      PROVE  Effect
  <2>1. /\ phase[t] = "none" /\ phase' = [phase EXCEPT ![t] = "reserved"]
        /\ UNCHANGED <<ask, session, kept, foreign>>
    BY <1>1 DEF Reserve, Creation!Hold, Admit
  <2>2. NothingLearned
    BY <1>0, <1>1, AdvanceLearns DEF Reserve
  <2> QED
    BY <1>0, <2>1, <2>2, CreationMoves DEF PromiseOK, Creation!Phases, Remembered
<1>2. ASSUME Release(t)
      PROVE  Effect
  <2>1. /\ phase[t] = "reserved" /\ phase' = [phase EXCEPT ![t] = "released"]
        /\ UNCHANGED <<ask, session, kept, foreign>>
    BY <1>2 DEF Release, Creation!Release, catalogVars
  <2>2. NothingLearned
    BY <1>0, <1>2, AdvanceLearns DEF Release
  <2> QED
    BY <1>0, <2>1, <2>2, CreationMoves DEF PromiseOK, Creation!Phases, Remembered
<1>3. ASSUME MarkCreating(t)
      PROVE  Effect
  <2>1. /\ phase[t] = "reserved" /\ phase' = [phase EXCEPT ![t] = "sent"]
        /\ UNCHANGED <<ask, session, kept, foreign, provider>>
    BY <1>3 DEF MarkCreating, Creation!Dispatch, Admit
  <2> QED
    BY <1>0, <2>1, SameLearns, CreationMoves DEF PromiseOK, Creation!Phases, Remembered
<1>4. ASSUME Call(t)
      PROVE  Effect
  <2>1. /\ phase[t] = "sent" /\ session[t] = "unsent"
        /\ session' = [session EXCEPT ![t] = "flight"]
        /\ UNCHANGED <<ask, phase, kept, foreign, provider>>
    BY <1>4 DEF Call, Creation!Call, catalogVars
  <2> QED
    BY <1>0, <2>1, SameLearns, CreationMoves DEF PromiseOK, Creation!Phases, Remembered
<1>5. ASSUME Answer(t)
      PROVE  Effect
  <2>1. /\ session[t] = "flight"
        /\ \/ session' = [session EXCEPT ![t] = "up"]
           \/ session' = [session EXCEPT ![t] = "void"]
        /\ UNCHANGED <<ask, phase, kept, foreign, provider>>
    BY <1>5 DEF Answer, Creation!Answer, catalogVars
  <2> QED
    BY <1>0, <2>1, SameLearns, CreationMoves DEF PromiseOK, Creation!Phases, Remembered
<1>6. ASSUME Vanish(t)
      PROVE  Effect
  <2>1. /\ session[t] = "up" /\ session' = [session EXCEPT ![t] = "gone"]
        /\ UNCHANGED <<ask, phase, kept, foreign, provider>>
    BY <1>6 DEF Vanish, Creation!Vanish, catalogVars
  <2> QED
    BY <1>0, <2>1, SameLearns, CreationMoves DEF PromiseOK, Creation!Phases, Remembered
<1>7. ASSUME Record(t)
      PROVE  Effect
  <2>1. /\ phase[t] = "sent" /\ session[t] \in {"up", "gone"} /\ kept' = kept \cup {t}
        /\ UNCHANGED <<ask, phase, session, foreign>>
    BY <1>7 DEF Record, Creation!Keep, catalogVars
  <2>2. NothingLearned /\ provider'[ask[t].provider].occ = {}
    BY <1>0, <1>7, AdvanceLearns DEF Record
  <2> QED
    BY <1>0, <2>1, <2>2, CreationMoves DEF PromiseOK, Creation!Phases, Remembered
<1>8. ASSUME Commit(t)
      PROVE  Effect
  <2>1. /\ t \in kept /\ phase[t] = "sent" /\ phase' = [phase EXCEPT ![t] = "committed"]
        /\ UNCHANGED <<ask, session, kept, foreign>>
    BY <1>8 DEF Commit, Creation!Commit, catalogVars
  <2>2. NothingLearned
    BY <1>0, <1>8, AdvanceLearns DEF Commit
  <2> QED
    BY <1>0, <2>1, <2>2, CreationMoves DEF PromiseOK, Creation!Phases, Remembered
<1>9. ASSUME Undo(t)
      PROVE  Effect
  <2>1. /\ t \in kept /\ phase[t] = "sent" /\ phase' = [phase EXCEPT ![t] = "undoing"]
        /\ UNCHANGED <<ask, session, kept, foreign, provider>>
    BY <1>9 DEF Undo, Creation!Undo, catalogVars
  <2> QED
    BY <1>0, <2>1, SameLearns, CreationMoves DEF PromiseOK, Creation!Phases, Remembered
<1>10. ASSUME Drop(t)
      PROVE  Effect
  <2>1. /\ session[t] = "gone" /\ kept' = kept \ {t} /\ UNCHANGED <<ask, session, foreign>>
        /\ \/ phase[t] = "undoing" /\ phase' = [phase EXCEPT ![t] = "failed"]
           \/ phase[t] = "committed" /\ phase' = phase
    BY <1>10 DEF Drop, Creation!Undone, Creation!Discard, catalogVars
  <2>2. NothingLearned
    BY <1>0, <1>10, RowGoneLearns DEF Drop
  <2> QED
    BY <1>0, <2>1, <2>2, CreationMoves DEF PromiseOK, Creation!Phases, Remembered
<1> HIDE DEF Creation!Become, Creation!Turn
<1>11. Effect
  BY <1>1, <1>2, <1>3, <1>4, <1>5, <1>6, <1>7, <1>8, <1>9, <1>10 DEF Create
<1> QED
  BY <1>0, <1>11, InvStays DEF RowsOK
-----------------------------------------------------------------------------
(* The administration, and whatever else leaves creations and collectors alone. *)

Quiet == UNCHANGED <<ask, phase, session, kept, collector>> /\ foreign' \subseteq Foreign

LEMMA QuietKeeps ==
  ASSUME InventoryInv, Quiet, NothingLearned
  PROVE  InventoryInv'
<1>1. CreationsOK'
  BY DEF InventoryInv, Quiet, CreationsOK, PromiseOK
<1>2. \A t \in Tickets : Remembered(t)
  BY DEF Quiet, Remembered
<1> QED
  BY <1>1, <1>2, InvStays DEF Quiet

(* An edit of the columns an operator may write leaves what was observed. *)
LEMMA UpdatedKeepsObserved ==
  ASSUME NEW x, NEW e, NEW moves, NEW y, y = Updated(x, e, moves)
  PROVE  /\ DOMAIN y = DOMAIN x /\ y.entries = x.entries
         /\ y.absent = x.absent /\ y.occ = x.occ
<1>1. DOMAIN y = DOMAIN x
  BY DEF Updated
<1>2. y.entries = x.entries
  BY DEF Updated
<1>3. y.absent = x.absent
  BY DEF Updated
<1>4. y.occ = x.occ
  BY DEF Updated
<1> QED
  BY <1>1, <1>2, <1>3, <1>4

LEMMA EditProviderLearns ==
  ASSUME RowsOK, EditProvider
  PROVE  NothingLearned
<1>1. ASSUME NEW v \in Providers, NEW u, NEW strict, CreateRecord(v, u, strict)
      PROVE  NothingLearned
  BY <1>1 DEF CreateRecord, NewProvider, RowsOK, NothingLearned, RowLearnsNothing, ProviderFields
<1>2. ASSUME NEW v \in Providers, NEW e, UpdateRecord(v, e)
      PROVE  NothingLearned
  <2> DEFINE y == Updated(provider[v], e, Moves(v, e))
  <2>1. provider' = [provider EXCEPT ![v] = y]
    BY <1>2 DEF UpdateRecord
  <2>2. /\ DOMAIN y = ProviderFields /\ y.entries = provider[v].entries
        /\ y.absent = provider[v].absent /\ y.occ = provider[v].occ
    BY UpdatedKeepsObserved DEF RowsOK
  <2> HIDE DEF y
  <2> QED
    BY <2>1, <2>2 DEF RowsOK, NothingLearned, RowLearnsNothing
<1>3. ASSUME NEW v \in Providers, NEW a, UpdateHost(v, a)
      PROVE  NothingLearned
  BY <1>3 DEF UpdateHost, RowsOK, NothingLearned, RowLearnsNothing, ProviderFields
<1>4. ASSUME NEW v \in Providers, Retire(v)
      PROVE  NothingLearned
  BY <1>4 DEF Retire, RowsOK, NothingLearned, RowLearnsNothing, ProviderFields
<1> QED
  BY <1>1, <1>2, <1>3, <1>4 DEF EditProvider

LEMMA AdministrationKeeps ==
  ASSUME InventoryInv, Administration, UNCHANGED collectionVars
  PROVE  InventoryInv'
<1>1. RowsOK
  BY DEF InventoryInv
<1>2. Quiet
  <2>1. UNCHANGED <<ask, phase, session, kept, foreign>>
    BY DEF Administration, EditProvider, EditProduct, ConfirmSetup, CallbackReceived, CreateRecord,
           UpdateRecord, UpdateHost, Retire, Attach, Detach, UpdateLink, SetAllocation,
           UpdateProduct, DeactivateProduct, unedited, creationVars
  <2> QED
    BY <1>1, <2>1 DEF Quiet, collectionVars, RowsOK
<1>3. ASSUME NEW v \in Providers, CallbackReceived(v)
      PROVE  NothingLearned
  BY <1>1, <1>3 DEF CallbackReceived, RowsOK, NothingLearned, RowLearnsNothing, ProviderFields
<1>4. ASSUME EditProduct \/ ConfirmSetup
      PROVE  provider' = provider
  BY <1>4 DEF EditProduct, ConfirmSetup, Attach, Detach, UpdateLink, SetAllocation,
              UpdateProduct, DeactivateProduct
<1>5. NothingLearned
  BY <1>1, <1>3, <1>4, EditProviderLearns, SameLearns DEF Administration
<1> QED
  BY <1>2, <1>5, QuietKeeps

LEMMA HealthKeeps ==
  ASSUME InventoryInv, Health
  PROVE  InventoryInv'
<1>1. RowsOK
  BY DEF InventoryInv
<1>2. Quiet
  BY <1>1 DEF Health, Outage, Ping, CheckFails, CheckPasses, CheckBegins, unchecked, creationVars,
              Quiet, RowsOK
<1>3. ASSUME NEW v, NEW healthy, Report(v, healthy)
      PROVE  NothingLearned
  BY <1>1, <1>3 DEF Report, RowsOK, NothingLearned, RowLearnsNothing, ProviderFields
<1>4. NothingLearned
  <2>1. ASSUME NEW r \in Checkers, CheckFails(r) \/ CheckPasses(r)
        PROVE  NothingLearned
    BY <1>1, <1>3, <2>1, SameLearns DEF CheckFails, CheckPasses
  <2> QED
    BY <1>1, <2>1, SameLearns DEF Health, Outage, Ping, CheckBegins
<1> QED
  BY <1>2, <1>4, QuietKeeps
-----------------------------------------------------------------------------
(* A collection. *)

LEMMA RestingIsOK ==
  ASSUME InventoryInv, NEW c \in Collectors, collector' = [collector EXCEPT ![c] = Resting],
         UNCHANGED <<ask, phase, session, kept>>, NothingLearned
  PROVE  CollectorsOK'
<1>1. /\ DOMAIN collector = Collectors /\ collector'[c] = Resting
      /\ DOMAIN collector' = Collectors
  BY DEF InventoryInv, CollectorsOK
<1>2. ReadOK(c)'
  BY <1>1 DEF ReadOK, Resting, CollectorFields
<1>3. ASSUME NEW d \in Collectors, d # c
      PROVE  ReadOK(d)'
  <2>1. collector'[d] = collector[d] /\ ReadOK(d)
    BY <1>1, <1>3 DEF InventoryInv, CollectorsOK
  <2> DEFINE v == collector[d].provider
  <2>2. collector[d].pc # "idle" => v \in Providers /\ provider'[v].occ \subseteq provider[v].occ
    BY <2>1 DEF ReadOK, NothingLearned, RowLearnsNothing
  <2> QED
    BY <2>1, <2>2 DEF ReadOK, Named, Lives, Lists
<1> QED
  BY <1>1, <1>2, <1>3 DEF CollectorsOK

LEMMA CreationsStay ==
  ASSUME CreationsOK, UNCHANGED <<ask, phase, session, kept>>
  PROVE  CreationsOK' /\ \A t \in Tickets : Remembered(t)
BY DEF CreationsOK, PromiseOK, Remembered

(* A reading stays true of rows and sessions that do not change. *)
LEMMA ReadStays ==
  ASSUME NEW d, ReadOK(d), collector'[d] = collector[d], UNCHANGED <<ask, session, kept>>,
         \A w \in Providers : d \in provider'[w].occ => d \in provider[w].occ
  PROVE  ReadOK(d)'
<1>1. /\ \A v, e : Named(v, e)' <=> Named(v, e)
      /\ \A v, t : Lives(v, t)' <=> Lives(v, t)
      /\ \A seen, t : Lists(seen, t)' <=> Lists(seen, t)
  BY DEF Named, Lives, Lists
<1> QED
  BY <1>1 DEF ReadOK

LEMMA BeginKeeps ==
  ASSUME Assumptions, InventoryInv, NEW c \in Collectors, NEW v \in Providers, Begin(c, v)
  PROVE  InventoryInv'
<1>1. /\ UNCHANGED <<ask, phase, session, kept, foreign>>
      /\ collector' = [collector EXCEPT ![c] = [Resting EXCEPT !.pc = "collect", !.provider = v,
                                                               !.rev = provider[v].rev]]
      /\ provider' = [provider EXCEPT ![v].occ = @ \cup {c}]
  BY DEF Begin, uncollected, creationVars
<1>2. CreationsOK /\ RowsOK /\ CollectorsOK /\ CreationsOK'
  BY <1>1, CreationsStay DEF InventoryInv
<1>3. /\ DOMAIN provider' = Providers
      /\ \A w \in Providers : /\ DOMAIN provider'[w] = ProviderFields
                              /\ provider'[w].entries = provider[w].entries
                              /\ provider'[w].absent = provider[w].absent
                              /\ provider'[w].occ \subseteq provider[w].occ \cup {c}
  BY <1>1, <1>2 DEF RowsOK, ProviderFields
<1>4. RowsOK'
  BY <1>1, <1>2, <1>3 DEF RowsOK, Named
<1>5. ReadOK(c)'
  <2>1. collector'[c] = [pc |-> "collect", provider |-> v, rev |-> provider[v].rev, seen |-> {}]
    BY <1>1, <1>2 DEF Resting, CollectorsOK
  <2> QED
    BY <2>1 DEF ReadOK, CollectorFields
<1>6. ASSUME NEW d \in Collectors, d # c
      PROVE  ReadOK(d)'
  <2>1. collector'[d] = collector[d] /\ ReadOK(d)
    BY <1>1, <1>2, <1>6 DEF CollectorsOK
  <2>2. \A w \in Providers : d \in provider'[w].occ => d \in provider[w].occ
    BY <1>3, <1>6
  <2> QED
    BY <1>1, <2>1, <2>2, ReadStays
<1> QED
  BY <1>1, <1>2, <1>4, <1>5, <1>6 DEF InventoryInv, CollectorsOK

LEMMA RemoteIsNamed ==
  ASSUME Assumptions, InventoryInv, NEW v \in Providers
  PROVE  /\ \A s \in RemoteAt(v) : Named(v, s)
         /\ \A t \in Tickets : Lives(v, t) => Lists(RemoteAt(v), t)
<1>1. \A f \in foreign : f.id \notin Tickets
  BY DEF Assumptions, EvolutionsAssumption, InventoryInv, RowsOK
<1>2. ASSUME NEW s \in RemoteAt(v), NEW t \in Tickets, s.id = t
      PROVE  ask[t].provider = v /\ ask[t].name = s.name
  <2>1. \/ \E u \in Tickets : /\ ask[u].provider = v
                             /\ s = [name |-> ask[u].name, id |-> u, product |-> None]
        \/ \E f \in foreign : s = [name |-> f.name, id |-> f.id, product |-> None]
    BY DEF RemoteAt
  <2> QED
    BY <1>1, <1>2, <2>1
<1>3. ASSUME NEW t \in Tickets, Lives(v, t)
      PROVE  Lists(RemoteAt(v), t)
  <2>1. [name |-> ask[t].name, id |-> t, product |-> None] \in RemoteAt(v)
    BY <1>3 DEF RemoteAt, Lives
  <2> QED
    BY <2>1 DEF Lists
<1> QED
  BY <1>2, <1>3 DEF Named

LEMMA CollectKeeps ==
  ASSUME Assumptions, InventoryInv, NEW c \in Collectors, Collect(c)
  PROVE  InventoryInv'
<1> DEFINE v == collector[c].provider
           seen == RemoteAt(v)
<1>1. /\ UNCHANGED <<ask, phase, session, kept, foreign, provider>>
      /\ collector[c].pc = "collect"
      /\ collector' = [collector EXCEPT ![c].pc = "write", ![c].seen = seen]
  BY DEF Collect, uncollected, creationVars
<1>2. CreationsOK /\ RowsOK /\ CollectorsOK /\ CreationsOK' /\ ReadOK(c)
  BY <1>1, CreationsStay DEF InventoryInv, CollectorsOK
<1>3. RowsOK'
  BY <1>1, <1>2 DEF RowsOK, Named
<1>4. /\ v \in Providers /\ \A s \in seen : Named(v, s)
      /\ \A t \in Tickets : Lives(v, t) => Lists(seen, t)
  BY <1>1, <1>2, RemoteIsNamed DEF ReadOK
<1> HIDE DEF seen
<1>5. ReadOK(c)'
  <2>1. /\ DOMAIN collector'[c] = CollectorFields /\ collector'[c].provider = v
        /\ collector'[c].seen = seen /\ collector'[c].pc = "write"
    BY <1>1, <1>2 DEF ReadOK, CollectorFields, CollectorsOK
  <2> HIDE DEF v
  <2> QED
    <3>1. PICK w, S : w = v /\ S = seen
      OBVIOUS
    <3>2. /\ \A s \in S : Named(w, s)'
          /\ \A t \in Tickets : Lives(w, t)' => Lists(S, t)'
      <4>1. UNCHANGED <<ask, session, kept>>
        BY <1>1
      <4> QED
        BY <1>4, <3>1, <4>1 DEF Named, Lives, Lists
    <3>3. /\ DOMAIN collector'[c] = CollectorFields /\ collector'[c].provider = w
          /\ collector'[c].seen = S /\ w \in Providers
      BY <1>4, <2>1, <3>1
    <3> QED
      BY <3>2, <3>3 DEF ReadOK
<1>6. ASSUME NEW d \in Collectors, d # c
      PROVE  ReadOK(d)'
  <2>1. collector'[d] = collector[d] /\ ReadOK(d)
    BY <1>1, <1>2, <1>6 DEF CollectorsOK
  <2>2. UNCHANGED <<ask, session, kept, provider>>
    BY <1>1
  <2> QED
    BY <2>1, <2>2 DEF ReadOK, Named, Lives, Lists
<1> QED
  BY <1>1, <1>2, <1>3, <1>5, <1>6 DEF InventoryInv, CollectorsOK

(* A row that was not seen has no session any more: the heart of the matter. *)
LEMMA MissingAreGone ==
  ASSUME InventoryInv, NEW c \in Collectors, collector[c].pc = "write",
         c \in provider[collector[c].provider].occ,
         NEW t \in Missing(collector[c].provider, collector[c].seen)
  PROVE  t \in Tickets /\ session[t] = "gone"
<1> DEFINE v == collector[c].provider
           seen == collector[c].seen
<1>1. /\ t \in kept /\ ask[t].provider = v
      /\ ~\E s \in seen : SameSession(Account(t, TRUE), s)
  BY DEF Missing, RowsAt
<1>2. t \in Tickets /\ session[t] \in {"up", "gone"}
  BY <1>1 DEF InventoryInv, CreationsOK, PromiseOK
<1>3. ReadOK(c)
  BY DEF InventoryInv, CollectorsOK
<1>4. ~Lists(seen, t)
  BY <1>1 DEF Lists, SameSession, Account
<1>5. ~Lives(v, t)
  BY <1>2, <1>3, <1>4 DEF ReadOK
<1> QED
  BY <1>1, <1>2, <1>5 DEF Lives

LEMMA WriteKeeps ==
  ASSUME InventoryInv, NEW c \in Collectors, Write(c)
  PROVE  InventoryInv'
<1> DEFINE v == collector[c].provider
           seen == collector[c].seen
<1>1. PICK touched : provider' = [provider EXCEPT ![v] = Observed(v, seen, touched)]
  BY DEF Write
<1>2. /\ UNCHANGED <<ask, phase, session, kept, foreign>>
      /\ collector[c].pc = "write" /\ c \in provider[v].occ
      /\ collector' = [collector EXCEPT ![c] = Resting]
  BY DEF Write, Current, uncollected, creationVars
<1>3. CreationsOK /\ RowsOK /\ CollectorsOK /\ CreationsOK' /\ ReadOK(c)
  BY <1>2, CreationsStay DEF InventoryInv, CollectorsOK
<1>4. /\ v \in Providers /\ (\A s \in seen : Named(v, s))
      /\ \A t \in Missing(v, seen) : t \in Tickets /\ session[t] = "gone"
  BY <1>2, <1>3, MissingAreGone DEF ReadOK
<1>5. /\ DOMAIN provider' = Providers
      /\ \A w \in Providers : /\ DOMAIN provider'[w] = ProviderFields
                              /\ provider'[w].occ = provider[w].occ
                              /\ w # v => /\ provider'[w].entries = provider[w].entries
                                          /\ provider'[w].absent = provider[w].absent
      /\ provider'[v].entries = seen /\ provider'[v].absent = Missing(v, seen) \ touched
  BY <1>1, <1>3, <1>4 DEF RowsOK, Observed, ProviderFields
<1>6. RowsOK'
  <2> HIDE DEF v, seen
  <2> QED
    BY <1>2, <1>3, <1>4, <1>5 DEF RowsOK, Named
<1>7. ReadOK(c)'
  <2>1. collector'[c] = Resting
    BY <1>2, <1>3 DEF CollectorsOK
  <2> QED
    BY <2>1 DEF ReadOK, Resting, CollectorFields
<1>8. ASSUME NEW d \in Collectors, d # c
      PROVE  ReadOK(d)'
  <2>1. collector'[d] = collector[d] /\ ReadOK(d)
    BY <1>2, <1>3, <1>8 DEF CollectorsOK
  <2> QED
    BY <1>2, <1>5, <2>1 DEF ReadOK, Named, Lives, Lists
<1> QED
  BY <1>2, <1>3, <1>6, <1>7, <1>8 DEF InventoryInv, CollectorsOK

LEMMA CollectionKeeps ==
  ASSUME Assumptions, InventoryInv, Collection
  PROVE  InventoryInv'
<1>1. RowsOK /\ CreationsOK
  BY DEF InventoryInv
<1>2. ASSUME NEW v \in Providers, Request(v) \/ LeaseExpires(v) \/ Age(v)
      PROVE  InventoryInv'
  <2>1. Quiet
    BY <1>1, <1>2 DEF Request, LeaseExpires, Age, uncollected, creationVars, Quiet, RowsOK
  <2>2. CASE Age(v)
    <3>1. NothingLearned
      BY <1>1, <2>2 DEF Age, RowsOK, NothingLearned, RowLearnsNothing, ProviderFields
    <3> QED
      BY <2>1, <3>1, QuietKeeps
  <2>3. CASE Request(v) \/ LeaseExpires(v)
    BY <1>1, <2>1, <2>3, SameLearns, QuietKeeps DEF Request, LeaseExpires
  <2> QED
    BY <1>2, <2>2, <2>3
<1>3. ASSUME NEW c \in Collectors, Fail(c) \/ Crash(c)
      PROVE  InventoryInv'
  <2>1. /\ UNCHANGED <<ask, phase, session, kept, foreign, provider>>
        /\ collector' = [collector EXCEPT ![c] = Resting]
    BY <1>3 DEF Fail, Crash, uncollected, creationVars
  <2>2. NothingLearned
    BY <1>1, <2>1, SameLearns
  <2> QED
    BY <1>1, <2>1, <2>2, CreationsStay, RestingIsOK, RowsStay DEF InventoryInv, RowsOK
<1>4. ASSUME NEW t \in Tickets, RowTouched(t)
      PROVE  InventoryInv'
  <2>1. Quiet
    BY <1>1, <1>4 DEF RowTouched, uncollected, creationVars, Quiet, RowsOK
  <2>2. NothingLearned
    BY <1>1, <1>4 DEF RowTouched, RowsOK, NothingLearned, RowLearnsNothing, ProviderFields
  <2> QED
    BY <2>1, <2>2, QuietKeeps
<1>5. ASSUME NEW f \in Foreign, Intrude(f)
      PROVE  InventoryInv'
  <2>1. Quiet /\ provider' = provider
    BY <1>1, <1>5 DEF Intrude, creationVars, Quiet, RowsOK
  <2> QED
    BY <1>1, <2>1, SameLearns, QuietKeeps
<1> QED
  BY <1>2, <1>3, <1>4, <1>5, BeginKeeps, CollectKeeps, WriteKeeps DEF Collection
-----------------------------------------------------------------------------
LEMMA InvStarts ==
  ASSUME Assumptions, Init
  PROVE  InventoryInv
<1>1. PICK w \in Workloads : Start(w)
  BY DEF Init
<1>2. CreationsOK
  BY <1>1 DEF Start, Assumptions, WorkloadsAssumption, CreationsOK, PromiseOK, Creation!Phases
<1>3. RowsOK
  <2>1. w.provider \in [Providers -> RecordOf({}, {}, {})]
    BY DEF Assumptions, WorkloadsAssumption
  <2>2. /\ DOMAIN w.provider = Providers
        /\ \A v \in Providers : /\ DOMAIN w.provider[v] = ProviderFields
                                /\ w.provider[v].entries = {} /\ w.provider[v].absent = {}
    BY <2>1 DEF RecordOf, ProviderFields
  <2> QED
    BY <1>1, <2>2 DEF Start, RowsOK
<1>4. CollectorsOK
  BY DEF Init, CollectorsOK, ReadOK, Resting, CollectorFields
<1> QED
  BY <1>2, <1>3, <1>4 DEF InventoryInv

(* The invariant holds for every number of creations, providers and collectors. *)
THEOREM InventoryTracked == Spec => []InventoryInv
<1>1. Assumptions
  BY EvolutionsAssumption, WorkloadsAssumption, InventoryAssumption DEF Assumptions
<1>2. Init => InventoryInv
  BY <1>1, InvStarts
<1>3. InventoryInv /\ [Next]_vars => InventoryInv'
  <2> SUFFICES ASSUME InventoryInv, [Next]_vars
               PROVE  InventoryInv'
    OBVIOUS
  <2>1. CASE Next
    BY <1>1, <2>1, CollectionKeeps, HealthKeeps, CreateKeeps, AdministrationKeeps DEF Next
  <2>2. CASE UNCHANGED vars
    <3>1. UNCHANGED <<ask, phase, session, kept, foreign, provider, collector>>
      BY <2>2 DEF vars, evolutionVars, collectionVars
    <3> QED
      BY <3>1 DEF InventoryInv, CreationsOK, PromiseOK, RowsOK, CollectorsOK, ReadOK, Named, Lives,
                  Lists
  <2> QED
    BY <2>1, <2>2
<1> QED
  BY <1>2, <1>3, PTL DEF Spec

(* A row the last inventory missed, and which therefore does not count, has no session, however *)
(* many creations were recorded while it was collected.                                         *)
THEOREM AbsentAreGone == Spec => []AbsentIsGone
<1>1. InventoryInv => AbsentIsGone
  BY DEF InventoryInv, RowsOK, AbsentIsGone
<1> QED
  BY <1>1, InventoryTracked, PTL

(* No session is offered for import that a creation has yet to record, nor one whose row is     *)
(* another product's.                                                                           *)
THEOREM OffersWhatIsFree == Spec => []OfferedIsFree
<1>1. ASSUME InventoryInv, NEW p \in Products, NEW v \in Providers, NEW e \in Candidates(p, v),
             NEW t \in Tickets, e.id = t, session[t] = "up"
      PROVE  t \in kept /\ ProductOf(t) = p
  <2>1. ask[t].provider = v /\ ask[t].name = e.name
    BY <1>1 DEF Candidates, InventoryInv, RowsOK, Named
  <2>2. ~Creation!Held(t)
    BY <2>1 DEF Candidates, MatchesOf
  <2>3. t \in kept
    BY <1>1, <2>2 DEF InventoryInv, CreationsOK, PromiseOK, Creation!Phases, Creation!Held
  <2>4. t \in MatchesOf(kept, p, v, e)
    BY <2>1, <2>3 DEF MatchesOf
  <2>5. OwnRow(p, v, e)
    BY <2>4 DEF Candidates
  <2>6. PICK u \in kept : MatchesOf(kept, p, v, e) = {u} /\ ProductOf(u) = p
    BY <2>5 DEF OwnRow
  <2> QED
    BY <2>3, <2>4, <2>6
<1>2. InventoryInv => OfferedIsFree
  BY <1>1 DEF OfferedIsFree
<1> QED
  BY <1>2, InventoryTracked, PTL
-----------------------------------------------------------------------------
(* Rows, leases and counts keep their types. *)

Lease == {"status", "owner", "leased"}

LeasesOK ==
  /\ DOMAIN reconciliation = Providers
  /\ \A v \in Providers :
       /\ DOMAIN reconciliation[v] = Lease
       /\ reconciliation[v].leased => reconciliation[v].status = "running"
       /\ reconciliation[v].status = "running" <=> reconciliation[v].owner # None

TypesInv ==
  /\ RowsTyped(Collectors) /\ LeasesOK
  /\ failures \in [Checkers -> [Providers -> 0 .. Threshold + 1]]
  /\ \A c \in Collectors : collector[c].seen \in SUBSET Listable

LEMMA TypesAreOK ==
  ASSUME TypesInv
  PROVE  TypeOK
BY DEF TypesInv, TypeOK, RowsTyped, LeasesOK

LEMMA SeenStays ==
  ASSUME TypesInv, UNCHANGED <<ask, collector>>
  PROVE  \A c \in Collectors : (collector[c].seen \in SUBSET Listable)'
BY DEF TypesInv, Listable

LEMMA SeenRests ==
  ASSUME TypesInv, DOMAIN collector = Collectors, ask' = ask, NEW c \in Collectors,
         NEW x, x.seen \in SUBSET Listable, collector' = [collector EXCEPT ![c] = x]
  PROVE  \A d \in Collectors : (collector[d].seen \in SUBSET Listable)'
<1>1. Listable' = Listable
  BY DEF Listable
<1>2. \A d \in Collectors : collector'[d] = IF d = c THEN x ELSE collector[d]
  OBVIOUS
<1>3. \A d \in Collectors : collector[d].seen \in SUBSET Listable
  BY DEF TypesInv
<1> QED
  BY <1>1, <1>2, <1>3

(* Steps of the catalogue, which have nothing to do with collections. *)
LEMMA CatalogTypes ==
  ASSUME TypesInv, RowsTyped(Collectors)', UNCHANGED <<ask, reconciliation, failures, collector>>
  PROVE  TypesInv'
<1>1. LeasesOK'
  BY DEF TypesInv, LeasesOK
<1> QED
  BY <1>1, SeenStays DEF TypesInv

LEMMA AdministrationTypes ==
  ASSUME EditsAssumption, TypesInv, Administration, UNCHANGED collectionVars
  PROVE  TypesInv'
<1>1. UNCHANGED <<ask, kept, foreign, reconciliation>> /\ UNCHANGED <<collector, failures>>
  BY DEF Administration, EditProvider, EditProduct, ConfirmSetup, CallbackReceived, CreateRecord,
         UpdateRecord, UpdateHost, Retire, Attach, Detach, UpdateLink, SetAllocation,
         UpdateProduct, DeactivateProduct, unedited, creationVars, collectionVars
<1>2. RowsTyped(Collectors)
  BY DEF TypesInv
<1>3. ASSUME EditProduct \/ ConfirmSetup
      PROVE  provider' = provider
  BY <1>3 DEF EditProduct, ConfirmSetup, Attach, Detach, UpdateLink, SetAllocation,
              UpdateProduct, DeactivateProduct
<1>4. foreign' \subseteq Foreign /\ kept' \subseteq Tickets
  BY <1>1, <1>2 DEF RowsTyped
<1>5. RowsTyped(Collectors)'
  BY <1>1, <1>2, <1>3, <1>4, EditProviderTypes, CallbackTypes, RowsUntouched DEF Administration
<1> QED
  BY <1>1, <1>5, CatalogTypes

LEMMA CreationTypes ==
  ASSUME TypesInv, NEW t \in Tickets, Create(t), UNCHANGED collectionVars
  PROVE  TypesInv'
<1>1. UNCHANGED <<ask, reconciliation, failures, collector>>
  BY DEF collectionVars, Create, Reserve, Release, MarkCreating, Call, Answer, Vanish, Record,
         Commit, Undo, Drop, Admit, catalogVars, Creation!Hold, Creation!Release,
         Creation!Dispatch, Creation!Call, Creation!Answer, Creation!Vanish, Creation!Keep,
         Creation!Commit, Creation!Undo, Creation!Undone, Creation!Discard
<1>2. RowsTyped(Collectors)'
  BY CreateTypes DEF TypesInv
<1> QED
  BY <1>1, <1>2, CatalogTypes

(* What collections and checks write into a row. *)
LEMMA FieldWritten ==
  ASSUME NEW readers, NEW x \in ProviderRecord(readers)
  PROVE  /\ \A h \in BOOLEAN : [x EXCEPT !.healthy = h] \in ProviderRecord(readers)
         /\ \A s \in {"never", "recent", "old"} :
              /\ [x EXCEPT !.seen = s] \in ProviderRecord(readers)
              /\ [x EXCEPT !.observed = s] \in ProviderRecord(readers)
         /\ \A c \in readers : [x EXCEPT !.occ = @ \cup {c}] \in ProviderRecord(readers)
         /\ \A t : [x EXCEPT !.absent = @ \ {t}] \in ProviderRecord(readers)
<1>1. ASSUME NEW h \in BOOLEAN
      PROVE  [x EXCEPT !.healthy = h] \in ProviderRecord(readers)
  BY DEF ProviderRecord, RecordOf
<1>2. ASSUME NEW s \in {"never", "recent", "old"}
      PROVE  [x EXCEPT !.seen = s] \in ProviderRecord(readers)
  BY DEF ProviderRecord, RecordOf
<1>3. ASSUME NEW s \in {"never", "recent", "old"}
      PROVE  [x EXCEPT !.observed = s] \in ProviderRecord(readers)
  BY DEF ProviderRecord, RecordOf
<1>4. ASSUME NEW c \in readers
      PROVE  [x EXCEPT !.occ = @ \cup {c}] \in ProviderRecord(readers)
  BY DEF ProviderRecord, RecordOf
<1>5. ASSUME NEW t
      PROVE  [x EXCEPT !.absent = @ \ {t}] \in ProviderRecord(readers)
  BY DEF ProviderRecord, RecordOf
<1> QED
  BY <1>1, <1>2, <1>3, <1>4, <1>5

(* A check writes whether a provider is up. *)
LEMMA HealthTypes ==
  ASSUME InventoryAssumption, TypesInv, Health
  PROVE  TypesInv'
<1>1. /\ UNCHANGED <<ask, kept, foreign, reconciliation>> /\ collector' = collector
      /\ RowsTyped(Collectors)
      /\ foreign' \subseteq Foreign /\ kept' \subseteq Tickets
  BY DEF TypesInv, RowsTyped, Health, Outage, Ping, CheckFails, CheckPasses, CheckBegins,
         unchecked, creationVars
<1>2. provider' = provider \/ \E v, healthy : healthy \in BOOLEAN /\ Report(v, healthy)
  BY DEF Health, Outage, Ping, CheckFails, CheckPasses, CheckBegins
<1>3. ASSUME NEW v, NEW healthy \in BOOLEAN, Report(v, healthy)
      PROVE  RowsTyped(Collectors)'
  <2> DEFINE y == [provider[v] EXCEPT !.healthy = healthy, !.seen = "recent"]
           z == [provider[v] EXCEPT !.healthy = healthy]
  <2>1. ASSUME v \in Providers
        PROVE  y \in ProviderRecord(Collectors)
    <3>1. provider[v] \in ProviderRecord(Collectors)
      BY <1>1, <2>1 DEF RowsTyped
    <3>2. z \in ProviderRecord(Collectors)
      BY <3>1, FieldWritten
    <3>3. y = [z EXCEPT !.seen = "recent"]
      OBVIOUS
    <3> HIDE DEF z
    <3> QED
      BY <3>2, <3>3, FieldWritten
  <2>2. provider' = [provider EXCEPT ![v] = y]
    BY <1>1, <1>3 DEF Report, RowsTyped
  <2> HIDE DEF y
  <2> QED
    BY <1>1, <2>1, <2>2, RowWritten
<1>4. RowsTyped(Collectors)'
  BY <1>1, <1>2, <1>3, RowsUntouched
<1>5. failures' \in [Checkers -> [Providers -> 0 .. Threshold + 1]]
  <2> DEFINE F == [Checkers -> [Providers -> 0 .. Threshold + 1]]
  <2>1. failures \in F
    BY DEF TypesInv
  <2>2. CASE failures' = failures
    BY <2>1, <2>2
  <2>3. ASSUME NEW r \in Checkers, CheckFails(r) \/ CheckPasses(r)
        PROVE  failures' \in F
    <3> DEFINE v == checker[r].provider
    <3>1. PICK n : /\ failures' = [failures EXCEPT ![r][v] = n]
                   /\ n = 0 \/ n = IF failures[r][v] + 1 > Threshold THEN failures[r][v]
                                   ELSE failures[r][v] + 1
      BY <2>3 DEF CheckFails, CheckPasses
    <3>2. v \in Providers => n \in 0 .. Threshold + 1
      BY <2>1, <3>1 DEF InventoryAssumption
    <3> HIDE DEF v
    <3>3. [failures[r] EXCEPT ![v] = n] \in [Providers -> 0 .. Threshold + 1]
      BY <2>1, <3>2
    <3> QED
      BY <2>1, <3>1, <3>3
  <2>4. \/ failures' = failures
        \/ \E r \in Checkers : CheckFails(r) \/ CheckPasses(r)
    BY DEF Health, Outage, Ping, CheckBegins
  <2> QED
    BY <2>2, <2>3, <2>4
<1>6. LeasesOK'
  BY <1>1 DEF TypesInv, LeasesOK
<1> QED
  BY <1>1, <1>4, <1>5, <1>6, SeenStays DEF TypesInv
-----------------------------------------------------------------------------
(* The collections. *)

(* One collector goes on, on one row at most, and with a lease that agrees. *)
LEMMA CollectionWrites ==
  ASSUME TypesInv, DOMAIN collector = Collectors, UNCHANGED <<ask, failures, kept, foreign>>,
         LeasesOK', RowsTyped(Collectors)',
         \/ collector' = collector
         \/ \E c \in Collectors : \E x :
              x.seen \in SUBSET Listable /\ collector' = [collector EXCEPT ![c] = x]
  PROVE  TypesInv'
<1>1. \A c \in Collectors : (collector[c].seen \in SUBSET Listable)'
  BY SeenStays, SeenRests
<1> QED
  BY <1>1 DEF TypesInv

LEMMA RestingSeen == Resting.seen \in SUBSET Listable
BY DEF Resting

(* A lease is given up, or none is touched. *)
LEMMA LeaseWritten ==
  ASSUME LeasesOK, NEW v, NEW x, DOMAIN x = Lease,
         x.leased => x.status = "running", x.status = "running" <=> x.owner # None,
         reconciliation' = [reconciliation EXCEPT ![v] = x]
  PROVE  LeasesOK'
BY DEF LeasesOK

LEMMA LeaseIdle ==
  ASSUME LeasesOK, NEW v, reconciliation' = [reconciliation EXCEPT ![v] = Idle]
  PROVE  LeasesOK'
<1>1. /\ DOMAIN Idle = Lease /\ Idle.leased = FALSE /\ Idle.status = "none" /\ Idle.owner = None
  BY DEF Idle, Lease
<1> QED
  BY <1>1, LeaseWritten

LEMMA LeasesStay ==
  ASSUME LeasesOK, reconciliation' = reconciliation
  PROVE  LeasesOK'
BY DEF LeasesOK

LEMMA CollectionTypes ==
  ASSUME InventoryAssumption, EvolutionsAssumption, InventoryInv, TypesInv, Collection
  PROVE  TypesInv'
<1>1. /\ LeasesOK /\ RowsTyped(Collectors) /\ DOMAIN collector = Collectors
      /\ foreign \subseteq Foreign /\ kept \subseteq Tickets
      /\ provider \in [Providers -> ProviderRecord(Collectors)]
      /\ \A c \in Collectors : /\ DOMAIN collector[c] = CollectorFields
                               /\ collector[c].pc # "idle" => collector[c].provider \in Providers
                               /\ collector[c].seen \in SUBSET Listable
  BY DEF TypesInv, RowsTyped, InventoryInv, CollectorsOK, ReadOK
<1>2. UNCHANGED <<ask, failures, kept>>
  BY DEF Collection, Request, LeaseExpires, Age, Begin, Collect, Write, Fail, Crash, RowTouched,
         Intrude, uncollected, creationVars
<1>3. ASSUME NEW v \in Providers, Request(v)
      PROVE  TypesInv'
  <2> DEFINE x == [Idle EXCEPT !.status = "pending"]
  <2>1. /\ DOMAIN x = Lease /\ x.leased = FALSE /\ x.status = "pending" /\ x.owner = None
    BY DEF Idle, Lease
  <2>2. /\ reconciliation' = [reconciliation EXCEPT ![v] = x]
        /\ UNCHANGED <<provider, collector, foreign>>
    BY <1>3 DEF Request, uncollected
  <2> HIDE DEF x
  <2>3. LeasesOK'
    BY <1>1, <2>1, <2>2, LeaseWritten
  <2> QED
    BY <1>1, <1>2, <2>2, <2>3, RowsUntouched, CollectionWrites
<1>4. ASSUME NEW c \in Collectors, NEW v \in Providers, Begin(c, v)
      PROVE  TypesInv'
  <2> DEFINE x == [status |-> "running", owner |-> c, leased |-> TRUE]
             y == [provider[v] EXCEPT !.occ = @ \cup {c}]
             z == [Resting EXCEPT !.pc = "collect", !.provider = v, !.rev = provider[v].rev]
  <2>1. DOMAIN x = Lease /\ x.status = "running" /\ x.owner # None
    BY DEF Lease, InventoryAssumption
  <2>2. y \in ProviderRecord(Collectors)
    BY <1>1, FieldWritten
  <2>3. z.seen \in SUBSET Listable
    BY DEF Resting
  <2>4. /\ reconciliation' = [reconciliation EXCEPT ![v] = x]
        /\ provider' = [provider EXCEPT ![v] = y] /\ foreign' = foreign
        /\ collector' = [collector EXCEPT ![c] = z]
    BY <1>1, <1>4 DEF Begin, uncollected
  <2> HIDE DEF x, y, z
  <2>5. LeasesOK'
    BY <1>1, <2>1, <2>4, LeaseWritten
  <2>6. RowsTyped(Collectors)'
    BY <1>1, <1>2, <2>2, <2>4, RowWritten
  <2> QED
    BY <1>1, <1>2, <2>3, <2>4, <2>5, <2>6, CollectionWrites
<1>5. ASSUME NEW c \in Collectors, Collect(c)
      PROVE  TypesInv'
  <2> DEFINE z == [collector[c] EXCEPT !.pc = "write", !.seen = RemoteAt(collector[c].provider)]
  <2>1. z.seen \in SUBSET Listable
    BY <1>1, RemoteIsListable DEF CollectorFields
  <2>2. /\ UNCHANGED <<reconciliation, provider, foreign>>
        /\ collector' = [collector EXCEPT ![c] = z]
    BY <1>1, <1>5 DEF Collect, uncollected
  <2> HIDE DEF z
  <2> QED
    BY <1>1, <1>2, <2>1, <2>2, LeasesStay, RowsUntouched, CollectionWrites
<1>6. ASSUME NEW c \in Collectors, Write(c)
      PROVE  TypesInv'
  <2> DEFINE v == collector[c].provider
  <2>1. PICK touched : provider' = [provider EXCEPT ![v] = Observed(v, collector[c].seen, touched)]
    BY <1>6 DEF Write
  <2>2. /\ v \in Providers /\ collector[c].seen \in SUBSET Listable
        /\ reconciliation' = [reconciliation EXCEPT ![v] = Idle] /\ foreign' = foreign
        /\ collector' = [collector EXCEPT ![c] = Resting]
    BY <1>1, <1>6 DEF Write, uncollected
  <2> DEFINE y == Observed(v, collector[c].seen, touched)
  <2>3. y \in ProviderRecord(Collectors)
    BY <1>1, <2>2, ObservedTypes
  <2> HIDE DEF y
  <2>4. RowsTyped(Collectors)'
    BY <1>1, <1>2, <2>1, <2>2, <2>3, RowWritten DEF y
  <2> HIDE DEF v
  <2> QED
    BY <1>1, <1>2, <2>2, <2>4, LeaseIdle, RestingSeen, CollectionWrites
<1>7. ASSUME NEW c \in Collectors, Fail(c) \/ Crash(c)
      PROVE  TypesInv'
  <2> DEFINE v == collector[c].provider
  <2>1. /\ reconciliation' = reconciliation \/ reconciliation' = [reconciliation EXCEPT ![v] = Idle]
        /\ UNCHANGED <<provider, foreign>> /\ collector' = [collector EXCEPT ![c] = Resting]
    BY <1>7 DEF Fail, Crash, uncollected
  <2> HIDE DEF v
  <2>2. LeasesOK'
    BY <1>1, <2>1, LeaseIdle, LeasesStay
  <2> QED
    BY <1>1, <1>2, <2>1, <2>2, RowsUntouched, RestingSeen, CollectionWrites
<1>8. ASSUME NEW v \in Providers, LeaseExpires(v)
      PROVE  TypesInv'
  <2> DEFINE x == [reconciliation[v] EXCEPT !.leased = FALSE]
  <2>1. /\ DOMAIN x = Lease /\ x.leased = FALSE
        /\ x.status = "running" <=> x.owner # None
    BY <1>1 DEF LeasesOK, Lease
  <2>2. /\ reconciliation' = [reconciliation EXCEPT ![v] = x]
        /\ UNCHANGED <<provider, collector, foreign>>
    BY <1>8 DEF LeaseExpires, uncollected
  <2> HIDE DEF x
  <2>3. LeasesOK'
    BY <1>1, <2>1, <2>2, LeaseWritten
  <2> QED
    BY <1>1, <1>2, <2>2, <2>3, RowsUntouched, CollectionWrites
<1>9. ASSUME NEW v \in Providers, Age(v)
      PROVE  TypesInv'
  <2>1. UNCHANGED <<reconciliation, collector, foreign>>
    BY <1>9 DEF Age, uncollected
  <2>2. PICK y : /\ provider' = [provider EXCEPT ![v] = y]
                 /\ \/ y = [provider[v] EXCEPT !.observed = "old"]
                    \/ y = [provider[v] EXCEPT !.seen = "old"]
    BY <1>9 DEF Age
  <2>3. /\ [provider[v] EXCEPT !.observed = "old"] \in ProviderRecord(Collectors)
        /\ [provider[v] EXCEPT !.seen = "old"] \in ProviderRecord(Collectors)
    <3>1. provider[v] \in ProviderRecord(Collectors)
      BY <1>1
    <3> QED
      BY <3>1, FieldWritten
  <2>4. y \in ProviderRecord(Collectors)
    BY <2>2, <2>3
  <2>5. RowsTyped(Collectors)'
    BY <1>1, <1>2, <2>1, <2>2, <2>4, RowWritten
  <2> QED
    BY <1>1, <1>2, <2>1, <2>5, LeasesStay, CollectionWrites
<1>10. ASSUME NEW t \in Tickets, RowTouched(t)
       PROVE  TypesInv'
  <2> DEFINE v == ask[t].provider
             y == [provider[v] EXCEPT !.absent = @ \ {t}]
  <2>1. UNCHANGED <<reconciliation, collector, foreign>> /\ provider' = [provider EXCEPT ![v] = y]
    BY <1>10 DEF RowTouched, uncollected
  <2>2. v \in Providers => y \in ProviderRecord(Collectors)
    BY <1>1, FieldWritten
  <2> HIDE DEF v, y
  <2>3. RowsTyped(Collectors)'
    BY <1>1, <1>2, <2>1, <2>2, RowWritten
  <2> QED
    BY <1>1, <1>2, <2>1, <2>3, LeasesStay, CollectionWrites
<1>11. ASSUME NEW f \in Foreign, Intrude(f)
       PROVE  TypesInv'
  <2>1. /\ UNCHANGED <<reconciliation, collector, provider>> /\ foreign' \subseteq Foreign
    BY <1>1, <1>11 DEF Intrude
  <2>2. RowsTyped(Collectors)' /\ LeasesOK'
    BY <1>1, <1>2, <2>1, RowsUntouched, LeasesStay
  <2>3. \A c \in Collectors : (collector[c].seen \in SUBSET Listable)'
    BY <1>2, <2>1, SeenStays
  <2> QED
    BY <1>2, <2>2, <2>3 DEF TypesInv
<1> QED
  BY <1>3, <1>4, <1>5, <1>6, <1>7, <1>8, <1>9, <1>10, <1>11 DEF Collection
-----------------------------------------------------------------------------
LEMMA TypesStart ==
  ASSUME InventoryAssumption, WorkloadsAssumption, Init
  PROVE  TypesInv
<1>1. PICK w \in Workloads : Start(w)
  BY DEF Init
<1>2. /\ provider = w.provider /\ w.provider \in [Providers -> RecordOf({}, {}, {})]
      /\ kept \subseteq Tickets /\ foreign = {}
      /\ reconciliation = [v \in Providers |-> Idle]
  BY <1>1 DEF Start, WorkloadsAssumption
<1>3. RecordOf({}, {}, {}) \subseteq ProviderRecord(Collectors)
  BY DEF RecordOf, ProviderRecord
<1>4. RowsTyped(Collectors)
  <2> DEFINE R == RecordOf({}, {}, {})
             S == ProviderRecord(Collectors)
  <2> HIDE DEF R, S
  <2>1. provider \in [Providers -> R] /\ R \subseteq S
    BY <1>2, <1>3 DEF R, S
  <2>2. provider \in [Providers -> S]
    BY <2>1
  <2> QED
    BY <1>2, <2>2 DEF RowsTyped, S
<1>5. LeasesOK
  BY <1>2 DEF LeasesOK, Idle, Lease
<1>6. failures \in [Checkers -> [Providers -> 0 .. Threshold + 1]]
  BY DEF Init, InventoryAssumption
<1>7. \A c \in Collectors : collector[c].seen \in SUBSET Listable
  BY DEF Init, Resting
<1> QED
  BY <1>4, <1>5, <1>6, <1>7 DEF TypesInv

LEMMA TypesKept ==
  ASSUME Assumptions, EditsAssumption, InventoryInv, TypesInv, [Next]_vars
  PROVE  TypesInv'
<1>1. ASSUME UNCHANGED vars
      PROVE  TypesInv'
  <2>1. UNCHANGED <<ask, provider, reconciliation, failures, collector, kept, foreign>>
    BY <1>1 DEF vars, evolutionVars, collectionVars
  <2>2. RowsTyped(Collectors)'
    BY <2>1, RowsUntouched DEF TypesInv, RowsTyped
  <2> QED
    BY <2>1, <2>2, CatalogTypes
<1> QED
  BY <1>1, CollectionTypes, HealthTypes, CreationTypes, AdministrationTypes DEF Next, Assumptions

LEMMA TypesTracked == Spec => []TypesInv
<1>1. Init => TypesInv
  BY TypesStart, InventoryAssumption, WorkloadsAssumption
<1>2. InventoryInv /\ TypesInv /\ [Next]_vars => TypesInv'
  BY TypesKept, EvolutionsAssumption, WorkloadsAssumption, InventoryAssumption, EditsAssumption
     DEF Assumptions
<1> QED
  BY <1>1, <1>2, InventoryTracked, PTL DEF Spec

(* Every row, lease and count has its type: an owner goes with a running collection, and the    *)
(* count of failures stays at most one beyond the threshold.                                    *)
THEOREM InventoryTypes == Spec => []TypeOK
<1>1. TypesInv => TypeOK
  BY TypesAreOK
<1> QED
  BY <1>1, TypesTracked, PTL
-----------------------------------------------------------------------------
(* Admission and what is shown of it. *)

LEMMA NothingBlocks ==
  ASSUME NEW p, NEW v
  PROVE  Readiness(v, provider[v], product[p].relay) = {} <=>
           /\ IdentityConfirmed(provider[v]) /\ Aliases(provider[v].url, v) = {}
           /\ provider[v].active /\ provider[v].host
           /\ provider[v].healthy /\ provider[v].seen = "recent"
           /\ provider[v].status = "ready" /\ InventoryFresh(provider[v])
           /\ product[p].relay => provider[v].callback = "ready"
           /\ ~ReadOccupancy(v).ambiguous
BY DEF Readiness, Blocks

(* A limit leaves room for one more exactly when it is not reached. *)
LEMMA RoomUnlessFull ==
  ASSUME EvolutionsAssumption, RowsTyped(Collectors), NEW v \in Providers
  PROVE  Full(v, provider[v].max)
           <=> ~(provider[v].max # None => ReadOccupancy(v).effective + 1 <= provider[v].max)
<1>1. provider[v].max \in Nat \cup {None}
  BY FieldByField DEF RowsTyped, FieldsTyped
<1>2. ReadOccupancy(v).effective \in Nat
  BY UsedCounts
<1> QED
  BY <1>1, <1>2 DEF Full

LEMMA EligibleMeans ==
  ASSUME NEW p, NEW v
  PROVE  Eligible(p, v) <=>
           /\ link[p][v] # None
           /\ Readiness(v, provider[v], product[p].relay) = {}
           /\ link[p][v].accepting /\ provider[v].accepting
           /\ ~Full(v, provider[v].max)
BY DEF Eligible, LinkBlockers, Blocks

LEMMA AdmissibleMeans ==
  ASSUME NEW p, NEW v, product[p].mode = "capacity", product[p].active, AllocationEnabled
  PROVE  Admissible(p, v, FALSE) <=>
           /\ link[p][v] # None /\ link[p][v].accepting
           /\ provider[v].active /\ provider[v].accepting
           /\ IdentityConfirmed(provider[v]) /\ Aliases(provider[v].url, v) = {}
           /\ provider[v].host /\ IsFresh(provider[v])
           /\ product[p].relay => provider[v].callback = "ready"
           /\ ~ReadOccupancy(v).ambiguous
           /\ provider[v].max # None => ReadOccupancy(v).effective + 1 <= provider[v].max
BY DEF Admissible, Accepts

(* What the administration shows as able to take an instance is what admission lets in: the two  *)
(* count the same occupancy, and a number below the limit leaves room for one more.              *)
THEOREM EligibleAgrees == Spec => []EligibleIsAdmitted
<1>1. ASSUME TypesInv, NEW p \in Products, NEW v \in Providers, product[p].mode = "capacity",
             product[p].active, AllocationEnabled
      PROVE  Eligible(p, v) <=> Admissible(p, v, FALSE)
  <2>1. Full(v, provider[v].max)
           <=> ~(provider[v].max # None => ReadOccupancy(v).effective + 1 <= provider[v].max)
    BY <1>1, EvolutionsAssumption, RoomUnlessFull DEF TypesInv
  <2>2. IsFresh(provider[v]) <=>
           /\ provider[v].healthy /\ provider[v].seen = "recent"
           /\ provider[v].status = "ready" /\ InventoryFresh(provider[v])
    BY DEF IsFresh, InventoryFresh
  <2>3. Readiness(v, provider[v], product[p].relay) = {} <=>
           /\ IdentityConfirmed(provider[v]) /\ Aliases(provider[v].url, v) = {}
           /\ provider[v].active /\ provider[v].host
           /\ provider[v].healthy /\ provider[v].seen = "recent"
           /\ provider[v].status = "ready" /\ InventoryFresh(provider[v])
           /\ product[p].relay => provider[v].callback = "ready"
           /\ ~ReadOccupancy(v).ambiguous
    BY NothingBlocks
  <2>4. Eligible(p, v) <=>
           /\ link[p][v] # None
           /\ Readiness(v, provider[v], product[p].relay) = {}
           /\ link[p][v].accepting /\ provider[v].accepting
           /\ ~Full(v, provider[v].max)
    BY EligibleMeans
  <2>5. Admissible(p, v, FALSE) <=>
           /\ link[p][v] # None /\ link[p][v].accepting
           /\ provider[v].active /\ provider[v].accepting
           /\ IdentityConfirmed(provider[v]) /\ Aliases(provider[v].url, v) = {}
           /\ provider[v].host /\ IsFresh(provider[v])
           /\ product[p].relay => provider[v].callback = "ready"
           /\ ~ReadOccupancy(v).ambiguous
           /\ provider[v].max # None => ReadOccupancy(v).effective + 1 <= provider[v].max
    BY <1>1, AdmissibleMeans
  <2> QED
    BY <2>1, <2>2, <2>3, <2>4, <2>5
<1>2. TypesInv => EligibleIsAdmitted
  BY <1>1 DEF EligibleIsAdmitted
<1> QED
  BY <1>2, TypesTracked, PTL
-----------------------------------------------------------------------------
(* The limit. *)

(* Who is reserved, or sent, in a step is the one admission lets in, or out. *)
LEMMA LetIn ==
  ASSUME CreationsOK, Next, NEW t \in Tickets, phase'[t] # phase[t],
         phase'[t] \in {"reserved", "sent"}
  PROVE  Reserve(t) \/ MarkCreating(t)
<1>1. DOMAIN phase = Tickets
  BY DEF CreationsOK
<1>2. ASSUME Administration \/ Health \/ Collection
      PROVE  phase' = phase
  <2>1. ASSUME Administration
        PROVE  phase' = phase
    BY <2>1 DEF Administration, EditProvider, EditProduct, ConfirmSetup, CallbackReceived,
                CreateRecord, UpdateRecord, UpdateHost, Retire, Attach, Detach, UpdateLink,
                SetAllocation, UpdateProduct, DeactivateProduct, unedited, creationVars
  <2>2. ASSUME Health
        PROVE  phase' = phase
    BY <2>2 DEF Health, Outage, Ping, CheckFails, CheckPasses, CheckBegins, unchecked, creationVars
  <2>3. ASSUME Collection
        PROVE  phase' = phase
    BY <2>3 DEF Collection, Request, LeaseExpires, Age, Begin, Collect, Write, Fail, Crash,
                RowTouched, Intrude, uncollected, creationVars
  <2> QED
    BY <1>2, <2>1, <2>2, <2>3
<1>3. PICK u \in Tickets : Create(u)
  BY <1>2 DEF Next
<1>4. ASSUME ~Reserve(u), ~MarkCreating(u)
      PROVE  \/ phase' = phase
             \/ \E to \in {"released", "committed", "undoing", "failed"} :
                  phase' = [phase EXCEPT ![u] = to]
  BY <1>3, <1>4 DEF Create, Release, Call, Answer, Vanish, Record, Commit, Undo, Drop,
         Creation!Release, Creation!Call, Creation!Answer, Creation!Vanish, Creation!Keep,
         Creation!Commit, Creation!Undo, Creation!Undone, Creation!Discard, Creation!Become
<1>5. Reserve(u) \/ MarkCreating(u)
  BY <1>1, <1>4
<1>6. \E to : phase' = [phase EXCEPT ![u] = to]
  BY <1>5 DEF Reserve, MarkCreating, Creation!Hold, Creation!Dispatch, Creation!Become
<1>7. u = t
  BY <1>1, <1>6
<1> QED
  BY <1>5, <1>7

(* Whoever has a session, or is about to, is open or has a row that counts. *)
LEMMA LoadCounted ==
  ASSUME CreationsOK, RowsOK, NEW v \in Providers
  PROVE  Load(v) \subseteq Counted(v)
<1>1. ASSUME NEW t \in Tickets, ask[t].provider = v, session[t] \in {"flight", "up"}
      PROVE  t \in (RowsAt(v) \ provider[v].absent) \cup OpenAt(v)
  <2>1. phase[t] \in {"sent", "undoing"} \/ t \in kept
    BY <1>1 DEF CreationsOK, PromiseOK, Creation!Phases
  <2>2. t \notin provider[v].absent
    BY <1>1 DEF RowsOK
  <2> QED
    BY <1>1, <2>1, <2>2 DEF RowsAt, OpenAt, Creation!Held
<1> QED
  BY <1>1 DEF Load, Counted

LEMMA LoadGrows ==
  ASSUME CreationsOK, RowsOK, NEW t \in Tickets, Reserve(t) \/ MarkCreating(t),
         NEW v \in Providers, v = ask[t].provider
  PROVE  /\ Load(v)' \subseteq Counted(v) \cup {ask[t].name}
         /\ MarkCreating(t) => Load(v)' \subseteq Counted(v)
<1>1. UNCHANGED <<ask, session, kept>> /\ provider'[v].entries = provider[v].entries
  <2>1. UNCHANGED <<ask, session, kept>> /\ (provider' = provider \/ Advance(v))
    BY DEF Reserve, MarkCreating, Creation!Hold, Creation!Dispatch
  <2>2. Advance(v) => provider'[v].entries = provider[v].entries
    BY AdvanceLearns DEF Advance, RowsOK, ProviderFields
  <2> QED
    BY <2>1, <2>2
<1>2. DOMAIN phase = Tickets
  BY DEF CreationsOK
<1>3. \A u \in Tickets : u # t => phase'[u] = phase[u]
  BY <1>2 DEF Reserve, MarkCreating, Creation!Hold, Creation!Dispatch, Creation!Become
<1>4. OpenAt(v)' \subseteq OpenAt(v) \cup {t}
  BY <1>1, <1>3 DEF OpenAt, Creation!Held
<1>5. MarkCreating(t) => t \in OpenAt(v)
  BY DEF MarkCreating, Creation!Dispatch, Creation!Become, OpenAt, Creation!Held
<1>6. Load(v) \subseteq Counted(v) /\ \A u \in OpenAt(v) : ask[u].name \in Counted(v)
  BY LoadCounted DEF Load, Counted
<1>7. Load(v)' \subseteq Load(v) \cup {ask[u].name : u \in OpenAt(v)'}
  BY <1>1 DEF Load
<1> QED
  BY <1>4, <1>5, <1>6, <1>7

LEMMA AdmittedUnderLimit ==
  ASSUME NEW p, NEW v, NEW own, Admissible(p, v, own), provider[v].max # None
  PROVE  /\ ~ReadOccupancy(v).ambiguous
         /\ ReadOccupancy(v).effective + (IF own THEN 0 ELSE 1) <= provider[v].max
BY DEF Admissible

LEMMA LimitStep ==
  ASSUME EvolutionsAssumption, InventoryInv, TypesInv, Next, NEW t \in Tickets,
         phase'[t] # phase[t], phase'[t] \in {"reserved", "sent"},
         NEW v, v = ask[t].provider, provider[v].max # None
  PROVE  Cardinality(Load(v)') <= provider[v].max
<1> DEFINE max == provider[v].max
           n == ReadOccupancy(v).effective
           S == Counted(v)
<1>1. CreationsOK /\ RowsOK /\ RowsTyped(Collectors) /\ v \in Providers
  BY DEF InventoryInv, TypesInv, CreationsOK
<1>2. max \in Nat
  BY <1>1, FieldByField DEF RowsTyped, FieldsTyped
<1>3. /\ n \in Nat
      /\ ~ReadOccupancy(v).ambiguous => IsFiniteSet(S) /\ Cardinality(S) = n
  BY <1>1, UsedCounts
<1>4. \/ Reserve(t) /\ Admissible(ProductOf(t), v, FALSE)
      \/ MarkCreating(t) /\ Admissible(ProductOf(t), v, TRUE)
  BY <1>1, LetIn DEF Reserve, MarkCreating, Admit
<1>5. /\ IsFiniteSet(S) /\ Cardinality(S) = n
      /\ \/ Reserve(t) /\ n + 1 <= max
         \/ MarkCreating(t) /\ n <= max
  <2>1. CASE Reserve(t) /\ Admissible(ProductOf(t), v, FALSE)
    <3>1. ~ReadOccupancy(v).ambiguous /\ n + (IF FALSE THEN 0 ELSE 1) <= max
      BY <2>1, AdmittedUnderLimit
    <3> QED
      BY <1>3, <2>1, <3>1
  <2>2. CASE MarkCreating(t) /\ Admissible(ProductOf(t), v, TRUE)
    <3>1. ~ReadOccupancy(v).ambiguous /\ n + (IF TRUE THEN 0 ELSE 1) <= max
      BY <2>2, AdmittedUnderLimit
    <3> HIDE DEF n, max
    <3> QED
      BY <1>2, <1>3, <2>2, <3>1
  <2> QED
    BY <1>4, <2>1, <2>2
<1>6. /\ Load(v)' \subseteq S \cup {ask[t].name}
      /\ MarkCreating(t) => Load(v)' \subseteq S
  BY <1>1, <1>4, LoadGrows
<1> HIDE DEF max, n, S
<1>7. /\ IsFiniteSet(S \cup {ask[t].name})
      /\ Cardinality(S \cup {ask[t].name}) \in {n, n + 1}
  BY <1>3, <1>5, FS_AddElement
<1>8. ASSUME NEW T, IsFiniteSet(T), Load(v)' \subseteq T
      PROVE  Cardinality(Load(v)') \in Nat /\ Cardinality(Load(v)') <= Cardinality(T)
  BY <1>8, FS_Subset, FS_CardinalityType
<1>9. CASE MarkCreating(t) /\ n <= max
  <2>1. Cardinality(Load(v)') \in Nat /\ Cardinality(Load(v)') <= n
    BY <1>5, <1>6, <1>8, <1>9
  <2> QED
    BY <1>2, <1>3, <1>9, <2>1 DEF max
<1>10. CASE Reserve(t) /\ n + 1 <= max
  <2>1. /\ Cardinality(Load(v)') \in Nat
        /\ Cardinality(Load(v)') <= Cardinality(S \cup {ask[t].name})
    BY <1>6, <1>7, <1>8
  <2> QED
    BY <1>2, <1>3, <1>7, <1>10, <2>1 DEF max
<1> QED
  BY <1>5, <1>9, <1>10

(* A creation let in, or out to the provider, keeps within the limit every name with a place     *)
(* there: the sessions and calls under way, the reservations and whatever the inventory listed.  *)
THEOREM LimitIsKept == Spec => LimitKept
<1>1. ASSUME InventoryInv, TypesInv, [Next]_vars
      PROVE  [\A t \in Tickets :
                LET v == ask[t].provider
                IN phase'[t] # phase[t] /\ phase'[t] \in {"reserved", "sent"}
                     /\ provider[v].max # None
                   => Cardinality(Load(v)') <= provider[v].max]_vars
  <2>1. CASE UNCHANGED vars
    BY <2>1
  <2>2. ASSUME Next, NEW t \in Tickets, phase'[t] # phase[t], phase'[t] \in {"reserved", "sent"},
               provider[ask[t].provider].max # None
        PROVE  Cardinality(Load(ask[t].provider)') <= provider[ask[t].provider].max
    <3>1. PICK v : v = ask[t].provider
      OBVIOUS
    <3>2. Cardinality(Load(v)') <= provider[v].max
      BY <1>1, <2>2, <3>1, EvolutionsAssumption, LimitStep
    <3>3. ask'[t] = ask[t]
      BY <1>1, <2>2, LetIn DEF InventoryInv, Reserve, MarkCreating, Creation!Hold, Creation!Dispatch
    <3> QED
      BY <3>1, <3>2, <3>3 DEF Load
  <2> QED
    BY <1>1, <2>1, <2>2
<1> QED
  BY <1>1, InventoryTracked, TypesTracked, PTL DEF Spec, LimitKept
=============================================================================
