---------------------------- MODULE RelayProofs ----------------------------
(***************************************************************************)
(* The proof that the relay neither loses nor misdelivers what it stored,  *)
(* for any number of events, receivers, recovery scans and creations.      *)
(*                                                                         *)
(* Nothing in the relay is locked, so a scan works on rows that others     *)
(* have moved on.  What saves it is that an event only moves forward:      *)
(* once it has its instance, or a job, or was delivered, no step takes     *)
(* that back (Forward), and a scan relies on nothing else of its rows      *)
(* (ScanInv).                                                              *)
(***************************************************************************)
EXTENDS Relay, TLAPS, FiniteSetTheorems, WellFoundedInduction

(* What is below a smaller number. *)
LEMMA Smaller ==
  ASSUME NEW S \in SUBSET Nat, NEW x \in S, NEW y \in S, y < x
  PROVE  LET Below(n) == {m \in S : m < n}
         IN Below(y) \subseteq Below(x) /\ y \in Below(x) /\ y \notin Below(y)
<1>1. x \in Nat /\ y \in Nat
  OBVIOUS
<1>2. ASSUME NEW z \in S, z < y
      PROVE  z < x
  <2>1. z \in Nat
    OBVIOUS
  <2> QED
    BY <1>1, <1>2, <2>1
<1>3. ~(y < y)
  BY <1>1
<1> QED
  BY <1>2, <1>3

(* A set of natural numbers has a least element: what is below it is least. *)
LEMMA Least ==
  ASSUME NEW S \in SUBSET Nat, S # {}
  PROVE  \E x \in S : \A y \in S : x <= y
<1> DEFINE Below(x) == {y \in S : y < x}
<1>1. ASSUME NEW x \in S
      PROVE  Below(x) \in FiniteSubsetsOf(S)
  <2>1. /\ Below(x) \in SUBSET Nat /\ x \in Nat
        /\ \A y \in Below(x) : y <= x
    <3>1. \A y \in Below(x) : y <= x
      OBVIOUS
    <3> QED
      BY <3>1
  <2>2. IsFiniteSet(Below(x))
    <3> HIDE DEF Below
    <3> QED
      BY <2>1, FS_BoundedSetOfNaturals
  <2> QED
    BY <2>2 DEF FiniteSubsetsOf
<1> DEFINE T == {Below(x) : x \in S}
           R == StrictSubsetOrdering(S)
<1>2. PICK B \in T : \A C \in T : ~(<<C, B>> \in R)
  <2>1. T # {} /\ T \subseteq FiniteSubsetsOf(S)
    <3> HIDE DEF Below
    <3> QED
      BY <1>1
  <2> HIDE DEF T
  <2> QED
    BY <2>1, FS_StrictSubsetOrderingWellFounded, WFMin
<1>3. PICK x \in S : B = Below(x)
  BY <1>2
<1>4. ASSUME NEW y \in S
      PROVE  x <= y
  <2>1. SUFFICES ASSUME y < x
                 PROVE  FALSE
    OBVIOUS
  <2> HIDE DEF T, R
  <2>2. Below(y) \subseteq Below(x) /\ y \in Below(x) /\ y \notin Below(y)
    BY <2>1, Smaller
  <2>3. <<Below(y), Below(x)>> \in R
    <3> HIDE DEF Below
    <3>1. Below(y) \subseteq S /\ Below(x) \subseteq S
      BY <1>1 DEF FiniteSubsetsOf
    <3> QED
      BY <2>2, <3>1 DEF R, StrictSubsetOrdering
  <2>4. Below(y) \in T
    BY DEF T
  <2> QED
    BY <1>2, <1>3, <2>3, <2>4
<1> QED
  BY <1>4

(* A bounded one has a greatest. *)
LEMMA Greatest ==
  ASSUME NEW S \in SUBSET Nat, S # {}, NEW b \in Nat, \A x \in S : x <= b
  PROVE  \E x \in S : \A y \in S : y <= x
<1> DEFINE Bounds == {n \in Nat : \A x \in S : x <= n}
<1>1. PICK m \in Bounds : \A n \in Bounds : m <= n
  <2>1. Bounds \in SUBSET Nat /\ Bounds # {}
    OBVIOUS
  <2> QED
    BY <2>1, Least
<1>2. m \in S
  <2>1. SUFFICES ASSUME m \notin S PROVE FALSE
    OBVIOUS
  <2>2. ASSUME NEW x \in S
        PROVE  x < m
    <3>1. x \in Nat /\ x <= m /\ x # m
      BY <2>1
    <3> QED
      BY <3>1
  <2>3. m \in Nat /\ m # 0
    <3>1. PICK x \in S : x \in Nat
      OBVIOUS
    <3> QED
      BY <3>1, <2>2
  <2>4. ASSUME NEW x \in S
        PROVE  x <= m - 1
    BY <2>2, <2>3
  <2>5. m - 1 \in Bounds
    BY <2>3, <2>4
  <2> QED
    BY <1>1, <2>3, <2>5
<1> QED
  BY <1>1, <1>2

(* Of the rows of a scan there is a last one, however many events wait to be read. *)
LEMMA LastOfPage ==
  ASSUME NEW due \in SUBSET Nat,
         NEW rows, rows = {e \in due : Cardinality({f \in due : f < e}) < Take},
         rows # {}
  PROVE  Max(rows) \in rows
<1> DEFINE Below(e) == {f \in due : f < e}
           Counts == {Cardinality(Below(e)) : e \in rows}
<1>1. ASSUME NEW e \in due
      PROVE  IsFiniteSet(Below(e)) /\ Cardinality(Below(e)) \in Nat
  <2>1. \A f \in Below(e) : f <= e
    OBVIOUS
  <2>2. Below(e) \in SUBSET Nat /\ e \in Nat
    OBVIOUS
  <2> HIDE DEF Below
  <2> QED
    BY <2>2, <2>1, FS_BoundedSetOfNaturals, FS_CardinalityType
<1>2. PICK c \in Counts : \A d \in Counts : d <= c
  <2>1. Counts \in SUBSET Nat /\ Counts # {} /\ \A d \in Counts : d <= Take
    <3>1. \A e \in rows : e \in due /\ Cardinality(Below(e)) < Take
      OBVIOUS
    <3> HIDE DEF Below
    <3>2. \A e \in rows : Cardinality(Below(e)) \in Nat /\ Cardinality(Below(e)) <= Take
      BY <1>1, <3>1, QueueAssumption
    <3> QED
      BY <3>2
  <2> QED
    BY <2>1, Greatest, QueueAssumption
<1>3. PICK x \in rows : c = Cardinality(Below(x))
  BY <1>2
<1>4. ASSUME NEW y \in rows
      PROVE  x >= y
  <2>1. SUFFICES ASSUME y > x
                 PROVE  FALSE
    OBVIOUS
  <2>2. Below(x) \in SUBSET Below(y) /\ x \in Below(y) /\ x \notin Below(x)
    BY <2>1, Smaller
  <2>3. Cardinality(Below(y)) > Cardinality(Below(x))
    <3> HIDE DEF Below
    <3> QED
    BY <1>1, <2>2, FS_Subset
  <2>4. Cardinality(Below(y)) <= c
    BY <1>2
  <2> QED
    BY <1>1, <1>3, <2>3, <2>4
<1> QED
  BY <1>4 DEF Max

(* The row a scan is at is one it has read. *)
LEMMA ItemRead ==
  ASSUME NEW r, page[r] \subseteq [event : Events, was : {"pending", "waiting"}], page[r] # {}
  PROVE  Item(r) \in page[r] /\ Item(r).event \in Events
<1> DEFINE S == {item.event : item \in page[r]}
<1>1. S \in SUBSET Nat /\ S # {}
  <2>1. \A item \in page[r] : item.event \in Nat
    BY EventsAssumption
  <2> QED
    BY <2>1
<1>2. PICK x \in S : \A y \in S : x <= y
  BY <1>1, Least
<1>3. \E item \in page[r] : \A other \in page[r] : item.event <= other.event
  BY <1>2
<1> QED
  BY <1>3 DEF Item

-----------------------------------------------------------------------------
Published(e) == state[e] \notin {"none", "waiting"}

(* What holds of an event, wherever it is. *)
EventAt(e) ==
  /\ state[e] = "none" => inst[e] = None
  /\ hasId[e] /\ inst[e] # None => inst[e] = source[e]
  /\ pc[e] \in {"validate", "retain", "add", "mark"} => Published(e) /\ inst[e] \in Tickets
  /\ pc[e] = "mark" => job[e] # "none"
  /\ e \in late \/ posts[e] > 0 \/ state[e] = "queued" => job[e] # "none"
  /\ job[e] # "none" => Published(e)

EventInv == kept \subseteq Tickets /\ \A e \in Events : EventAt(e)

(* What holds of the row a scan is at, which others may have moved on since it was read. *)
Scanned(r) ==
  /\ \A item \in page[r] : item.was = "pending" => Published(item.event)
  /\ LET e == Item(r).event
     IN /\ pc[r] \in {"validate", "add", "mark"} => Published(e) /\ inst[e] \in Tickets
        /\ pc[r] = "mark" => job[e] # "none"
        /\ pc[r] = "promote" /\ hasId[e] => intent[e] = source[e]

ScanInv == \A r \in Replicas : Scanned(r)

(* What the product was sent stays within what its job was tried and revived. *)
Budget(e) ==
  /\ job[e] \in {"none", "ready"} \cup Running => tries[e] < Attempts
  /\ job[e] \in {"none", "ready", "validate", "post", "markRetained"} => posts[e] <= tries[e] + stalls[e]
  /\ job[e] = "markDelivered" => posts[e] <= tries[e] + stalls[e] + 1
  /\ posts[e] <= Attempts + MaxStalls

(* What is recorded as delivered, or about to be, was received. *)
Received(e) ==
  state[e] = "delivered" \/ job[e] = "markDelivered" => posts[e] > 0 \/ Destination(e) = "off"

SentInv == \A e \in Events : Budget(e) /\ Received(e)

Rows == [event : Events, was : {"pending", "waiting"}]
Busy == \A r \in Replicas : pc[r] \notin {"idle", "done"} <=> page[r] # {}

(* A publisher at work has an event that is stored. *)
LEMMA EventAtHand ==
  ASSUME TypeOK, NEW p \in Publishers, pc[p] \notin {"idle", "done"}
  PROVE  /\ EventOf(p) \in Events
         /\ p \in Replicas => p \notin Events /\ Item(p) \in page[p] /\ EventOf(p) = Item(p).event
                              /\ state[EventOf(p)] # "none"
<1>1. CASE p \in Events
  BY <1>1, EventsAssumption DEF EventOf
<1>2. CASE p \in Replicas
  <2>1. page[p] \subseteq Rows /\ page[p] # {}
    BY <1>2 DEF TypeOK, Rows
  <2>2. Item(p) \in page[p] /\ Item(p).event \in Events
    BY <2>1, ItemRead DEF Rows
  <2> QED
    BY <1>2, <2>2, EventsAssumption DEF EventOf, TypeOK
<1> QED
  BY <1>1, <1>2 DEF Publishers

(* What it is to move on: to a step, or to the next row. *)
Moves(p) ==
  /\ pc' \in [Publishers -> Steps] /\ page' \in [Replicas -> SUBSET Rows] /\ Busy'
  /\ \A q \in Publishers : q # p => pc'[q] = pc[q]
  /\ \A r \in Replicas : page'[r] \subseteq page[r]
  /\ \A r \in Replicas : r # p => page'[r] = page[r]

LEMMA GotoMoves ==
  ASSUME TypeOK, NEW p \in Publishers, pc[p] \notin {"idle", "done"},
         NEW step \in Steps \ {"idle", "done"}, Goto(p, step)
  PROVE  Moves(p) /\ pc'[p] = step /\ page' = page
BY DEF TypeOK, Goto, Moves, Busy, Rows, Publishers

LEMMA AdvanceMoves ==
  ASSUME TypeOK, NEW p \in Publishers, pc[p] \notin {"idle", "done"}, Advance(p)
  PROVE  Moves(p) /\ pc'[p] \in {"idle", "done", "item"} /\ (p \in Events => pc'[p] = "done")
<1>1. CASE p \in Events
  <2>1. p \notin Replicas /\ page' = page /\ pc' = [pc EXCEPT ![p] = "done"]
    BY <1>1, EventsAssumption DEF Advance
  <2> QED
    BY <1>1, <2>1 DEF TypeOK, Moves, Busy, Rows, Publishers, Steps
<1>2. CASE p \in Replicas
  <2>1. /\ p \notin Events
        /\ page' = [page EXCEPT ![p] = @ \ {Item(p)}]
        /\ pc' = [pc EXCEPT ![p] = IF page'[p] = {} THEN "idle" ELSE "item"]
    BY <1>2, EventsAssumption DEF Advance
  <2>2. page' \in [Replicas -> SUBSET Rows] /\ pc' \in [Publishers -> Steps]
    BY <2>1 DEF TypeOK, Rows, Steps
  <2> QED
    BY <1>2, <2>1, <2>2 DEF TypeOK, Moves, Busy, Publishers
<1> QED
  BY <1>1, <1>2 DEF Publishers

(* What changes of a stored event, and what does not. *)
Settles ==
  /\ state' \in [Events -> EventStates] /\ inst' \in [Events -> Tickets \cup {None}]
  /\ \A e \in Events :
       /\ state'[e] = "none" <=> state[e] = "none"
       /\ state'[e] = "waiting" => state[e] = "waiting"
       /\ state'[e] \in {"pending", "queued", "delivered", "failed"} => inst'[e] \in Tickets
       /\ inst[e] \in Tickets => inst'[e] \in Tickets

LEMMA StateSettles ==
  ASSUME TypeOK, NEW e \in Events, NEW to \in EventStates \ {"none", "waiting"},
         state[e] # "none", state' = [state EXCEPT ![e] = to],
         inst' = inst \/ \E t \in Tickets : inst' = [inst EXCEPT ![e] = t],
         to \in {"pending", "queued", "delivered", "failed"} => inst'[e] \in Tickets
  PROVE  Settles
<1>1. state' \in [Events -> EventStates] /\ inst' \in [Events -> Tickets \cup {None}]
  BY DEF TypeOK
<1> QED
  BY <1>1 DEF TypeOK, Settles

LEMMA StillSettles ==
  ASSUME TypeOK, UNCHANGED <<state, inst>>
  PROVE  Settles
BY DEF TypeOK, Settles

LEMMA MarkSettles ==
  ASSUME TypeOK, NEW e \in Events, NEW to \in {"retained", "delivered", "failed"},
         state[e] # "none", UNCHANGED inst, MarkEvent(e, to), to # "retained" => inst[e] \in Tickets
  PROVE  Settles
<1>1. PICK s \in {"delivered", to} : /\ state' = [state EXCEPT ![e] = s]
                                     /\ s = "delivered" => state[e] = "delivered" \/ to = s
  BY DEF MarkEvent
<1>2. s \in EventStates \ {"none", "waiting"} /\ (s # "retained" => inst'[e] \in Tickets)
  BY <1>1 DEF EventStates, TypeOK
<1> QED
  BY <1>1, <1>2, StateSettles

(* The types follow from what a step may do to each variable. *)
Queues ==
  /\ job' \in [Events -> JobStates]
  /\ tries' \in [Events -> 0 .. Attempts]
  /\ stalls' \in [Events -> 0 .. MaxStalls]
  /\ late' \subseteq Events
  /\ posts' \in [Events -> Nat]
  /\ \A e \in Events : job'[e] # "none" => inst[e] \in Tickets /\ state[e] # "none"

Walks ==
  /\ pc' \in [Publishers -> Steps] /\ page' \in [Replicas -> SUBSET Rows] /\ Busy'
  /\ \A e \in Events : pc'[e] = pc[e] \/ ({pc[e], pc'[e]} \cap {"idle", "sent"} = {} /\ pc'[e] # "accept")
  /\ \A r \in Replicas : page'[r] \subseteq page[r]

LEMMA SameQueues ==
  ASSUME TypeOK, UNCHANGED queueVars
  PROVE  Queues
BY DEF TypeOK, Queues, queueVars

LEMMA SameWalks ==
  ASSUME TypeOK, UNCHANGED <<pc, page>>
  PROVE  Walks
BY DEF TypeOK, Walks, Busy, Rows

LEMMA TypesKept ==
  ASSUME TypeOK, Settles, Queues, Walks, UNCHANGED <<known, source, hasId, intent, cursor>>,
         seen' \in [Events -> SUBSET Tickets]
  PROVE  TypeOK'
<1>1. ASSUME NEW e \in Events
      PROVE  /\ pc'[e] # "idle" => source'[e] \in Tickets
             /\ state'[e] # "none" => pc'[e] \notin {"idle", "sent", "accept"}
             /\ state'[e] = "waiting" => intent'[e] \in Tickets
             /\ state'[e] \in {"pending", "queued", "delivered", "failed"} => inst'[e] \in Tickets
             /\ job'[e] # "none" => inst'[e] \in Tickets /\ state'[e] # "none"
  <2>1. pc'[e] # "idle" => pc[e] # "idle"
    BY DEF Walks
  <2>2. pc'[e] \in {"idle", "sent", "accept"} => pc[e] = pc'[e]
    BY DEF Walks
  <2> QED
    BY <2>1, <2>2 DEF TypeOK, Settles, Queues
<1>2. ASSUME NEW r \in Replicas, NEW item \in page'[r]
      PROVE  state'[item.event] # "none" /\ (item.was = "pending" => inst'[item.event] \in Tickets)
  <2>1. item \in page[r] /\ item.event \in Events
    BY DEF Walks, TypeOK
  <2> QED
    BY <2>1 DEF Settles, TypeOK
<1>3. /\ known' \subseteq Tickets
      /\ source' \in [Events -> Tickets \cup {None}]
      /\ hasId' \in [Events -> BOOLEAN]
      /\ intent' \in [Events -> Tickets \cup {None}]
      /\ cursor' \in [Replicas -> Events \cup {0}]
  BY DEF TypeOK
<1> QED
  BY <1>1, <1>2, <1>3 DEF TypeOK, Settles, Queues, Walks, Busy, Rows

(* Whoever publishes an event has stored it, and has the instance unless it gives the event up. *)
LEMMA PublishedAtHand ==
  ASSUME TypeOK, EventInv, ScanInv, NEW p \in Publishers, pc[p] \in {"validate", "retain", "add", "mark"}
  PROVE  /\ state[EventOf(p)] # "none"
         /\ pc[p] # "retain" => Published(EventOf(p)) /\ inst[EventOf(p)] \in Tickets
         /\ pc[p] = "mark" => job[EventOf(p)] # "none"
<1>1. CASE p \in Events
  BY <1>1 DEF EventInv, EventAt, EventOf, Published
<1>2. CASE p \in Replicas
  BY <1>2, EventAtHand DEF ScanInv, Scanned
<1> QED
  BY <1>1, <1>2 DEF Publishers

(* What the worker does to the queue. *)
LEMMA WorkQueues ==
  ASSUME TypeOK, EventInv, SentInv, NEW e \in Events, job[e] \in {"ready"} \cup Running,
         (\E to \in JobStates \ {"none"} : Work(e, to)) \/ Complete(e) \/ Fail(e) \/ Stall(e),
         posts' = posts \/ posts' = [posts EXCEPT ![e] = @ + 1]
  PROVE  Queues
<1> USE QueueAssumption
<1>1. tries[e] + 1 \in 0 .. Attempts /\ (stalls[e] < MaxStalls => stalls[e] + 1 \in 0 .. MaxStalls)
  <2>1. tries[e] \in Nat /\ tries[e] < Attempts /\ stalls[e] \in Nat
    BY DEF TypeOK, SentInv, Budget
  <2> QED
    BY <2>1
<1>2. posts' \in [Events -> Nat]
  BY DEF TypeOK
<1>3. /\ \E to \in JobStates \ {"none"} : job' = [job EXCEPT ![e] = to]
      /\ tries' \in [Events -> 0 .. Attempts]
      /\ stalls' \in [Events -> 0 .. MaxStalls]
      /\ late' \subseteq Events
  <2>1. CASE \E to \in JobStates \ {"none"} : Work(e, to)
    BY <2>1 DEF Work, TypeOK
  <2>2. CASE Fail(e)
    <3>1. \E to \in {"dead", "ready"} : job' = [job EXCEPT ![e] = to]
      BY <2>2 DEF Fail, End
    <3>2. /\ tries' \in {[tries EXCEPT ![e] = @ + 1], [tries EXCEPT ![e] = 0]}
          /\ stalls' \in {stalls, [stalls EXCEPT ![e] = 0]}
          /\ late' \in {late, late \cup {e}}
      BY <2>2 DEF Fail, End
    <3>3. tries' \in [Events -> 0 .. Attempts] /\ stalls' \in [Events -> 0 .. MaxStalls]
      BY <1>1, <3>2 DEF TypeOK
    <3> QED
      BY <3>1, <3>2, <3>3 DEF JobStates, TypeOK
  <2>3. CASE Stall(e)
    BY <1>1, <2>3 DEF Stall, End, JobStates, TypeOK
  <2>4. CASE Complete(e)
    <3>1. /\ job' = [job EXCEPT ![e] = "done"] /\ late' = late
          /\ tries' = [tries EXCEPT ![e] = 0] /\ stalls' = [stalls EXCEPT ![e] = 0]
      BY <2>4 DEF Complete, End
    <3>2. tries' \in [Events -> 0 .. Attempts] /\ stalls' \in [Events -> 0 .. MaxStalls]
      BY <3>1 DEF TypeOK
    <3> QED
      BY <3>1, <3>2 DEF JobStates, TypeOK
  <2> QED
    BY <2>1, <2>2, <2>3, <2>4
<1>4. inst[e] \in Tickets /\ state[e] # "none"
  BY DEF TypeOK, Running
<1>5. job' \in [Events -> JobStates] /\ \A f \in Events : f # e => job'[f] = job[f]
  BY <1>3 DEF TypeOK
<1> QED
  BY <1>2, <1>3, <1>4, <1>5 DEF TypeOK, Queues

LEMMA WorkSteps ==
  ASSUME NEW e \in Events, Deliver(e) \/ WorkThrow(e) \/ Stall(e)
  PROVE  /\ job[e] \in {"ready"} \cup Running
         /\ (\E to \in JobStates \ {"none"} : Work(e, to)) \/ Complete(e) \/ Fail(e) \/ Stall(e)
         /\ posts' = posts \/ posts' = [posts EXCEPT ![e] = @ + 1]
         /\ UNCHANGED <<creationVars, fixedVars, source, hasId, intent, inst, pc, seen, scanVars>>
         /\ \/ UNCHANGED state
            \/ MarkEvent(e, "delivered") /\ job[e] = "markDelivered"
            \/ MarkEvent(e, "retained")
<1>1. CASE Deliver(e)
  BY <1>1 DEF Deliver, Start, WorkValidate, Post, Posted, Mark, JobStates, Running, eventVars
<1>2. CASE WorkThrow(e) \/ Stall(e)
  BY <1>2 DEF WorkThrow, Stall, Running, eventVars
<1> QED
  BY <1>1, <1>2

(* Every step keeps the types. *)
LEMMA TypeStep == TypeOK /\ EventInv /\ ScanInv /\ SentInv /\ [Next]_vars => TypeOK'
<1> SUFFICES ASSUME TypeOK, EventInv, ScanInv, SentInv, [Next]_vars
             PROVE  TypeOK'
  OBVIOUS
<1> USE EventsAssumption, QueueAssumption
<1>1. CASE UNCHANGED <<eventVars, pc, seen, scanVars, queueVars, known>>
  BY <1>1, StillSettles, SameQueues, SameWalks, TypesKept DEF TypeOK, eventVars, scanVars
<1>2. ASSUME NEW e \in Events, Receive(e)
      PROVE  TypeOK'
  <2>1. CASE Emit(e)
    BY <2>1 DEF Emit, TypeOK, creationVars, fixedVars, scanVars, queueVars, Publishers, Steps
  <2>2. CASE ReadInstances(e)
    BY <2>2 DEF ReadInstances, TypeOK, EventInv, creationVars, fixedVars, eventVars, scanVars, queueVars,
                Publishers, Steps
  <2>3. CASE Accept(e)
    <3>1. PICK to \in {"pending", "waiting", "retained"}, t \in Tickets \cup {None},
               i \in Tickets \cup {None} :
            /\ Store(e, to, t, i)
            /\ to = "pending" => i \in Tickets
            /\ to = "waiting" => t \in Tickets
      BY <2>3 DEF Accept, EventInv
    <3> QED
      BY <2>3, <3>1 DEF Accept, Store, TypeOK, EventInv, EventAt, Published, creationVars, fixedVars, scanVars,
           queueVars, Publishers, Steps, EventStates
  <2> QED
    BY <1>2, <2>1, <2>2, <2>3 DEF Receive
<1>3. ASSUME NEW p \in Publishers, Publish(p) \/ Throw(p)
      PROVE  TypeOK'
  <2> DEFINE e == EventOf(p)
  <2>1. pc[p] \notin {"idle", "done"} /\ UNCHANGED <<known, source, hasId, intent, inst, cursor>>
    BY <1>3 DEF Publish, Validate, Retain, Add, MarkQueued, Throw, fixedVars, eventVars
  <2>2. e \in Events
    BY <2>1, EventAtHand
  <2>3. CASE Validate(p)
    <3>1. Moves(p) /\ pc'[p] \in {"add", "retain"}
      BY <2>1, <2>3, GotoMoves DEF Validate, Steps
    <3>2. Walks
      BY <2>3, <3>1 DEF Validate, Walks, Moves, Publishers
    <3> QED
      BY <2>1, <2>3, <3>2, StillSettles, SameQueues, TypesKept DEF Validate, eventVars, TypeOK
  <2>4. CASE Retain(p)
    <3>1. Moves(p) /\ (p \in Events => pc'[p] = "done")
      BY <2>1, <2>4, AdvanceMoves DEF Retain
    <3>2. Walks
      BY <2>4, <3>1 DEF Retain, Walks, Moves, Publishers
    <3>3. Settles
      BY <2>1, <2>2, <2>4, PublishedAtHand, MarkSettles DEF Retain
    <3> QED
      BY <2>1, <2>4, <3>2, <3>3, SameQueues, TypesKept DEF Retain, TypeOK
  <2>5. CASE Add(p)
    <3>1. Moves(p) /\ pc'[p] = "mark"
      BY <2>1, <2>5, GotoMoves DEF Add, Steps
    <3>2. Walks
      BY <2>5, <3>1 DEF Add, Walks, Moves, Publishers
    <3>3. state[e] # "none" /\ inst[e] \in Tickets
      BY <2>5, PublishedAtHand DEF Add
    <3>4. Queues
      BY <2>2, <2>5, <3>3 DEF Add, Enqueued, Queues, TypeOK, JobStates
    <3> QED
      BY <2>1, <2>5, <3>2, <3>4, StillSettles, TypesKept DEF Add, eventVars, TypeOK
  <2>6. CASE MarkQueued(p)
    <3>1. Moves(p) /\ (p \in Events => pc'[p] = "done")
      BY <2>1, <2>6, AdvanceMoves DEF MarkQueued
    <3>2. Walks
      BY <2>6, <3>1 DEF MarkQueued, Walks, Moves, Publishers
    <3>3. Published(e) /\ inst[e] \in Tickets
      BY <2>6, PublishedAtHand DEF MarkQueued
    <3>4. PICK to \in EventStates \ {"none", "waiting"} : state' = [state EXCEPT ![e] = to]
      BY <2>2, <2>6, <3>3 DEF MarkQueued, TypeOK, EventStates, Published
    <3>5. Settles
      BY <2>1, <2>2, <3>3, <3>4, StateSettles DEF Published
    <3> QED
      BY <2>1, <2>6, <3>2, <3>5, SameQueues, TypesKept DEF MarkQueued, TypeOK
  <2>7. CASE Throw(p)
    <3>1. Moves(p) /\ (p \in Events => pc'[p] = "done")
      BY <2>1, <2>7, AdvanceMoves DEF Throw
    <3>2. Walks
      BY <2>1, <2>7, <3>1 DEF Throw, Walks, Moves, Publishers
    <3>3. seen' \in [Events -> SUBSET Tickets]
      BY <2>7 DEF Throw, TypeOK
    <3> QED
      BY <2>1, <2>7, <3>2, <3>3, StillSettles, SameQueues, TypesKept DEF Throw, eventVars
  <2> QED
    BY <1>3, <2>3, <2>4, <2>5, <2>6, <2>7 DEF Publish
<1>4. ASSUME NEW r \in Replicas, Scan(r)
      PROVE  TypeOK'
  <2> DEFINE due == {e \in Events : state[e] \in {"pending", "waiting"} /\ e > cursor[r]}
             rows == {e \in due : Cardinality({f \in due : f < e}) < Take}
             read == {[event |-> e, was |-> state[e]] : e \in rows}
  <2>1. /\ page' = [page EXCEPT ![r] = read]
        /\ cursor' = [cursor EXCEPT ![r] = CursorAfter(r, rows)]
        /\ pc' = [pc EXCEPT ![r] = IF rows = {} THEN "idle" ELSE "item"]
    BY <1>4 DEF Scan
  <2>2. rows \subseteq due /\ due \subseteq Events
    OBVIOUS
  <2>3. CursorAfter(r, rows) \in Events \cup {0}
    <3>1. rows # {} => Max(rows) \in rows
      <4>1. due \in SUBSET Nat
        BY <2>2
      <4> HIDE DEF due
      <4> QED
        BY <4>1, LastOfPage
    <3> HIDE DEF rows, due
    <3> QED
      BY <2>2, <3>1 DEF CursorAfter
  <2>4. \A e \in rows : state[e] \in {"pending", "waiting"}
    OBVIOUS
  <2>5. \A e \in rows : [event |-> e, was |-> state[e]] \in Rows
    BY <2>2, <2>4 DEF Rows
  <2>6. read \in SUBSET Rows /\ (rows = {} <=> read = {})
    <3> HIDE DEF rows, due
    <3> QED
      BY <2>5
  <2>7. \A item \in read : item.event \in rows /\ item.was = state[item.event]
    <3> HIDE DEF rows, due
    <3> QED
      OBVIOUS
  <2> HIDE DEF read, rows, due
  <2>8. page' \in [Replicas -> SUBSET Rows] /\ Busy'
    BY <2>1, <2>6 DEF TypeOK, Rows, Busy, Publishers
  <2>9. \A q \in Replicas : \A item \in page'[q] :
          state[item.event] # "none" /\ (item.was = "pending" => inst[item.event] \in Tickets)
    <3>1. \A item \in read : state[item.event] = item.was /\ item.event \in Events
                              /\ item.was \in {"pending", "waiting"}
      BY <2>6, <2>7 DEF Rows
    <3> QED
      BY <2>1, <3>1 DEF TypeOK
  <2>10. UNCHANGED <<known, eventVars, seen, queueVars>> /\ \A e \in Events : pc'[e] = pc[e]
    BY <1>4, <2>1 DEF Scan, TypeOK, Publishers, fixedVars
  <2>11. pc' \in [Publishers -> Steps] /\ cursor' \in [Replicas -> Events \cup {0}]
    BY <2>1, <2>3 DEF TypeOK, Publishers, Steps
  <2> QED
    BY <2>8, <2>9, <2>10, <2>11 DEF TypeOK, Busy, Rows, eventVars, queueVars
<1>5. ASSUME NEW r \in Replicas, Begin(r)
      PROVE  TypeOK'
  <2>1. pc[r] \notin {"idle", "done"} /\ r \in Publishers
    BY <1>5 DEF Begin, Publishers
  <2>2. Moves(r)
    BY <1>5, <2>1, GotoMoves, AdvanceMoves DEF Begin, Steps
  <2>3. Walks
    BY <2>2 DEF Walks, Moves, Publishers
  <2> QED
    BY <1>5, <2>3, StillSettles, SameQueues, TypesKept DEF Begin, TypeOK, fixedVars, eventVars
<1>6. ASSUME NEW r \in Replicas, Promote(r)
      PROVE  TypeOK'
  <2> DEFINE e == Item(r).event
  <2>1. pc[r] \notin {"idle", "done"} /\ r \in Publishers
    BY <1>6 DEF Promote, Publishers
  <2>2. e \in Events /\ state[e] # "none"
    BY <2>1, EventAtHand
  <2>3. Moves(r)
    BY <1>6, <2>1, GotoMoves, AdvanceMoves DEF Promote, Steps
  <2>4. Walks
    BY <2>3 DEF Walks, Moves, Publishers
  <2>5. Settles
    <3>1. CASE UNCHANGED <<state, inst>>
      BY <3>1, StillSettles
    <3>2. CASE /\ state[e] = "waiting"
               /\ state' = [state EXCEPT ![e] = "pending"]
               /\ inst' = [inst EXCEPT ![e] = intent[e]]
      <4>1. intent[e] \in Tickets /\ inst'[e] = intent[e]
        BY <2>2, <3>2 DEF TypeOK
      <4> QED
        BY <2>2, <3>2, <4>1, StateSettles DEF EventStates
    <3> QED
      BY <1>6, <3>1, <3>2 DEF Promote
  <2> QED
    BY <1>6, <2>4, <2>5, SameQueues, TypesKept DEF Promote, TypeOK, fixedVars
<1>7. ASSUME NEW r \in Replicas, Restart(r)
      PROVE  TypeOK'
  BY <1>7 DEF Restart, TypeOK, creationVars, fixedVars, eventVars, queueVars, Publishers, Steps
<1>8. ASSUME NEW e \in Events, Deliver(e) \/ WorkThrow(e) \/ Stall(e)
      PROVE  TypeOK'
  <2>1. job[e] # "none" /\ inst[e] \in Tickets /\ state[e] # "none"
    BY <1>8, WorkSteps DEF Running, TypeOK
  <2>2. Settles
    BY <1>8, <2>1, WorkSteps, MarkSettles, StillSettles
  <2> QED
    BY <1>8, <2>2, WorkSteps, WorkQueues, SameWalks, TypesKept DEF TypeOK, fixedVars, scanVars
<1>9. ASSUME NEW e \in Events, MarkFailed(e)
      PROVE  TypeOK'
  <2>1. UNCHANGED <<known, source, hasId, intent, inst, pc, seen, scanVars, job, tries, stalls, posts>>
    BY <1>9 DEF MarkFailed, fixedVars
  <2>2. Settles
    BY <1>9, <2>1, MarkSettles, StillSettles DEF MarkFailed, EventInv, EventAt, TypeOK
  <2>3. Queues
    BY <1>9, <2>1 DEF MarkFailed, Queues, TypeOK
  <2> QED
    BY <2>1, <2>2, <2>3, SameWalks, TypesKept DEF TypeOK, scanVars
<1> QED
  BY <1>1, <1>2, <1>3, <1>4, <1>5, <1>6, <1>7, <1>8, <1>9
  DEF Next, Recover, Publishers, Create, vars, fixedVars

-----------------------------------------------------------------------------
(* What is settled of an event stays. *)
Stays(e) ==
  /\ Published(e) => Published(e)' /\ inst'[e] = inst[e]
  /\ state[e] # "none" => source'[e] = source[e] /\ hasId'[e] = hasId[e] /\ intent'[e] = intent[e]
  /\ job[e] # "none" => job'[e] # "none"
  /\ state[e] = "delivered" => state'[e] = "delivered"

(* A mark never takes an event back. *)
LEMMA MarkStays ==
  ASSUME TypeOK, NEW f \in Events, NEW to \in {"retained", "delivered", "failed"}, MarkEvent(f, to),
         UNCHANGED <<source, hasId, intent, inst, job>>
  PROVE  \A e \in Events : Stays(e)
BY DEF MarkEvent, Stays, Published, TypeOK

LEMMA SameStays ==
  ASSUME UNCHANGED <<eventVars, job>>
  PROVE  \A e \in Events : Stays(e)
BY DEF Stays, Published, eventVars

LEMMA Forward ==
  ASSUME TypeOK, EventInv, ScanInv, [Next]_vars
  PROVE  (\A e \in Events : Stays(e)) /\ UNCHANGED <<ask, output>>
<1> USE EventsAssumption
<1>1. CASE Create \/ UNCHANGED vars
  <2>1. UNCHANGED <<eventVars, job, ask, output>>
    BY <1>1 DEF Create, vars, creationVars, fixedVars, queueVars, Creation!Next, Creation!Hold,
         Creation!Release, Creation!Dispatch, Creation!Call, Creation!Answer, Creation!Vanish,
         Creation!Keep, Creation!Commit, Creation!Undo, Creation!Undone, Creation!Discard
  <2> QED
    BY <2>1, SameStays
<1>2. ASSUME NEW f \in Events, Receive(f)
      PROVE  (\A e \in Events : Stays(e)) /\ UNCHANGED <<ask, output>>
  <2>1. state[f] = "none" /\ job[f] = "none" /\ UNCHANGED <<job, ask, output>>
    BY <1>2 DEF Receive, Emit, ReadInstances, Accept, TypeOK, creationVars, fixedVars, queueVars
  <2>2. \A e \in Events : e # f => /\ state'[e] = state[e] /\ inst'[e] = inst[e]
                                   /\ source'[e] = source[e] /\ hasId'[e] = hasId[e]
                                   /\ intent'[e] = intent[e]
    <3>1. CASE Emit(f)
      BY <3>1 DEF Emit, TypeOK
    <3>2. CASE ReadInstances(f)
      BY <3>2 DEF ReadInstances, eventVars
    <3>3. CASE Accept(f)
      <4>1. UNCHANGED <<source, hasId>> /\ \E to, t, i : Store(f, to, t, i)
        BY <3>3 DEF Accept
      <4>2. PICK to, t, i : Store(f, to, t, i)
        BY <4>1
      <4> QED
        BY <4>1, <4>2 DEF Store, TypeOK
    <3> QED
      BY <1>2, <3>1, <3>2, <3>3 DEF Receive
  <2> QED
    BY <2>1, <2>2 DEF Stays, Published
<1>3. ASSUME NEW p \in Publishers, Publish(p) \/ Throw(p)
      PROVE  (\A e \in Events : Stays(e)) /\ UNCHANGED <<ask, output>>
  <2>1. EventOf(p) \in Events
    BY <1>3, EventAtHand DEF Publish, Validate, Retain, Add, MarkQueued, Throw
  <2>2. UNCHANGED <<ask, output, source, hasId, intent, inst>>
    BY <1>3 DEF Publish, Validate, Retain, Add, MarkQueued, Throw, creationVars, fixedVars, eventVars
  <2>3. CASE Validate(p) \/ Throw(p)
    BY <2>2, <2>3, SameStays DEF Validate, Throw, queueVars, eventVars
  <2>4. CASE Retain(p)
    BY <2>1, <2>2, <2>4, MarkStays DEF Retain, queueVars
  <2>5. CASE Add(p)
    BY <2>1, <2>2, <2>5 DEF Add, Enqueued, Stays, Published, TypeOK, eventVars
  <2>6. CASE MarkQueued(p)
    BY <2>1, <2>2, <2>6 DEF MarkQueued, Stays, Published, TypeOK, queueVars
  <2> QED
    BY <1>3, <2>2, <2>3, <2>4, <2>5, <2>6 DEF Publish
<1>4. ASSUME NEW r \in Replicas, Scan(r) \/ Begin(r) \/ Restart(r)
      PROVE  (\A e \in Events : Stays(e)) /\ UNCHANGED <<ask, output>>
  BY <1>4, SameStays DEF Scan, Begin, Restart, creationVars, fixedVars, queueVars
<1>5. ASSUME NEW r \in Replicas, Promote(r)
      PROVE  (\A e \in Events : Stays(e)) /\ UNCHANGED <<ask, output>>
  BY <1>5 DEF Promote, Stays, Published, TypeOK, creationVars, fixedVars, queueVars
<1>6. ASSUME NEW f \in Events, Deliver(f) \/ WorkThrow(f) \/ Stall(f)
      PROVE  (\A e \in Events : Stays(e)) /\ UNCHANGED <<ask, output>>
  <2>1. \E to \in JobStates \ {"none"} : job' = [job EXCEPT ![f] = to]
    BY <1>6, WorkSteps DEF Work, Complete, Fail, End, Stall, JobStates
  <2>2. /\ UNCHANGED <<ask, output, source, hasId, intent, inst>>
        /\ UNCHANGED state \/ MarkEvent(f, "delivered") \/ MarkEvent(f, "retained")
    BY <1>6, WorkSteps DEF creationVars, fixedVars
  <2> QED
    BY <2>1, <2>2 DEF Stays, Published, MarkEvent, TypeOK
<1>7. ASSUME NEW f \in Events, MarkFailed(f)
      PROVE  (\A e \in Events : Stays(e)) /\ UNCHANGED <<ask, output>>
  <2>1. UNCHANGED <<ask, output, source, hasId, intent, inst, job>>
    BY <1>7 DEF MarkFailed, creationVars, fixedVars
  <2> QED
    BY <1>7, <2>1, MarkStays, SameStays DEF MarkFailed, eventVars
<1> QED
  BY <1>1, <1>2, <1>3, <1>4, <1>5, <1>6, <1>7 DEF Next, Recover, Publishers

(* Records are of creations. *)
LEMMA KeptAreTickets ==
  ASSUME kept \subseteq Tickets, [Next]_vars
  PROVE  kept' \subseteq Tickets
<1>1. CASE Create
  BY <1>1 DEF Create, Creation!Next, Creation!Hold, Creation!Release, Creation!Dispatch,
     Creation!Call, Creation!Answer, Creation!Vanish, Creation!Keep, Creation!Commit,
     Creation!Undo, Creation!Undone, Creation!Discard
<1>2. CASE UNCHANGED kept
  BY <1>2
<1>3. Create \/ UNCHANGED kept
  BY DEF Next, vars, Receive, Emit, ReadInstances, Accept, Publish, Validate, Retain, Add, MarkQueued,
     Deliver, Start, WorkValidate, Post, Mark, WorkThrow, Stall, MarkFailed, Recover, Scan, Begin,
     Promote, Restart, Throw, creationVars
<1> QED
  BY <1>1, <1>2, <1>3

(* An event keeps its part of the invariant where it only moves forward. *)
LEMMA EventStays ==
  ASSUME NEW e \in Events, TypeOK, EventAt(e), Stays(e), pc'[e] = pc[e] \/ pc'[e] \in {"done", "retain", "add"},
         pc'[e] \in {"retain", "add"} => pc[e] \in {"validate", "retain", "add", "mark"},
         state'[e] = "none" => inst'[e] = None,
         inst'[e] = inst[e] \/ (hasId[e] => inst'[e] = source[e]),
         e \in late' => e \in late \/ job'[e] # "none",
         posts'[e] = posts[e] \/ job'[e] # "none",
         state'[e] = "queued" => state[e] = "queued" \/ job[e] # "none",
         job'[e] # "none" => job[e] # "none",
         hasId'[e] = hasId[e], source'[e] = source[e]
  PROVE  EventAt(e)'
BY DEF EventAt, Stays, Published

(* Every step keeps what holds of events. *)
LEMMA EventStep == TypeOK /\ EventInv /\ ScanInv /\ [Next]_vars => EventInv'
<1> SUFFICES ASSUME TypeOK, EventInv, ScanInv, [Next]_vars, NEW e \in Events
             PROVE  EventAt(e)'
  BY KeptAreTickets DEF EventInv
<1> USE EventsAssumption
<1>a. EventAt(e) /\ Stays(e)
  BY Forward DEF EventInv
<1>1. CASE UNCHANGED <<eventVars, pc, job, late, posts>>
  BY <1>a, <1>1 DEF eventVars, EventAt, Published
<1>2. ASSUME NEW f \in Events, Receive(f)
      PROVE  EventAt(e)'
  <2>1. CASE f # e
    <3>1. /\ state'[e] = state[e] /\ inst'[e] = inst[e] /\ source'[e] = source[e]
          /\ hasId'[e] = hasId[e] /\ pc'[e] = pc[e] /\ UNCHANGED <<job, late, posts>>
      BY <1>2, <2>1 DEF Receive, Emit, ReadInstances, Accept, Store, TypeOK, Publishers, eventVars,
           queueVars
    <3> QED
      BY <1>a, <3>1, EventStays DEF EventAt
  <2>2. CASE f = e
    <3>1. /\ state[e] = "none" /\ job[e] = "none" /\ inst[e] = None /\ e \notin late /\ posts[e] = 0
          /\ UNCHANGED <<job, late, posts>>
      BY <1>a, <1>2, <2>2 DEF Receive, Emit, ReadInstances, Accept, TypeOK, queueVars, EventAt
    <3>2. CASE Emit(e) \/ ReadInstances(e)
      BY <3>1, <3>2 DEF Emit, ReadInstances, TypeOK, Publishers, EventAt, eventVars
    <3>3. CASE Accept(e)
      <4>1. PICK to \in {"pending", "waiting", "retained"}, t \in Tickets \cup {None},
                 i \in Tickets \cup {None} :
              /\ Store(e, to, t, i)
              /\ to = "pending" => i \in Tickets /\ (hasId[e] => i = source[e])
              /\ to # "pending" => i = None
        BY <3>3 DEF Accept, EventInv, IsInstance
      <4>2. /\ state'[e] = to /\ inst'[e] = i
            /\ pc'[e] = IF to = "pending" THEN "validate" ELSE "done"
            /\ hasId'[e] = hasId[e] /\ source'[e] = source[e]
        BY <3>3, <4>1 DEF Accept, Store, TypeOK, Publishers
      <4> QED
        BY <3>1, <4>1, <4>2 DEF EventAt, Published
    <3> QED
      BY <1>2, <2>2, <3>2, <3>3 DEF Receive
  <2> QED
    BY <2>1, <2>2
<1>3. ASSUME NEW p \in Publishers, Publish(p) \/ Throw(p)
      PROVE  EventAt(e)'
  <2>1. EventOf(p) \in Events /\ pc[p] \notin {"idle", "done"}
    BY <1>3, EventAtHand DEF Publish, Validate, Retain, Add, MarkQueued, Throw
  <2>2. UNCHANGED <<source, hasId, intent, inst, late, posts>>
    BY <1>3 DEF Publish, Validate, Retain, Add, MarkQueued, Throw, eventVars, queueVars
  <2>3. CASE Validate(p)
    <3>1. Moves(p) /\ pc'[p] \in {"add", "retain"}
      BY <2>1, <2>3, GotoMoves DEF Validate, Steps
    <3> QED
      BY <1>a, <2>2, <2>3, <3>1, EventStays DEF Validate, Moves, Publishers, eventVars, queueVars, EventAt
  <2>4. CASE Retain(p)
    <3>1. Moves(p) /\ (p \in Events => pc'[p] = "done")
      BY <2>1, <2>4, AdvanceMoves DEF Retain
    <3>2. state'[e] # "queued" \/ state'[e] = state[e]
      BY <2>1, <2>4 DEF Retain, MarkEvent, TypeOK
    <3>3. state'[e] = "none" => state[e] = "none"
      BY <2>1, <2>4 DEF Retain, MarkEvent, TypeOK
    <3> QED
      BY <1>a, <2>2, <2>4, <3>1, <3>2, <3>3, EventStays DEF Retain, Moves, Publishers, queueVars, EventAt
  <2>5. CASE Add(p)
    <3>1. Moves(p) /\ pc'[p] = "mark"
      BY <2>1, <2>5, GotoMoves DEF Add, Steps
    <3>2. Published(EventOf(p)) /\ inst[EventOf(p)] \in Tickets
      BY <2>5, PublishedAtHand DEF Add
    <3>3. /\ job'[e] # "none" => job[e] # "none" \/ e = EventOf(p)
          /\ job'[EventOf(p)] # "none"
          /\ UNCHANGED state
      BY <2>1, <2>5 DEF Add, Enqueued, TypeOK, eventVars
    <3>4. pc'[e] = pc[e] \/ (e = p /\ e = EventOf(p))
      BY <3>1 DEF Moves, Publishers, EventOf
    <3> QED
      BY <1>a, <2>2, <3>1, <3>2, <3>3, <3>4 DEF EventAt, Stays, Published
  <2>6. CASE MarkQueued(p)
    <3>1. Moves(p) /\ (p \in Events => pc'[p] = "done")
      BY <2>1, <2>6, AdvanceMoves DEF MarkQueued
    <3>2. job[EventOf(p)] # "none" /\ UNCHANGED job
      BY <2>6, PublishedAtHand DEF MarkQueued, queueVars
    <3>3. /\ state'[e] = "queued" => state[e] = "queued" \/ e = EventOf(p)
          /\ state'[e] = "none" => state[e] = "none"
      BY <2>1, <2>6 DEF MarkQueued, TypeOK
    <3> QED
      BY <1>a, <2>2, <3>1, <3>2, <3>3, EventStays DEF Moves, Publishers, EventAt
  <2>7. CASE Throw(p)
    <3>1. Moves(p) /\ (p \in Events => pc'[p] = "done")
      BY <2>1, <2>7, AdvanceMoves DEF Throw
    <3> QED
      BY <1>a, <2>2, <2>7, <3>1, EventStays DEF Throw, Moves, Publishers, eventVars, queueVars, EventAt
  <2> QED
    BY <1>3, <2>3, <2>4, <2>5, <2>6, <2>7 DEF Publish
<1>4. ASSUME NEW r \in Replicas, Scan(r) \/ Begin(r) \/ Promote(r) \/ Restart(r)
      PROVE  pc'[e] = pc[e] /\ UNCHANGED <<source, hasId, intent, job, late, posts>>
  <2>1. CASE Scan(r) \/ Restart(r)
    BY <2>1 DEF Scan, Restart, TypeOK, Publishers, eventVars, queueVars
  <2>2. CASE Begin(r) \/ Promote(r)
    <3>1. pc[r] \notin {"idle", "done"} /\ r \in Publishers
      BY <2>2 DEF Begin, Promote, Publishers
    <3>2. Moves(r)
      BY <2>2, <3>1, GotoMoves, AdvanceMoves DEF Begin, Promote, Steps
    <3> QED
      BY <2>2, <3>2 DEF Begin, Promote, Moves, Publishers, eventVars, queueVars
  <2> QED
    BY <1>4, <2>1, <2>2
<1>5. ASSUME NEW r \in Replicas, Scan(r) \/ Begin(r) \/ Restart(r)
      PROVE  EventAt(e)'
  <2>1. UNCHANGED <<state, inst>>
    BY <1>5 DEF Scan, Begin, Restart, eventVars
  <2> QED
    BY <1>a, <1>4, <1>5, <2>1, EventStays DEF EventAt
<1>6. ASSUME NEW r \in Replicas, Promote(r)
      PROVE  EventAt(e)'
  <2> DEFINE f == Item(r).event
  <2>1. CASE UNCHANGED <<state, inst>>
    BY <1>a, <1>4, <1>6, <2>1, EventStays DEF EventAt
  <2>2. CASE /\ pc[r] = "promote" /\ state[f] = "waiting"
             /\ state' = [state EXCEPT ![f] = "pending"]
             /\ inst' = [inst EXCEPT ![f] = intent[f]]
    <3>1. hasId[f] => intent[f] = source[f]
      BY <2>2 DEF ScanInv, Scanned
    <3>2. state'[e] = state[e] \/ state'[e] = "pending"
      BY <2>2 DEF TypeOK
    <3>3. inst'[e] = inst[e] \/ (hasId[e] => inst'[e] = source[e])
      BY <2>2, <3>1 DEF TypeOK
    <3>4. state'[e] = "none" => inst'[e] = None
      BY <1>a, <2>2 DEF TypeOK, EventAt
    <3> QED
      BY <1>a, <1>4, <1>6, <3>2, <3>3, <3>4, EventStays
  <2> QED
    BY <1>6, <2>1, <2>2 DEF Promote
<1>7. ASSUME NEW f \in Events, Deliver(f) \/ WorkThrow(f) \/ Stall(f)
      PROVE  EventAt(e)'
  <2>1. UNCHANGED <<source, hasId, intent, inst, pc>> /\ job[f] # "none"
    BY <1>7, WorkSteps DEF Running
  <2>2. e \in late' => e \in late \/ e = f
    BY <1>7, WorkSteps DEF Work, Complete, Fail, End, Stall
  <2>3. job'[e] # "none" => job[e] # "none"
    BY <1>7, <2>1, WorkSteps DEF Work, Complete, Fail, End, Stall, TypeOK
  <2>4. posts'[e] = posts[e] \/ e = f
    BY <1>7, WorkSteps DEF TypeOK
  <2>5. state'[e] \in {"none", "queued"} => state'[e] = state[e]
    BY <1>7, WorkSteps DEF MarkEvent, TypeOK
  <2>6. e = f => job'[e] # "none"
    BY <1>a, <2>1 DEF Stays
  <2> QED
    BY <1>a, <2>1, <2>2, <2>3, <2>4, <2>5, <2>6, EventStays DEF EventAt
<1>8. ASSUME NEW f \in Events, MarkFailed(f)
      PROVE  EventAt(e)'
  <2>1. UNCHANGED <<source, hasId, intent, inst, pc, job, posts>> /\ late' \subseteq late
    BY <1>8 DEF MarkFailed
  <2>2. state'[e] \in {"none", "queued"} => state'[e] = state[e]
    BY <1>8 DEF MarkFailed, MarkEvent, TypeOK
  <2> QED
    BY <1>a, <2>1, <2>2, EventStays DEF EventAt
<1> QED
  BY <1>1, <1>2, <1>3, <1>5, <1>6, <1>7, <1>8
  DEF Next, Recover, Publishers, Create, vars, fixedVars, queueVars

(* A scan's row is as it was where the scan is as it was. *)
LEMMA ItemStays ==
  ASSUME TypeOK, NEW r \in Replicas, Scanned(r), \A e \in Events : Stays(e),
         page'[r] \subseteq page[r],
         pc'[r] \in {"validate", "add", "mark", "promote"} => pc'[r] = pc[r] /\ page'[r] = page[r]
  PROVE  Scanned(r)'
<1>1. page[r] \subseteq Rows
  BY DEF TypeOK, Rows
<1>2. ASSUME NEW item \in page'[r], item.was = "pending"
      PROVE  Published(item.event)'
  BY <1>1, <1>2 DEF Stays, Scanned, Rows
<1>3. CASE pc'[r] \in {"validate", "add", "mark", "promote"}
  <2>1. Item(r)' = Item(r)
    BY <1>3 DEF Item
  <2>2. Item(r).event \in Events /\ state[Item(r).event] # "none"
    BY <1>3, EventAtHand DEF Publishers
  <2> QED
    BY <1>2, <1>3, <2>1, <2>2 DEF Scanned, Stays, Published
<1> QED
  BY <1>2, <1>3 DEF Scanned

(* Every step keeps what holds of the rows that are read. *)
LEMMA ScanStep == TypeOK /\ EventInv /\ ScanInv /\ [Next]_vars => ScanInv'
<1> SUFFICES ASSUME TypeOK, EventInv, ScanInv, [Next]_vars, NEW r \in Replicas
             PROVE  Scanned(r)'
  BY DEF ScanInv
<1> USE EventsAssumption
<1>a. Scanned(r) /\ \A e \in Events : Stays(e)
  BY Forward DEF ScanInv
<1>b. \A item \in page[r] : item.was = "pending" => Published(item.event)'
  <2>1. \A item \in page[r] : item.event \in Events
    BY DEF TypeOK
  <2> QED
    BY <1>a, <2>1 DEF Scanned, Stays
<1>1. CASE page'[r] = page[r] /\ pc'[r] = pc[r]
  BY <1>a, <1>1, ItemStays
<1>2. ASSUME NEW e \in Events, Receive(e)
      PROVE  page'[r] = page[r] /\ pc'[r] = pc[r]
  <2>1. page' = page /\ \E step : pc' = [pc EXCEPT ![e] = step]
    BY <1>2 DEF Receive, Emit, ReadInstances, Accept, Store, scanVars
  <2> QED
    BY <2>1 DEF TypeOK, Publishers
<1>3. ASSUME NEW p \in Publishers, p # r, Publish(p) \/ Throw(p)
      PROVE  page'[r] = page[r] /\ pc'[r] = pc[r]
  <2>1. pc[p] \notin {"idle", "done"}
    BY <1>3 DEF Publish, Validate, Retain, Add, MarkQueued, Throw
  <2>2. Moves(p)
    BY <1>3, <2>1, GotoMoves, AdvanceMoves DEF Publish, Validate, Retain, Add, MarkQueued, Throw, Steps
  <2> QED
    BY <1>3, <2>2 DEF Moves, Publishers
<1>4. ASSUME NEW q \in Replicas, q # r, Recover(q) \/ Restart(q)
      PROVE  page'[r] = page[r] /\ pc'[r] = pc[r]
  <2>1. CASE Scan(q) \/ Restart(q)
    BY <1>4, <2>1 DEF Scan, Restart, TypeOK, Publishers
  <2>2. CASE Begin(q) \/ Promote(q)
    <3>1. pc[q] \notin {"idle", "done"} /\ q \in Publishers
      BY <2>2 DEF Begin, Promote, Publishers
    <3>2. Moves(q)
      BY <2>2, <3>1, GotoMoves, AdvanceMoves DEF Begin, Promote, Steps
    <3> QED
      BY <1>4, <3>2 DEF Moves, Publishers
  <2> QED
    BY <1>3, <1>4, <2>1, <2>2 DEF Recover, Publishers
<1>5. r \in Publishers /\ r \notin Events /\ EventOf(r) = Item(r).event
  BY DEF Publishers, EventOf
<1>6. CASE Publish(r) \/ Throw(r)
  <2>1. pc[r] \notin {"idle", "done"}
    BY <1>6 DEF Publish, Validate, Retain, Add, MarkQueued, Throw
  <2>2. Item(r).event \in Events
    BY <1>5, <2>1, EventAtHand
  <2>3. CASE Validate(r) \/ Add(r)
    <3> DEFINE e == Item(r).event
    <3>1. /\ page' = page /\ pc'[r] \in {"retain", "add", "mark"}
          /\ pc'[r] = "mark" => Add(r)
      BY <1>5, <2>1, <2>3, GotoMoves DEF Validate, Add, Steps
    <3>2. Published(e) /\ inst[e] \in Tickets
      BY <1>5, <2>3, PublishedAtHand DEF Validate, Add
    <3>3. Add(r) => job'[e] # "none"
      BY <1>5, <2>2 DEF Add, Enqueued, TypeOK
    <3>4. Item(r)' = Item(r)
      BY <3>1 DEF Item
    <3>5. \A item \in page'[r] : item.was = "pending" => Published(item.event)'
      BY <1>b, <3>1
    <3> QED
      BY <1>a, <2>2, <3>1, <3>2, <3>3, <3>4, <3>5 DEF Scanned, Stays
  <2>4. CASE Retain(r) \/ MarkQueued(r) \/ Throw(r)
    <3>1. Moves(r) /\ pc'[r] \in {"idle", "done", "item"}
      BY <1>5, <2>1, <2>4, AdvanceMoves DEF Retain, MarkQueued, Throw
    <3> QED
      BY <1>a, <3>1, ItemStays DEF Moves
  <2> QED
    BY <1>6, <2>3, <2>4 DEF Publish
<1>7. CASE Scan(r)
  <2> DEFINE due == {e \in Events : state[e] \in {"pending", "waiting"} /\ e > cursor[r]}
             rows == {e \in due : Cardinality({f \in due : f < e}) < Take}
  <2>1. /\ page'[r] = {[event |-> e, was |-> state[e]] : e \in rows}
        /\ pc'[r] \in {"idle", "item"}
        /\ UNCHANGED state
    BY <1>5, <1>7 DEF Scan, TypeOK, eventVars
  <2>2. \A item \in page'[r] : item.was = state[item.event]
    <3> HIDE DEF rows
    <3> QED
      BY <2>1
  <2> QED
    BY <2>1, <2>2 DEF Scanned, Published
<1>8. CASE Begin(r)
  <2> DEFINE e == Item(r).event
  <2>1. pc[r] = "item" /\ UNCHANGED <<eventVars, job>>
    BY <1>8 DEF Begin, queueVars
  <2>2. Item(r) \in page[r] /\ e \in Events
    BY <1>5, <2>1, EventAtHand
  <2>3. CASE \E step \in {"validate", "retain", "promote"} : Goto(r, step)
    <3>1. page' = page /\ pc'[r] \in {"validate", "retain", "promote"}
      BY <1>5, <2>1, <2>3, GotoMoves DEF Steps
    <3>2. Item(r)' = Item(r)
      BY <3>1 DEF Item
    <3>3. pc'[r] = "validate" => Item(r).was = "pending"
      BY <1>5, <1>8, <2>1, GotoMoves, AdvanceMoves DEF Begin, Steps
    <3>4. pc'[r] = "promote" /\ hasId[e] => intent[e] = source[e]
      BY <1>5, <1>8, <2>1, GotoMoves, AdvanceMoves DEF Begin, Steps, Matches
    <3>5. Published(e) => inst[e] \in Tickets \/ Item(r).was # "pending"
      BY <2>2 DEF TypeOK
    <3> QED
      BY <1>a, <2>1, <2>2, <3>1, <3>2, <3>3, <3>4, <3>5 DEF Scanned, Published, eventVars
  <2>4. CASE Advance(r)
    <3>1. Moves(r) /\ pc'[r] \in {"idle", "done", "item"}
      BY <1>5, <2>1, <2>4, AdvanceMoves
    <3> QED
      BY <1>a, <3>1, ItemStays DEF Moves
  <2> QED
    BY <1>8, <2>3, <2>4 DEF Begin
<1>9. CASE Promote(r)
  <2> DEFINE e == Item(r).event
  <2>1. pc[r] = "promote"
    BY <1>9 DEF Promote
  <2>2. e \in Events
    BY <1>5, <2>1, EventAtHand
  <2>3. CASE Advance(r)
    <3>1. Moves(r) /\ pc'[r] \in {"idle", "done", "item"}
      BY <1>5, <2>1, <2>3, AdvanceMoves
    <3> QED
      BY <1>a, <3>1, ItemStays DEF Moves
  <2>4. CASE Goto(r, "validate") /\ state'[e] = "pending" /\ inst'[e] \in Tickets
    <3>1. page' = page /\ pc'[r] = "validate"
      BY <1>5, <2>1, <2>4, GotoMoves DEF Steps
    <3>2. Item(r)' = Item(r)
      BY <3>1 DEF Item
    <3>3. \A item \in page'[r] : item.was = "pending" => Published(item.event)'
      BY <1>b, <3>1
    <3> QED
      BY <2>4, <3>1, <3>2, <3>3 DEF Scanned, Published
  <2> QED
    <3> HIDE DEF e
    <3>1. ASSUME state[e] = "waiting", state' = [state EXCEPT ![e] = "pending"],
                 inst' = [inst EXCEPT ![e] = intent[e]]
          PROVE  state'[e] = "pending" /\ inst'[e] \in Tickets
      <4>1. DOMAIN state = Events /\ DOMAIN inst = Events /\ intent[e] \in Tickets
        BY <2>2, <3>1 DEF TypeOK
      <4> QED
        BY <2>2, <3>1, <4>1
    <3>2. state[e] = "pending" => inst[e] \in Tickets
      BY <2>2 DEF TypeOK
    <3> QED
      BY <1>9, <2>3, <2>4, <3>1, <3>2 DEF Promote, e
<1>10. CASE Restart(r)
  <2>1. page'[r] = {} /\ pc'[r] = "idle"
    BY <1>5, <1>10 DEF Restart, TypeOK
  <2> QED
    BY <2>1 DEF Scanned
<1>11. ASSUME NEW e \in Events, Deliver(e) \/ WorkThrow(e) \/ Stall(e) \/ MarkFailed(e)
       PROVE  page'[r] = page[r] /\ pc'[r] = pc[r]
  BY <1>11, WorkSteps DEF MarkFailed, scanVars
<1>12. CASE Create \/ UNCHANGED vars
  BY <1>1, <1>12 DEF Create, vars, scanVars
<1> QED
  BY <1>1, <1>2, <1>3, <1>4, <1>5, <1>6, <1>7, <1>8, <1>9, <1>10, <1>11, <1>12
  DEF Next, Recover, Publishers

-----------------------------------------------------------------------------
(* What a running job has left. *)
LEMMA RunningJob ==
  ASSUME TypeOK, NEW e \in Events, Budget(e), job[e] \in {"ready"} \cup Running
  PROVE  /\ posts[e] \in Nat /\ tries[e] \in 0 .. Attempts /\ stalls[e] \in 0 .. MaxStalls
         /\ tries[e] < Attempts /\ posts[e] <= tries[e] + stalls[e] + 1
         /\ job[e] # "markDelivered" => posts[e] <= tries[e] + stalls[e]
BY QueueAssumption DEF TypeOK, Budget, Running

(* A job that fails, after a post or not. *)
LEMMA FailBudget ==
  ASSUME TypeOK, NEW e \in Events, Budget(e), job[e] \in {"ready"} \cup Running, Fail(e),
         posts'[e] = posts[e] \/ (job[e] = "post" /\ posts'[e] = posts[e] + 1)
  PROVE  Budget(e)'
<1> USE QueueAssumption
<1>1. \/ job'[e] = "dead"
      \/ /\ job'[e] = "ready" /\ tries[e] + 1 < Attempts
         /\ tries'[e] = tries[e] + 1 /\ stalls'[e] = stalls[e]
  BY DEF Fail, End, TypeOK
<1>2. posts'[e] <= tries[e] + stalls[e] + 1 /\ posts'[e] \in Nat
  BY RunningJob
<1> QED
  BY <1>1, <1>2, RunningJob DEF Budget, Running

(* A job whose worker dies. *)
LEMMA StallBudget ==
  ASSUME TypeOK, NEW e \in Events, Budget(e), Stall(e), UNCHANGED posts
  PROVE  Budget(e)'
<1> USE QueueAssumption
<1>1. /\ job[e] \in Running
      /\ \/ /\ job'[e] = "ready" /\ tries'[e] = tries[e]
            /\ stalls'[e] = stalls[e] + 1 /\ stalls[e] < MaxStalls
         \/ job'[e] = "dead"
  BY DEF Stall, End, TypeOK
<1> QED
  BY <1>1, RunningJob DEF Budget, Running

(* A job that goes on. *)
LEMMA WorkBudget ==
  ASSUME TypeOK, NEW e \in Events, Budget(e), job[e] \in {"ready"} \cup Running,
         UNCHANGED <<tries, stalls>> \/ job'[e] = "done",
         \/ job'[e] = "validate" /\ job[e] = "ready" /\ posts' = posts
         \/ job'[e] \in {"post", "markRetained"} /\ job[e] = "validate" /\ posts' = posts
         \/ job'[e] \in {"markDelivered", "done"} /\ posts' = posts
         \/ job'[e] = "markDelivered" /\ job[e] = "post" /\ posts'[e] = posts[e] + 1
  PROVE  Budget(e)'
BY RunningJob, QueueAssumption DEF Budget, Running

(* The jobs a step leaves alone, but for a new one, keep what holds of them. *)
LEMMA SentStays ==
  ASSUME TypeOK, EventInv, NEW e \in Events, Budget(e), Received(e), Stays(e), UNCHANGED <<ask, output>>,
         tries'[e] = tries[e], stalls'[e] = stalls[e], posts'[e] = posts[e],
         job'[e] = job[e] \/ (job[e] = "none" /\ job'[e] = "ready"),
         state'[e] = "delivered" => state[e] = "delivered" \/ job[e] = "markDelivered"
  PROVE  Budget(e)' /\ Received(e)'
<1>1. Budget(e)'
  BY DEF Budget, Running
<1>2. state[e] = "delivered" \/ job[e] = "markDelivered" => Published(e)
  BY DEF EventInv, EventAt, Published
<1>3. Received(e)'
  BY <1>2 DEF Received, Stays, Destination
<1> QED
  BY <1>1, <1>3

(* Every step keeps what was sent within bounds, and what is delivered received. *)
LEMMA SentStep == TypeOK /\ EventInv /\ ScanInv /\ SentInv /\ [Next]_vars => SentInv'
<1> SUFFICES ASSUME TypeOK, EventInv, ScanInv, SentInv, [Next]_vars, NEW e \in Events
             PROVE  Budget(e)' /\ Received(e)'
  BY DEF SentInv
<1> USE EventsAssumption
<1>a. Budget(e) /\ Received(e) /\ Stays(e) /\ UNCHANGED <<ask, output>>
  BY Forward DEF SentInv
<1>1. ASSUME UNCHANGED <<tries, stalls, posts>>,
             job'[e] = job[e] \/ (job[e] = "none" /\ job'[e] = "ready"),
             state'[e] = "delivered" => state[e] = "delivered"
      PROVE  Budget(e)' /\ Received(e)'
  BY <1>a, <1>1, SentStays
<1>2. ASSUME NEW f \in Events, Receive(f)
      PROVE  Budget(e)' /\ Received(e)'
  <2>1. UNCHANGED queueVars
    BY <1>2 DEF Receive, Emit, ReadInstances, Accept
  <2>2. UNCHANGED state \/ \E to \in {"pending", "waiting", "retained"} : state' = [state EXCEPT ![f] = to]
    BY <1>2 DEF Receive, Emit, ReadInstances, Accept, Store, eventVars
  <2>3. state'[e] = "delivered" => state[e] = "delivered"
    BY <2>2 DEF TypeOK
  <2> QED
    BY <1>1, <2>1, <2>3 DEF queueVars
<1>3. ASSUME NEW p \in Publishers, Publish(p) \/ Throw(p)
      PROVE  Budget(e)' /\ Received(e)'
  <2>1. EventOf(p) \in Events
    BY <1>3, EventAtHand DEF Publish, Validate, Retain, Add, MarkQueued, Throw
  <2>2. UNCHANGED <<tries, stalls, posts>>
    BY <1>3 DEF Publish, Validate, Retain, Add, MarkQueued, Throw, queueVars
  <2>3. job'[e] = job[e] \/ (job[e] = "none" /\ job'[e] = "ready")
    BY <1>3, <2>1 DEF Publish, Validate, Retain, Add, Enqueued, MarkQueued, Throw, queueVars, TypeOK
  <2>4. state'[e] = "delivered" => state[e] = "delivered"
    BY <1>3, <2>1 DEF Publish, Validate, Retain, MarkEvent, Add, MarkQueued, Throw, eventVars, TypeOK
  <2> QED
    BY <1>1, <2>2, <2>3, <2>4
<1>4. ASSUME NEW r \in Replicas, Scan(r) \/ Begin(r) \/ Promote(r) \/ Restart(r)
      PROVE  Budget(e)' /\ Received(e)'
  <2>1. UNCHANGED queueVars /\ (state'[e] = "delivered" => state[e] = "delivered")
    BY <1>4 DEF Scan, Begin, Promote, Restart, eventVars, TypeOK
  <2> QED
    BY <1>1, <2>1 DEF queueVars
<1>5. ASSUME NEW f \in Events, f # e, Deliver(f) \/ WorkThrow(f) \/ Stall(f)
      PROVE  Budget(e)' /\ Received(e)'
  <2>1. /\ tries'[e] = tries[e] /\ stalls'[e] = stalls[e] /\ posts'[e] = posts[e]
        /\ job'[e] = job[e]
    BY <1>5, WorkSteps DEF Work, Complete, Fail, End, Stall, TypeOK
  <2>2. state'[e] = state[e]
    BY <1>5, WorkSteps DEF MarkEvent, TypeOK
  <2> QED
    BY <1>a, <2>1, <2>2, SentStays
<1>6. CASE Deliver(e) \/ WorkThrow(e) \/ Stall(e)
  <2>1. job[e] \in {"ready"} \cup Running /\ job[e] # "none" /\ Published(e) /\ UNCHANGED inst
    BY <1>6, WorkSteps DEF EventInv, EventAt, Running
  <2>2. Destination(e)' = Destination(e)
    BY <1>a, <2>1 DEF Destination
  <2>3. CASE Start(e)
    <3>1. job'[e] = "validate" /\ job[e] = "ready" /\ UNCHANGED <<state, tries, stalls, posts>>
      BY <2>3 DEF Start, Work, TypeOK, eventVars
    <3> QED
      BY <1>a, <2>1, <2>2, <3>1, WorkBudget DEF Received
  <2>4. CASE WorkValidate(e)
    <3>1. /\ job[e] = "validate" /\ UNCHANGED <<state, tries, stalls, posts>>
          /\ job'[e] \in {"post", "markRetained", "markDelivered"}
          /\ job'[e] = "markDelivered" => Destination(e) = "off"
      BY <2>4 DEF WorkValidate, Work, TypeOK, eventVars
    <3> QED
      BY <1>a, <2>1, <2>2, <3>1, WorkBudget DEF Received
  <2>5. CASE Post(e)
    <3>1. job[e] = "post" /\ UNCHANGED state /\ posts'[e] = posts[e] + 1
      BY <2>5 DEF Post, Posted, TypeOK, eventVars
    <3>2. \/ Fail(e)
          \/ job'[e] = "markDelivered" /\ UNCHANGED <<tries, stalls>>
      BY <2>5 DEF Post, Posted, Work, TypeOK
    <3>3. posts'[e] > 0
      BY <3>1 DEF TypeOK
    <3>4. Budget(e)'
      <4>1. CASE Fail(e)
        BY <1>a, <2>1, <3>1, <4>1, FailBudget
      <4>2. CASE job'[e] = "markDelivered" /\ UNCHANGED <<tries, stalls>>
        BY <1>a, <2>1, <3>1, <4>2, WorkBudget
      <4> QED
        BY <3>2, <4>1, <4>2
    <3> QED
      BY <3>3, <3>4 DEF Received
  <2>6. CASE Mark(e)
    <3>1. /\ UNCHANGED posts
          /\ Fail(e) \/ job'[e] = "done"
      BY <2>6 DEF Mark, Complete, End, TypeOK
    <3>2. /\ state'[e] = "delivered" => state[e] = "delivered" \/ job[e] = "markDelivered"
          /\ job'[e] # "markDelivered"
      BY <2>6 DEF Mark, MarkEvent, Complete, Fail, End, TypeOK
    <3> QED
      BY <1>a, <2>1, <2>2, <3>1, <3>2, FailBudget, WorkBudget DEF Received
  <2>7. CASE WorkThrow(e) \/ Stall(e)
    <3>1. /\ UNCHANGED <<state, posts>> /\ job'[e] # "markDelivered"
          /\ Fail(e) \/ Stall(e)
      BY <2>7 DEF WorkThrow, Stall, Fail, End, TypeOK, eventVars
    <3> QED
      BY <1>a, <2>1, <2>2, <3>1, FailBudget, StallBudget DEF Received
  <2> QED
    BY <1>6, <2>3, <2>4, <2>5, <2>6, <2>7 DEF Deliver
<1>7. ASSUME NEW f \in Events, MarkFailed(f)
      PROVE  Budget(e)' /\ Received(e)'
  <2>1. UNCHANGED <<job, tries, stalls, posts>> /\ (state'[e] = "delivered" => state[e] = "delivered")
    BY <1>7 DEF MarkFailed, MarkEvent, TypeOK
  <2> QED
    BY <1>1, <2>1
<1>8. CASE Create \/ UNCHANGED vars
  BY <1>1, <1>8 DEF Create, vars, eventVars, queueVars
<1> QED
  BY <1>2, <1>3, <1>4, <1>5, <1>6, <1>7, <1>8 DEF Next, Recover, Publishers

-----------------------------------------------------------------------------
(* The inductive invariant: types, events, the rows of scans, and what was sent. *)
RelayInv == TypeOK /\ EventInv /\ ScanInv /\ SentInv

LEMMA InitRelay == Init => RelayInv
<1> SUFFICES ASSUME Init
             PROVE  RelayInv
  OBVIOUS
<1> USE EventsAssumption, QueueAssumption
<1>1. TypeOK
  BY DEF Init, TypeOK, EventStates, Steps, JobStates, Publishers
<1>2. EventInv
  BY DEF Init, EventInv, EventAt, Publishers, Creation!Init
<1>3. ScanInv
  BY DEF Init, ScanInv, Scanned, Publishers
<1>4. SentInv
  BY DEF Init, SentInv, Budget, Received
<1> QED
  BY <1>1, <1>2, <1>3, <1>4 DEF RelayInv

(* The invariant behind the theorems holds in every behaviour of the relay. *)
THEOREM RelayTracked == Spec => []RelayInv
<1>1. RelayInv /\ [Next]_vars => RelayInv'
  BY TypeStep, EventStep, ScanStep, SentStep DEF RelayInv
<1> QED
  BY <1>1, InitRelay, PTL DEF Spec

(* Every variable keeps its type: the cursor of a scan is at an event it read or at the start,  *)
(* and a scan at work has a row to work on (relay-ingress.service.ts).                          *)
THEOREM RelayTypes == Spec => []TypeOK
BY RelayTracked, PTL DEF RelayInv

(* An event that carries the remote id is posted to the instance of the session that sent it,   *)
(* for any number of events, receivers and recovery scans.                                      *)
THEOREM NeverMisdelivered == Spec => []RightInstance
<1>1. RelayInv => RightInstance
  BY EventsAssumption DEF RelayInv, TypeOK, EventInv, EventAt, RightInstance
<1> QED
  BY <1>1, RelayTracked, PTL

(* An event marked as queued has a job: the mark is never made before the job is added.         *)
THEOREM NoQueuedEventLost == Spec => []QueuedHasJob
<1>1. RelayInv => QueuedHasJob
  BY DEF RelayInv, EventInv, EventAt, QueuedHasJob
<1> QED
  BY <1>1, RelayTracked, PTL

(* An event is recorded as delivered only if its product received it, or has its relay off.     *)
THEOREM DeliveredWasReceived == Spec => []DeliveredIsReceived
<1>1. RelayInv => DeliveredIsReceived
  BY DEF RelayInv, SentInv, Received, DeliveredIsReceived
<1> QED
  BY <1>1, RelayTracked, PTL

(* A product is sent an event no more often than its one job is tried and revived, however many *)
(* receivers and scans publish it.                                                              *)
THEOREM OneJob == Spec => []OneJobPerEvent
<1>1. RelayInv => OneJobPerEvent
  BY DEF RelayInv, SentInv, Budget, OneJobPerEvent
<1> QED
  BY <1>1, RelayTracked, PTL

(* What is delivered stays delivered: no late failure mark and no stale scan takes it back.     *)
THEOREM NeverTakenBack == Spec => DeliveredForever
<1>1. RelayInv /\ [Next]_vars => [\A e \in Events : state[e] = "delivered" => state'[e] = "delivered"]_vars
  BY Forward DEF RelayInv, Stays
<1> QED
  BY <1>1, RelayTracked, PTL DEF Spec, DeliveredForever
=============================================================================
