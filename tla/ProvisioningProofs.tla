------------------------- MODULE ProvisioningProofs -------------------------
(***************************************************************************)
(* Proofs of the safety of the creation saga, for any number of requests,  *)
(* recoverers, deletes, imports, providers and names.                      *)
(*                                                                         *)
(* TypeStep and AccountingStep show that TypeOK and Accounting are         *)
(* inductive, one step per action of Provisioning; the theorems at the end *)
(* follow from them.                                                       *)
(***************************************************************************)
EXTENDS Provisioning, TLAPS

(* What the other proofs use of the types. *)
LEMMA SlotType ==
  ASSUME TypeOK, NEW i \in RowIds
  PROVE  Slot(i) \in Slots
BY RequestsAssumption DEF TypeOK, Slot, Slots

(* The domains of the variables, which is all that most steps need of TypeOK. *)
LEMMA Shapes ==
  ASSUME TypeOK
  PROVE  /\ state \in [Tickets -> States] /\ inst \in [Tickets -> BOOLEAN]
         /\ post \in [Sessions -> {"unsent", "flight", "created", "void"}]
         /\ remote \in [Slots -> Sessions \cup {None}] /\ rows \subseteq RowIds
         /\ pc \in [Processes -> Pcs] /\ job \in [Executors -> Jobs]
         /\ reply \in [Executors \cup Importers -> Sessions \cup {None}]
         /\ target \in [Clients -> RowIds \cup {None}]
BY DEF TypeOK

(* An executor at work has a ticket. *)
LEMMA ExecutorTicket ==
  ASSUME TypeOK, NEW e \in Executors, Working(e)
  PROVE  TicketOf(e) \in Tickets /\ TicketOf(e) \in RowIds
BY DEF TypeOK, RowIds

(* An executor that stopped has none, unless it is a request. *)
LEMMA NoJobType ==
  ASSUME NEW e \in Executors
  PROVE  NoJob(e) \in Jobs /\ (e \in Tickets => NoJob(e).ticket = e)
BY DEF NoJob, Jobs

(* Every step keeps every variable within its type. *)
LEMMA TypeStep == TypeOK /\ [Next]_vars => TypeOK'
<1> SUFFICES ASSUME TypeOK, [Next]_vars PROVE TypeOK'
  OBVIOUS
<1> USE DEF Goto, ticketVars, remoteVars, localVars, RequestPcs, ExecutorPcs, Pcs, Processes,
            Clients, Executors, RowIds, Sessions, Working, TicketOf, States, OpenStates, TerminalStates
<1>1. ASSUME NEW t \in Tickets, CheckPending(t)
      PROVE  TypeOK'
  BY <1>1 DEF TypeOK, CheckPending
<1>2. ASSUME NEW t \in Tickets, FindExisting(t)
      PROVE  TypeOK'
  <2>1. pc' \in [Processes -> Pcs]
    BY <1>2 DEF TypeOK, FindExisting
  <2>2. target' \in [Clients -> RowIds \cup {None}]
    BY <1>2 DEF TypeOK, FindExisting
  <2>3. \A x \in Processes : x # t => pc'[x] = pc[x]
    BY <1>2, Shapes DEF FindExisting
  <2>4. \A c \in Clients : c # t => target'[c] = target[c]
    BY <1>2, Shapes DEF FindExisting
  <2>5. pc'[t] = "reserve" \/ (pc'[t] = "checkRow" /\ target'[t] \in RowIds)
    BY <1>2, Shapes DEF FindExisting
  <2>6. \A c \in Clients : pc'[c] \in {"checkRow", "dropRow", "assertDeletable", "removeRow"}
                         => target'[c] \in RowIds
    BY <2>3, <2>4, <2>5 DEF TypeOK
  <2>7. \A x \in Executors : Working(x)' => TicketOf(x)' \in Tickets
    BY <1>2, <2>3, <2>5 DEF TypeOK, FindExisting
  <2>8. \A d \in Deleters : pc'[d] = "deleteRemote" => target'[d] \in RowIds
    BY <2>3, <2>4, <2>5 DEF TypeOK
  <2> QED
    BY <1>2, <2>1, <2>2, <2>6, <2>7, <2>8 DEF TypeOK, FindExisting
<1>3. ASSUME NEW t \in Tickets, CheckRow(t)
      PROVE  TypeOK'
  BY <1>3 DEF TypeOK, CheckRow
<1>4. ASSUME NEW t \in Tickets, Reserve(t)
      PROVE  TypeOK'
  <2>1. AppliedAtStart(t) \in BOOLEAN
    BY RequestsAssumption DEF TypeOK, AppliedAtStart
  <2>2. applied' \in [Tickets -> BOOLEAN]
    BY <1>4, <2>1 DEF TypeOK, Reserve
  <2> QED
    BY <1>4, <2>2, DisjointAssumption DEF TypeOK, Reserve
<1>5. ASSUME NEW t \in Tickets, MarkCreating(t)
      PROVE  TypeOK'
  BY <1>5 DEF TypeOK, MarkCreating, AssertOwned, Owned
<1>6. ASSUME NEW t \in Tickets, Send(t)
      PROVE  TypeOK'
  BY <1>6 DEF TypeOK, Send
<1>7. ASSUME NEW t \in Tickets, PostReply(t)
      PROVE  TypeOK'
  BY <1>7 DEF TypeOK, PostReply
<1>8. ASSUME NEW t \in Tickets, PostFails(t)
      PROVE  TypeOK'
  BY <1>8 DEF TypeOK, PostFails
<1>9. ASSUME NEW t \in Tickets, MarkWebhookAppliedFails(t)
      PROVE  TypeOK'
  BY <1>9 DEF TypeOK, MarkWebhookAppliedFails
<1>10. ASSUME NEW c \in Clients, RemoveRow(c)
      PROVE  TypeOK'
  BY <1>10 DEF TypeOK, RemoveRow, ClearInst, Clients
<1>11. ASSUME NEW c \in Clients, Refuse(c)
      PROVE  TypeOK'
  BY <1>11 DEF TypeOK, Refuse, Clients
<1>12. ASSUME NEW t \in Tickets, PostCreates(t)
      PROVE  TypeOK'
  BY <1>12 DEF TypeOK, PostCreates
<1>13. ASSUME NEW t \in Tickets, PostVoid(t)
      PROVE  TypeOK'
  BY <1>13 DEF TypeOK, PostVoid
<1>14. ASSUME NEW t \in Tickets, Expire(t)
      PROVE  TypeOK'
  BY <1>14 DEF TypeOK, Expire
<1>15. ASSUME NEW e \in Executors, RecordCreated(e)
      PROVE  TypeOK'
  <2> DEFINE t == TicketOf(e)
  <2>1. t \in Tickets
    BY <1>15, ExecutorTicket DEF RecordCreated
  <2>2. /\ inst' \in [Tickets -> BOOLEAN]
        /\ sid' \in [RowIds -> Sessions \cup {None}]
        /\ rows' \subseteq RowIds
    <3>1. t \in RowIds /\ reply[e] \in Sessions \cup {None}
      BY <2>1 DEF TypeOK
    <3>2. CASE inst[t]
      BY <1>15, <3>2 DEF TypeOK, RecordCreated
    <3>3. CASE ~inst[t]
      BY <1>15, <2>1, <3>1, <3>3 DEF TypeOK, RecordCreated
    <3> QED
      BY <3>2, <3>3
  <2>3. pc' \in [Processes -> Pcs] /\ reply' \in [Executors \cup Importers -> Sessions \cup {None}]
    BY <1>15 DEF TypeOK, RecordCreated
  <2>4. \A c \in Clients : pc'[c] \in {"checkRow", "dropRow", "assertDeletable", "removeRow"}
                         => target'[c] \in RowIds
    BY <1>15, DisjointAssumption DEF TypeOK, RecordCreated
  <2>5. \A x \in Executors : Working(x)' => TicketOf(x)' \in Tickets
    BY <1>15, <2>1, DisjointAssumption DEF TypeOK, RecordCreated
  <2>6. \A d \in Deleters : pc'[d] = "deleteRemote" => target'[d] \in RowIds
    BY <1>15, DisjointAssumption DEF TypeOK, RecordCreated
  <2> QED
    BY <1>15, <2>2, <2>3, <2>4, <2>5, <2>6, DisjointAssumption DEF TypeOK, RecordCreated
<1>16. ASSUME NEW e \in Executors, Configure(e)
      PROVE  TypeOK'
  BY <1>16, SlotType DEF TypeOK, Configure
<1>17. ASSUME NEW e \in Executors, ConfigureFails(e)
      PROVE  TypeOK'
  BY <1>17 DEF TypeOK, ConfigureFails
<1>18. ASSUME NEW e \in Executors, MarkWebhookApplied(e)
      PROVE  TypeOK'
  BY <1>18 DEF TypeOK, MarkWebhookApplied
<1>19. ASSUME NEW e \in Executors, MarkCleanup(e)
      PROVE  TypeOK'
  BY <1>19, DisjointAssumption DEF TypeOK, MarkCleanup
<1>20. ASSUME NEW e \in Executors, DeleteRemote(e)
      PROVE  TypeOK'
  BY <1>20 DEF TypeOK, DeleteRemote
<1>21. ASSUME NEW e \in Executors, RemoveConfirmed(e)
      PROVE  TypeOK'
  BY <1>21, NoJobType DEF TypeOK, RemoveConfirmed, Stop
<1>22. ASSUME NEW e \in Executors, Finish(e)
      PROVE  TypeOK'
  BY <1>22, NoJobType DEF TypeOK, Finish, Stop
<1>23. ASSUME NEW e \in Executors, GiveUp(e)
      PROVE  TypeOK'
  BY <1>23, SlotType DEF TypeOK, GiveUp
<1>24. ASSUME NEW e \in Executors, Abandon(e)
      PROVE  TypeOK'
  <2>1. TicketOf(e) \in Tickets
    BY <1>24, ExecutorTicket DEF Abandon
  <2>2. state' \in [Tickets -> States] /\ owner' \in [Tickets -> Executors \cup {None}]
           /\ lease' \in [Tickets -> {"none", "running", "expired"}]
    BY <1>24, <2>1 DEF TypeOK, Abandon, AbandonedState
  <2> QED
    BY <1>24, <2>2, NoJobType, DisjointAssumption DEF TypeOK, Abandon, Stop
<1>25. ASSUME NEW e \in Executors, Crash(e)
      PROVE  TypeOK'
  BY <1>25, SlotType, NoJobType DEF TypeOK, Crash, Stop
<1>26. ASSUME NEW e \in Executors, Spend(e)
      PROVE  TypeOK'
  BY <1>26 DEF TypeOK, Spend
<1>27. ASSUME NEW r \in Recoverers, FetchFinds(r)
      PROVE  TypeOK'
  <2>1. remote[Slot(TicketOf(r))] \in Sessions \cup {None}
    BY <1>27, ExecutorTicket, SlotType DEF TypeOK, FetchFinds
  <2>2. pc' \in [Processes -> Pcs]
    BY <1>27 DEF TypeOK, FetchFinds
  <2>3. reply' \in [Executors \cup Importers -> Sessions \cup {None}]
    <3>1. CASE job[r].cleanup
      BY <1>27, <3>1 DEF TypeOK, FetchFinds
    <3>2. CASE ~job[r].cleanup
      BY <1>27, <2>1, <3>2 DEF TypeOK, FetchFinds
    <3> QED
      BY <3>1, <3>2
  <2> QED
    BY <1>27, <2>2, <2>3, DisjointAssumption DEF TypeOK, FetchFinds
<1>28. ASSUME NEW r \in Recoverers, FetchMisses(r)
      PROVE  TypeOK'
  BY <1>28 DEF TypeOK, FetchMisses
<1>29. ASSUME NEW r \in Recoverers, AssertStillOwned(r)
      PROVE  TypeOK'
  BY <1>29, DisjointAssumption DEF TypeOK, AssertStillOwned
<1>30. ASSUME NEW r \in Recoverers, NEW t \in Tickets, ReleaseExpired(r, t)
      PROVE  TypeOK'
  BY <1>30 DEF TypeOK, ReleaseExpired
<1>31. ASSUME NEW r \in Recoverers, NEW t \in Tickets, Claim(r, t)
      PROVE  TypeOK'
  BY <1>31, DisjointAssumption DEF TypeOK, Claim, Jobs, TicketOf
<1>32. ASSUME NEW d \in Deleters, ReadRow(d)
      PROVE  TypeOK'
  BY <1>32 DEF TypeOK, ReadRow
<1>33. ASSUME NEW d \in Deleters, AssertDeletable(d)
      PROVE  TypeOK'
  BY <1>33, DisjointAssumption DEF TypeOK, AssertDeletable
<1>34. ASSUME NEW d \in Deleters, ClientDelete(d)
      PROVE  TypeOK'
  BY <1>34, SlotType DEF TypeOK, ClientDelete
<1>35. ASSUME NEW d \in Deleters, ClientDeleteFails(d)
      PROVE  TypeOK'
  BY <1>35, SlotType DEF TypeOK, ClientDeleteFails
<1>36. ASSUME NEW m \in Importers, ReadRemote(m)
      PROVE  TypeOK'
  BY <1>36, SlotType DEF TypeOK, ReadRemote
<1>37. ASSUME NEW m \in Importers, Import(m)
      PROVE  TypeOK'
  BY <1>37 DEF TypeOK, Import
<1>38. ASSUME NEW f \in Foreign, NEW s \in Slots, ExternalCreate(f, s)
      PROVE  TypeOK'
  BY <1>38 DEF TypeOK, ExternalCreate
<1>39. ASSUME NEW s \in Slots, ExternalDelete(s)
      PROVE  TypeOK'
  BY <1>39 DEF TypeOK, ExternalDelete
<1>40. ASSUME NEW s \in Slots, LateDelete(s)
      PROVE  TypeOK'
  BY <1>40 DEF TypeOK, LateDelete
<1>41. CASE UNCHANGED vars
  BY <1>41 DEF TypeOK, vars, Working, TicketOf
<1> QED
  BY <1>1, <1>2, <1>3, <1>4, <1>5, <1>6, <1>7, <1>8, <1>9, <1>10, <1>11, <1>12, <1>13, <1>14,
     <1>15, <1>16, <1>17, <1>18, <1>19, <1>20, <1>21, <1>22, <1>23, <1>24, <1>25, <1>26, <1>27,
     <1>28, <1>29, <1>30, <1>31, <1>32, <1>33, <1>34, <1>35, <1>36, <1>37, <1>38, <1>39, <1>40,
     <1>41
  DEF Next, RequestStep, ExecutorStep, RecoveryStep, DeleteStep, ProviderStep, Clients, Executors

(* What an invariant does not mention cannot disturb it. *)
LEMMA Frame ==
  ASSUME Accounting, UNCHANGED ask
  PROVE  /\ UNCHANGED <<state, post, remote>> => RemoteInv'
         /\ UNCHANGED <<state, rows, inst, sid, post>> => RowInv'
         /\ UNCHANGED <<pc, job, state, post>> => RequestInv'
         /\ UNCHANGED <<pc, job, reply, post, remote, inst, state>> => ExecutorInv'
         /\ UNCHANGED <<pc, target, post, remote>> => DeleteInv'
         /\ UNCHANGED <<post, remote, state, rows>> => SessionAccounted'
<1> USE DEF Accounting, Slot, Open, Gone
<1>1. UNCHANGED <<state, post, remote>> => RemoteInv'
  BY DEF RemoteInv
<1>2. UNCHANGED <<state, rows, inst, sid, post>> => RowInv'
  BY DEF RowInv
<1>3. UNCHANGED <<pc, job, state, post>> => RequestInv'
  BY DEF RequestInv
<1>4. UNCHANGED <<pc, job, reply, post, remote, inst, state>> => ExecutorInv'
  BY DEF ExecutorInv, Established, Working, TicketOf
<1>5. UNCHANGED <<pc, target, post, remote>> => DeleteInv'
  BY DEF DeleteInv
<1>6. UNCHANGED <<post, remote, state, rows>> => SessionAccounted'
  BY DEF SessionAccounted
<1> QED
  BY <1>1, <1>2, <1>3, <1>4, <1>5, <1>6

(* What an executor has established outlives the steps of the others: an open ticket stays in  *)
(* its compensation, keeps its instance, and never gets its session back.                      *)
SameExecutor(e) == pc'[e] = pc[e] /\ job'[e] = job[e] /\ reply'[e] = reply[e]

TicketKept(t) ==
  /\ state[t] # "none" => state'[t] # "none"
  /\ Open(t)' => Open(t) /\ (state[t] = "cleanup_pending" => state'[t] = "cleanup_pending")
  /\ inst[t] /\ Open(t)' => inst'[t]
  /\ post[t] = "created" => post'[t] = "created"
  /\ Gone(t) => Gone(t)'

LEMMA Bystander ==
  ASSUME Accounting, NEW e \in Executors, SameExecutor(e), Working(e) => TicketKept(TicketOf(e))
  PROVE  Established(e)'
<1>1. Established(e)
  BY DEF Accounting, ExecutorInv
<1>2. TicketOf(e)' = TicketOf(e) /\ (Working(e)' <=> Working(e))
  BY DEF SameExecutor, TicketOf, Working
<1> QED
  BY <1>1, <1>2 DEF SameExecutor, TicketKept, Established

(* One executor moves; the others and their tickets do not. *)
LEMMA OneExecutorMoves ==
  ASSUME TypeOK, Accounting, NEW e \in Executors, Established(e)',
         \A x \in Executors : x # e => SameExecutor(x),
         \A t \in Tickets : TicketKept(t)
  PROVE  ExecutorInv'
BY Bystander, ExecutorTicket DEF ExecutorInv

(* The same when the ticket of e changes in a way only e can see. *)
LEMMA OneTicketMoves ==
  ASSUME TypeOK, Accounting, NEW e \in Executors, Established(e)', NEW t \in Tickets,
         \A x \in Executors : x # e => SameExecutor(x) /\ (Working(x) => TicketOf(x) # t),
         \A u \in Tickets : u # t => TicketKept(u)
  PROVE  ExecutorInv'
BY Bystander, ExecutorTicket DEF ExecutorInv

(* No executor moves, but perhaps a process that is not one, or is not at work. *)
LEMMA NoExecutorMoves ==
  ASSUME TypeOK, Accounting,
         \A x \in Executors : SameExecutor(x) \/ ~Working(x)',
         \A t \in Tickets : TicketKept(t)
  PROVE  ExecutorInv'
<1>1. \A x \in Executors : ~Working(x)' => Established(x)'
  BY DEF Established
<1> QED
  BY <1>1, Bystander, ExecutorTicket DEF ExecutorInv

(* Every step keeps the accounting of sessions, rows and executors. *)
LEMMA AccountingStep == TypeOK /\ TypeOK' /\ Accounting /\ [Next]_vars => Accounting'
<1> SUFFICES ASSUME TypeOK, TypeOK', Accounting, [Next]_vars
             PROVE  Accounting'
  OBVIOUS
<1> USE DisjointAssumption
<1> USE DEF Goto, ticketVars, remoteVars, localVars, RequestPcs, ExecutorPcs, BeforeCall,
            AfterRecord, Compensating, Clients, Executors, RowIds, Sessions, Processes,
            States, OpenStates, TerminalStates, Working, TicketOf, Slot, Gone, Open
<1>1. ASSUME NEW t \in Tickets, CheckPending(t)
      PROVE  Accounting'
  <2>1. RemoteInv' /\ RowInv' /\ SessionAccounted'
    BY <1>1, Frame DEF CheckPending
  <2>2. RequestInv'
    BY <1>1 DEF Accounting, RequestInv, CheckPending
  <2>3. ExecutorInv'
    BY <1>1 DEF Accounting, ExecutorInv, Established, CheckPending
  <2>4. DeleteInv'
    BY <1>1 DEF Accounting, DeleteInv, CheckPending
  <2> QED
    BY <2>1, <2>2, <2>3, <2>4 DEF Accounting
<1>2. ASSUME NEW t \in Tickets, FindExisting(t)
      PROVE  Accounting'
  <2>1. RemoteInv' /\ RowInv' /\ SessionAccounted'
    BY <1>2, Frame DEF FindExisting
  <2>2. RequestInv'
    BY <1>2 DEF TypeOK, Accounting, RequestInv, FindExisting
  <2>3. ExecutorInv'
    <3>1. \A x \in Executors : x # t => SameExecutor(x)
      BY <1>2, Shapes DEF SameExecutor, FindExisting
    <3>2. \A x \in Tickets : TicketKept(x)
      BY <1>2, Shapes DEF TicketKept, FindExisting
    <3>3. Established(t)'
      BY <1>2, Shapes DEF Established, FindExisting
    <3> QED
      BY <3>1, <3>2, <3>3, OneExecutorMoves
  <2>4. DeleteInv'
    BY <1>2 DEF TypeOK, Accounting, DeleteInv, RowInv, FindExisting
  <2> QED
    BY <2>1, <2>2, <2>3, <2>4 DEF Accounting
<1>3. ASSUME NEW t \in Tickets, CheckRow(t)
      PROVE  Accounting'
  <2>1. RemoteInv' /\ RowInv' /\ SessionAccounted'
    BY <1>3, Frame DEF CheckRow
  <2>2. RequestInv'
    BY <1>3 DEF Accounting, RequestInv, CheckRow
  <2>3. ExecutorInv'
    BY <1>3 DEF Accounting, ExecutorInv, Established, CheckRow
  <2>4. DeleteInv'
    <3>1. target[t] \in Tickets => post[target[t]] = "created" /\ remote[Slot(target[t])] # target[t]
      BY <1>3 DEF Accounting, DeleteInv, CheckRow
    <3> QED
      BY <1>3, <3>1 DEF TypeOK, Accounting, DeleteInv, CheckRow
  <2> QED
    BY <2>1, <2>2, <2>3, <2>4 DEF Accounting
<1>4. ASSUME NEW t \in Tickets, Reserve(t)
      PROVE  Accounting'
  <2>1. RemoteInv'
    BY <1>4 DEF TypeOK, Accounting, RemoteInv, RequestInv, Reserve
  <2>2. RowInv'
    BY <1>4 DEF TypeOK, Accounting, RowInv, RequestInv, RemoteInv, Reserve
  <2>3. RequestInv'
    BY <1>4 DEF TypeOK, Accounting, RequestInv, Reserve
  <2>4. ExecutorInv'
    <3>1. job[t].sid = None /\ ~job[t].inst /\ ~job[t].cleanup /\ job[t].ticket = t
      <4>1. job[t] = NoJob(t)
        BY DEF Accounting, RequestInv
      <4> QED
        BY <4>1 DEF NoJob
    <3>2. \A e \in Executors : e # t /\ Working(e) => TicketOf(e) # t
      <4>1. state[t] = "none"
        BY <1>4 DEF Accounting, RequestInv, Reserve
      <4>2. \A e \in Executors : Working(e) => state[TicketOf(e)] # "none"
        BY DEF Accounting, ExecutorInv, Established
      <4> QED
        BY <4>1, <4>2
    <3> QED
      <4>1. \A x \in Executors : x # t => SameExecutor(x)
        BY <1>4, Shapes DEF SameExecutor, Reserve
      <4>2. \A x \in Tickets : x # t => TicketKept(x)
        BY <1>4, Shapes DEF TicketKept, Reserve
      <4>3. Established(t)'
        BY <1>4, <3>1, Shapes DEF Established, Reserve
      <4> QED
        BY <3>2, <4>1, <4>2, <4>3, OneTicketMoves
  <2>5. DeleteInv'
    BY <1>4 DEF Accounting, DeleteInv, Reserve
  <2>6. SessionAccounted'
    <3>1. \A x \in Tickets : Open(x) => Open(x)'
      BY <1>4, Shapes DEF Reserve
    <3> QED
      BY <1>4, <3>1 DEF Accounting, SessionAccounted, Reserve
  <2> QED
    BY <2>1, <2>2, <2>3, <2>4, <2>5, <2>6 DEF Accounting
<1>5. ASSUME NEW t \in Tickets, MarkCreating(t)
      PROVE  Accounting'
  <2>1. RemoteInv'
    BY <1>5 DEF Accounting, RemoteInv, MarkCreating, AssertOwned, Owned
  <2>2. RowInv'
    BY <1>5 DEF Accounting, RowInv, MarkCreating, AssertOwned, Owned
  <2>3. RequestInv'
    BY <1>5 DEF TypeOK, Accounting, RequestInv, MarkCreating, AssertOwned, Owned
  <2>4. ExecutorInv'
    <3>1. \A x \in Tickets : Open(x)' <=> Open(x)
      BY <1>5 DEF TypeOK, MarkCreating
    <3>2. \A x \in Tickets : x # t => state'[x] = state[x]
      BY <1>5 DEF TypeOK, MarkCreating
    <3>3. \A e \in Executors : Working(e)' => Working(e) /\ TicketOf(e) \in Tickets
      BY <1>5, ExecutorTicket DEF TypeOK, MarkCreating
    <3> QED
      <4>1. \A x \in Executors : x # t => SameExecutor(x)
        BY <1>5, Shapes DEF SameExecutor, MarkCreating
      <4>2. \A x \in Tickets : TicketKept(x)
        BY <1>5, <3>1, Shapes DEF TicketKept, MarkCreating
      <4>3. Established(t)'
        BY <1>5, <3>1, <3>3, Shapes DEF Accounting, ExecutorInv, Established, MarkCreating
      <4> QED
        BY <4>1, <4>2, <4>3, OneExecutorMoves
  <2>5. DeleteInv'
    BY <1>5 DEF Accounting, DeleteInv, MarkCreating, AssertOwned, Owned
  <2>6. SessionAccounted'
    BY <1>5 DEF Accounting, SessionAccounted, MarkCreating, AssertOwned, Owned
  <2> QED
    BY <2>1, <2>2, <2>3, <2>4, <2>5, <2>6 DEF Accounting
<1>6. ASSUME NEW t \in Tickets, Send(t)
      PROVE  Accounting'
  <2>1. RemoteInv'
    BY <1>6 DEF TypeOK, Accounting, RemoteInv, RequestInv, Send
  <2>2. RowInv'
    BY <1>6 DEF TypeOK, Accounting, RowInv, RequestInv, Send
  <2>3. RequestInv'
    BY <1>6 DEF TypeOK, Accounting, RequestInv, Send
  <2>4. ExecutorInv'
    <3>1. post[t] = "unsent" /\ state[t] # "none" /\ job[t] = NoJob(t)
      BY <1>6 DEF Accounting, RequestInv, Send
    <3>2. \A x \in Executors : x # t => SameExecutor(x)
      BY <1>6, Shapes DEF SameExecutor, Send
    <3>3. \A x \in Tickets : TicketKept(x)
      BY <1>6, <3>1, Shapes DEF TicketKept, Send
    <3>4. Established(t)'
      BY <1>6, <3>1, Shapes DEF Established, Send, NoJob
    <3> QED
      BY <3>2, <3>3, <3>4, OneExecutorMoves
  <2>5. DeleteInv'
    BY <1>6 DEF TypeOK, Accounting, DeleteInv, RequestInv, Send
  <2>6. SessionAccounted'
    BY <1>6 DEF TypeOK, Accounting, SessionAccounted, RequestInv, RemoteInv, Send
  <2> QED
    BY <2>1, <2>2, <2>3, <2>4, <2>5, <2>6 DEF Accounting
<1>7. ASSUME NEW t \in Tickets, PostReply(t)
      PROVE  Accounting'
  <2>1. RemoteInv' /\ RowInv' /\ SessionAccounted'
    BY <1>7, Frame DEF PostReply
  <2>2. RequestInv'
    BY <1>7 DEF Accounting, RequestInv, PostReply
  <2>3. ExecutorInv'
    <3>1. \A x \in Executors : x # t => SameExecutor(x)
      BY <1>7, Shapes DEF SameExecutor, PostReply
    <3>2. \A x \in Tickets : TicketKept(x)
      BY <1>7, Shapes DEF TicketKept, PostReply
    <3>3. Established(t)'
      <4>1. pc'[t] = "record" /\ reply'[t] \in {t, None}
        BY <1>7, Shapes DEF PostReply
      <4>2. TicketOf(t) = t /\ Working(t)
        BY <1>7 DEF TypeOK, PostReply
      <4> QED
        BY <1>7, <4>1, <4>2 DEF Accounting, ExecutorInv, Established, PostReply
    <3> QED
      BY <3>1, <3>2, <3>3, OneExecutorMoves
  <2>4. DeleteInv'
    BY <1>7 DEF Accounting, DeleteInv, PostReply
  <2> QED
    BY <2>1, <2>2, <2>3, <2>4 DEF Accounting
<1>8. ASSUME NEW t \in Tickets, PostFails(t)
      PROVE  Accounting'
  <2>1. RemoteInv' /\ RowInv' /\ SessionAccounted'
    BY <1>8, Frame DEF PostFails
  <2>2. RequestInv'
    BY <1>8 DEF Accounting, RequestInv, PostFails
  <2>3. ExecutorInv'
    BY <1>8 DEF Accounting, ExecutorInv, Established, PostFails
  <2>4. DeleteInv'
    BY <1>8 DEF Accounting, DeleteInv, PostFails
  <2> QED
    BY <2>1, <2>2, <2>3, <2>4 DEF Accounting
<1>9. ASSUME NEW t \in Tickets, MarkWebhookAppliedFails(t)
      PROVE  Accounting'
  <2>1. RemoteInv' /\ RowInv' /\ SessionAccounted'
    BY <1>9, Frame DEF MarkWebhookAppliedFails
  <2>2. RequestInv'
    BY <1>9 DEF Accounting, RequestInv, MarkWebhookAppliedFails
  <2>3. ExecutorInv'
    BY <1>9 DEF Accounting, ExecutorInv, Established, MarkWebhookAppliedFails
  <2>4. DeleteInv'
    BY <1>9 DEF Accounting, DeleteInv, MarkWebhookAppliedFails
  <2> QED
    BY <2>1, <2>2, <2>3, <2>4 DEF Accounting
<1>10. ASSUME NEW c \in Clients, RemoveRow(c)
      PROVE  Accounting'
  <2>1. RemoteInv'
    BY <1>10, Frame DEF RemoveRow
  <2>2. RowInv'
    <3>1. \A t \in Tickets : inst'[t] <=> (inst[t] /\ t # target[c])
      BY <1>10 DEF RemoveRow, ClearInst
    <3>2. \A t \in Tickets : t \in rows' <=> (t \in rows /\ t # target[c])
      BY <1>10 DEF RemoveRow
    <3> QED
      BY <1>10, <3>1, <3>2 DEF Accounting, RowInv, RemoveRow, Referenced
  <2>3. RequestInv'
    <3>1. \A t \in Tickets : pc'[t] = pc[t]
                            \/ pc'[t] = "done" \/ (pc[t] = "dropRow" /\ pc'[t] = "reserve")
      BY <1>10 DEF TypeOK, RemoveRow
    <3> QED
      BY <1>10, <3>1 DEF Accounting, RequestInv, RemoveRow
  <2>4. ExecutorInv'
    <3>1. \A x \in Executors : x # c => SameExecutor(x)
      BY <1>10, Shapes DEF SameExecutor, RemoveRow
    <3>2. \A x \in Tickets : TicketKept(x)
      BY <1>10, Shapes DEF TicketKept, RemoveRow, ClearInst, Referenced
    <3>3. c \in Executors => ~Working(c)'
      BY <1>10, Shapes DEF RemoveRow
    <3> QED
      BY <3>1, <3>2, <3>3, NoExecutorMoves
  <2>5. DeleteInv'
    BY <1>10 DEF Accounting, DeleteInv, RemoveRow, ClearInst, Referenced
  <2>6. SessionAccounted'
    BY <1>10 DEF TypeOK, Accounting, SessionAccounted, DeleteInv, RemoveRow, ClearInst, Referenced
  <2> QED
    BY <2>1, <2>2, <2>3, <2>4, <2>5, <2>6 DEF Accounting
<1>11. ASSUME NEW c \in Clients, Refuse(c)
      PROVE  Accounting'
  <2>1. RemoteInv' /\ RowInv' /\ SessionAccounted'
    BY <1>11, Frame DEF Refuse
  <2>2. RequestInv'
    BY <1>11 DEF Accounting, RequestInv, Refuse
  <2>3. ExecutorInv'
    BY <1>11 DEF Accounting, ExecutorInv, Established, Refuse
  <2>4. DeleteInv'
    BY <1>11 DEF Accounting, DeleteInv, Refuse
  <2> QED
    BY <2>1, <2>2, <2>3, <2>4 DEF Accounting
<1>12. ASSUME NEW t \in Tickets, PostCreates(t)
      PROVE  Accounting'
  <2>1. RemoteInv'
    BY <1>12 DEF TypeOK, Accounting, RemoteInv, PostCreates
  <2>2. RowInv'
    BY <1>12 DEF Accounting, RowInv, PostCreates
  <2>3. RequestInv'
    BY <1>12 DEF Accounting, RequestInv, PostCreates
  <2>4. ExecutorInv'
    <3>1. \A x \in Executors : SameExecutor(x)
      BY <1>12 DEF SameExecutor, PostCreates
    <3>2. \A x \in Tickets : TicketKept(x)
      <4>1. \A x \in Tickets : post[x] = "created" => x # t /\ post'[x] = "created"
        BY <1>12, Shapes DEF PostCreates
      <4>2. \A x \in Tickets : remote'[Slot(x)] \in {remote[Slot(x)], t}
        BY <1>12, SlotType, Shapes DEF PostCreates
      <4> QED
        BY <1>12, <4>1, <4>2 DEF TicketKept, PostCreates
    <3> QED
      BY <3>1, <3>2, NoExecutorMoves
  <2>5. DeleteInv'
    BY <1>12 DEF Accounting, DeleteInv, PostCreates
  <2>6. SessionAccounted'
    BY <1>12 DEF Accounting, SessionAccounted, PostCreates
  <2> QED
    BY <2>1, <2>2, <2>3, <2>4, <2>5, <2>6 DEF Accounting
<1>13. ASSUME NEW t \in Tickets, PostVoid(t)
      PROVE  Accounting'
  <2>1. RemoteInv'
    BY <1>13 DEF Accounting, RemoteInv, PostVoid
  <2>2. RowInv'
    BY <1>13 DEF Accounting, RowInv, PostVoid
  <2>3. RequestInv'
    BY <1>13 DEF Accounting, RequestInv, PostVoid
  <2>4. ExecutorInv'
    BY <1>13 DEF Accounting, ExecutorInv, Established, PostVoid
  <2>5. DeleteInv'
    BY <1>13 DEF Accounting, DeleteInv, PostVoid
  <2>6. SessionAccounted'
    BY <1>13 DEF Accounting, SessionAccounted, PostVoid
  <2> QED
    BY <2>1, <2>2, <2>3, <2>4, <2>5, <2>6 DEF Accounting
<1>14. ASSUME NEW t \in Tickets, Expire(t)
      PROVE  Accounting'
  <2>1. RemoteInv' /\ RowInv' /\ RequestInv' /\ ExecutorInv' /\ DeleteInv' /\ SessionAccounted'
    BY <1>14, Frame DEF Expire
  <2> QED
    BY <2>1 DEF Accounting
<1>15. ASSUME NEW e \in Executors, RecordCreated(e)
      PROVE  Accounting'
  <2>1. RemoteInv'
    BY <1>15, Frame DEF RecordCreated
  <2>2. RowInv'
    <3> DEFINE t == TicketOf(e)
    <3>1. t \in Tickets /\ reply[e] \in {t, None} /\ post[t] = "created"
      BY <1>15, ExecutorTicket DEF Accounting, ExecutorInv, Established, RecordCreated
    <3>2. CASE inst[t]
      BY <1>15, <3>2 DEF Accounting, RowInv, RecordCreated
    <3>3. CASE ~inst[t]
      BY <1>15, <3>1, <3>3 DEF TypeOK, Accounting, RowInv, RecordCreated
    <3> QED
      BY <3>2, <3>3
  <2>3. RequestInv'
    BY <1>15 DEF Accounting, RequestInv, RecordCreated, Owned, Open
  <2>4. ExecutorInv'
    <3>1. \A x \in Executors : x # e => SameExecutor(x)
      BY <1>15, Shapes DEF SameExecutor, RecordCreated
    <3>2. \A x \in Tickets : TicketKept(x)
      BY <1>15, Shapes DEF TicketKept, RecordCreated
    <3>3. Established(e)'
      <4>1. pc'[e] \in {"finish", "configure", "assertApply"} /\ job'[e] = job[e]
        BY <1>15, Shapes DEF RecordCreated
      <4>2. inst'[TicketOf(e)]
        BY <1>15, Shapes, ExecutorTicket DEF RecordCreated
      <4> QED
        BY <1>15, <4>1, <4>2 DEF Accounting, ExecutorInv, Established, RecordCreated
    <3> QED
      BY <3>1, <3>2, <3>3, OneExecutorMoves
  <2>5. DeleteInv'
    BY <1>15 DEF Accounting, DeleteInv, RecordCreated, Owned, Open
  <2>6. SessionAccounted'
    BY <1>15 DEF Accounting, SessionAccounted, RecordCreated, Owned, Open
  <2> QED
    BY <2>1, <2>2, <2>3, <2>4, <2>5, <2>6 DEF Accounting
<1>16. ASSUME NEW e \in Executors, Configure(e)
      PROVE  Accounting'
  <2>1. RemoteInv' /\ RowInv' /\ SessionAccounted'
    BY <1>16, Frame DEF Configure
  <2>2. RequestInv'
    BY <1>16 DEF Accounting, RequestInv, Configure
  <2>3. ExecutorInv'
    <3>1. \A x \in Executors : x # e => SameExecutor(x)
      BY <1>16, Shapes DEF SameExecutor, Configure
    <3>2. \A x \in Tickets : TicketKept(x)
      BY <1>16 DEF TicketKept, Configure
    <3>3. Established(e)'
      <4>1. pc'[e] = "markApplied"
        BY <1>16, Shapes DEF Configure
      <4> QED
        BY <1>16, <4>1 DEF Accounting, ExecutorInv, Established, Configure
    <3> QED
      BY <3>1, <3>2, <3>3, OneExecutorMoves
  <2>4. DeleteInv'
    BY <1>16 DEF Accounting, DeleteInv, Configure
  <2> QED
    BY <2>1, <2>2, <2>3, <2>4 DEF Accounting
<1>17. ASSUME NEW e \in Executors, ConfigureFails(e)
      PROVE  Accounting'
  <2>1. RemoteInv' /\ RowInv' /\ SessionAccounted'
    BY <1>17, Frame DEF ConfigureFails
  <2>2. RequestInv'
    BY <1>17 DEF Accounting, RequestInv, ConfigureFails
  <2>3. ExecutorInv'
    BY <1>17 DEF Accounting, ExecutorInv, Established, ConfigureFails
  <2>4. DeleteInv'
    BY <1>17 DEF Accounting, DeleteInv, ConfigureFails
  <2> QED
    BY <2>1, <2>2, <2>3, <2>4 DEF Accounting
<1>18. ASSUME NEW e \in Executors, MarkWebhookApplied(e)
      PROVE  Accounting'
  <2>1. RemoteInv' /\ RowInv' /\ SessionAccounted'
    BY <1>18, Frame DEF MarkWebhookApplied
  <2>2. RequestInv'
    BY <1>18 DEF Accounting, RequestInv, MarkWebhookApplied
  <2>3. ExecutorInv'
    BY <1>18 DEF Accounting, ExecutorInv, Established, MarkWebhookApplied
  <2>4. DeleteInv'
    BY <1>18 DEF Accounting, DeleteInv, MarkWebhookApplied
  <2> QED
    BY <2>1, <2>2, <2>3, <2>4 DEF Accounting
<1>19. ASSUME NEW e \in Executors, MarkCleanup(e)
      PROVE  Accounting'
  <2>1. RemoteInv'
    BY <1>19 DEF Accounting, RemoteInv, MarkCleanup, Owned
  <2>2. RowInv'
    <3>1. TicketOf(e) \in Tickets /\ inst[TicketOf(e)] /\ Open(TicketOf(e))
      BY <1>19, ExecutorTicket DEF Accounting, ExecutorInv, Established, MarkCleanup, Owned
    <3> QED
      BY <1>19, <3>1 DEF TypeOK, Accounting, RowInv, MarkCleanup
  <2>3. RequestInv'
    BY <1>19 DEF Accounting, RequestInv, MarkCleanup, Owned
  <2>4. ExecutorInv'
    <3>1. TicketOf(e) \in Tickets /\ Open(TicketOf(e))
      BY <1>19, ExecutorTicket DEF MarkCleanup, Owned
    <3> QED
      <4>1. \A x \in Executors : x # e => SameExecutor(x)
        BY <1>19, Shapes DEF SameExecutor, MarkCleanup
      <4>2. \A x \in Tickets : TicketKept(x)
        BY <1>19, <3>1, Shapes DEF TicketKept, MarkCleanup
      <4>3. Established(e)'
        <5>1. state'[TicketOf(e)] = "cleanup_pending" /\ pc'[e] \in {"deleteRemote", "abandon"}
          BY <1>19, <3>1, Shapes DEF MarkCleanup
        <5> QED
          BY <1>19, <5>1 DEF Accounting, ExecutorInv, Established, MarkCleanup
      <4> QED
        BY <4>1, <4>2, <4>3, OneExecutorMoves
  <2>5. DeleteInv'
    BY <1>19 DEF Accounting, DeleteInv, MarkCleanup, Owned
  <2>6. SessionAccounted'
    BY <1>19 DEF Accounting, SessionAccounted, MarkCleanup, Owned
  <2> QED
    BY <2>1, <2>2, <2>3, <2>4, <2>5, <2>6 DEF Accounting
<1>20. ASSUME NEW e \in Executors, DeleteRemote(e)
      PROVE  Accounting'
  <2>1. RowInv'
    BY <1>20, Frame DEF DeleteRemote
  <2>2. RemoteInv'
    BY <1>20 DEF Accounting, RemoteInv, DeleteRemote
  <2>3. RequestInv'
    BY <1>20 DEF Accounting, RequestInv, DeleteRemote
  <2>4. ExecutorInv'
    <3>1. \A s \in Slots : remote'[s] \in {remote[s], None}
      BY <1>20, Shapes DEF DeleteRemote
    <3>2. TicketOf(e) \in Tickets /\ remote'[Slot(TicketOf(e))] # TicketOf(e)
      <4>1. TicketOf(e) \in Tickets /\ Slot(TicketOf(e)) \in Slots
        BY <1>20, ExecutorTicket, SlotType DEF DeleteRemote
      <4> QED
        BY <1>20, <4>1, Shapes DEF DeleteRemote
    <3>3. pc'[e] = "removeConfirmed" => post[TicketOf(e)] = "created"
      <4>1. CASE e \in Tickets
        BY <1>20, <4>1 DEF TypeOK, Accounting, RequestInv, DeleteRemote
      <4>2. CASE e \notin Tickets
        <5>1. pc'[e] = "removeConfirmed" => job[e].inst
          BY <1>20, <4>2, Shapes DEF DeleteRemote
        <5> QED
          BY <1>20, <5>1 DEF Accounting, ExecutorInv, Established, DeleteRemote
      <4> QED
        BY <4>1, <4>2
    <3>4. \A x \in Executors : Working(x) => Slot(TicketOf(x)) \in Slots /\ TicketOf(x) \in Tickets
      BY ExecutorTicket, SlotType
    <3> QED
      <4>1. \A x \in Executors : x # e => SameExecutor(x)
        BY <1>20, Shapes DEF SameExecutor, DeleteRemote
      <4>2. \A x \in Tickets : TicketKept(x)
        <5>1. \A x \in Tickets : remote'[Slot(x)] \in {remote[Slot(x)], None}
          BY <3>1, SlotType
        <5> QED
          BY <1>20, <5>1 DEF TicketKept, DeleteRemote
      <4>3. Established(e)'
        <5>1. pc'[e] \in {"removeConfirmed", "abandon"}
          BY <1>20, Shapes DEF DeleteRemote
        <5> QED
          BY <1>20, <3>2, <3>3, <5>1 DEF Accounting, ExecutorInv, Established, DeleteRemote
      <4> QED
        BY <4>1, <4>2, <4>3, OneExecutorMoves
  <2>5. DeleteInv'
    BY <1>20 DEF Accounting, DeleteInv, DeleteRemote
  <2>6. SessionAccounted'
    BY <1>20 DEF Accounting, SessionAccounted, DeleteRemote
  <2> QED
    BY <2>1, <2>2, <2>3, <2>4, <2>5, <2>6 DEF Accounting
<1>21. ASSUME NEW e \in Executors, RemoveConfirmed(e)
      PROVE  Accounting'
  <2>1. RemoteInv'
    <3>1. TicketOf(e) \in Tickets /\ post[TicketOf(e)] = "created"
      BY <1>21, ExecutorTicket DEF Accounting, ExecutorInv, Established, RemoveConfirmed
    <3>2. \A t \in Tickets : state'[t] = state[t] \/ (t = TicketOf(e) /\ state'[t] = "failed")
      BY <1>21, Shapes DEF RemoveConfirmed
    <3> QED
      BY <1>21, <3>1, <3>2 DEF Accounting, RemoteInv, RemoveConfirmed
  <2>2. RowInv'
    <3>1. TicketOf(e) \in Tickets
      BY <1>21, ExecutorTicket DEF RemoveConfirmed
    <3>2. \A t \in Tickets : t # TicketOf(e) =>
            state'[t] = state[t] /\ inst'[t] = inst[t] /\ (t \in rows' <=> t \in rows)
      BY <1>21, Shapes DEF RemoveConfirmed
    <3>3. /\ state'[TicketOf(e)] = "failed" /\ ~inst'[TicketOf(e)]
          /\ TicketOf(e) \notin rows'
      BY <1>21, <3>1, Shapes DEF RemoveConfirmed
    <3> QED
      BY <1>21, <3>2, <3>3 DEF Accounting, RowInv, RemoveConfirmed
  <2>3. RequestInv'
    <3>1. post[TicketOf(e)] = "created" /\ TicketOf(e) \in Tickets
      BY <1>21, ExecutorTicket DEF Accounting, ExecutorInv, Established, RemoveConfirmed
    <3>2. \A t \in Tickets : job'[t] = NoJob(t)
      BY <1>21, Shapes DEF Accounting, RequestInv, RemoveConfirmed, Stop
    <3>3. \A t \in Tickets : pc'[t] = pc[t] \/ pc'[t] = "done"
      BY <1>21, Shapes DEF RemoveConfirmed, Stop
    <3>4. \A t \in Tickets : state'[t] = state[t] \/ (t = TicketOf(e) /\ state'[t] = "failed")
      BY <1>21, Shapes DEF RemoveConfirmed
    <3>5. state[TicketOf(e)] # "none"
      BY <1>21 DEF RemoveConfirmed, Owned
    <3> QED
      BY <1>21, <3>1, <3>2, <3>3, <3>4, <3>5 DEF Accounting, RequestInv, RemoveConfirmed
  <2>4. ExecutorInv'
    <3>1. TicketOf(e) \in Tickets /\ state'[TicketOf(e)] = "failed" /\ ~Working(e)'
      BY <1>21, ExecutorTicket DEF TypeOK, RemoveConfirmed, Stop
    <3>2. \A x \in Executors : x # e => job'[x] = job[x] /\ reply'[x] = reply[x] /\ pc'[x] = pc[x]
      BY <1>21 DEF TypeOK, RemoveConfirmed, Stop
    <3>3. /\ \A t \in Tickets : t # TicketOf(e) => state'[t] = state[t] /\ inst'[t] = inst[t]
          /\ UNCHANGED <<ask, post, remote>>
      BY <1>21, <3>1 DEF TypeOK, RemoveConfirmed
    <3>4. ASSUME NEW x \in Executors, Working(x)', x # e
          PROVE  /\ job'[x] = job[x] /\ reply'[x] = reply[x] /\ pc'[x] = pc[x]
                 /\ Working(x) /\ TicketOf(x) \in Tickets
      BY <3>2, <3>4, ExecutorTicket
    <3> QED
      BY <3>1, <3>3, <3>4 DEF Accounting, ExecutorInv, Established
  <2>5. DeleteInv'
    BY <1>21 DEF Accounting, DeleteInv, RemoveConfirmed, Stop, NoJob, Owned
  <2>6. SessionAccounted'
    <3>1. Gone(TicketOf(e)) /\ TicketOf(e) \in Tickets
      BY <1>21, ExecutorTicket DEF Accounting, ExecutorInv, Established, RemoveConfirmed
    <3>2. \A t \in Tickets : t # TicketOf(e) => state'[t] = state[t] /\ (t \in rows' <=> t \in rows)
      BY <1>21, Shapes DEF RemoveConfirmed
    <3> QED
      BY <1>21, <3>1, <3>2 DEF Accounting, SessionAccounted, RemoveConfirmed
  <2> QED
    BY <2>1, <2>2, <2>3, <2>4, <2>5, <2>6 DEF Accounting
<1>22. ASSUME NEW e \in Executors, Finish(e)
      PROVE  Accounting'
  <2>1. RemoteInv'
    <3>1. TicketOf(e) \in Tickets /\ post[TicketOf(e)] = "created"
      BY <1>22, ExecutorTicket DEF Accounting, RowInv, Finish
    <3>2. \A t \in Tickets : state'[t] = state[t] \/ (t = TicketOf(e) /\ state'[t] = "committed")
      BY <1>22, Shapes DEF Finish
    <3> QED
      BY <1>22, <3>1, <3>2 DEF Accounting, RemoteInv, Finish
  <2>2. RowInv'
    BY <1>22 DEF Accounting, RowInv, Finish, Stop, NoJob, Owned
  <2>3. RequestInv'
    <3>1. TicketOf(e) \in Tickets /\ state[TicketOf(e)] # "none"
      BY <1>22, ExecutorTicket DEF Accounting, ExecutorInv, Established, Finish
    <3>2. \A t \in Tickets : job'[t] = NoJob(t)
      BY <1>22, Shapes DEF Accounting, RequestInv, Finish, Stop
    <3>3. \A t \in Tickets : pc'[t] = pc[t] \/ pc'[t] = "done"
      BY <1>22, Shapes DEF Finish, Stop
    <3>4. \A t \in Tickets : state'[t] = state[t] \/ (t = TicketOf(e) /\ state'[t] = "committed")
      BY <1>22, Shapes DEF Finish
    <3> QED
      BY <1>22, <3>1, <3>2, <3>3, <3>4 DEF Accounting, RequestInv, Finish
  <2>4. ExecutorInv'
    <3>1. \A x \in Executors : x # e => SameExecutor(x)
      BY <1>22, Shapes DEF SameExecutor, Finish, Stop
    <3>2. \A x \in Tickets : TicketKept(x)
      BY <1>22, Shapes DEF TicketKept, Finish
    <3>3. Established(e)'
      BY <1>22, Shapes DEF Established, Finish, Stop
    <3> QED
      BY <3>1, <3>2, <3>3, OneExecutorMoves
  <2>5. DeleteInv'
    BY <1>22 DEF Accounting, DeleteInv, Finish, Stop, NoJob, Owned
  <2>6. SessionAccounted'
    <3>1. TicketOf(e) \in rows /\ TicketOf(e) \in Tickets
      BY <1>22, ExecutorTicket DEF Accounting, RowInv, Finish
    <3>2. \A t \in Tickets : t # TicketOf(e) => state'[t] = state[t]
      BY <1>22, Shapes DEF Finish
    <3> QED
      BY <1>22, <3>1, <3>2 DEF Accounting, SessionAccounted, Finish
  <2> QED
    BY <2>1, <2>2, <2>3, <2>4, <2>5, <2>6 DEF Accounting
<1>23. ASSUME NEW e \in Executors, GiveUp(e)
      PROVE  Accounting'
  <2>1. RemoteInv' /\ RowInv' /\ SessionAccounted'
    BY <1>23, Frame DEF GiveUp
  <2>2. RequestInv'
    BY <1>23 DEF Accounting, RequestInv, GiveUp
  <2>3. ExecutorInv'
    <3>1. \A x \in Executors : x # e => SameExecutor(x)
      BY <1>23, Shapes DEF SameExecutor, GiveUp
    <3>2. \A x \in Tickets : TicketKept(x)
      BY <1>23 DEF TicketKept, GiveUp
    <3>3. Established(e)'
      <4>1. pc'[e] = "abandon"
        BY <1>23, Shapes DEF GiveUp
      <4> QED
        BY <1>23, <4>1 DEF Accounting, ExecutorInv, Established, GiveUp
    <3> QED
      BY <3>1, <3>2, <3>3, OneExecutorMoves
  <2>4. DeleteInv'
    BY <1>23 DEF Accounting, DeleteInv, GiveUp
  <2> QED
    BY <2>1, <2>2, <2>3, <2>4 DEF Accounting
<1>24. ASSUME NEW e \in Executors, Abandon(e)
      PROVE  Accounting'
  <2>1. RemoteInv'
    <3>1. \A t \in Tickets : \/ state'[t] = state[t]
                             \/ state'[t] = "released" /\ state[t] = "reserved"
                             \/ state'[t] \in {"uncertain", "cleanup_pending"}
      BY <1>24, Shapes DEF Abandon, AbandonedState
    <3> QED
      BY <1>24, <3>1 DEF Accounting, RemoteInv, Abandon
  <2>2. RowInv'
    BY <1>24 DEF TypeOK, Accounting, RowInv, Abandon, AbandonedState, Stop, NoJob, Owned
  <2>3. RequestInv'
    <3>1. TicketOf(e) \in Tickets /\ state[TicketOf(e)] # "none"
      BY <1>24, ExecutorTicket DEF Accounting, ExecutorInv, Established, Abandon
    <3>2. \A t \in Tickets : state'[t] = state[t]
            \/ (t = TicketOf(e) /\ Open(t) /\ state'[t] = AbandonedState(state[t]))
      BY <1>24 DEF TypeOK, Abandon, Owned
    <3>3. \A t \in Tickets : job'[t] = NoJob(t)
      BY <1>24 DEF TypeOK, Accounting, RequestInv, Abandon, Stop
    <3>4. \A t \in Tickets : pc'[t] = pc[t] \/ pc'[t] = "done"
      BY <1>24 DEF TypeOK, Abandon, Stop
    <3> QED
      BY <1>24, <3>1, <3>2, <3>3, <3>4 DEF TypeOK, Accounting, RequestInv, Abandon, AbandonedState
  <2>4. ExecutorInv'
    <3>1. \A x \in Executors : x # e => SameExecutor(x)
      BY <1>24, Shapes DEF SameExecutor, Abandon, Stop
    <3>2. \A x \in Tickets : TicketKept(x)
      BY <1>24, Shapes DEF TicketKept, Abandon, AbandonedState, Owned
    <3>3. Established(e)'
      BY <1>24, Shapes DEF Established, Abandon, Stop
    <3> QED
      BY <3>1, <3>2, <3>3, OneExecutorMoves
  <2>5. DeleteInv'
    BY <1>24 DEF Accounting, DeleteInv, Abandon, AbandonedState, Stop, NoJob, Owned
  <2>6. SessionAccounted'
    <3>1. \A t \in Tickets : state'[t] = state[t] \/ (Open(t) /\ (Open(t)' \/ state[t] = "reserved"))
      BY <1>24 DEF TypeOK, Abandon, Owned, AbandonedState
    <3>2. \A t \in Tickets : state[t] = "reserved" => post[t] = "unsent" /\ remote[Slot(t)] # t
      BY SlotType DEF Accounting, RemoteInv
    <3> QED
      BY <1>24, <3>1, <3>2 DEF Accounting, SessionAccounted, Abandon
  <2> QED
    BY <2>1, <2>2, <2>3, <2>4, <2>5, <2>6 DEF Accounting
<1>25. ASSUME NEW e \in Executors, Crash(e)
      PROVE  Accounting'
  <2>1. RemoteInv' /\ RowInv' /\ SessionAccounted'
    BY <1>25, Frame DEF Crash, Stop
  <2>2. RequestInv'
    <3>1. \A t \in Tickets : job'[t] = NoJob(t) /\ pc'[t] \in {pc[t], "done"}
      BY <1>25, Shapes DEF Accounting, RequestInv, Crash, Stop
    <3> QED
      BY <1>25, <3>1 DEF Accounting, RequestInv, Crash
  <2>3. ExecutorInv'
    <3>1. \A x \in Executors : x # e => SameExecutor(x)
      BY <1>25, Shapes DEF SameExecutor, Crash, Stop
    <3>2. \A x \in Tickets : TicketKept(x)
      BY <1>25, Shapes DEF TicketKept, Crash
    <3>3. Established(e)'
      BY <1>25, Shapes DEF Established, Crash, Stop
    <3> QED
      BY <3>1, <3>2, <3>3, OneExecutorMoves
  <2>4. DeleteInv'
    BY <1>25 DEF Accounting, DeleteInv, Crash, Stop, NoJob
  <2> QED
    BY <2>1, <2>2, <2>3, <2>4 DEF Accounting
<1>26. ASSUME NEW e \in Executors, Spend(e)
      PROVE  Accounting'
  <2>1. RemoteInv' /\ RowInv' /\ RequestInv' /\ ExecutorInv' /\ DeleteInv' /\ SessionAccounted'
    BY <1>26, Frame DEF Spend
  <2> QED
    BY <2>1 DEF Accounting
<1>27. ASSUME NEW r \in Recoverers, FetchFinds(r)
      PROVE  Accounting'
  <2>1. RemoteInv' /\ RowInv' /\ SessionAccounted'
    BY <1>27, Frame DEF FetchFinds
  <2>2. RequestInv'
    <3>1. r \notin Tickets /\ \A t \in Tickets : pc'[t] = pc[t]
      BY <1>27, Shapes DEF FetchFinds
    <3> QED
      BY <1>27, <3>1 DEF Accounting, RequestInv, FetchFinds
  <2>3. ExecutorInv'
    <3> DEFINE t == TicketOf(r)
               s == remote[Slot(t)]
    <3>1. t \in Tickets /\ Slot(t) \in Slots
      BY <1>27, ExecutorTicket, SlotType DEF FetchFinds
    <3>2. s = t
      <4>1. s \in Sessions
        BY <1>27, <3>1, Shapes DEF FetchFinds, Proven
      <4>2. job[r].sid \in {t, None}
        BY <1>27 DEF Accounting, ExecutorInv, Established, FetchFinds
      <4> QED
        BY <1>27, <3>1, <4>1, <4>2 DEF FetchFinds, Proven, Token
    <3>3. post[t] = "created"
      BY <3>1, <3>2 DEF Accounting, RemoteInv
    <3> QED
      <4>1. \A x \in Executors : x # r => SameExecutor(x)
        BY <1>27, Shapes DEF SameExecutor, FetchFinds
      <4>2. \A x \in Tickets : TicketKept(x)
        BY <1>27, Shapes DEF TicketKept, FetchFinds
      <4>3. Established(r)'
        <5>1. \/ pc'[r] = "assertDelete" /\ job[r].cleanup
              \/ pc'[r] = "record" /\ reply'[r] = t
          BY <1>27, <3>2, Shapes DEF FetchFinds
        <5> QED
          BY <1>27, <3>3, <5>1 DEF Accounting, ExecutorInv, Established, FetchFinds
      <4> QED
        BY <4>1, <4>2, <4>3, OneExecutorMoves
  <2>4. DeleteInv'
    <3>1. \A c \in Clients : pc'[c] = pc[c]
      BY <1>27, Shapes DEF FetchFinds
    <3> QED
      BY <1>27, <3>1 DEF Accounting, DeleteInv, FetchFinds
  <2> QED
    BY <2>1, <2>2, <2>3, <2>4 DEF Accounting
<1>28. ASSUME NEW r \in Recoverers, FetchMisses(r)
      PROVE  Accounting'
  <2>1. RemoteInv' /\ RowInv' /\ SessionAccounted'
    BY <1>28, Frame DEF FetchMisses
  <2>2. RequestInv'
    <3>1. \A t \in Tickets : pc'[t] = pc[t]
      BY <1>28, Shapes DEF FetchMisses
    <3> QED
      BY <1>28, <3>1 DEF Accounting, RequestInv, FetchMisses
  <2>3. ExecutorInv'
    <3> DEFINE t == TicketOf(r)
    <3>1. t \in Tickets /\ Working(r)
      BY <1>28, ExecutorTicket DEF FetchMisses
    <3>2. CASE ConfirmsCleanup(r, remote[Slot(t)])
      <4>1. /\ pc' = [pc EXCEPT ![r] = "removeConfirmed"] /\ job[r].cleanup /\ job[r].inst
            /\ remote[Slot(t)] = None /\ UNCHANGED <<state, inst, post, remote, ask, job, reply>>
        BY <1>28, <3>2 DEF FetchMisses, ConfirmsCleanup
      <4>2. Gone(t)
        BY <3>1, <4>1 DEF Accounting, ExecutorInv, Established
      <4>3. \A x \in Executors : x # r => pc'[x] = pc[x]
        BY <4>1 DEF TypeOK
      <4>4. pc'[r] = "removeConfirmed"
        BY <4>1 DEF TypeOK
      <4> QED
        <5>1. \A x \in Executors : x # r => SameExecutor(x)
          BY <4>1, <4>3 DEF SameExecutor
        <5>2. \A x \in Tickets : TicketKept(x)
          BY <4>1 DEF TicketKept
        <5>3. Established(r)'
          BY <3>1, <4>1, <4>2, <4>4 DEF Accounting, ExecutorInv, Established
        <5> QED
          BY <5>1, <5>2, <5>3, OneExecutorMoves
    <3>3. CASE ~ConfirmsCleanup(r, remote[Slot(t)])
      <4>1. /\ pc' = [pc EXCEPT ![r] = "abandon"]
            /\ UNCHANGED <<state, inst, post, remote, ask, job, reply>>
        BY <1>28, <3>3 DEF FetchMisses
      <4>2. pc'[r] = "abandon" /\ \A x \in Executors : x # r => pc'[x] = pc[x]
        BY <4>1, Shapes
      <4> QED
        <5>1. \A x \in Executors : x # r => SameExecutor(x)
          BY <4>1, <4>2 DEF SameExecutor
        <5>2. \A x \in Tickets : TicketKept(x)
          BY <4>1 DEF TicketKept
        <5>3. Established(r)'
          BY <3>1, <4>1, <4>2 DEF Accounting, ExecutorInv, Established
        <5> QED
          BY <5>1, <5>2, <5>3, OneExecutorMoves
    <3> QED
      BY <3>2, <3>3
  <2>4. DeleteInv'
    BY <1>28 DEF Accounting, DeleteInv, FetchMisses, ConfirmsCleanup, Proven
  <2> QED
    BY <2>1, <2>2, <2>3, <2>4 DEF Accounting
<1>29. ASSUME NEW r \in Recoverers, AssertStillOwned(r)
      PROVE  Accounting'
  <2>1. RemoteInv' /\ RowInv' /\ SessionAccounted'
    BY <1>29, Frame DEF AssertStillOwned
  <2>2. RequestInv'
    BY <1>29 DEF Accounting, RequestInv, AssertStillOwned, AssertOwned, Owned
  <2>3. ExecutorInv'
    BY <1>29 DEF Accounting, ExecutorInv, Established, AssertStillOwned, AssertOwned, Owned
  <2>4. DeleteInv'
    BY <1>29 DEF Accounting, DeleteInv, AssertStillOwned, AssertOwned, Owned
  <2> QED
    BY <2>1, <2>2, <2>3, <2>4 DEF Accounting
<1>30. ASSUME NEW r \in Recoverers, NEW t \in Tickets, ReleaseExpired(r, t)
      PROVE  Accounting'
  <2>1. DeleteInv'
    BY <1>30, Frame DEF ReleaseExpired
  <2>2. RemoteInv'
    BY <1>30 DEF Accounting, RemoteInv, ReleaseExpired, Due
  <2>3. RowInv'
    BY <1>30 DEF Accounting, RowInv, ReleaseExpired, Due
  <2>4. RequestInv'
    BY <1>30 DEF Accounting, RequestInv, ReleaseExpired, Due
  <2>5. ExecutorInv'
    BY <1>30 DEF Accounting, ExecutorInv, Established, ReleaseExpired, Due
  <2>6. SessionAccounted'
    <3>1. post[t] = "unsent" /\ remote[Slot(t)] # t
      BY <1>30, SlotType DEF Accounting, RemoteInv, ReleaseExpired
    <3> QED
      <4>1. \A x \in Tickets : x # t => state'[x] = state[x]
        BY <1>30, Shapes DEF ReleaseExpired
      <4> QED
        BY <1>30, <3>1, <4>1 DEF Accounting, SessionAccounted, ReleaseExpired
  <2> QED
    BY <2>1, <2>2, <2>3, <2>4, <2>5, <2>6 DEF Accounting
<1>31. ASSUME NEW r \in Recoverers, NEW t \in Tickets, Claim(r, t)
      PROVE  Accounting'
  <2>1. RemoteInv' /\ RowInv' /\ SessionAccounted'
    BY <1>31, Frame DEF Claim
  <2>2. RequestInv'
    BY <1>31 DEF Accounting, RequestInv, Claim, Due
  <2>3. ExecutorInv'
    <3>1. job'[r].ticket = t /\ pc'[r] = "fetch"
      BY <1>31 DEF TypeOK, Claim
    <3>2. /\ job'[r].cleanup => state[t] = "cleanup_pending"
          /\ job'[r].inst => inst[t]
          /\ job'[r].sid = sid[t]
      BY <1>31 DEF TypeOK, Claim
    <3>3. \A x \in Executors : x # r => SameExecutor(x)
      BY <1>31, Shapes DEF SameExecutor, Claim
    <3>4. \A x \in Tickets : TicketKept(x)
      BY <1>31 DEF TicketKept, Claim
    <3>5. Established(r)'
      BY <1>31, <3>1, <3>2 DEF Accounting, Established, RowInv, Claim
    <3> QED
      BY <3>3, <3>4, <3>5, OneExecutorMoves
  <2>4. DeleteInv'
    BY <1>31 DEF Accounting, DeleteInv, Claim, Due
  <2> QED
    BY <2>1, <2>2, <2>3, <2>4 DEF Accounting
<1>32. ASSUME NEW d \in Deleters, ReadRow(d)
      PROVE  Accounting'
  <2>1. RemoteInv' /\ RowInv' /\ SessionAccounted'
    BY <1>32, Frame DEF ReadRow
  <2>2. RequestInv'
    BY <1>32 DEF Accounting, RequestInv, ReadRow
  <2>3. ExecutorInv'
    <3>1. \A x \in Executors : SameExecutor(x)
      BY <1>32, Shapes DEF SameExecutor, ReadRow
    <3>2. \A x \in Tickets : TicketKept(x)
      BY <1>32 DEF TicketKept, ReadRow
    <3> QED
      BY <3>1, <3>2, NoExecutorMoves
  <2>4. DeleteInv'
    BY <1>32 DEF TypeOK, Accounting, DeleteInv, RowInv, ReadRow
  <2> QED
    BY <2>1, <2>2, <2>3, <2>4 DEF Accounting
<1>33. ASSUME NEW d \in Deleters, AssertDeletable(d)
      PROVE  Accounting'
  <2>1. RemoteInv' /\ RowInv' /\ SessionAccounted'
    BY <1>33, Frame DEF AssertDeletable
  <2>2. RequestInv'
    BY <1>33 DEF Accounting, RequestInv, AssertDeletable
  <2>3. ExecutorInv'
    BY <1>33 DEF Accounting, ExecutorInv, Established, AssertDeletable
  <2>4. DeleteInv'
    BY <1>33 DEF Accounting, DeleteInv, AssertDeletable
  <2> QED
    BY <2>1, <2>2, <2>3, <2>4 DEF Accounting
<1>34. ASSUME NEW d \in Deleters, ClientDelete(d)
      PROVE  Accounting'
  <2>1. RowInv'
    BY <1>34, Frame DEF ClientDelete
  <2>2. RemoteInv'
    BY <1>34 DEF Accounting, RemoteInv, ClientDelete
  <2>3. RequestInv'
    BY <1>34 DEF TypeOK, Accounting, RequestInv, ClientDelete
  <2>4. ExecutorInv'
    <3>1. \A x \in Executors : SameExecutor(x)
      BY <1>34, Shapes DEF SameExecutor, ClientDelete
    <3>2. \A x \in Tickets : remote'[Slot(x)] \in {remote[Slot(x)], None}
      BY <1>34, SlotType, Shapes DEF ClientDelete
    <3>3. \A x \in Tickets : TicketKept(x)
      BY <1>34, <3>2 DEF TicketKept, ClientDelete
    <3> QED
      BY <3>1, <3>3, NoExecutorMoves
  <2>5. DeleteInv'
    <3> SUFFICES ASSUME NEW c \in Clients, target[c] \in Tickets
                 PROVE  /\ post[target[c]] = "created"
                        /\ pc'[c] \in {"removeRow", "dropRow"} => remote'[Slot(target[c])] # target[c]
      BY <1>34 DEF DeleteInv, ClientDelete
    <3>1. post[target[c]] = "created"
      BY DEF Accounting, DeleteInv
    <3>2. CASE c = d
      BY <1>34, <3>1, <3>2, SlotType DEF TypeOK, ClientDelete
    <3>3. CASE c # d
      <4>1. pc'[c] = pc[c]
        BY <1>34, <3>3 DEF TypeOK, ClientDelete
      <4>2. remote'[Slot(target[c])] \in {remote[Slot(target[c])], None}
        BY <1>34, SlotType DEF TypeOK, ClientDelete
      <4> QED
        BY <3>1, <4>1, <4>2 DEF Accounting, DeleteInv
    <3> QED
      BY <3>2, <3>3
  <2>6. SessionAccounted'
    BY <1>34 DEF Accounting, SessionAccounted, ClientDelete
  <2> QED
    BY <2>1, <2>2, <2>3, <2>4, <2>5, <2>6 DEF Accounting
<1>35. ASSUME NEW d \in Deleters, ClientDeleteFails(d)
      PROVE  Accounting'
  <2>1. RemoteInv' /\ RowInv' /\ SessionAccounted'
    BY <1>35, Frame DEF ClientDeleteFails
  <2>2. RequestInv'
    BY <1>35 DEF Accounting, RequestInv, ClientDeleteFails
  <2>3. ExecutorInv'
    BY <1>35 DEF Accounting, ExecutorInv, Established, ClientDeleteFails
  <2>4. DeleteInv'
    BY <1>35 DEF Accounting, DeleteInv, ClientDeleteFails
  <2> QED
    BY <2>1, <2>2, <2>3, <2>4 DEF Accounting
<1>36. ASSUME NEW m \in Importers, ReadRemote(m)
      PROVE  Accounting'
  <2>1. RemoteInv' /\ RowInv' /\ SessionAccounted'
    BY <1>36, Frame DEF ReadRemote
  <2>2. RequestInv'
    BY <1>36 DEF Accounting, RequestInv, ReadRemote
  <2>3. ExecutorInv'
    <3>1. \A x \in Executors : SameExecutor(x)
      BY <1>36, Shapes DEF SameExecutor, ReadRemote
    <3>2. \A x \in Tickets : TicketKept(x)
      BY <1>36 DEF TicketKept, ReadRemote
    <3> QED
      BY <3>1, <3>2, NoExecutorMoves
  <2>4. DeleteInv'
    BY <1>36 DEF Accounting, DeleteInv, ReadRemote
  <2> QED
    BY <2>1, <2>2, <2>3, <2>4 DEF Accounting
<1>37. ASSUME NEW m \in Importers, Import(m)
      PROVE  Accounting'
  <2>1. RemoteInv'
    BY <1>37, Frame DEF Import
  <2>2. RowInv'
    BY <1>37 DEF TypeOK, Accounting, RowInv, Import
  <2>3. RequestInv'
    BY <1>37 DEF Accounting, RequestInv, Import
  <2>4. ExecutorInv'
    <3>1. \A x \in Executors : SameExecutor(x)
      BY <1>37, Shapes DEF SameExecutor, Import
    <3>2. \A x \in Tickets : TicketKept(x)
      BY <1>37 DEF TicketKept, Import
    <3> QED
      BY <3>1, <3>2, NoExecutorMoves
  <2>5. DeleteInv'
    BY <1>37 DEF Accounting, DeleteInv, Import
  <2>6. SessionAccounted'
    BY <1>37 DEF Accounting, SessionAccounted, Import
  <2> QED
    BY <2>1, <2>2, <2>3, <2>4, <2>5, <2>6 DEF Accounting
<1>38. ASSUME NEW f \in Foreign, NEW s \in Slots, ExternalCreate(f, s)
      PROVE  Accounting'
  <2>1. RemoteInv'
    BY <1>38 DEF Accounting, RemoteInv, ExternalCreate
  <2>2. RowInv'
    BY <1>38 DEF Accounting, RowInv, ExternalCreate
  <2>3. RequestInv'
    BY <1>38 DEF Accounting, RequestInv, ExternalCreate
  <2>4. ExecutorInv'
    <3>1. \A x \in Executors : SameExecutor(x)
      BY <1>38 DEF SameExecutor, ExternalCreate
    <3>2. \A x \in Tickets : post'[x] = post[x]
      BY <1>38, Shapes DEF ExternalCreate
    <3>3. \A x \in Tickets : remote'[Slot(x)] \in {remote[Slot(x)], f}
      BY <1>38, SlotType, Shapes DEF ExternalCreate
    <3>4. \A x \in Tickets : TicketKept(x)
      BY <1>38, <3>2, <3>3 DEF TicketKept, ExternalCreate
    <3> QED
      BY <3>1, <3>4, NoExecutorMoves
  <2>5. DeleteInv'
    BY <1>38 DEF Accounting, DeleteInv, ExternalCreate
  <2>6. SessionAccounted'
    BY <1>38 DEF Accounting, SessionAccounted, ExternalCreate
  <2> QED
    BY <2>1, <2>2, <2>3, <2>4, <2>5, <2>6 DEF Accounting
<1>39. ASSUME NEW s \in Slots, ExternalDelete(s)
      PROVE  Accounting'
  <2>1. RowInv' /\ RequestInv'
    BY <1>39, Frame DEF ExternalDelete
  <2>2. RemoteInv'
    BY <1>39 DEF Accounting, RemoteInv, ExternalDelete
  <2>3. ExecutorInv'
    <3>1. \A x \in Tickets : remote'[Slot(x)] \in {remote[Slot(x)], None}
      BY <1>39, SlotType, Shapes DEF ExternalDelete
    <3>2. \A x \in Tickets : TicketKept(x)
      BY <1>39, <3>1 DEF TicketKept, ExternalDelete
    <3>3. \A x \in Executors : SameExecutor(x)
      BY <1>39 DEF SameExecutor, ExternalDelete
    <3> QED
      BY <3>2, <3>3, NoExecutorMoves
  <2>4. DeleteInv'
    BY <1>39 DEF Accounting, DeleteInv, ExternalDelete
  <2>5. SessionAccounted'
    BY <1>39 DEF Accounting, SessionAccounted, ExternalDelete
  <2> QED
    BY <2>1, <2>2, <2>3, <2>4, <2>5 DEF Accounting
<1>40. ASSUME NEW s \in Slots, LateDelete(s)
      PROVE  Accounting'
  <2>1. RowInv' /\ RequestInv'
    BY <1>40, Frame DEF LateDelete
  <2>2. RemoteInv'
    BY <1>40 DEF TypeOK, Accounting, RemoteInv, LateDelete
  <2>3. ExecutorInv'
    <3>1. \A t \in Tickets : remote'[Slot(t)] \in {remote[Slot(t)], None}
      BY <1>40, SlotType DEF TypeOK, LateDelete
    <3>2. \A e \in Executors : Working(e) => TicketOf(e) \in Tickets
      BY ExecutorTicket
    <3> QED
      BY <1>40, <3>1, <3>2 DEF Accounting, ExecutorInv, Established, LateDelete
  <2>4. DeleteInv'
    <3>1. \A t \in Tickets : remote'[Slot(t)] \in {remote[Slot(t)], None}
      BY <1>40, SlotType DEF TypeOK, LateDelete
    <3> QED
      BY <1>40, <3>1 DEF Accounting, DeleteInv, LateDelete
  <2>5. SessionAccounted'
    <3>1. \A t \in Tickets : remote'[Slot(t)] \in {remote[Slot(t)], None}
      BY <1>40, SlotType DEF TypeOK, LateDelete
    <3> QED
      BY <1>40, <3>1 DEF Accounting, SessionAccounted, LateDelete
  <2> QED
    BY <2>1, <2>2, <2>3, <2>4, <2>5 DEF Accounting
<1>41. CASE UNCHANGED vars
  BY <1>41, Frame DEF vars, Accounting
<1> QED
  BY <1>1, <1>2, <1>3, <1>4, <1>5, <1>6, <1>7, <1>8, <1>9, <1>10, <1>11, <1>12, <1>13, <1>14,
     <1>15, <1>16, <1>17, <1>18, <1>19, <1>20, <1>21, <1>22, <1>23, <1>24, <1>25, <1>26, <1>27,
     <1>28, <1>29, <1>30, <1>31, <1>32, <1>33, <1>34, <1>35, <1>36, <1>37, <1>38, <1>39, <1>40,
     <1>41
  DEF Next, RequestStep, ExecutorStep, RecoveryStep, DeleteStep, ProviderStep

-----------------------------------------------------------------------------
LEMMA InitInvariant == Init => TypeOK /\ Accounting
<1> SUFFICES ASSUME Init PROVE TypeOK /\ Accounting
  OBVIOUS
<1> USE DEF Init, Executors, Clients, RowIds, Sessions, Processes
<1>1. \A e \in Executors : NoJob(e) \in Jobs
  BY NoJobType
<1>2. TypeOK
  BY <1>1, DisjointAssumption
  DEF TypeOK, States, Pcs, RequestPcs, ExecutorPcs, Working, TicketOf, NoJob, Jobs
<1>3. RemoteInv /\ SessionAccounted
  BY <1>2, SlotType, DisjointAssumption DEF RemoteInv, SessionAccounted
<1>4. RowInv /\ RequestInv
  BY DEF RowInv, RequestInv, BeforeCall, RequestPcs, AfterRecord, Compensating, Open, OpenStates
<1>5. ExecutorInv /\ DeleteInv
  BY DisjointAssumption DEF ExecutorInv, Established, DeleteInv, Working, ExecutorPcs
<1> QED
  BY <1>2, <1>3, <1>4, <1>5 DEF Accounting

(* The inductive invariant holds in every behaviour of the saga. *)
THEOREM Invariance == Spec => [](TypeOK /\ Accounting)
<1>1. TypeOK /\ Accounting /\ [Next]_vars => (TypeOK /\ Accounting)'
  BY TypeStep, AccountingStep
<1> QED
  BY InitInvariant, <1>1, PTL DEF Spec

(* Every variable keeps its type. *)
THEOREM TypeCorrect == Spec => []TypeOK
BY Invariance, PTL

(* The inductive invariant, as the runs check it. *)
THEOREM AccountingHolds == Spec => []Accounting
BY Invariance, PTL

(* A session, and a create call that may still make one, always belong to an open ticket or to *)
(* an Instance row, whatever crashes, times out or is deleted meanwhile.                       *)
THEOREM SessionsAccounted == Spec => []SessionAccounted
<1>1. TypeOK /\ Accounting => SessionAccounted
  BY DEF Accounting
<1> QED
  BY Invariance, <1>1, PTL

(* No ticket is ever recorded with a session that another party created. *)
THEOREM NoForeignAdoption == Spec => []OwnEvidence
<1>1. TypeOK /\ Accounting => OwnEvidence
  BY DEF Accounting, RowInv, OwnEvidence
<1> QED
  BY Invariance, <1>1, PTL

(* No delete and no clean-up of left-over rows takes the row of an open ticket. *)
THEOREM OpenRowsKept == Spec => []OpenRowKept
<1>1. TypeOK /\ Accounting => OpenRowKept
  <2> SUFFICES ASSUME TypeOK, Accounting
               PROVE  OpenRowKept
    OBVIOUS
  <2>1. ASSUME NEW e \in Executors, pc[e] \in AfterRecord, Owned(e)
        PROVE  TicketOf(e) \in rows
    <3>1. PICK t \in Tickets : t = TicketOf(e) /\ Working(e) /\ Open(t)
      BY <2>1, ExecutorTicket DEF AfterRecord, Working, ExecutorPcs, Owned
    <3>2. inst[t]
      BY <2>1, <3>1 DEF Accounting, ExecutorInv, Established
    <3> QED
      BY <3>1, <3>2 DEF Accounting, RowInv
  <2>2. ASSUME NEW t \in Tickets, state[t] = "cleanup_pending"
        PROVE  t \in rows
    BY <2>2 DEF Accounting, RowInv
  <2> QED
    BY <2>1, <2>2 DEF OpenRowKept
<1> QED
  BY Invariance, <1>1, PTL
=============================================================================
