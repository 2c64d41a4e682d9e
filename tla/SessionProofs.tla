---------------------------- MODULE SessionProofs ----------------------------
(***************************************************************************)
(* Proofs about sessions: a name is never given twice, a ticket is moved   *)
(* by its owner alone while the lease runs, and a session is never handed  *)
(* over without its required webhook.                                      *)
(*                                                                         *)
(* NamesApart holds because only three actions take a name (Reserve,       *)
(* RecordCreated, Import) and each of them checks, in the transaction that *)
(* takes it, what the unique indexes check.                                *)
(*                                                                         *)
(* The webhook is sent to a name, by any of several executors, and the     *)
(* flag that it was sent is written later: in between the name may have    *)
(* lost the session.  What saves it is that a session, once gone, never    *)
(* comes back, so that "configured or gone" is stable (SettledStays).      *)
(***************************************************************************)
EXTENDS ProvisioningProofs

(* Open tickets and rows are pairwise apart, but for a ticket and its own row. *)
NamesApart ==
  /\ \A t, u \in Tickets : Open(t) /\ Open(u) /\ t # u => ~Rival(t, u)
  /\ \A t \in Tickets : \A i \in rows : Open(t) /\ t # i => ~Rival(t, i)
  /\ \A i, j \in rows : i # j => ~Rival(i, j)

(* Rivalry has no direction. *)
LEMMA RivalSymmetric ==
  ASSUME NEW i, NEW j
  PROVE  Rival(i, j) <=> Rival(j, i)
BY DEF Rival

(* A step that takes no name. *)
LEMMA NoNameTaken ==
  ASSUME NamesApart, UNCHANGED ask, rows' \subseteq rows,
         \A t \in Tickets : Open(t)' => Open(t)
  PROVE  NamesApart'
BY DEF NamesApart, Rival

(* A step that changes no ticket's state and no row. *)
LEMMA SameTickets ==
  ASSUME NamesApart, UNCHANGED <<ask, state, rows>>
  PROVE  NamesApart'
BY NoNameTaken DEF Open

(* A reservation checks the open tickets and the rows. *)
LEMMA ReserveApart ==
  ASSUME TypeOK, NamesApart, NEW t \in Tickets, Reserve(t)
  PROVE  NamesApart'
<1>1. /\ UNCHANGED <<ask, rows>>
      /\ \A i \in rows : ~Rival(i, t)
      /\ \A u \in Tickets : Open(u) => ~Rival(u, t)
  BY DEF Reserve
<1>2. \A u \in Tickets : u # t => (Open(u)' <=> Open(u))
  BY DEF Reserve, TypeOK, Open
<1>3. \A i, j : Rival(i, j)' <=> Rival(i, j)
  BY <1>1 DEF Rival
<1>4. \A u \in Tickets : Open(u)' /\ u # t => ~Rival(u, t) /\ ~Rival(t, u)
  BY <1>1, <1>2, RivalSymmetric
<1>5. \A i \in rows : ~Rival(t, i)
  BY <1>1, RivalSymmetric
<1> QED
  BY <1>1, <1>2, <1>3, <1>4, <1>5 DEF NamesApart

(* A record takes the name its ticket already holds. *)
LEMMA RecordApart ==
  ASSUME TypeOK, NamesApart, NEW e \in Executors, RecordCreated(e)
  PROVE  NamesApart'
<1> DEFINE t == TicketOf(e)
<1>1. t \in Tickets /\ Open(t)
  BY ExecutorTicket DEF RecordCreated, Working, ExecutorPcs, Owned
<1>2. UNCHANGED <<ask, state>>
  BY DEF RecordCreated
<1>3. CASE inst[t]
  BY <1>2, <1>3, SameTickets DEF RecordCreated
<1>4. CASE ~inst[t]
  <2>1. rows' = rows \cup {t} /\ \A i \in rows : ~Rival(i, t) /\ ~Rival(t, i)
    BY <1>4, RivalSymmetric DEF RecordCreated
  <2>2. \A u \in Tickets : Open(u)' <=> Open(u)
    BY <1>2 DEF Open
  <2>3. \A i, j : Rival(i, j)' <=> Rival(i, j)
    BY <1>2 DEF Rival
  <2>4. \A u \in Tickets : Open(u) /\ u # t => ~Rival(u, t)
    BY <1>1 DEF NamesApart
  <2> QED
    BY <2>1, <2>2, <2>3, <2>4 DEF NamesApart
<1> QED
  BY <1>3, <1>4

(* An import checks the open tickets and the rows. *)
LEMMA ImportApart ==
  ASSUME TypeOK, NamesApart, NEW m \in Importers, Import(m)
  PROVE  NamesApart'
<1>1. UNCHANGED <<ask, state>>
  BY DEF Import
<1>2. CASE UNCHANGED rows
  BY <1>1, <1>2, SameTickets
<1>3. CASE /\ rows' = rows \cup {m}
           /\ ~Unresolved(m)
           /\ \A i \in rows : ~Taken(m, i)
  <2>1. \A i \in rows : ~Rival(i, m) /\ ~Rival(m, i)
    BY <1>3, RivalSymmetric DEF Taken
  <2>2. \A t \in Tickets : Open(t) => ~Rival(t, m)
    BY <1>3 DEF Unresolved, Taken
  <2>3. \A t \in Tickets : Open(t)' <=> Open(t)
    BY <1>1 DEF Open
  <2>4. \A i, j : Rival(i, j)' <=> Rival(i, j)
    BY <1>1 DEF Rival
  <2> QED
    BY <1>3, <2>1, <2>2, <2>3, <2>4 DEF NamesApart
<1> QED
  BY <1>2, <1>3 DEF Import

(* The moves of a ticket that stay open or close it. *)
LEMMA MovesApart ==
  ASSUME TypeOK, NamesApart, NEW e \in Executors,
         MarkCleanup(e) \/ RemoveConfirmed(e) \/ Finish(e) \/ Abandon(e)
  PROVE  NamesApart'
<1> DEFINE t == TicketOf(e)
<1>1. t \in Tickets
  BY ExecutorTicket DEF MarkCleanup, RemoveConfirmed, Finish, Abandon, Working, ExecutorPcs
<1>2. UNCHANGED ask /\ rows' \subseteq rows
  BY DEF MarkCleanup, RemoveConfirmed, Finish, Abandon
<1>3. CASE Owned(e)
  <2>1. Open(t)
    BY <1>3 DEF Owned
  <2>2. \A u \in Tickets : u # t => state'[u] = state[u]
    BY <1>1, <1>3 DEF MarkCleanup, RemoveConfirmed, Finish, Abandon, TypeOK
  <2> QED
    BY <1>2, <2>1, <2>2, NoNameTaken DEF Open
<1>4. CASE ~Owned(e)
  <2>1. UNCHANGED <<state, rows>>
    BY <1>4 DEF MarkCleanup, RemoveConfirmed, Finish, Abandon
  <2> QED
    BY <1>2, <2>1, SameTickets
<1> QED
  BY <1>3, <1>4

(* Every step leaves names apart. *)
LEMMA NamesStep == TypeOK /\ NamesApart /\ [Next]_vars => NamesApart'
<1> SUFFICES ASSUME TypeOK, NamesApart, [Next]_vars
             PROVE  NamesApart'
  OBVIOUS
<1> USE DEF ticketVars, remoteVars
<1>1. ASSUME NEW t \in Tickets, RequestStep(t)
      PROVE  NamesApart'
  <2>1. CASE Reserve(t)
    BY <2>1, ReserveApart
  <2>2. CASE RemoveRow(t)
    BY <2>2, NoNameTaken DEF RemoveRow, Open
  <2>3. CASE MarkCreating(t)
    <3>1. \A u \in Tickets : Open(u)' => Open(u)
      BY <2>3 DEF MarkCreating, TypeOK, Open, OpenStates
    <3> QED
      BY <2>3, <3>1, NoNameTaken DEF MarkCreating
  <2>4. CASE CheckPending(t) \/ FindExisting(t) \/ CheckRow(t) \/ Send(t) \/ PostReply(t)
             \/ PostFails(t) \/ MarkWebhookAppliedFails(t)
    BY <2>4, SameTickets DEF CheckPending, FindExisting, CheckRow, Send, PostReply, PostFails,
                             MarkWebhookAppliedFails
  <2> QED
    BY <1>1, <2>1, <2>2, <2>3, <2>4 DEF RequestStep
<1>2. ASSUME NEW e \in Executors, ExecutorStep(e) \/ Crash(e) \/ Spend(e)
      PROVE  NamesApart'
  <2>1. CASE RecordCreated(e)
    BY <2>1, RecordApart
  <2>2. CASE MarkCleanup(e) \/ RemoveConfirmed(e) \/ Finish(e) \/ Abandon(e)
    BY <2>2, MovesApart
  <2>3. CASE Configure(e) \/ ConfigureFails(e) \/ MarkWebhookApplied(e) \/ DeleteRemote(e)
             \/ GiveUp(e) \/ Crash(e) \/ Spend(e)
    BY <2>3, SameTickets DEF Configure, ConfigureFails, MarkWebhookApplied, DeleteRemote, GiveUp,
                             Crash, Spend
  <2> QED
    BY <1>2, <2>1, <2>2, <2>3 DEF ExecutorStep
<1>3. ASSUME NEW r \in Recoverers, RecoveryStep(r)
      PROVE  NamesApart'
  <2>1. ASSUME NEW t \in Tickets, ReleaseExpired(r, t)
        PROVE  NamesApart'
    <3>1. \A u \in Tickets : Open(u)' => Open(u)
      BY <2>1 DEF ReleaseExpired, TypeOK, Open, OpenStates
    <3> QED
      BY <2>1, <3>1, NoNameTaken DEF ReleaseExpired
  <2>2. ASSUME NEW t \in Tickets, Claim(r, t)
        PROVE  NamesApart'
    BY <2>2, SameTickets DEF Claim
  <2>3. CASE FetchFinds(r) \/ FetchMisses(r) \/ AssertStillOwned(r)
    BY <2>3, SameTickets DEF FetchFinds, FetchMisses, AssertStillOwned
  <2> QED
    BY <1>3, <2>1, <2>2, <2>3 DEF RecoveryStep
<1>4. ASSUME NEW d \in Deleters, DeleteStep(d)
      PROVE  NamesApart'
  <2>1. CASE RemoveRow(d)
    BY <2>1, NoNameTaken DEF RemoveRow, Open
  <2>2. CASE ReadRow(d) \/ AssertDeletable(d) \/ ClientDelete(d) \/ ClientDeleteFails(d)
    BY <2>2, SameTickets DEF ReadRow, AssertDeletable, ClientDelete, ClientDeleteFails
  <2> QED
    BY <1>4, <2>1, <2>2 DEF DeleteStep
<1>5. CASE ProviderStep
  BY <1>5, SameTickets DEF ProviderStep, PostCreates, PostVoid, ExternalCreate, ExternalDelete,
                           LateDelete
<1>6. CASE UNCHANGED vars
  BY <1>6, SameTickets DEF vars
<1>7. ASSUME NEW t \in Tickets, Expire(t)
      PROVE  NamesApart'
  BY <1>7, SameTickets DEF Expire
<1>8. ASSUME NEW c \in Clients, Refuse(c)
      PROVE  NamesApart'
  BY <1>8, SameTickets DEF Refuse
<1>9. ASSUME NEW m \in Importers, ReadRemote(m) \/ Import(m)
      PROVE  NamesApart'
  BY <1>9, SameTickets, ImportApart DEF ReadRemote
<1> QED
  BY <1>1, <1>2, <1>3, <1>4, <1>5, <1>6, <1>7, <1>8, <1>9 DEF Next

(* Names stay apart in every behaviour of the saga. *)
THEOREM NamesStayApart == Spec => []NamesApart
<1>1. Init => NamesApart
  BY DEF Init, NamesApart, Open, OpenStates
<1> QED
  BY <1>1, NamesStep, TypeCorrect, PTL DEF Spec

(* No row is ever inserted that would make recordCreated of an open ticket hit a unique index. *)
THEOREM RecordsNeverCollide == Spec => []RecordNeverCollides
<1>1. Accounting /\ NamesApart => RecordNeverCollides
  <2> SUFFICES ASSUME Accounting, NamesApart, NEW t \in Tickets, Open(t), ~inst[t], NEW i \in rows
               PROVE  ~Rival(i, t)
    BY DEF RecordNeverCollides
  <2>1. t # i
    BY DEF Accounting, RowInv
  <2> QED
    BY <2>1, RivalSymmetric DEF NamesApart
<1> QED
  BY <1>1, AccountingHolds, NamesStayApart, PTL

(* One name of a product never has two sessions, nor a session and a call that may make one. *)
THEOREM SessionsAreUnique == Spec => []OneSessionPerName
<1>1. Accounting /\ NamesApart => OneSessionPerName
  <2> SUFFICES ASSUME Accounting, NamesApart, NEW t \in Tickets, NEW u \in Tickets, t # u,
                      ask[t].product = ask[u].product, ask[t].name = ask[u].name,
                      Live(t), Live(u)
               PROVE  FALSE
    BY DEF OneSessionPerName
  <2>1. Rival(t, u) /\ Rival(u, t)
    BY DEF Rival
  <2>2. (Open(t) \/ t \in rows) /\ (Open(u) \/ u \in rows)
    BY DEF Live, Accounting, SessionAccounted
  <2> QED
    BY <2>1, <2>2 DEF NamesApart
<1> QED
  BY <1>1, AccountingHolds, NamesStayApart, PTL

-----------------------------------------------------------------------------
(* What a step may do to the tickets that somebody holds under a running lease. *)
OwnersMove ==
  \A t \in Tickets : \A e \in Executors :
    owner[t] = e /\ Open(t) /\ lease[t] = "running" /\ TicketView(t)' # TicketView(t)
      => Working(e) /\ TicketOf(e) = t /\ pc'[e] # pc[e]

(* A step that changes nothing of a ticket but its lease. *)
LEMMA ViewsKept ==
  ASSUME UNCHANGED <<state, owner, inst, sid, applied, rows>>
  PROVE  OwnersMove
BY DEF OwnersMove, TicketView

(* An executor that moves its own ticket moves no other one. *)
LEMMA OwnerMoves ==
  ASSUME TypeOK, NEW e \in Executors, Working(e), Owned(e), pc'[e] # pc[e],
         \A u \in Tickets : u # TicketOf(e) => TicketView(u)' = TicketView(u)
  PROVE  OwnersMove
BY DEF OwnersMove, Owned

(* A step that moves only tickets whose lease is not running, or that are closed. *)
LEMMA LooseMoves ==
  ASSUME NEW t \in Tickets, ~Open(t) \/ lease[t] # "running",
         \A u \in Tickets : u # t => TicketView(u)' = TicketView(u)
  PROVE  OwnersMove
BY DEF OwnersMove

(* Removing a row moves no open ticket: its guard is that no open ticket refers to the row. *)
LEMMA RemovalMoves ==
  ASSUME TypeOK, Accounting, NEW c \in Clients, RemoveRow(c)
  PROVE  OwnersMove
<1> DEFINE i == target[c]
<1>1. /\ ~Referenced(i) /\ rows' = rows \ {i} /\ inst' = ClearInst(i)
      /\ UNCHANGED <<state, owner, sid, applied>>
  BY DEF RemoveRow
<1>2. \A u \in Tickets : u # i => TicketView(u)' = TicketView(u)
  BY <1>1 DEF TicketView, ClearInst, TypeOK
<1>3. CASE i \in Tickets
  <2>1. CASE Open(i)
    <3>1. ~inst[i] /\ i \notin rows
      BY <1>1, <1>3, <2>1 DEF Referenced, Accounting, RowInv
    <3>2. ASSUME NEW u \in Tickets, u = i
          PROVE  TicketView(u)' = TicketView(u)
      <4>1. ~inst[u] /\ ~inst'[u] /\ inst[u] \in BOOLEAN /\ inst'[u] \in BOOLEAN
        BY <1>1, <3>1, <3>2 DEF ClearInst, TypeOK
      <4>2. u \in rows' <=> u \in rows
        BY <1>1, <3>1, <3>2
      <4> QED
        BY <1>1, <4>1, <4>2 DEF TicketView
    <3> QED
      BY <1>2, <3>2 DEF OwnersMove
  <2>2. CASE ~Open(i)
    BY <1>2, <1>3, <2>2 DEF OwnersMove
  <2> QED
    BY <2>1, <2>2
<1>4. CASE i \notin Tickets
  BY <1>2, <1>4 DEF OwnersMove
<1> QED
  BY <1>3, <1>4

(* The moves of an executor are guarded by its ownership. *)
LEMMA ExecutorMoves ==
  ASSUME TypeOK, NEW e \in Executors,
         \/ RecordCreated(e) \/ MarkWebhookApplied(e) \/ MarkCleanup(e)
         \/ RemoveConfirmed(e) \/ Finish(e) \/ Abandon(e)
  PROVE  OwnersMove
<1> DEFINE t == TicketOf(e)
<1>1. Working(e) /\ t \in Tickets /\ e \in Processes
  BY ExecutorTicket DEF RecordCreated, MarkWebhookApplied, MarkCleanup, RemoveConfirmed, Finish,
                        Abandon, Working, ExecutorPcs, Processes
<1>2. pc'[e] # pc[e]
  <2>1. pc \in [Processes -> Pcs]
    BY DEF TypeOK
  <2> QED
    BY <1>1, <2>1 DEF RecordCreated, MarkWebhookApplied, MarkCleanup, RemoveConfirmed, Finish,
                      Abandon, Goto, Stop
<1>3. CASE Abandon(e) /\ ~Owned(e)
  BY <1>3, ViewsKept DEF Abandon
<1>4. CASE Owned(e)
  <2>1. ASSUME NEW u \in Tickets, u # t
        PROVE  TicketView(u)' = TicketView(u)
    <3>1. CASE RecordCreated(e)
      BY <1>1, <2>1, <3>1 DEF RecordCreated, TicketView, TypeOK, RowIds
    <3>2. CASE MarkWebhookApplied(e)
      BY <1>1, <2>1, <3>2 DEF MarkWebhookApplied, TicketView, TypeOK
    <3>3. CASE MarkCleanup(e)
      BY <1>1, <2>1, <3>3 DEF MarkCleanup, TicketView, TypeOK
    <3>4. CASE RemoveConfirmed(e)
      BY <1>1, <2>1, <3>4 DEF RemoveConfirmed, TicketView, TypeOK
    <3>5. CASE Finish(e)
      BY <1>1, <2>1, <3>5 DEF Finish, TicketView, TypeOK
    <3>6. CASE Abandon(e)
      BY <1>1, <1>4, <2>1, <3>6 DEF Abandon, TicketView, TypeOK
    <3> QED
      BY <3>1, <3>2, <3>3, <3>4, <3>5, <3>6
  <2> QED
    BY <1>1, <1>2, <1>4, <2>1, OwnerMoves
<1> QED
  BY <1>3, <1>4 DEF RecordCreated, MarkWebhookApplied, MarkCleanup, RemoveConfirmed, Finish

(* An import's row is no ticket's. *)
LEMMA ImportMoves ==
  ASSUME TypeOK, NEW m \in Importers, Import(m)
  PROVE  OwnersMove
<1>1. ASSUME NEW u \in Tickets
      PROVE  TicketView(u)' = TicketView(u)
  BY DisjointAssumption DEF Import, TicketView, TypeOK, RowIds
<1> QED
  BY <1>1 DEF OwnersMove

(* Only the owner of a ticket moves it while the lease runs. *)
LEMMA MovesStep == TypeOK /\ Accounting /\ [Next]_vars => OwnersMove
<1> SUFFICES ASSUME TypeOK, Accounting, [Next]_vars
             PROVE  OwnersMove
  OBVIOUS
<1> USE DEF ticketVars, remoteVars
<1>1. ASSUME NEW t \in Tickets, RequestStep(t)
      PROVE  OwnersMove
  <2>1. CASE Reserve(t)
    <3>1. ~Open(t)
      BY <2>1 DEF Reserve, Accounting, RequestInv, RequestPcs, Open, OpenStates
    <3>2. \A u \in Tickets : u # t => TicketView(u)' = TicketView(u)
      BY <2>1 DEF Reserve, TicketView, TypeOK
    <3> QED
      BY <3>1, <3>2, LooseMoves
  <2>2. CASE RemoveRow(t)
    BY <2>2, RemovalMoves DEF Clients
  <2>3. CASE MarkCreating(t)
    <3>1. t \in Executors /\ t \in Processes /\ TicketOf(t) = t
      BY DEF Executors, Processes, TypeOK
    <3>2. Working(t) /\ Owned(t) /\ pc'[t] # pc[t]
      BY <2>3, <3>1 DEF MarkCreating, Working, ExecutorPcs, AssertOwned, Goto, TypeOK
    <3>3. \A u \in Tickets : u # t => TicketView(u)' = TicketView(u)
      BY <2>3 DEF MarkCreating, TicketView, TypeOK
    <3> QED
      BY <3>1, <3>2, <3>3, OwnerMoves
  <2>4. CASE CheckPending(t) \/ FindExisting(t) \/ CheckRow(t) \/ Send(t) \/ PostReply(t)
             \/ PostFails(t) \/ MarkWebhookAppliedFails(t)
    BY <2>4, ViewsKept DEF CheckPending, FindExisting, CheckRow, Send, PostReply, PostFails,
                           MarkWebhookAppliedFails
  <2> QED
    BY <1>1, <2>1, <2>2, <2>3, <2>4 DEF RequestStep
<1>2. ASSUME NEW e \in Executors, ExecutorStep(e) \/ Crash(e) \/ Spend(e)
      PROVE  OwnersMove
  <2>1. CASE RecordCreated(e) \/ MarkWebhookApplied(e) \/ MarkCleanup(e) \/ RemoveConfirmed(e)
             \/ Finish(e) \/ Abandon(e)
    BY <2>1, ExecutorMoves
  <2>2. CASE Configure(e) \/ ConfigureFails(e) \/ DeleteRemote(e) \/ GiveUp(e) \/ Crash(e)
             \/ Spend(e)
    BY <2>2, ViewsKept DEF Configure, ConfigureFails, DeleteRemote, GiveUp, Crash, Spend
  <2> QED
    BY <1>2, <2>1, <2>2 DEF ExecutorStep
<1>3. ASSUME NEW r \in Recoverers, RecoveryStep(r)
      PROVE  OwnersMove
  <2>1. ASSUME NEW t \in Tickets, ReleaseExpired(r, t) \/ Claim(r, t)
        PROVE  OwnersMove
    <3>1. lease[t] # "running"
      BY <2>1 DEF ReleaseExpired, Claim, Due
    <3>2. \A u \in Tickets : u # t => TicketView(u)' = TicketView(u)
      BY <2>1 DEF ReleaseExpired, Claim, TicketView, TypeOK
    <3> QED
      BY <3>1, <3>2, LooseMoves
  <2>2. CASE FetchFinds(r) \/ FetchMisses(r) \/ AssertStillOwned(r)
    BY <2>2, ViewsKept DEF FetchFinds, FetchMisses, AssertStillOwned
  <2> QED
    BY <1>3, <2>1, <2>2 DEF RecoveryStep
<1>4. ASSUME NEW d \in Deleters, DeleteStep(d)
      PROVE  OwnersMove
  <2>1. CASE RemoveRow(d)
    BY <2>1, RemovalMoves DEF Clients
  <2>2. CASE ReadRow(d) \/ AssertDeletable(d) \/ ClientDelete(d) \/ ClientDeleteFails(d)
    BY <2>2, ViewsKept DEF ReadRow, AssertDeletable, ClientDelete, ClientDeleteFails
  <2> QED
    BY <1>4, <2>1, <2>2 DEF DeleteStep
<1>5. CASE ProviderStep
  BY <1>5, ViewsKept DEF ProviderStep, PostCreates, PostVoid, ExternalCreate, ExternalDelete,
                         LateDelete
<1>6. CASE UNCHANGED vars
  BY <1>6, ViewsKept DEF vars
<1>7. ASSUME NEW t \in Tickets, Expire(t)
      PROVE  OwnersMove
  BY <1>7, ViewsKept DEF Expire
<1>8. ASSUME NEW c \in Clients, Refuse(c)
      PROVE  OwnersMove
  BY <1>8, ViewsKept DEF Refuse
<1>9. ASSUME NEW m \in Importers, ReadRemote(m) \/ Import(m)
      PROVE  OwnersMove
  BY <1>9, ViewsKept, ImportMoves DEF ReadRemote
<1> QED
  BY <1>1, <1>2, <1>3, <1>4, <1>5, <1>6, <1>7, <1>8, <1>9 DEF Next

(* While an executor holds a ticket and its lease runs, nobody else moves the ticket or its row: *)
(* a request that outlives its lease and the recovery that took over never both act on it.       *)
THEOREM LeasesExclude == Spec => LeaseExclusive
<1>1. TypeOK /\ Accounting /\ [Next]_vars => [OwnersMove]_vars
  BY MovesStep
<1> QED
  BY <1>1, Invariance, PTL DEF Spec, LeaseExclusive, OwnersMove
-----------------------------------------------------------------------------
(* Webhooks. *)

(* The session of a ticket was made, and is configured or gone. *)
Settled(t) == post[t] = "created" /\ (remote[Slot(t)] = t => t \in configured)

(* A session that is gone does not come back, and a configured one stays so. *)
Stays(t) ==
  /\ UNCHANGED ask
  /\ post[t] = "created" => post'[t] = "created"
  /\ Settled(t) => Settled(t)'

(* A step that changes neither the provider nor a call to it. *)
LEMMA Quiet ==
  ASSUME UNCHANGED <<ask, remote, configured, post>>
  PROVE  \A t \in Tickets : Stays(t)
BY DEF Stays, Settled, Slot

(* A delete frees a name; whatever session held it is gone. *)
LEMMA Frees ==
  ASSUME TypeOK, NEW s \in Slots, UNCHANGED <<ask, configured, post>>,
         remote' \in {remote, [remote EXCEPT ![s] = None]}
  PROVE  \A t \in Tickets : Stays(t)
<1> SUFFICES ASSUME NEW t \in Tickets
             PROVE  Stays(t)
  OBVIOUS
<1>1. t # None /\ Slot(t) \in Slots
  BY SlotType, DisjointAssumption DEF Processes, Executors, RowIds
<1>2. remote'[Slot(t)] = t => remote[Slot(t)] = t
  BY <1>1 DEF TypeOK
<1> QED
  BY <1>2 DEF Stays, Settled, Slot

(* A call that is sent or answered is of a ticket that is not settled yet. *)
LEMMA Calls ==
  ASSUME TypeOK, NEW u \in Sessions, post[u] # "created", UNCHANGED <<ask, configured>>,
         NEW x, post' = [post EXCEPT ![u] = x],
         NEW s \in Slots, remote' \in {remote, [remote EXCEPT ![s] = u]}
  PROVE  \A t \in Tickets : Stays(t)
<1> SUFFICES ASSUME NEW t \in Tickets, post[t] = "created"
             PROVE  Stays(t)
  BY DEF Stays, Settled
<1>1. t # u /\ t \in Sessions /\ Slot(t) \in Slots
  BY SlotType DEF RowIds, Sessions
<1>2. post'[t] = post[t]
  BY <1>1 DEF TypeOK
<1>3. remote'[Slot(t)] = t => remote[Slot(t)] = t
  BY <1>1 DEF TypeOK
<1> QED
  BY <1>2, <1>3 DEF Stays, Settled, Slot

(* A webhook that is sent reaches whatever session holds the name. *)
LEMMA Configures ==
  ASSUME UNCHANGED <<ask, remote, post>>, configured \subseteq configured'
  PROVE  \A t \in Tickets : Stays(t)
BY DEF Stays, Settled, Slot

(* A settled ticket stays settled, whatever happens. *)
LEMMA SettledStays ==
  ASSUME TypeOK, Accounting, [Next]_vars
  PROVE  \A t \in Tickets : Stays(t)
<1> DEFINE Goal == \A t \in Tickets : Stays(t)
<1> USE DEF ticketVars, remoteVars
<1>1. ASSUME NEW u \in Tickets, RequestStep(u)
      PROVE  Goal
  <2>1. CASE Send(u)
    <3>1. u \in Sessions /\ Slot(u) \in Slots /\ post[u] = "unsent"
      BY <2>1, SlotType DEF Send, Accounting, RequestInv, BeforeCall, Sessions, RowIds
    <3> QED
      BY <2>1, <3>1, Calls DEF Send
  <2>2. CASE ~Send(u)
    BY <1>1, <2>2, Quiet DEF RequestStep, CheckPending, FindExisting, CheckRow, RemoveRow, Reserve,
         MarkCreating, PostReply, PostFails, MarkWebhookAppliedFails
  <2> QED
    BY <2>1, <2>2
<1>2. ASSUME NEW e \in Executors, ExecutorStep(e) \/ Crash(e) \/ Spend(e)
      PROVE  Goal
  <2>1. CASE Configure(e)
    BY <2>1, Configures DEF Configure
  <2>2. CASE DeleteRemote(e)
    <3>1. Slot(TicketOf(e)) \in Slots
      BY <2>2, ExecutorTicket, SlotType DEF DeleteRemote, Working, ExecutorPcs
    <3> QED
      BY <2>2, <3>1, Frees DEF DeleteRemote
  <2>3. CASE ~Configure(e) /\ ~DeleteRemote(e)
    BY <1>2, <2>3, Quiet DEF ExecutorStep, RecordCreated, ConfigureFails, MarkWebhookApplied,
         MarkCleanup, RemoveConfirmed, Finish, GiveUp, Abandon, Crash, Spend
  <2> QED
    BY <2>1, <2>2, <2>3
<1>3. ASSUME NEW r \in Recoverers, RecoveryStep(r)
      PROVE  Goal
  BY <1>3, Quiet DEF RecoveryStep, ReleaseExpired, Claim, FetchFinds, FetchMisses, AssertStillOwned
<1>4. ASSUME NEW d \in Deleters, DeleteStep(d)
      PROVE  Goal
  <2>1. CASE ClientDelete(d)
    <3>1. Slot(target[d]) \in Slots
      BY <2>1, SlotType DEF ClientDelete, TypeOK
    <3> QED
      BY <2>1, <3>1, Frees DEF ClientDelete
  <2>2. CASE ~ClientDelete(d)
    BY <1>4, <2>2, Quiet DEF DeleteStep, ReadRow, AssertDeletable, ClientDeleteFails, RemoveRow
  <2> QED
    BY <2>1, <2>2
<1>5. CASE ProviderStep
  <2>1. ASSUME NEW u \in Tickets, PostCreates(u) \/ PostVoid(u)
        PROVE  Goal
    <3>1. u \in Sessions /\ Slot(u) \in Slots
      BY SlotType DEF Sessions, RowIds
    <3> QED
      BY <2>1, <3>1, Calls DEF PostCreates, PostVoid
  <2>2. ASSUME NEW f \in Foreign, NEW s \in Slots, ExternalCreate(f, s)
        PROVE  Goal
    BY <2>2, Calls DEF ExternalCreate, Sessions
  <2>3. ASSUME NEW s \in Slots, ExternalDelete(s) \/ LateDelete(s)
        PROVE  Goal
    BY <2>3, Frees DEF ExternalDelete, LateDelete
  <2> QED
    BY <1>5, <2>1, <2>2, <2>3 DEF ProviderStep
<1>6. CASE UNCHANGED vars
  BY <1>6, Quiet DEF vars
<1>7. ASSUME NEW t \in Tickets, Expire(t)
      PROVE  Goal
  BY <1>7, Quiet DEF Expire
<1>8. ASSUME NEW c \in Clients, Refuse(c)
      PROVE  Goal
  BY <1>8, Quiet DEF Refuse
<1>9. ASSUME NEW m \in Importers, ReadRemote(m) \/ Import(m)
      PROVE  Goal
  BY <1>9, Quiet DEF ReadRemote, Import
<1> QED
  BY <1>1, <1>2, <1>3, <1>4, <1>5, <1>6, <1>7, <1>8, <1>9 DEF Next

-----------------------------------------------------------------------------
(* The flag and the control of an executor, step by step.  Settled and Stays are left folded. *)
Applying == {"assertApply", "configure", "markApplied"}

TicketsInv ==
  \A t \in Tickets : ask[t].hook =>
    /\ applied[t] => Settled(t)
    /\ state[t] = "committed" => applied[t]

ApplyingInv ==
  \A e \in Executors :
    /\ pc[e] \in Applying => post[TicketOf(e)] = "created"
    /\ pc[e] = "markApplied" => Settled(TicketOf(e))

WebhookInv == TicketsInv /\ ApplyingInv

(* The flag is set only once the session is settled, and a ticket is committed only with it. *)
LEMMA FlagStep ==
  ASSUME TypeOK, Accounting, WebhookInv, [Next]_vars, \A t \in Tickets : Stays(t)
  PROVE  TicketsInv'
<1> SUFFICES ASSUME NEW t \in Tickets, ask[t].hook
             PROVE  /\ applied'[t] => Settled(t)'
                    /\ state'[t] = "committed" => applied'[t]
  BY DEF TicketsInv, Stays
<1> DEFINE Goal == /\ applied'[t] => Settled(t)'
                   /\ state'[t] = "committed" => applied'[t]
<1> USE DEF ticketVars, remoteVars
<1>0. /\ applied[t] => Settled(t)
      /\ state[t] = "committed" => applied[t]
      /\ Settled(t) => Settled(t)'
  BY DEF WebhookInv, TicketsInv, Stays
<1>q. ASSUME UNCHANGED applied, state'[t] = "committed" => state[t] = "committed"
      PROVE  Goal
  BY <1>0, <1>q
<1>1. ASSUME NEW u \in Tickets, RequestStep(u)
      PROVE  Goal
  <2>1. CASE Reserve(u)
    BY <1>0, <2>1 DEF Reserve, AppliedAtStart, TypeOK
  <2>2. CASE MarkCreating(u)
    BY <1>q, <2>2 DEF MarkCreating, TypeOK
  <2>3. CASE ~Reserve(u) /\ ~MarkCreating(u)
    BY <1>1, <1>q, <2>3 DEF RequestStep, CheckPending, FindExisting, CheckRow, RemoveRow, Send,
         PostReply, PostFails, MarkWebhookAppliedFails
  <2> QED
    BY <2>1, <2>2, <2>3
<1>2. ASSUME NEW e \in Executors, ExecutorStep(e) \/ Crash(e) \/ Spend(e)
      PROVE  Goal
  <2>1. CASE MarkWebhookApplied(e)
    <3>1. Settled(TicketOf(e))
      BY <2>1 DEF MarkWebhookApplied, WebhookInv, ApplyingInv
    <3> QED
      BY <1>0, <2>1, <3>1 DEF MarkWebhookApplied, TypeOK
  <2>2. CASE Finish(e)
    BY <1>0, <2>2 DEF Finish, TypeOK
  <2>3. CASE MarkCleanup(e) \/ RemoveConfirmed(e)
    BY <1>q, <2>3 DEF MarkCleanup, RemoveConfirmed, TypeOK
  <2>4. CASE Abandon(e)
    BY <1>q, <2>4 DEF Abandon, AbandonedState, TypeOK
  <2>5. CASE RecordCreated(e) \/ Configure(e) \/ ConfigureFails(e) \/ DeleteRemote(e)
             \/ GiveUp(e) \/ Crash(e) \/ Spend(e)
    BY <1>q, <2>5 DEF RecordCreated, Configure, ConfigureFails, DeleteRemote, GiveUp, Crash, Spend
  <2> QED
    BY <1>2, <2>1, <2>2, <2>3, <2>4, <2>5 DEF ExecutorStep
<1>3. ASSUME NEW r \in Recoverers, RecoveryStep(r)
      PROVE  Goal
  BY <1>3, <1>q DEF RecoveryStep, ReleaseExpired, Claim, FetchFinds, FetchMisses,
                    AssertStillOwned, TypeOK
<1>4. ASSUME NEW d \in Deleters, DeleteStep(d)
      PROVE  Goal
  BY <1>4, <1>q DEF DeleteStep, ReadRow, AssertDeletable, ClientDelete, ClientDeleteFails, RemoveRow
<1>5. CASE ProviderStep
  BY <1>5, <1>q DEF ProviderStep, PostCreates, PostVoid, ExternalCreate, ExternalDelete, LateDelete
<1>6. CASE UNCHANGED vars
  BY <1>6, <1>q DEF vars
<1>7. ASSUME NEW u \in Tickets, Expire(u)
      PROVE  Goal
  BY <1>7, <1>q DEF Expire
<1>8. ASSUME NEW c \in Clients, Refuse(c)
      PROVE  Goal
  BY <1>8, <1>q DEF Refuse
<1>9. ASSUME NEW m \in Importers, ReadRemote(m) \/ Import(m)
      PROVE  Goal
  BY <1>9, <1>q DEF ReadRemote, Import
<1> QED
  BY <1>1, <1>2, <1>3, <1>4, <1>5, <1>6, <1>7, <1>8, <1>9 DEF Next

(* One process moves at a time; whoever else is applying a webhook stays where it is. *)
LEMMA Mover ==
  ASSUME TypeOK, ApplyingInv, \A t \in Tickets : Stays(t), NEW p,
         \A e \in Executors : e # p => pc'[e] = pc[e] /\ job'[e] = job[e],
         p \in Executors /\ pc'[p] \in Applying =>
           /\ (post[TicketOf(p)] = "created")'
           /\ pc'[p] = "markApplied" => Settled(TicketOf(p))'
  PROVE  ApplyingInv'
<1> SUFFICES ASSUME NEW e \in Executors, pc'[e] \in Applying
             PROVE  /\ (post[TicketOf(e)] = "created")'
                    /\ pc'[e] = "markApplied" => Settled(TicketOf(e))'
  BY DEF ApplyingInv, Applying
<1>1. CASE e # p
  <2>1. pc'[e] = pc[e] /\ TicketOf(e)' = TicketOf(e) /\ TicketOf(e) \in Tickets
    BY <1>1, ExecutorTicket DEF Applying, Working, ExecutorPcs, TicketOf
  <2>2. PICK t \in Tickets : t = TicketOf(e) /\ t = TicketOf(e)'
    BY <2>1
  <2>3. post[t] = "created" /\ post'[t] = "created"
    BY <2>1, <2>2 DEF ApplyingInv, Stays
  <2>4. pc'[e] = "markApplied" => Settled(t)'
    BY <2>1, <2>2 DEF ApplyingInv, Stays
  <2>5. Settled(t)' => Settled(TicketOf(e))'
    BY <2>2 DEF Settled, Slot
  <2> QED
    BY <2>2, <2>3, <2>4, <2>5
<1>2. CASE e = p
  BY <1>2
<1> QED
  BY <1>1, <1>2

(* A step that moves no executor. *)
LEMMA StillApplying ==
  ASSUME TypeOK, ApplyingInv, \A t \in Tickets : Stays(t), UNCHANGED <<pc, job>>
  PROVE  ApplyingInv'
<1>1. PICK p : p \notin Executors
  BY DisjointAssumption DEF Processes
<1> QED
  BY <1>1, Mover

(* An executor that applies a webhook does it for a session that was made. *)
LEMMA ApplyingStep ==
  ASSUME TypeOK, Accounting, ApplyingInv, [Next]_vars, \A t \in Tickets : Stays(t)
  PROVE  ApplyingInv'
<1> USE DEF ticketVars, remoteVars, localVars
<1>p. pc \in [Processes -> Pcs] /\ job \in [Executors -> Jobs]
  BY DEF TypeOK
<1>o. Executors \subseteq Processes /\ Tickets \subseteq Executors /\ Recoverers \subseteq Executors
  BY DEF Processes, Executors
<1>1. ASSUME NEW u \in Tickets, RequestStep(u)
      PROVE  ApplyingInv'
  <2>1. /\ UNCHANGED job /\ u \in Executors
        /\ \A e \in Executors : e # u => pc'[e] = pc[e]
        /\ pc'[u] \notin Applying
    BY <1>1, <1>p, <1>o DEF RequestStep, CheckPending, FindExisting, CheckRow, RemoveRow, Reserve,
         MarkCreating, Send, PostReply, PostFails, MarkWebhookAppliedFails, Goto, Applying
  <2> QED
    BY <2>1, Mover
<1>2. ASSUME NEW e \in Executors, ExecutorStep(e) \/ Crash(e) \/ Spend(e)
      PROVE  ApplyingInv'
  <2>1. \A f \in Executors : f # e => pc'[f] = pc[f] /\ job'[f] = job[f]
    BY <1>2, <1>p, <1>o DEF ExecutorStep, RecordCreated, Configure, ConfigureFails,
         MarkWebhookApplied, MarkCleanup, DeleteRemote, RemoveConfirmed, Finish, GiveUp, Abandon,
         Crash, Spend, Goto, Stop
  <2>2. CASE RecordCreated(e)
    <3>1. PICK t \in Tickets : t = TicketOf(e) /\ t = TicketOf(e)' /\ post[t] = "created"
      BY <2>2, ExecutorTicket
      DEF RecordCreated, Accounting, ExecutorInv, Established, Working, ExecutorPcs, TicketOf
    <3>2. pc'[e] # "markApplied" /\ post'[t] = "created"
      BY <1>p, <1>o, <2>2, <3>1 DEF RecordCreated, Goto
    <3> QED
      BY <2>1, <3>1, <3>2, Mover
  <2>3. CASE Configure(e)
    <3>1. PICK t \in Tickets : t = TicketOf(e) /\ t = TicketOf(e)' /\ post[t] = "created"
      BY <2>3, ExecutorTicket
      DEF Configure, ApplyingInv, Applying, Working, ExecutorPcs, TicketOf
    <3>2. UNCHANGED <<ask, remote, post>> /\ configured' = configured \cup {remote[Slot(t)]}
      BY <2>3, <3>1 DEF Configure
    <3>3. Settled(t)' /\ post'[t] = "created"
      BY <3>1, <3>2 DEF Settled, Slot
    <3>4. Settled(t)' => Settled(TicketOf(e))'
      BY <3>1 DEF Settled, Slot
    <3> QED
      BY <2>1, <3>1, <3>3, <3>4, Mover
  <2>4. CASE Spend(e)
    BY <2>4, StillApplying DEF Spend
  <2>5. CASE ~RecordCreated(e) /\ ~Configure(e) /\ ~Spend(e)
    <3>1. pc'[e] \notin Applying
      BY <1>2, <1>p, <1>o, <2>5 DEF ExecutorStep, ConfigureFails, MarkWebhookApplied, MarkCleanup,
           DeleteRemote, RemoveConfirmed, Finish, GiveUp, Abandon, Crash, Goto, Stop, Applying
    <3> QED
      BY <2>1, <3>1, Mover
  <2> QED
    BY <2>2, <2>3, <2>4, <2>5
<1>3. ASSUME NEW r \in Recoverers, RecoveryStep(r)
      PROVE  ApplyingInv'
  <2>1. CASE AssertStillOwned(r)
    <3>1. r \in Executors /\ UNCHANGED <<job, post>>
      BY <1>o, <2>1 DEF AssertStillOwned
    <3>2. /\ \A e \in Executors : e # r => pc'[e] = pc[e]
          /\ pc'[r] \in Applying => pc[r] = "assertApply" /\ pc'[r] = "configure"
      BY <1>p, <1>o, <2>1 DEF AssertStillOwned, Goto, Applying
    <3>3. pc'[r] \in Applying => (post[TicketOf(r)] = "created")' /\ pc'[r] # "markApplied"
      BY <3>1, <3>2 DEF ApplyingInv, Applying, TicketOf
    <3> QED
      BY <3>1, <3>2, <3>3, Mover
  <2>2. CASE ~AssertStillOwned(r) /\ (\A t \in Tickets : ~ReleaseExpired(r, t))
    <3>1. /\ \A e \in Executors : e # r => pc'[e] = pc[e] /\ job'[e] = job[e]
          /\ pc'[r] \notin Applying
      BY <1>3, <1>p, <1>o, <2>2 DEF RecoveryStep, Claim, FetchFinds, FetchMisses, Goto, Applying
    <3> QED
      BY <3>1, Mover
  <2>3. ASSUME NEW t \in Tickets, ReleaseExpired(r, t)
        PROVE  ApplyingInv'
    BY <2>3, StillApplying DEF ReleaseExpired
  <2> QED
    BY <2>1, <2>2, <2>3
<1>4. ASSUME NEW d \in Deleters, DeleteStep(d)
      PROVE  ApplyingInv'
  <2>1. d \notin Executors /\ d \in Processes
    BY DisjointAssumption DEF Executors, Processes
  <2>2. UNCHANGED job /\ \A e \in Executors : pc'[e] = pc[e]
    BY <1>4, <1>p, <1>o, <2>1 DEF DeleteStep, ReadRow, AssertDeletable, ClientDelete,
         ClientDeleteFails, RemoveRow, Goto
  <2> QED
    BY <2>1, <2>2, Mover
<1>5. CASE ProviderStep
  BY <1>5, StillApplying DEF ProviderStep, PostCreates, PostVoid, ExternalCreate, ExternalDelete,
                             LateDelete
<1>6. CASE UNCHANGED vars
  BY <1>6, StillApplying DEF vars
<1>7. ASSUME NEW t \in Tickets, Expire(t)
      PROVE  ApplyingInv'
  BY <1>7, StillApplying DEF Expire
<1>8. ASSUME NEW c \in Clients, Refuse(c)
      PROVE  ApplyingInv'
  <2>1. /\ UNCHANGED job
        /\ \A e \in Executors : e # c => pc'[e] = pc[e]
        /\ c \in Executors => pc'[c] \notin Applying
    BY <1>8, <1>p, <1>o DEF Refuse, Goto, Applying
  <2> QED
    BY <2>1, Mover
<1>9. ASSUME NEW m \in Importers, ReadRemote(m) \/ Import(m)
      PROVE  ApplyingInv'
  <2>1. m \notin Executors /\ m \in Processes
    BY DisjointAssumption DEF Executors, Processes
  <2>2. UNCHANGED job /\ \A e \in Executors : pc'[e] = pc[e]
    BY <1>9, <1>p, <1>o, <2>1 DEF ReadRemote, Import, Goto
  <2> QED
    BY <2>1, <2>2, Mover
<1> QED
  BY <1>1, <1>2, <1>3, <1>4, <1>5, <1>6, <1>7, <1>8, <1>9 DEF Next

(* Every step keeps the invariant. *)
LEMMA WebhookStep == TypeOK /\ Accounting /\ WebhookInv /\ [Next]_vars => WebhookInv'
BY SettledStays, FlagStep, ApplyingStep DEF WebhookInv

(* The invariant behind the theorem holds in every behaviour of the saga. *)
THEOREM WebhooksTracked == Spec => []WebhookInv
<1>1. Init => WebhookInv
  BY DEF Init, WebhookInv, TicketsInv, ApplyingInv, Applying, Executors, Processes
<1> QED
  BY <1>1, WebhookStep, Invariance, PTL DEF Spec

(* A session is never handed over without its required webhook: while the session of a          *)
(* committed creation lives, it was configured, whichever executor finished it.                 *)
THEOREM CommittedAreConfigured == Spec => []CommittedConfigured
<1>1. WebhookInv => CommittedConfigured
  BY DEF WebhookInv, TicketsInv, CommittedConfigured, Settled
<1> QED
  BY <1>1, WebhooksTracked, PTL
=============================================================================
