--------------------------- MODULE PromiseProofs ---------------------------
(***************************************************************************)
(* Proof that Provisioning implements CreationPromise: the initial states  *)
(* agree, and every step of the saga is a step of the promise or changes   *)
(* nothing the promise speaks of.                                          *)
(***************************************************************************)
EXTENDS ProvisioningProofs

PromiseStep == [Promise!Next]_(Promise!vars)

(* A step that leaves the tickets' states, their sessions and their rows alone is a stutter. *)
LEMMA Stutter ==
  ASSUME UNCHANGED <<ask, state>>,
         \A t \in Tickets : Session(t)' = Session(t),
         rows' \cap Tickets = rows \cap Tickets
  PROVE  PromiseStep
<1>1. [t \in Tickets |-> Phase(t)]' = [t \in Tickets |-> Phase(t)]
  BY DEF Phase
<1>2. [t \in Tickets |-> Session(t)]' = [t \in Tickets |-> Session(t)]
  OBVIOUS
<1> QED
  BY <1>1, <1>2 DEF PromiseStep, Promise!vars

LEMMA SameSessions ==
  ASSUME UNCHANGED <<ask, post, remote>>, NEW t \in Tickets
  PROVE  Session(t)' = Session(t)
BY DEF Session, Slot

(* The states of the tickets seen as phases: a change of one ticket's state is a change of its *)
(* phase only.                                                                                 *)
LEMMA PhaseStep ==
  ASSUME TypeOK, NEW t \in Tickets, NEW to \in States, state' = [state EXCEPT ![t] = to],
         UNCHANGED <<ask, post, remote>>, rows' \cap Tickets = rows \cap Tickets
  PROVE  /\ [u \in Tickets |-> Phase(u)]' = [[u \in Tickets |-> Phase(u)] EXCEPT ![t] = Phase(t)']
         /\ [u \in Tickets |-> Session(u)]' = [u \in Tickets |-> Session(u)]
<1>1. \A u \in Tickets : u # t => state'[u] = state[u]
  BY DEF TypeOK
<1>2. \A u \in Tickets : u # t => Phase(u)' = Phase(u)
  BY <1>1 DEF Phase
<1> QED
  BY <1>2, SameSessions

LEMMA MarkCreatingDispatches ==
  ASSUME TypeOK, Accounting, NEW t \in Tickets, MarkCreating(t)
  PROVE  PromiseStep
<1>1. state[t] = "reserved" /\ state'[t] = "creating" /\ state' = [state EXCEPT ![t] = "creating"]
  BY DEF TypeOK, MarkCreating
<1>2. UNCHANGED <<ask, post, remote, rows>>
  BY DEF MarkCreating, remoteVars
<1>3. Phase(t) = "reserved" /\ Phase(t)' = "sent"
  BY <1>1 DEF Phase
<1>4. Promise!Dispatch(t)
  BY <1>1, <1>2, <1>3, PhaseStep DEF Promise!Dispatch, Promise!Become, States, OpenStates
<1> QED
  BY <1>4 DEF PromiseStep, Promise!Next

LEMMA Releases ==
  ASSUME TypeOK, Accounting, NEW t \in Tickets,
         state[t] = "reserved", state' = [state EXCEPT ![t] = "released"],
         UNCHANGED <<ask, post, remote, rows>>
  PROVE  PromiseStep
<1>1. Phase(t) = "reserved" /\ Phase(t)' = "released"
  BY DEF TypeOK, Phase
<1>2. Promise!Release(t)
  BY <1>1, PhaseStep DEF Promise!Release, Promise!Become, States, TerminalStates
<1> QED
  BY <1>2 DEF PromiseStep, Promise!Next

(* Reserve finds no row and no open ticket with the name; nothing else of a rival can be left, *)
(* because its session is accounted for.                                                       *)
LEMMA ReserveHolds ==
  ASSUME TypeOK, Accounting, NEW t \in Tickets, Reserve(t)
  PROVE  PromiseStep
<1>1. state[t] = "none" /\ state' = [state EXCEPT ![t] = "reserved"]
  BY DEF TypeOK, Accounting, RequestInv, RequestPcs, Reserve
<1>2. UNCHANGED <<ask, post, remote, rows>>
  BY DEF Reserve, remoteVars
<1>3. Phase(t) = "none" /\ Phase(t)' = "reserved"
  BY <1>1 DEF TypeOK, Phase
<1>4. ASSUME NEW u \in Tickets, Rival(u, t)
      PROVE  /\ ~Open(u) /\ u \notin rows
             /\ Phase(u) \notin {"reserved", "sent", "undoing"}
             /\ Session(u) \notin {"flight", "up"}
  <2>1. ~Open(u) /\ u \notin rows
    BY <1>4 DEF Reserve
  <2>2. post[u] # "flight" /\ remote[Slot(u)] # u
    BY <2>1 DEF Accounting, SessionAccounted
  <2>3. Phase(u) \notin {"reserved", "sent", "undoing"}
    BY <2>1 DEF TypeOK, Phase, Open, States, OpenStates, TerminalStates
  <2>4. Session(u) \notin {"flight", "up"}
    BY <2>2 DEF TypeOK, Session, Sessions
  <2> QED
    BY <2>1, <2>3, <2>4
<1>5. \A u \in Tickets : Promise!Clash(t, u) => Rival(u, t)
  BY DEF Promise!Clash, Rival
<1>6. Promise!Hold(t)
  BY <1>1, <1>2, <1>3, <1>4, <1>5, PhaseStep
  DEF Promise!Hold, Promise!Become, Promise!Held, States, OpenStates
<1> QED
  BY <1>6 DEF PromiseStep, Promise!Next

LEMMA FinishCommits ==
  ASSUME TypeOK, Accounting, NEW e \in Executors, Finish(e)
  PROVE  PromiseStep
<1>1. PICK t \in Tickets : t = TicketOf(e)
  BY ExecutorTicket DEF Finish, Working, ExecutorPcs
<1>2. /\ state[t] \in {"creating", "uncertain"} /\ inst[t]
      /\ state' = [state EXCEPT ![t] = "committed"]
      /\ UNCHANGED <<ask, post, remote, rows>>
  BY <1>1 DEF Finish, remoteVars
<1>3. t \in rows
  BY <1>1, <1>2 DEF Accounting, RowInv
<1>4. Phase(t) = "sent" /\ Phase(t)' = "committed"
  BY <1>1, <1>2 DEF TypeOK, Phase
<1>5. Promise!Commit(t)
  BY <1>1, <1>2, <1>3, <1>4, PhaseStep DEF Promise!Commit, Promise!Become, States, TerminalStates
<1> QED
  BY <1>1, <1>5 DEF PromiseStep, Promise!Next

LEMMA MarkCleanupUndoes ==
  ASSUME TypeOK, Accounting, NEW e \in Executors, MarkCleanup(e)
  PROVE  PromiseStep
<1>1. PICK t \in Tickets : t = TicketOf(e) /\ Working(e)
  BY ExecutorTicket DEF MarkCleanup, Working, ExecutorPcs
<1>2. /\ state[t] \in {"creating", "uncertain", "cleanup_pending"} /\ Open(t)
      /\ state' = [state EXCEPT ![t] = "cleanup_pending"]
      /\ UNCHANGED <<ask, post, remote, rows>>
  BY <1>1 DEF MarkCleanup, Owned, remoteVars
<1>3. inst[t]
  BY <1>1, <1>2 DEF Accounting, ExecutorInv, Established, AfterRecord, MarkCleanup
<1>4. t \in rows
  BY <1>1, <1>3 DEF Accounting, RowInv
<1>5. CASE state[t] = "cleanup_pending"
  <2>1. state' = state
    BY <1>1, <1>2, <1>5 DEF TypeOK
  <2> QED
    BY <1>2, <2>1, SameSessions, Stutter
<1>6. CASE state[t] # "cleanup_pending"
  <2>1. Phase(t) = "sent" /\ Phase(t)' = "undoing"
    BY <1>1, <1>2, <1>6 DEF TypeOK, Phase
  <2>2. Promise!Undo(t)
    BY <1>1, <1>2, <1>4, <2>1, PhaseStep DEF Promise!Undo, Promise!Become, States, OpenStates
  <2> QED
    BY <1>1, <2>2 DEF PromiseStep, Promise!Next
<1> QED
  BY <1>5, <1>6

LEMMA AbandonReleases ==
  ASSUME TypeOK, Accounting, NEW e \in Executors, Abandon(e)
  PROVE  PromiseStep
<1>1. PICK t \in Tickets : t = TicketOf(e)
  BY ExecutorTicket DEF Abandon, Working, ExecutorPcs
<1>2. UNCHANGED <<ask, post, remote, rows>>
  BY DEF Abandon, remoteVars
<1>3. CASE state' = state
  BY <1>2, <1>3, SameSessions, Stutter
<1>4. CASE state[t] = "reserved" /\ state' = [state EXCEPT ![t] = "released"]
  BY <1>1, <1>2, <1>4, Releases
<1>5. CASE state[t] \in {"creating", "uncertain"} /\ state' = [state EXCEPT ![t] = "uncertain"]
  <2>1. Phase(t)' = Phase(t)
    BY <1>1, <1>5 DEF TypeOK, Phase
  <2>2. [u \in Tickets |-> Phase(u)]' = [u \in Tickets |-> Phase(u)]
    BY <1>1, <1>2, <1>5, <2>1, PhaseStep DEF States, OpenStates
  <2> QED
    BY <1>1, <1>2, <1>5, <2>2, PhaseStep DEF PromiseStep, Promise!vars, States, OpenStates
<1> QED
  <2>1. CASE Owned(e)
    <3>1. state' = [state EXCEPT ![t] = AbandonedState(state[t])] /\ Open(t)
      BY <1>1, <2>1 DEF Abandon, Owned
    <3>2. CASE state[t] = "cleanup_pending"
      BY <1>1, <1>3, <3>1, <3>2 DEF TypeOK, AbandonedState
    <3>3. CASE state[t] # "cleanup_pending"
      BY <1>1, <1>4, <1>5, <3>1, <3>3 DEF AbandonedState, Open, OpenStates
    <3> QED
      BY <3>2, <3>3
  <2>2. CASE ~Owned(e)
    BY <1>3, <2>2 DEF Abandon
  <2> QED
    BY <2>1, <2>2

(* One ticket's session changes, and no ticket's state. *)
LEMMA SessionStep ==
  ASSUME NEW t \in Tickets, NEW value, Session(t)' = value, UNCHANGED <<ask, state>>,
         \A u \in Tickets : u # t => Session(u)' = Session(u)
  PROVE  /\ [u \in Tickets |-> Phase(u)]' = [u \in Tickets |-> Phase(u)]
         /\ [u \in Tickets |-> Session(u)]' = [[u \in Tickets |-> Session(u)] EXCEPT ![t] = value]
<1>1. \A u \in Tickets : Phase(u)' = Phase(u)
  BY DEF Phase
<1> QED
  BY <1>1

(* The request that sends has not sent before, and its ticket is neither closed nor undone: an *)
(* undone ticket has a row, and a row a session.                                               *)
LEMMA SendCalls ==
  ASSUME TypeOK, Accounting, NEW t \in Tickets, Send(t)
  PROVE  PromiseStep
<1>1. /\ post[t] = "unsent" /\ post' = [post EXCEPT ![t] = "flight"]
      /\ UNCHANGED <<ask, state, remote, rows>>
  BY DEF Accounting, RequestInv, BeforeCall, Send, ticketVars
<1>2. state[t] \in {"creating", "uncertain"}
  <2>1. state[t] \notin {"none", "reserved", "released", "committed", "failed"}
    BY <1>1 DEF Accounting, RequestInv, RemoteInv, Send
  <2>2. state[t] # "cleanup_pending"
    BY <1>1 DEF Accounting, RowInv
  <2> QED
    BY <2>1, <2>2 DEF TypeOK, States, OpenStates, TerminalStates
<1>3. Phase(t) = "sent" /\ Session(t) = "unsent" /\ Session(t)' = "flight"
  BY <1>1, <1>2 DEF TypeOK, Phase, Session, Sessions
<1>4. \A u \in Tickets : u # t => Session(u)' = Session(u)
  BY <1>1 DEF TypeOK, Session, Slot
<1>5. Promise!Call(t)
  BY <1>1, <1>3, <1>4, SessionStep DEF Promise!Call, Promise!Turn
<1> QED
  BY <1>5 DEF PromiseStep, Promise!Next

LEMMA PostAnswers ==
  ASSUME TypeOK, Accounting, NEW t \in Tickets, PostCreates(t) \/ PostVoid(t)
  PROVE  PromiseStep
<1>1. /\ post[t] = "flight"
      /\ UNCHANGED <<ask, state, rows>>
      /\ \/ post' = [post EXCEPT ![t] = "created"] /\ remote' = [remote EXCEPT ![Slot(t)] = t]
              /\ remote[Slot(t)] = None
         \/ post' = [post EXCEPT ![t] = "void"] /\ remote' = remote
  BY DEF PostCreates, PostVoid, ticketVars
<1>2. Session(t) = "flight" /\ Session(t)' \in {"up", "void"}
  BY <1>1, SlotType DEF TypeOK, Session, Sessions, RowIds, Slot
<1>3. ASSUME NEW u \in Tickets, u # t
      PROVE  Session(u)' = Session(u)
  <2>1. post'[u] = post[u]
    BY <1>1, <1>3 DEF TypeOK, Sessions
  <2>2. remote'[Slot(u)] = u <=> remote[Slot(u)] = u
    BY <1>1, <1>3, SlotType, DisjointAssumption DEF TypeOK, RowIds, Processes, Executors
  <2> QED
    BY <1>1, <2>1, <2>2 DEF Session, Slot
<1>4. Promise!Answer(t)
  BY <1>1, <1>2, <1>3, SessionStep DEF Promise!Answer, Promise!Turn
<1> QED
  BY <1>4 DEF PromiseStep, Promise!Next

(* A delete takes the session of whoever holds the name: at most one ticket's. *)
LEMMA DeleteVanishes ==
  ASSUME TypeOK, Accounting, NEW s \in Slots, UNCHANGED <<ask, state, post, rows>>,
         remote' = remote \/ remote' = [remote EXCEPT ![s] = None]
  PROVE  PromiseStep
<1>1. CASE \E t \in Tickets : remote[s] = t /\ remote' = [remote EXCEPT ![s] = None]
  <2>1. PICK t \in Tickets : remote[s] = t /\ remote' = [remote EXCEPT ![s] = None]
    BY <1>1
  <2>2. s = Slot(t) /\ post[t] = "created"
    BY <2>1 DEF Accounting, RemoteInv
  <2>3. Session(t) = "up" /\ Session(t)' = "gone"
    BY <2>1, <2>2, DisjointAssumption DEF TypeOK, Session, Slot, Processes, Executors
  <2>4. \A u \in Tickets : u # t => (remote'[Slot(u)] = u <=> remote[Slot(u)] = u)
    BY <2>1, SlotType, DisjointAssumption DEF TypeOK, RowIds, Processes, Executors
  <2>5. \A u \in Tickets : u # t => Session(u)' = Session(u)
    BY <2>4 DEF Session, Slot
  <2>6. Promise!Vanish(t)
    BY <2>3, <2>5, SessionStep DEF Promise!Vanish, Promise!Turn
  <2> QED
    BY <2>6 DEF PromiseStep, Promise!Next
<1>2. CASE ~\E t \in Tickets : remote[s] = t /\ remote' = [remote EXCEPT ![s] = None]
  <2>1. \A u \in Tickets : remote'[Slot(u)] = u <=> remote[Slot(u)] = u
    BY <1>2, SlotType, DisjointAssumption DEF TypeOK, RowIds, Processes, Executors
  <2>2. \A u \in Tickets : Session(u)' = Session(u)
    BY <2>1 DEF Session, Slot
  <2> QED
    BY <2>2, Stutter
<1> QED
  BY <1>1, <1>2

(* A row is inserted only when the session was made. *)
LEMMA RecordKeeps ==
  ASSUME TypeOK, Accounting, NEW e \in Executors, RecordCreated(e)
  PROVE  PromiseStep
<1>1. PICK t \in Tickets : t = TicketOf(e) /\ Working(e)
  BY ExecutorTicket DEF RecordCreated, Working, ExecutorPcs
<1>2. UNCHANGED <<ask, state, post, remote>> /\ state[t] \in {"creating", "uncertain"}
  BY <1>1 DEF RecordCreated, remoteVars
<1>3. CASE rows' = rows
  BY <1>2, <1>3, SameSessions, Stutter
<1>4. CASE rows' = rows \cup {t}
  <2>1. post[t] = "created"
    BY <1>1 DEF Accounting, ExecutorInv, Established, RecordCreated
  <2>2. Phase(t) = "sent" /\ Session(t) \in {"up", "gone"}
    BY <1>2, <2>1 DEF Phase, Session
  <2>3. [u \in Tickets |-> Phase(u)]' = [u \in Tickets |-> Phase(u)]
    BY <1>2 DEF Phase
  <2>4. [u \in Tickets |-> Session(u)]' = [u \in Tickets |-> Session(u)]
    BY <1>2, SameSessions
  <2>5. Promise!Keep(t)
    BY <1>2, <1>4, <2>2, <2>3, <2>4 DEF Promise!Keep
  <2> QED
    BY <2>5 DEF PromiseStep, Promise!Next
<1> QED
  BY <1>1, <1>3, <1>4 DEF RecordCreated

(* The compensation ends: the session was seen to be gone, and its ticket was being undone. *)
LEMMA RemovalUndoes ==
  ASSUME TypeOK, Accounting, NEW e \in Executors, RemoveConfirmed(e)
  PROVE  PromiseStep
<1>1. PICK t \in Tickets : t = TicketOf(e) /\ Working(e)
  BY ExecutorTicket DEF RemoveConfirmed, Working, ExecutorPcs
<1>2. /\ Open(t) /\ pc[e] = "removeConfirmed" /\ UNCHANGED <<ask, post, remote>>
      /\ rows' = rows \ {t} /\ state' = [state EXCEPT ![t] = "failed"]
  BY <1>1 DEF RemoveConfirmed, Owned, remoteVars
<1>3. state[t] = "cleanup_pending" /\ Gone(t)
  BY <1>1, <1>2 DEF Accounting, ExecutorInv, Established, Compensating
<1>4. Phase(t) = "undoing" /\ Phase(t)' = "failed" /\ Session(t) = "gone"
  BY <1>2, <1>3 DEF TypeOK, Phase, Session, Gone
<1>5. \A u \in Tickets : u # t => Phase(u)' = Phase(u)
  BY <1>2 DEF TypeOK, Phase
<1>6. [u \in Tickets |-> Session(u)]' = [u \in Tickets |-> Session(u)]
  BY <1>2, SameSessions
<1>7. [u \in Tickets |-> Phase(u)]' = [[u \in Tickets |-> Phase(u)] EXCEPT ![t] = "failed"]
  BY <1>4, <1>5
<1>8. Promise!Undone(t)
  BY <1>2, <1>4, <1>6, <1>7 DEF Promise!Undone, Promise!Become
<1> QED
  BY <1>8 DEF PromiseStep, Promise!Next

(* A client's delete, or a request that finds a left-over row, drops the row of a committed    *)
(* creation whose session is gone, or a row that belongs to no creation.                       *)
LEMMA RowDiscards ==
  ASSUME TypeOK, Accounting, NEW c \in Clients, RemoveRow(c)
  PROVE  PromiseStep
<1>1. /\ UNCHANGED <<ask, state, post, remote>> /\ rows' = rows \ {target[c]}
      /\ ~Referenced(target[c]) /\ pc[c] \in {"removeRow", "dropRow"}
  BY DEF RemoveRow, remoteVars
<1>2. /\ [u \in Tickets |-> Phase(u)]' = [u \in Tickets |-> Phase(u)]
      /\ [u \in Tickets |-> Session(u)]' = [u \in Tickets |-> Session(u)]
  BY <1>1, SameSessions DEF Phase
<1>3. CASE target[c] \in Tickets /\ target[c] \in rows
  <2>1. PICK t \in Tickets : t = target[c] /\ t \in rows
    BY <1>3
  <2>2. Gone(t)
    BY <1>1, <2>1 DEF Accounting, DeleteInv
  <2>3. state[t] = "committed"
    <3>1. ~Open(t)
      BY <1>1, <2>1 DEF Accounting, RowInv, Referenced
    <3>2. state[t] \notin {"none", "released"}
      BY <2>2 DEF Accounting, RemoteInv, Gone
    <3>3. state[t] # "failed"
      BY <2>1 DEF Accounting, RowInv
    <3> QED
      BY <3>1, <3>2, <3>3 DEF TypeOK, States, TerminalStates, Open
  <2>4. Phase(t) = "committed" /\ Session(t) = "gone"
    BY <2>2, <2>3 DEF Phase, Session, Gone
  <2>5. Promise!Discard(t)
    BY <1>1, <1>2, <2>1, <2>4 DEF Promise!Discard
  <2> QED
    BY <2>5 DEF PromiseStep, Promise!Next
<1>4. CASE ~(target[c] \in Tickets /\ target[c] \in rows)
  <2>1. rows' \cap Tickets = rows \cap Tickets
    BY <1>1, <1>4
  <2> QED
    BY <1>1, <2>1, SameSessions, Stutter
<1> QED
  BY <1>3, <1>4

LEMMA ImportIsUnseen ==
  ASSUME NEW m \in Importers, Import(m)
  PROVE  PromiseStep
<1>1. UNCHANGED <<ask, state, post, remote>> /\ rows' \cap Tickets = rows \cap Tickets
  BY DisjointAssumption DEF Import, remoteVars
<1> QED
  BY <1>1, SameSessions, Stutter

LEMMA ForeignIsUnseen ==
  ASSUME TypeOK, NEW f \in Foreign, NEW s \in Slots, ExternalCreate(f, s)
  PROVE  PromiseStep
<1>1. /\ UNCHANGED <<ask, state, rows>> /\ remote[s] = None
      /\ post' = [post EXCEPT ![f] = "created"] /\ remote' = [remote EXCEPT ![s] = f]
  BY DEF ExternalCreate, ticketVars
<1>2. ASSUME NEW u \in Tickets
      PROVE  Session(u)' = Session(u)
  <2>1. u # f /\ u # None
    BY DisjointAssumption DEF Processes, Executors
  <2>2. post'[u] = post[u]
    BY <1>1, <2>1 DEF TypeOK, Sessions
  <2>3. remote'[Slot(u)] = u <=> remote[Slot(u)] = u
    BY <1>1, <2>1, SlotType DEF TypeOK, RowIds
  <2> QED
    BY <1>1, <2>2, <2>3 DEF Session, Slot
<1> QED
  BY <1>1, <1>2, Stutter

(* Every step that touches no ticket's state, no session and no row. *)
LEMMA Unseen ==
  ASSUME UNCHANGED <<ask, state, post, remote, rows>>
  PROVE  PromiseStep
BY SameSessions, Stutter

(* Every step of the saga is a step of the promise or changes nothing it speaks of. *)
LEMMA StepImplements == TypeOK /\ Accounting /\ [Next]_vars => PromiseStep
<1> SUFFICES ASSUME TypeOK, Accounting, [Next]_vars
             PROVE  PromiseStep
  OBVIOUS
<1> USE DEF ticketVars, remoteVars
<1>1. ASSUME NEW t \in Tickets, RequestStep(t)
      PROVE  PromiseStep
  <2>1. CASE CheckPending(t) \/ FindExisting(t) \/ CheckRow(t) \/ PostReply(t) \/ PostFails(t)
             \/ MarkWebhookAppliedFails(t)
    BY <2>1, Unseen DEF CheckPending, FindExisting, CheckRow, PostReply, PostFails,
                        MarkWebhookAppliedFails
  <2>2. CASE RemoveRow(t)
    BY <2>2, RowDiscards DEF Clients
  <2>3. CASE Reserve(t) \/ MarkCreating(t) \/ Send(t)
    BY <2>3, ReserveHolds, MarkCreatingDispatches, SendCalls
  <2> QED
    BY <1>1, <2>1, <2>2, <2>3 DEF RequestStep
<1>2. ASSUME NEW e \in Executors, ExecutorStep(e) \/ Crash(e) \/ Spend(e)
      PROVE  PromiseStep
  <2>1. CASE Configure(e) \/ ConfigureFails(e) \/ MarkWebhookApplied(e) \/ GiveUp(e)
             \/ Crash(e) \/ Spend(e)
    BY <2>1, Unseen DEF Configure, ConfigureFails, MarkWebhookApplied, GiveUp, Crash, Spend
  <2>2. CASE DeleteRemote(e)
    <3>1. PICK t \in Tickets : t = TicketOf(e)
      BY <2>2, ExecutorTicket DEF DeleteRemote, Working, ExecutorPcs
    <3>2. Slot(t) \in Slots
      BY SlotType DEF RowIds
    <3> QED
      BY <2>2, <3>1, <3>2, DeleteVanishes DEF DeleteRemote
  <2>3. CASE RecordCreated(e) \/ MarkCleanup(e) \/ RemoveConfirmed(e) \/ Finish(e) \/ Abandon(e)
    BY <2>3, RecordKeeps, MarkCleanupUndoes, RemovalUndoes, FinishCommits, AbandonReleases
  <2> QED
    BY <1>2, <2>1, <2>2, <2>3 DEF ExecutorStep
<1>3. ASSUME NEW r \in Recoverers, RecoveryStep(r)
      PROVE  PromiseStep
  <2>1. ASSUME NEW t \in Tickets, ReleaseExpired(r, t)
        PROVE  PromiseStep
    BY <2>1, Releases DEF ReleaseExpired
  <2>2. ASSUME NEW t \in Tickets, Claim(r, t)
        PROVE  PromiseStep
    BY <2>2, Unseen DEF Claim
  <2>3. CASE FetchFinds(r) \/ FetchMisses(r) \/ AssertStillOwned(r)
    BY <2>3, Unseen DEF FetchFinds, FetchMisses, AssertStillOwned
  <2> QED
    BY <1>3, <2>1, <2>2, <2>3 DEF RecoveryStep
<1>4. ASSUME NEW d \in Deleters, DeleteStep(d)
      PROVE  PromiseStep
  <2>1. CASE ReadRow(d) \/ AssertDeletable(d) \/ ClientDeleteFails(d)
    BY <2>1, Unseen DEF ReadRow, AssertDeletable, ClientDeleteFails
  <2>2. CASE ClientDelete(d)
    <3>1. target[d] \in RowIds
      BY <2>2 DEF TypeOK, ClientDelete
    <3> QED
      BY <2>2, <3>1, SlotType, DeleteVanishes DEF ClientDelete
  <2>3. CASE RemoveRow(d)
    BY <2>3, RowDiscards DEF Clients
  <2> QED
    BY <1>4, <2>1, <2>2, <2>3 DEF DeleteStep
<1>5. CASE ProviderStep
  <2>1. ASSUME NEW t \in Tickets, PostCreates(t) \/ PostVoid(t)
        PROVE  PromiseStep
    BY <2>1, PostAnswers
  <2>2. ASSUME NEW f \in Foreign, NEW s \in Slots, ExternalCreate(f, s)
        PROVE  PromiseStep
    BY <2>2, ForeignIsUnseen
  <2>3. ASSUME NEW s \in Slots, ExternalDelete(s) \/ LateDelete(s)
        PROVE  PromiseStep
    BY <2>3, DeleteVanishes DEF ExternalDelete, LateDelete
  <2> QED
    BY <1>5, <2>1, <2>2, <2>3 DEF ProviderStep
<1>6. CASE UNCHANGED vars
  BY <1>6, Unseen DEF vars
<1>7. ASSUME NEW t \in Tickets, Expire(t)
      PROVE  PromiseStep
  BY <1>7, Unseen DEF Expire
<1>8. ASSUME NEW c \in Clients, Refuse(c)
      PROVE  PromiseStep
  BY <1>8, Unseen DEF Refuse
<1>9. ASSUME NEW m \in Importers, ReadRemote(m) \/ Import(m)
      PROVE  PromiseStep
  BY <1>9, Unseen, ImportIsUnseen DEF ReadRemote
<1> QED
  BY <1>1, <1>2, <1>3, <1>4, <1>5, <1>6, <1>7, <1>8, <1>9 DEF Next

LEMMA InitImplements == Init => Promise!Init
BY DEF Init, Promise!Init, Phase, Session, Sessions

(* The saga implements the promise: whatever requests, recoveries, deletes, imports and the    *)
(* provider do together, what is released was never sent, what is committed or failed stays    *)
(* so, a row is dropped only when its session is gone, and a name is taken again only when     *)
(* nothing is left of it.                                                                      *)
THEOREM PromiseKept == Spec => KeepsPromise
<1>1. TypeOK /\ Accounting /\ [Next]_vars => [Promise!Next]_(Promise!vars)
  BY StepImplements DEF PromiseStep
<1> QED
  BY Invariance, InitImplements, <1>1, PTL DEF Spec, KeepsPromise, Promise!Spec
=============================================================================
