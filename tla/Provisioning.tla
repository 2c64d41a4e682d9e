---------------------------- MODULE Provisioning ----------------------------
(***************************************************************************)
(* The creation saga of the Hub: how a request to create a WhatsApp        *)
(* instance becomes one session on a remote Evolution provider and one     *)
(* Instance row in the Hub's database, whatever crashes, times out or runs *)
(* at the same time.                                                       *)
(*                                                                         *)
(*   evolution-provisioning.service.ts   the ticket and its transactions   *)
(*   instance.service.ts                 the request that drives a ticket, *)
(*                                       and the client's delete           *)
(*   evolution-recovery.service.ts       the scan that resumes a ticket    *)
(*   evolution-links.ts, admin-instances the administrative import         *)
(*                                                                         *)
(* Every database transaction takes FOR UPDATE locks on the product and on *)
(* the provider, so a transaction is one action; every await on the remote *)
(* provider is a point where any other process may run.                    *)
(***************************************************************************)
EXTENDS FiniteSets

CONSTANTS
  Tickets,         \* creation requests; each opens at most one ticket, with its own id
  Recoverers,      \* Hub replicas that run the recovery scan, one ticket at a time each
  Deleters,        \* client requests to delete an instance
  Importers,       \* administrative requests to import an existing session
  Foreign,         \* sessions an operator creates on the provider, outside the Hub
  Products, Providers, Names,
  Requests,        \* the requests clients make, and the provider admission picks for each
  ExternalDeletes, \* whether an operator may also delete sessions outside the Hub
  None

Executors == Tickets \cup Recoverers
Clients == Tickets \cup Deleters
RowIds == Tickets \cup Importers
Sessions == Tickets \cup Foreign
Processes == Executors \cup Deleters \cup Importers
Slots == Providers \X Names

ASSUME RequestsAssumption ==
  Requests \subseteq [product : Products, provider : Providers, name : Names,
                      hook : BOOLEAN, clientToken : BOOLEAN]

ASSUME DisjointAssumption ==
  /\ Tickets \cap Recoverers = {}
  /\ Tickets \cap Deleters = {}
  /\ Tickets \cap Importers = {}
  /\ Tickets \cap Foreign = {}
  /\ Recoverers \cap Deleters = {}
  /\ Recoverers \cap Importers = {}
  /\ Deleters \cap Importers = {}
  /\ None \notin Processes \cup Foreign

VARIABLES
  ask,        \* what each request and each import asks for; never changes
  (* the InstanceProvisioning table *)
  state, owner, \* state and leaseOwner
  lease,      \* leaseExpiresAt: null, in the future, or past
  inst,       \* whether instanceId is set (the foreign key clears it with the row)
  sid,        \* providerInstanceId, of the ticket and of the row recorded from it
  applied,    \* payload.webhookApplied
  (* the Instance table *)
  rows,       \* ids of the rows; a row is named after the request that inserted it
  (* the remote provider *)
  remote,     \* the session that holds each name of each provider
  configured, \* sessions that were given the required webhook
  post,       \* the create call of each ticket, and of each foreign session
  late,       \* deletes whose caller has given up, and that may still take effect
  (* the processes *)
  pc, spent,  \* control; whether the caller is gone or the time budget over
  job,        \* the ticket an executor works on, as a recovery read it when it claimed it
  reply,      \* the session id an executor is about to record, or an importer saw
  target      \* the Instance row a client request has read

ticketVars == <<state, owner, lease, inst, sid, applied, rows>>
remoteVars == <<remote, configured, post, late>>
localVars == <<spent, job, reply, target>>
vars == <<ask, ticketVars, remoteVars, pc, localVars>>

OpenStates == {"reserved", "creating", "uncertain", "cleanup_pending"}
TerminalStates == {"committed", "released", "failed"}
States == {"none"} \cup OpenStates \cup TerminalStates

RequestPcs == {"idle", "findExisting", "checkRow", "dropRow", "reserve"}
ExecutorPcs == {"markCreating", "send", "post", "fetch", "record", "assertApply", "configure",
                "markApplied", "markCleanup", "assertDelete", "deleteRemote",
                "removeConfirmed", "finish", "abandon"}
Pcs == RequestPcs \cup ExecutorPcs \cup {"assertDeletable", "removeRow", "import", "done"}

Jobs == [ticket : Tickets \cup {None}, cleanup : BOOLEAN, inst : BOOLEAN,
         sid : Sessions \cup {None}, applied : BOOLEAN]
NoJob(e) == [ticket |-> IF e \in Tickets THEN e ELSE None, cleanup |-> FALSE, inst |-> FALSE,
             sid |-> None, applied |-> FALSE]

Slot(i) == <<ask[i].provider, ask[i].name>>
Open(t) == state[t] \in OpenStates

(* Two requests that the unique indexes keep apart: the same name in one product, or on one *)
(* provider.                                                                                 *)
RivalOnProviderOnly(i, j) == ask[i].name = ask[j].name /\ ask[i].provider = ask[j].provider

Rival(i, j) ==
  /\ ask[i].name = ask[j].name
  /\ ask[i].product = ask[j].product \/ ask[i].provider = ask[j].provider

TicketOf(e) == job[e].ticket
Working(e) == pc[e] \in ExecutorPcs
Goto(p, step) == pc' = [pc EXCEPT ![p] = step]

(* A request ends; a recoverer looks for its next ticket. *)
Stop(e) ==
  /\ Goto(e, IF e \in Tickets THEN "done" ELSE "idle")
  /\ spent' = [spent EXCEPT ![e] = FALSE]
  /\ job' = [job EXCEPT ![e] = NoJob(e)]
  /\ reply' = [reply EXCEPT ![e] = None]
  /\ UNCHANGED target

OwnedByAnyone(e) == Open(TicketOf(e))
Owned(e) == Open(TicketOf(e)) /\ owner[TicketOf(e)] = e
AssertOwned(e) == Owned(e) /\ lease[TicketOf(e)] = "running"

(* Whom a session's token names: a generated one its ticket, a client's nobody. *)
Token(s) == IF s \in Tickets /\ ~ask[s].clientToken THEN s ELSE None

TypeOK ==
  /\ ask \in [RowIds -> Requests]
  /\ state \in [Tickets -> States]
  /\ owner \in [Tickets -> Executors \cup {None}]
  /\ lease \in [Tickets -> {"none", "running", "expired"}]
  /\ inst \in [Tickets -> BOOLEAN]
  /\ sid \in [RowIds -> Sessions \cup {None}]
  /\ applied \in [Tickets -> BOOLEAN]
  /\ rows \subseteq RowIds
  /\ remote \in [Slots -> Sessions \cup {None}]
  /\ configured \subseteq Sessions
  /\ post \in [Sessions -> {"unsent", "flight", "created", "void"}]
  /\ late \subseteq Slots
  /\ pc \in [Processes -> Pcs]
  /\ spent \in [Executors -> BOOLEAN]
  /\ job \in [Executors -> Jobs]
  /\ \A e \in Executors : Working(e) => TicketOf(e) \in Tickets
  /\ \A t \in Tickets : TicketOf(t) = t
  /\ reply \in [Executors \cup Importers -> Sessions \cup {None}]
  /\ target \in [Clients -> RowIds \cup {None}]
  /\ \A c \in Clients :
       pc[c] \in {"checkRow", "dropRow", "assertDeletable", "removeRow"} => target[c] \in RowIds
  /\ \A d \in Deleters : pc[d] = "deleteRemote" => target[d] \in RowIds

Init ==
  /\ ask \in [RowIds -> Requests]
  /\ state = [t \in Tickets |-> "none"]
  /\ owner = [t \in Tickets |-> None]
  /\ lease = [t \in Tickets |-> "none"]
  /\ inst = [t \in Tickets |-> FALSE]
  /\ sid = [i \in RowIds |-> None]
  /\ applied = [t \in Tickets |-> FALSE]
  /\ rows = {}
  /\ remote = [s \in Slots |-> None]
  /\ configured = {}
  /\ post = [s \in Sessions |-> "unsent"]
  /\ late = {}
  /\ pc = [p \in Processes |-> "idle"]
  /\ spent = [e \in Executors |-> FALSE]
  /\ job = [e \in Executors |-> NoJob(e)]
  /\ reply = [p \in Executors \cup Importers |-> None]
  /\ target = [c \in Clients |-> None]

-----------------------------------------------------------------------------
(* Preparing a request: three unlocked reads, then the transaction that creates the ticket. *)

CheckPending(t) ==
  /\ pc[t] = "idle"
  /\ \A u \in Tickets : Open(u) => ask[u].product # ask[t].product \/ ask[u].name # ask[t].name
  /\ Goto(t, "findExisting")
  /\ UNCHANGED <<ask, ticketVars, remoteVars, localVars>>

FindExisting(t) ==
  /\ pc[t] = "findExisting"
  /\ LET found == {i \in rows : ask[i].product = ask[t].product /\ ask[i].name = ask[t].name}
     IN  \/ /\ found = {}
            /\ Goto(t, "reserve")
            /\ UNCHANGED target
         \/ \E i \in found :
              /\ Goto(t, "checkRow")
              /\ target' = [target EXCEPT ![t] = i]
  /\ UNCHANGED <<ask, ticketVars, remoteVars, spent, job, reply>>

(* The row exists but its session does not: the row is left over and may be removed. *)
CheckRow(t) ==
  /\ pc[t] = "checkRow"
  /\ remote[Slot(target[t])] = None
  /\ Goto(t, "dropRow")
  /\ UNCHANGED <<ask, ticketVars, remoteVars, localVars>>

AppliedUnlessTold(t) == TRUE
AppliedAtStart(t) == ~ask[t].hook

Reserve(t) ==
  /\ pc[t] = "reserve"
  /\ \A i \in rows : ~Rival(i, t)
  /\ \A u \in Tickets : Open(u) => ~Rival(u, t)
  /\ state' = [state EXCEPT ![t] = "reserved"]
  /\ owner' = [owner EXCEPT ![t] = t]
  /\ lease' = [lease EXCEPT ![t] = "running"]
  /\ applied' = [applied EXCEPT ![t] = AppliedAtStart(t)]
  /\ Goto(t, "markCreating")
  /\ UNCHANGED <<ask, inst, sid, rows, remoteVars, localVars>>

(* Every early exit of a request without a ticket and of a client's delete: a conflict, no     *)
(* admission, a failed read, a crash.                                                          *)
Refuse(c) ==
  /\ pc[c] \in RequestPcs \cup {"assertDeletable", "removeRow"}
  /\ c \in Tickets \/ pc[c] # "idle"
  /\ Goto(c, "done")
  /\ UNCHANGED <<ask, ticketVars, remoteVars, localVars>>

-----------------------------------------------------------------------------
(* Sending: the ticket moves to creating before the call leaves the Hub. *)

MarkCreating(t) ==
  /\ pc[t] = "markCreating"
  /\ AssertOwned(t)
  /\ ~spent[t]
  /\ state[t] = "reserved"
  /\ state' = [state EXCEPT ![t] = "creating"]
  /\ Goto(t, "send")
  /\ UNCHANGED <<ask, owner, lease, inst, sid, applied, rows, remoteVars, localVars>>

Send(t) ==
  /\ pc[t] = "send"
  /\ ~spent[t]
  /\ post' = [post EXCEPT ![t] = "flight"]
  /\ Goto(t, "post")
  /\ UNCHANGED <<ask, ticketVars, remote, configured, late, localVars>>

(* The provider takes the name, or the call has no effect: the name is in use, the request was *)
(* lost, the provider failed.                                                                  *)
PostCreates(t) ==
  /\ post[t] = "flight"
  /\ remote[Slot(t)] = None
  /\ remote' = [remote EXCEPT ![Slot(t)] = t]
  /\ post' = [post EXCEPT ![t] = "created"]
  /\ UNCHANGED <<ask, ticketVars, configured, late, pc, localVars>>

PostVoid(t) ==
  /\ post[t] = "flight"
  /\ post' = [post EXCEPT ![t] = "void"]
  /\ UNCHANGED <<ask, ticketVars, remote, configured, late, pc, localVars>>

(* The response may lack the remote id. *)
PostReply(t) ==
  /\ pc[t] = "post"
  /\ post[t] = "created"
  /\ ~spent[t]
  /\ \E id \in {t, None} : reply' = [reply EXCEPT ![t] = id]
  /\ Goto(t, "record")
  /\ UNCHANGED <<ask, ticketVars, remoteVars, spent, job, target>>

(* Any other answer, and none at all, leaves the outcome open. *)
PostFails(t) ==
  /\ pc[t] = "post"
  /\ Goto(t, "abandon")
  /\ UNCHANGED <<ask, ticketVars, remoteVars, localVars>>

-----------------------------------------------------------------------------
(* The steps a request and a recovery share; e is the executor, t its ticket. *)

(* recordCreated is idempotent: a ticket with an instance keeps it. Inserting the row needs its *)
(* unique keys free, else the transaction fails and the executor gives up.                      *)
RecordCreated(e) ==
  LET t == TicketOf(e)
  IN  /\ pc[e] = "record"
      /\ Owned(e)
      /\ state[t] \in {"creating", "uncertain"}
      /\ \/ /\ inst[t]
            /\ UNCHANGED <<inst, sid, rows>>
         \/ /\ ~inst[t]
            /\ \A i \in rows : ~Rival(i, t)
            /\ inst' = [inst EXCEPT ![t] = TRUE]
            /\ sid' = [sid EXCEPT ![t] = reply[e]]
            /\ rows' = rows \cup {t}
      /\ Goto(e, IF ~ask[t].hook THEN "finish"
                 ELSE IF e \in Tickets THEN "configure"
                 ELSE IF job[e].applied THEN "finish" ELSE "assertApply")
      /\ reply' = [reply EXCEPT ![e] = None]
      /\ UNCHANGED <<ask, state, owner, lease, applied, remoteVars, spent, job, target>>

(* applyInstanceDefaults addresses the session by name. *)
Configure(e) ==
  LET t == TicketOf(e)
  IN  /\ pc[e] = "configure"
      /\ ~spent[e]
      /\ remote[Slot(t)] # None
      /\ configured' = configured \cup {remote[Slot(t)]}
      /\ Goto(e, "markApplied")
      /\ UNCHANGED <<ask, ticketVars, remote, post, late, localVars>>

(* The required default is refused (not a timeout): the creation is compensated. *)
ConfigureFails(e) ==
  /\ pc[e] = "configure"
  /\ ~spent[e]
  /\ Goto(e, "markCleanup")
  /\ UNCHANGED <<ask, ticketVars, remoteVars, localVars>>

MarkWebhookApplied(e) ==
  /\ pc[e] = "markApplied"
  /\ Owned(e)
  /\ applied' = [applied EXCEPT ![TicketOf(e)] = TRUE]
  /\ Goto(e, "finish")
  /\ UNCHANGED <<ask, state, owner, lease, inst, sid, rows, remoteVars, localVars>>

(* In the request the flag is written inside the same try: a failed write is compensated too. *)
MarkWebhookAppliedFails(t) ==
  /\ pc[t] = "markApplied"
  /\ ~spent[t]
  /\ Goto(t, "markCleanup")
  /\ UNCHANGED <<ask, ticketVars, remoteVars, localVars>>

MarkCleanup(e) ==
  LET t == TicketOf(e)
  IN  /\ pc[e] = "markCleanup"
      /\ Owned(e)
      /\ state[t] \in {"creating", "uncertain", "cleanup_pending"}
      /\ state' = [state EXCEPT ![t] = "cleanup_pending"]
      /\ Goto(e, IF e \in Tickets /\ ~spent[e] THEN "deleteRemote" ELSE "abandon")
      /\ UNCHANGED <<ask, owner, lease, inst, sid, applied, rows, remoteVars, localVars>>

(* Addressed by name. A request takes "not found" for a success; a recovery gives up and asks *)
(* again later.                                                                               *)
DeleteRemote(e) ==
  LET slot == Slot(TicketOf(e))
  IN  /\ pc[e] = "deleteRemote"
      /\ ~spent[e]
      /\ remote' = [remote EXCEPT ![slot] = None]
      /\ Goto(e, IF e \in Tickets \/ (job[e].inst /\ remote[slot] # None)
                 THEN "removeConfirmed" ELSE "abandon")
      /\ UNCHANGED <<ask, ticketVars, configured, post, late, localVars>>

RemoveConfirmed(e) ==
  LET t == TicketOf(e)
  IN  /\ pc[e] = "removeConfirmed"
      /\ Owned(e)
      /\ t \in rows
      /\ rows' = rows \ {t}
      /\ inst' = [inst EXCEPT ![t] = FALSE]
      /\ state' = [state EXCEPT ![t] = "failed"]
      /\ owner' = [owner EXCEPT ![t] = None]
      /\ lease' = [lease EXCEPT ![t] = "none"]
      /\ Stop(e)
      /\ UNCHANGED <<ask, sid, applied, remoteVars>>

Finish(e) ==
  LET t == TicketOf(e)
  IN  /\ pc[e] = "finish"
      /\ Owned(e)
      /\ state[t] \in {"creating", "uncertain"} /\ inst[t] /\ applied[t]
      /\ state' = [state EXCEPT ![t] = "committed"]
      /\ owner' = [owner EXCEPT ![t] = None]
      /\ lease' = [lease EXCEPT ![t] = "none"]
      /\ Stop(e)
      /\ UNCHANGED <<ask, inst, sid, applied, rows, remoteVars>>

(* Any step of an executor may throw: a transaction refuses, a call fails or times out. A remote *)
(* delete that is given up may still take effect.                                               *)
GiveUp(e) ==
  /\ Working(e)
  /\ pc[e] \notin {"post", "abandon"}
  /\ late' = IF pc[e] = "deleteRemote" THEN late \cup {Slot(TicketOf(e))} ELSE late
  /\ Goto(e, "abandon")
  /\ UNCHANGED <<ask, ticketVars, remote, configured, post, localVars>>

(* The finally block: only the owner of an open ticket hands it on; what was never sent is free. *)
AbandonedAsErrorCode(s) == IF s = "reserved" THEN "not_sent" ELSE "result_not_confirmed"
AbandonedAsUnsent(s) == IF s \in {"reserved", "creating"} THEN "released" ELSE s

AbandonedState(s) ==
  CASE s = "reserved" -> "released"
    [] s = "cleanup_pending" -> "cleanup_pending"
    [] OTHER -> "uncertain"

Abandon(e) ==
  LET t == TicketOf(e)
  IN  /\ pc[e] = "abandon"
      /\ \/ /\ Owned(e)
            /\ state' = [state EXCEPT ![t] = AbandonedState(@)]
            /\ owner' = [owner EXCEPT ![t] = None]
            /\ lease' = [lease EXCEPT ![t] = "running"]
         \/ /\ ~Owned(e)
            /\ UNCHANGED <<state, owner, lease>>
      /\ Stop(e)
      /\ UNCHANGED <<ask, inst, sid, applied, rows, remoteVars>>

(* The process dies, or the final transaction fails: the ticket keeps its owner and its lease. *)
Crash(e) ==
  /\ Working(e)
  /\ late' = IF pc[e] = "deleteRemote" THEN late \cup {Slot(TicketOf(e))} ELSE late
  /\ Stop(e)
  /\ UNCHANGED <<ask, ticketVars, remote, configured, post>>

(* The caller disconnects or the time budget of the request or of the recovery runs out. *)
Spend(e) ==
  /\ Working(e)
  /\ ~spent[e]
  /\ spent' = [spent EXCEPT ![e] = TRUE]
  /\ UNCHANGED <<ask, ticketVars, remoteVars, pc, job, reply, target>>

(* A lease ends 5 s after the budget of the executor that took it, so it only expires once that *)
(* executor has stopped, or can no longer start a call.                                         *)
LeaseRunsOn(t) ==
  owner[t] # None /\ Working(owner[t]) /\ TicketOf(owner[t]) = t /\ ~spent[owner[t]]

Expire(t) ==
  /\ lease[t] = "running"
  /\ ~LeaseRunsOn(t)
  /\ lease' = [lease EXCEPT ![t] = "expired"]
  /\ UNCHANGED <<ask, state, owner, inst, sid, applied, rows, remoteVars, pc, localVars>>

-----------------------------------------------------------------------------
(* The recovery scan. *)

DueOnlyIfNull(t) == lease[t] = "none"
Due(t) == lease[t] # "running"

(* A reservation whose lease ran out was never sent. *)
ReleaseExpired(r, t) ==
  /\ pc[r] = "idle"
  /\ state[t] = "reserved" /\ Due(t)
  /\ state' = [state EXCEPT ![t] = "released"]
  /\ owner' = [owner EXCEPT ![t] = None]
  /\ lease' = [lease EXCEPT ![t] = "none"]
  /\ UNCHANGED <<ask, inst, sid, applied, rows, remoteVars, pc, localVars>>

Claim(r, t) ==
  /\ pc[r] = "idle"
  /\ state[t] \in OpenStates \ {"reserved"} /\ Due(t)
  /\ owner' = [owner EXCEPT ![t] = r]
  /\ lease' = [lease EXCEPT ![t] = "running"]
  /\ job' = [job EXCEPT ![r] = [ticket |-> t, cleanup |-> state[t] = "cleanup_pending",
                                inst |-> inst[t], sid |-> sid[t], applied |-> applied[t]]]
  /\ Goto(r, "fetch")
  /\ UNCHANGED <<ask, state, inst, sid, applied, rows, remoteVars, spent, reply, target>>

(* The session found under the ticket's name is the ticket's: by its id, or by a token only this *)
(* ticket has. A different id refutes it.                                                        *)
ProvenByTokenAlone(r, s) ==
  s # None /\ (job[r].sid = s \/ (job[r].sid = None /\ Token(s) = Token(TicketOf(r))))
ProvenById(r, s) == s # None /\ job[r].sid = s

Proven(r, s) ==
  LET t == TicketOf(r)
  IN  /\ s # None
      /\ \/ job[r].sid = s
         \/ job[r].sid = None /\ ~ask[t].clientToken /\ Token(s) = Token(t)

FetchFinds(r) ==
  LET s == remote[Slot(TicketOf(r))]
  IN  /\ pc[r] = "fetch"
      /\ ~spent[r]
      /\ Proven(r, s)
      /\ IF job[r].cleanup
         THEN Goto(r, "assertDelete") /\ UNCHANGED reply
         ELSE Goto(r, "record") /\ reply' = [reply EXCEPT ![r] = s]
      /\ UNCHANGED <<ask, ticketVars, remoteVars, spent, job, target>>

(* An empty answer ends a clean-up; it proves nothing of a call that may still be on its way, *)
(* and neither does a session that cannot be proven to be the ticket's.                       *)
NeverConfirms(r, s) == FALSE
ConfirmsCleanup(r, s) == s = None /\ job[r].cleanup /\ job[r].inst

FetchMisses(r) ==
  LET s == remote[Slot(TicketOf(r))]
  IN  /\ pc[r] = "fetch"
      /\ ~spent[r]
      /\ ~Proven(r, s)
      /\ Goto(r, IF ConfirmsCleanup(r, s) THEN "removeConfirmed" ELSE "abandon")
      /\ UNCHANGED <<ask, ticketVars, remoteVars, localVars>>

(* Before each remote effect a recovery checks that the ticket is still its own. *)
AssertStillOwned(r) ==
  /\ pc[r] \in {"assertDelete", "assertApply"}
  /\ ~spent[r]
  /\ AssertOwned(r)
  /\ Goto(r, IF pc[r] = "assertDelete" THEN "deleteRemote" ELSE "configure")
  /\ UNCHANGED <<ask, ticketVars, remoteVars, localVars>>

-----------------------------------------------------------------------------
(* The client's delete, and removeConfirmed without a ticket, which a request also uses for a *)
(* left-over row.                                                                             *)

ReferencedByNobody(i) == FALSE
Referenced(i) == i \in Tickets /\ inst[i] /\ Open(i)
ClearInst(i) == [t \in Tickets |-> inst[t] /\ t # i]

ReadRow(d) ==
  /\ pc[d] = "idle"
  /\ \E i \in rows : target' = [target EXCEPT ![d] = i]
  /\ Goto(d, "assertDeletable")
  /\ UNCHANGED <<ask, ticketVars, remoteVars, spent, job, reply>>

AssertDeletable(d) ==
  /\ pc[d] = "assertDeletable"
  /\ ~Referenced(target[d])
  /\ Goto(d, "deleteRemote")
  /\ UNCHANGED <<ask, ticketVars, remoteVars, localVars>>

(* Addressed by name; "not found" counts as done. A response may be lost: the call is retried, *)
(* and after the last retry the request ends with the row kept.                                *)
ClientDelete(d) ==
  /\ pc[d] = "deleteRemote"
  /\ remote' = [remote EXCEPT ![Slot(target[d])] = None]
  /\ \/ Goto(d, "removeRow")
     \/ UNCHANGED pc
  /\ UNCHANGED <<ask, ticketVars, configured, post, late, localVars>>

ClientDeleteFails(d) ==
  /\ pc[d] = "deleteRemote"
  /\ late' = late \cup {Slot(target[d])}
  /\ Goto(d, "done")
  /\ UNCHANGED <<ask, ticketVars, remote, configured, post, localVars>>

RemoveRow(c) ==
  /\ pc[c] \in {"removeRow", "dropRow"}
  /\ ~Referenced(target[c])
  /\ rows' = rows \ {target[c]}
  /\ inst' = ClearInst(target[c])
  /\ Goto(c, IF pc[c] = "dropRow" THEN "reserve" ELSE "done")
  /\ UNCHANGED <<ask, state, owner, lease, sid, applied, remoteVars, localVars>>

-----------------------------------------------------------------------------
(* The administrative import: an unlocked reading of the provider, then a transaction. *)

ReadRemote(m) ==
  /\ pc[m] = "idle"
  /\ remote[Slot(m)] # None
  /\ reply' = [reply EXCEPT ![m] = remote[Slot(m)]]
  /\ Goto(m, "import")
  /\ UNCHANGED <<ask, ticketVars, remoteVars, spent, job, target>>

(* i stands for the same name, or for the very session that m saw. *)
Taken(m, i) ==
  \/ Rival(i, m)
  \/ ask[i].provider = ask[m].provider /\ sid[i] = reply[m]

UnresolvedIgnored(m) == FALSE
Unresolved(m) == \E t \in Tickets : Open(t) /\ Taken(m, t)

Import(m) ==
  /\ pc[m] = "import"
  /\ \/ /\ ~Unresolved(m)
        /\ \A i \in rows : ~Taken(m, i)
        /\ rows' = rows \cup {m}
        /\ sid' = [sid EXCEPT ![m] = reply[m]]
     \/ UNCHANGED <<rows, sid>>  \* refused, failed, or already assigned
  /\ reply' = [reply EXCEPT ![m] = None]
  /\ Goto(m, "done")
  /\ UNCHANGED <<ask, state, owner, lease, inst, applied, remoteVars, spent, job, target>>

-----------------------------------------------------------------------------
(* The remote side of what the Hub no longer waits for, and the operators of the provider. *)

(* The provider never gives the same id twice. *)
ExternalCreate(f, s) ==
  /\ remote[s] = None
  /\ post[f] = "unsent"
  /\ remote' = [remote EXCEPT ![s] = f]
  /\ post' = [post EXCEPT ![f] = "created"]
  /\ UNCHANGED <<ask, ticketVars, configured, late, pc, localVars>>

ExternalDelete(s) ==
  /\ ExternalDeletes
  /\ remote[s] # None
  /\ remote' = [remote EXCEPT ![s] = None]
  /\ UNCHANGED <<ask, ticketVars, configured, post, late, pc, localVars>>

(* A delete whose caller gave up reaches the provider, or never does. *)
LateDelete(s) ==
  /\ s \in late
  /\ late' = late \ {s}
  /\ remote' \in {remote, [remote EXCEPT ![s] = None]}
  /\ UNCHANGED <<ask, ticketVars, configured, post, pc, localVars>>

-----------------------------------------------------------------------------
RequestStep(t) ==
  \/ CheckPending(t) \/ FindExisting(t) \/ CheckRow(t) \/ RemoveRow(t) \/ Reserve(t)
  \/ MarkCreating(t) \/ Send(t) \/ PostReply(t) \/ PostFails(t) \/ MarkWebhookAppliedFails(t)

ExecutorStep(e) ==
  \/ RecordCreated(e) \/ Configure(e) \/ ConfigureFails(e) \/ MarkWebhookApplied(e)
  \/ MarkCleanup(e) \/ DeleteRemote(e) \/ RemoveConfirmed(e) \/ Finish(e)
  \/ GiveUp(e) \/ Abandon(e)

RecoveryStep(r) ==
  \/ \E t \in Tickets : ReleaseExpired(r, t) \/ Claim(r, t)
  \/ FetchFinds(r) \/ FetchMisses(r) \/ AssertStillOwned(r)

DeleteStep(d) ==
  ReadRow(d) \/ AssertDeletable(d) \/ ClientDelete(d) \/ ClientDeleteFails(d) \/ RemoveRow(d)

ProviderStep ==
  \/ \E t \in Tickets : PostCreates(t) \/ PostVoid(t)
  \/ \E f \in Foreign, s \in Slots : ExternalCreate(f, s)
  \/ \E s \in Slots : ExternalDelete(s) \/ LateDelete(s)

Next ==
  \/ \E t \in Tickets : RequestStep(t) \/ Expire(t)
  \/ \E e \in Executors : ExecutorStep(e) \/ Crash(e) \/ Spend(e)
  \/ \E r \in Recoverers : RecoveryStep(r)
  \/ \E d \in Deleters : DeleteStep(d)
  \/ \E c \in Clients : Refuse(c)
  \/ \E m \in Importers : ReadRemote(m) \/ Import(m)
  \/ ProviderStep

Spec == Init /\ [][Next]_vars

(***************************************************************************)
(* Fairness. The timer of onApplicationBootstrap scans again and again,    *)
(* every executor has a deadline, and a lease is a time. A scan takes the  *)
(* due tickets in the order of updatedAt, and abandon moves a ticket to    *)
(* the end, so none of them is passed over for ever.                       *)
(***************************************************************************)
Executing(e) ==
  \/ ExecutorStep(e)
  \/ e \in Tickets /\ RequestStep(e) /\ Working(e)
  \/ e \in Recoverers /\ (FetchFinds(e) \/ FetchMisses(e) \/ AssertStillOwned(e))

Scanned(t) == \E r \in Recoverers : ReleaseExpired(r, t) \/ Claim(r, t)

Fairness ==
  /\ \A e \in Executors : WF_vars(Executing(e))
  /\ \A t \in Tickets : WF_vars(Expire(t)) /\ SF_vars(Scanned(t))

LiveSpec == Spec /\ Fairness

-----------------------------------------------------------------------------
(* Safety. *)

(* No session is ever lost from sight: while a create call may take effect, or the session it *)
(* made lives, the ticket is open or the Instance row exists. A session nobody records would  *)
(* use up the provider with no way to reach it.                                               *)
SessionAccounted ==
  \A t \in Tickets : post[t] = "flight" \/ remote[Slot(t)] = t => Open(t) \/ t \in rows

(* A ticket never adopts a session it did not create: a row recorded from a ticket names that *)
(* ticket's own session, whatever else holds the name when recovery looks it up.              *)
OwnEvidence ==
  \A t \in Tickets : t \in rows => sid[t] \in {t, None} /\ post[t] = "created"

(* A session is never handed over without its required webhook: a committed ticket's session, *)
(* while it lives, was configured, by the request or by whichever recovery finished it.       *)
CommittedConfigured ==
  \A t \in Tickets :
    state[t] = "committed" /\ ask[t].hook /\ remote[Slot(t)] = t => t \in configured

(* A name a ticket holds stays free for it: no import and no other request can insert a row   *)
(* that would make recordCreated hit a unique index after the session exists.                 *)
RecordNeverCollides ==
  \A t \in Tickets : Open(t) /\ ~inst[t] => \A i \in rows : ~Rival(i, t)

(* Until its ticket is closed, a row stays: no client delete and no clean-up of left-over rows *)
(* takes it from under the executor that configures, compensates or commits the session, nor   *)
(* from a compensation that waits for the next scan.                                           *)
AfterRecord == {"assertApply", "configure", "markApplied", "markCleanup", "finish"}

OpenRowKept ==
  /\ \A e \in Executors : pc[e] \in AfterRecord /\ Owned(e) => TicketOf(e) \in rows
  /\ \A t \in Tickets : state[t] = "cleanup_pending" => t \in rows

(* One name of a product never has two sessions, nor one session and a create call that may    *)
(* still make another, even on two providers: the POST is not repeated elsewhere.              *)
Live(t) == Open(t) \/ post[t] = "flight" \/ remote[Slot(t)] = t

OneSessionPerName ==
  \A t, u \in Tickets :
    t # u /\ ask[t].product = ask[u].product /\ ask[t].name = ask[u].name
      => ~(Live(t) /\ Live(u))

(* While an executor holds a ticket and its lease runs, nobody else moves the ticket, or the   *)
(* row recorded from it: a late request and a recovery never both act on it.                   *)
TicketView(t) == <<state[t], owner[t], inst[t], sid[t], applied[t], t \in rows>>

LeaseExclusive ==
  [][\A t \in Tickets :
       \A e \in Executors :
         owner[t] = e /\ Open(t) /\ lease[t] = "running" /\ TicketView(t)' # TicketView(t)
           => Working(e) /\ TicketOf(e) = t /\ pc'[e] # pc[e]]_vars

-----------------------------------------------------------------------------
(* The inductive invariant behind the safety theorems, by the piece of state it is about. *)

Gone(t) == post[t] = "created" /\ remote[Slot(t)] # t

(* The provider: a session is where its ticket put it, and only after the ticket was sent. *)
RemoteInv ==
  \A t \in Tickets :
    /\ \A s \in Slots : remote[s] = t => s = Slot(t) /\ post[t] = "created"
    /\ state[t] \in {"none", "reserved", "released"} => post[t] = "unsent"
    /\ state[t] \in {"committed", "failed"} => post[t] = "created"

(* The rows: what a row says of its session, and which tickets have one. *)
RowInv ==
  \A t \in Tickets :
    /\ t \in rows \/ inst[t] => post[t] = "created" /\ t \in rows
    /\ sid[t] \in {t, None}
    /\ Open(t) /\ t \in rows => inst[t]
    /\ state[t] = "cleanup_pending" => inst[t]
    /\ state[t] = "failed" => t \notin rows

(* The executors: what each has established by the step it has reached. *)
BeforeCall == RequestPcs \cup {"markCreating", "send"}
Compensating == {"deleteRemote", "removeConfirmed"}

RequestInv ==
  \A t \in Tickets :
    /\ job[t] = NoJob(t)
    /\ pc[t] \in RequestPcs => state[t] = "none"
    /\ pc[t] \in BeforeCall => post[t] = "unsent"
    /\ pc[t] = "send" => state[t] \notin {"none", "reserved", "released"}
    /\ pc[t] \in AfterRecord \cup Compensating \cup {"record"} => post[t] = "created"

Established(e) ==
  LET t == TicketOf(e)
  IN  Working(e) =>
        /\ state[t] # "none"
        /\ job[e].sid \in {t, None}
        /\ job[e].inst => post[t] = "created"
        /\ pc[e] = "record" => reply[e] \in {t, None} /\ post[t] = "created"
        /\ pc[e] \in AfterRecord /\ Open(t) => inst[t]
        /\ (job[e].cleanup \/ pc[e] \in {"assertDelete"} \cup Compensating) /\ Open(t)
             => state[t] = "cleanup_pending"
        /\ pc[e] = "removeConfirmed" => Gone(t)

ExecutorInv == \A e \in Executors : Established(e)

(* The deletes: a row is about to be removed only when its session is gone. *)
DeleteInv ==
  \A c \in Clients :
    target[c] \in Tickets =>
      /\ post[target[c]] = "created"
      /\ pc[c] \in {"removeRow", "dropRow"} => Gone(target[c])

Accounting == RemoteInv /\ RowInv /\ RequestInv /\ ExecutorInv /\ DeleteInv /\ SessionAccounted

-----------------------------------------------------------------------------
(* Refinement. *)

Phase(t) ==
  IF state[t] \in {"creating", "uncertain"} THEN "sent"
  ELSE IF state[t] = "cleanup_pending" THEN "undoing" ELSE state[t]

Session(t) ==
  IF post[t] # "created" THEN post[t] ELSE IF remote[Slot(t)] = t THEN "up" ELSE "gone"

Promise == INSTANCE CreationPromise WITH
  phase <- [t \in Tickets |-> Phase(t)],
  session <- [t \in Tickets |-> Session(t)],
  kept <- rows \cap Tickets

(* Requests, recoveries, deletes and imports together keep the promise of CreationPromise: what *)
(* is released was never sent, what is committed or failed stays so, a row is dropped only when *)
(* its session is gone for good, and a name is taken again only when nothing is left of it.     *)
KeepsPromise == Promise!Spec

-----------------------------------------------------------------------------
(* Liveness. *)

(* A reservation whose request stopped before sending is given back. *)
ReservationReleased == \A t \in Tickets : state[t] = "reserved" ~> state[t] # "reserved"

(* From some time on no executor dies, runs out of time or fails a call for no reason; giving  *)
(* up because of what the provider answered is no fault.                                       *)
Fault(e) ==
  \/ Spend(e)
  \/ Crash(e) /\ ~Abandon(e)
  \/ GiveUp(e) /\ ~spent[e] /\ Owned(e) /\ ~FetchMisses(e) /\ ~DeleteRemote(e)

EventuallyCalm == <>[][\A e \in Executors : ~Fault(e)]_vars

Evident(t) == sid[t] = t \/ ~ask[t].clientToken

(* A creation whose session lives and can be recognized is committed or undone, after any     *)
(* number of crashes and lost answers.                                                        *)
CreationResolved ==
  EventuallyCalm =>
    \A t \in Tickets :
      Open(t) /\ remote[Slot(t)] = t /\ Evident(t) ~> ~Open(t) \/ remote[Slot(t)] # t

(* A compensation that was begun is completed, also when its session is already gone. *)
CleanupCompleted ==
  EventuallyCalm =>
    \A t \in Tickets : state[t] = "cleanup_pending" /\ Evident(t) ~> state[t] = "failed"

-----------------------------------------------------------------------------
(* What the repository says and the code does not do. *)

(* "Aguarde a conclusao das criacoes em andamento": the creations that block a reversal are    *)
(* the unfinished ones (pendingProvisionings, evolution-change-checks.ts).                     *)
Pending(t) == state[t] # "none" /\ (Open(t) \/ owner[t] # None \/ lease[t] # "none")

PendingIsUnfinished == \A t \in Tickets : Pending(t) => Open(t)

(* "delete idempotente": repeating a delete does no more than the first one did, so a          *)
(* committed instance that no client asked to delete keeps its session.                        *)
DeletesOnlyItsOwn ==
  \A t \in Tickets :
    state[t] = "committed" /\ t \in rows /\ (\A d \in Deleters : target[d] # t)
      => remote[Slot(t)] = t
=============================================================================
