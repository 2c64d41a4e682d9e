------------------------------- MODULE Relay -------------------------------
(***************************************************************************)
(* The webhook relay: an event a session emits is attributed to an         *)
(* instance, stored, published to the queue and posted to the product that *)
(* owns the instance.                                                      *)
(*                                                                         *)
(*   relay-ingress.service.ts   reception, publication, the recovery scan  *)
(*   relay.worker.ts            the job that posts an event                *)
(*                                                                         *)
(* Instances come and go as CreationPromise says, which Provisioning is    *)
(* shown to implement.  Nothing here locks a row: every await is a point   *)
(* where creations, other replicas and the worker may run.                 *)
(***************************************************************************)
EXTENDS Naturals, FiniteSetsExt

CONSTANTS
  Tickets,    \* creations; an Instance row is named after the creation it records
  Requests,   \* what creations ask for: product, provider, name
  Hosts,      \* Hosts[v]: the providers a call from provider v may come from, by its address
  Events,     \* event ids, in the order the scan reads them
  Replicas,   \* Hub replicas that run the recovery scan
  Take,       \* rows a scan reads (50)
  Attempts,   \* times the queue tries a job (3)
  MaxStalls,  \* times the queue revives a job whose worker died (1, its default)
  Outputs,    \* what a product wants of an event: "on", "off" (no relay, or filtered), "missing" (no address)
  None

ASSUME EventsAssumption == Events \subseteq Nat \ {0} /\ Events \cap Replicas = {} /\ None \notin Tickets
ASSUME QueueAssumption == Take \in Nat \ {0} /\ Attempts \in Nat \ {0} /\ MaxStalls \in Nat

VARIABLES
  ask, phase, session, kept, \* the creations; kept are the Instance rows
  known,    \* creations whose row has the remote id
  output,   \* the output webhook of each product
  (* the events *)
  source,   \* the creation whose session emitted the event
  hasId,    \* whether the body carries the remote id, besides the name
  state,    \* of the PendingRelayEvent, "none" before it is stored
  intent,   \* originEvidence.provisioningId
  inst,     \* the instance of the payload
  (* the receivers and the recovery scans *)
  pc, seen, page, cursor,
  (* the queue and the receiving products *)
  job, tries, stalls, late, posts

creationVars == <<ask, phase, session, kept>>
fixedVars == <<known, output>>
eventVars == <<source, hasId, state, intent, inst>>
scanVars == <<page, cursor>>
queueVars == <<job, tries, stalls, late, posts>>
vars == <<creationVars, fixedVars, eventVars, pc, seen, scanVars, queueVars>>

Creation == INSTANCE CreationPromise

Publishers == Events \cup Replicas
EventStates == {"none", "pending", "waiting", "retained", "queued", "delivered", "failed"}
Steps == {"idle", "sent", "accept", "item", "promote", "validate", "retain", "add", "mark", "done"}
Running == {"validate", "post", "markDelivered", "markRetained"}
JobStates == {"none", "ready", "done", "dead"} \cup Running

TypeOK ==
  /\ known \subseteq Tickets
  /\ source \in [Events -> Tickets \cup {None}]
  /\ hasId \in [Events -> BOOLEAN]
  /\ state \in [Events -> EventStates]
  /\ intent \in [Events -> Tickets \cup {None}]
  /\ inst \in [Events -> Tickets \cup {None}]
  /\ pc \in [Publishers -> Steps]
  /\ seen \in [Events -> SUBSET Tickets]
  /\ page \in [Replicas -> SUBSET [event : Events, was : {"pending", "waiting"}]]
  /\ cursor \in [Replicas -> Events \cup {0}]
  /\ job \in [Events -> JobStates]
  /\ tries \in [Events -> 0 .. Attempts]
  /\ stalls \in [Events -> 0 .. MaxStalls]
  /\ late \subseteq Events
  /\ posts \in [Events -> Nat]
  /\ \A e \in Events :
       /\ pc[e] # "idle" => source[e] \in Tickets
       /\ state[e] # "none" => pc[e] \notin {"idle", "sent", "accept"}
       /\ state[e] = "waiting" => intent[e] \in Tickets
       /\ state[e] \in {"pending", "queued", "delivered", "failed"} => inst[e] \in Tickets
       /\ job[e] # "none" => inst[e] \in Tickets /\ state[e] # "none"
  /\ \A r \in Replicas : pc[r] \notin {"idle", "done"} <=> page[r] # {}
  /\ \A r \in Replicas : \A item \in page[r] :
       state[item.event] # "none" /\ (item.was = "pending" => inst[item.event] \in Tickets)

Init ==
  /\ ask \in [Tickets -> Requests]
  /\ Creation!Init
  /\ known \in SUBSET Tickets
  /\ output \in [{q.product : q \in Requests} -> Outputs]
  /\ source = [e \in Events |-> None]
  /\ hasId = [e \in Events |-> FALSE]
  /\ state = [e \in Events |-> "none"]
  /\ intent = [e \in Events |-> None]
  /\ inst = [e \in Events |-> None]
  /\ pc = [p \in Publishers |-> "idle"]
  /\ seen = [e \in Events |-> {}]
  /\ page = [r \in Replicas |-> {}]
  /\ cursor = [r \in Replicas |-> 0]
  /\ job = [e \in Events |-> "none"]
  /\ tries = [e \in Events |-> 0]
  /\ stalls = [e \in Events |-> 0]
  /\ late = {}
  /\ posts = [e \in Events |-> 0]

Create ==
  /\ Creation!Next
  /\ UNCHANGED <<fixedVars, eventVars, pc, seen, scanVars, queueVars>>

-----------------------------------------------------------------------------
(* Reception: two unlocked readings, then the event is stored. *)

From(e) == Hosts[ask[source[e]].provider]
SameName(t, e) == ask[t].name = ask[source[e]].name
SameId(t, e) == t = source[e] /\ t \in known /\ t \in kept

(* The body has the name, or the name and the id; it may be delayed past the session's end. *)
Emit(e) ==
  /\ pc[e] = "idle"
  /\ \E t \in Tickets, id \in BOOLEAN :
       /\ session[t] = "up"
       /\ source' = [source EXCEPT ![e] = t]
       /\ hasId' = [hasId EXCEPT ![e] = id]
  /\ pc' = [pc EXCEPT ![e] = "sent"]
  /\ UNCHANGED <<creationVars, fixedVars, state, intent, inst, seen, scanVars, queueVars>>

Selected(t, e) ==
  ask[t].provider \in From(e) /\ (SameName(t, e) \/ (hasId[e] /\ SameId(t, e)))

ReadInstances(e) ==
  /\ pc[e] = "sent"
  /\ seen' = [seen EXCEPT ![e] = {t \in kept : Selected(t, e)}]
  /\ pc' = [pc EXCEPT ![e] = "accept"]
  /\ UNCHANGED <<creationVars, fixedVars, eventVars, scanVars, queueVars>>

Intentions(e) == {t \in Tickets : Creation!Held(t) /\ Selected(t, e)}

IsInstanceByName(t, e) ==
  seen[e] = {t} /\ SameName(t, e) /\ \A u \in Intentions(e) : u = t /\ t \in kept
IsInstance(t, e) ==
  /\ seen[e] = {t}
  /\ SameName(t, e)
  /\ hasId[e] => t = source[e] /\ t \in known
  /\ \A u \in Intentions(e) : u = t /\ t \in kept

IsIntention(t, e) ==
  /\ seen[e] = {}
  /\ Intentions(e) = {t}
  /\ SameName(t, e)
  /\ hasId[e] => ~(t \in kept /\ t \in known) \/ t = source[e]

(* Storing needs the instance to be there still: the foreign key. *)
StoreBare(e, to, t, i) ==
  /\ state' = [state EXCEPT ![e] = to]
  /\ intent' = [intent EXCEPT ![e] = t]
  /\ inst' = inst
  /\ seen' = [seen EXCEPT ![e] = {}]
  /\ pc' = [pc EXCEPT ![e] = IF to = "pending" THEN "validate" ELSE "done"]
Store(e, to, t, i) ==
  /\ state' = [state EXCEPT ![e] = to]
  /\ intent' = [intent EXCEPT ![e] = t]
  /\ inst' = [inst EXCEPT ![e] = i]
  /\ seen' = [seen EXCEPT ![e] = {}]
  /\ pc' = [pc EXCEPT ![e] = IF to = "pending" THEN "validate" ELSE "done"]

Accept(e) ==
  /\ pc[e] = "accept"
  /\ \/ \E t \in kept : IsInstance(t, e) /\ Store(e, "pending", None, t)
     \/ \E t \in Tickets : IsIntention(t, e) /\ Store(e, "waiting", t, None)
     \/ /\ \A t \in Tickets : ~IsInstance(t, e) /\ ~IsIntention(t, e)
        /\ Store(e, "retained", None, None)
  /\ UNCHANGED <<creationVars, fixedVars, source, hasId, scanVars, queueVars>>

-----------------------------------------------------------------------------
(* Publication, by the receiver of the event or by a recovery scan. *)

Item(r) == CHOOSE item \in page[r] : \A other \in page[r] : item.event <= other.event
EventOf(p) == IF p \in Events THEN p ELSE Item(p).event

(* A receiver ends; a scan goes on with the next row it read. *)
Advance(p) ==
  IF p \in Events THEN pc' = [pc EXCEPT ![p] = "done"] /\ UNCHANGED page
  ELSE /\ page' = [page EXCEPT ![p] = @ \ {Item(p)}]
       /\ pc' = [pc EXCEPT ![p] = IF page'[p] = {} THEN "idle" ELSE "item"]

Goto(p, step) == pc' = [pc EXCEPT ![p] = step] /\ UNCHANGED page

Validate(p) ==
  /\ pc[p] = "validate"
  /\ Goto(p, IF inst[EventOf(p)] \in kept THEN "add" ELSE "retain")
  /\ UNCHANGED <<creationVars, fixedVars, eventVars, seen, cursor, queueVars>>

(* markEvent leaves a delivered event alone. *)
MarkAlways(e, to) == state' = [state EXCEPT ![e] = to]
MarkEvent(e, to) == state' = [state EXCEPT ![e] = IF @ = "delivered" THEN @ ELSE to]

Retain(p) ==
  /\ pc[p] = "retain"
  /\ MarkEvent(EventOf(p), "retained")
  /\ Advance(p)
  /\ UNCHANGED <<creationVars, fixedVars, source, hasId, intent, inst, seen, cursor, queueVars>>

(* The job's id is the event's: the queue keeps the job it has, also when it has ended. *)
EnqueuedAgain(e) == [job EXCEPT ![e] = "ready"]
Enqueued(e) == [job EXCEPT ![e] = IF @ = "none" THEN "ready" ELSE @]

AddUnawaited(p) ==
  /\ pc[p] = "add"
  /\ job' = Enqueued(EventOf(p)) \/ UNCHANGED job
  /\ Goto(p, "mark")
  /\ UNCHANGED <<creationVars, fixedVars, eventVars, seen, cursor, tries, stalls, late, posts>>
Add(p) ==
  /\ pc[p] = "add"
  /\ job' = Enqueued(EventOf(p))
  /\ Goto(p, "mark")
  /\ UNCHANGED <<creationVars, fixedVars, eventVars, seen, cursor, tries, stalls, late, posts>>

MarkQueued(p) ==
  /\ pc[p] = "mark"
  /\ state' = [state EXCEPT ![EventOf(p)] = IF @ = "pending" THEN "queued" ELSE @]
  /\ Advance(p)
  /\ UNCHANGED <<creationVars, fixedVars, source, hasId, intent, inst, seen, cursor, queueVars>>

(* Any call to the database or the queue may fail; it is logged, or refused to the provider. *)
Throw(p) ==
  /\ pc[p] \in Steps \ {"idle", "done"}
  /\ seen' = IF p \in Events THEN [seen EXCEPT ![p] = {}] ELSE seen
  /\ Advance(p)
  /\ UNCHANGED <<creationVars, fixedVars, eventVars, cursor, queueVars>>

-----------------------------------------------------------------------------
(* The recovery scan, page by page. *)

(* The cursor starts again once a page is empty. *)
CursorKept(r, rows) == IF rows = {} THEN cursor[r] ELSE Max(rows)
CursorAfter(r, rows) == IF rows = {} THEN 0 ELSE Max(rows)

Scan(r) ==
  LET due == {e \in Events : state[e] \in {"pending", "waiting"} /\ e > cursor[r]}
      rows == {e \in due : Cardinality({f \in due : f < e}) < Take}
  IN  /\ pc[r] = "idle"
      /\ page' = [page EXCEPT ![r] = {[event |-> e, was |-> state[e]] : e \in rows}]
      /\ cursor' = [cursor EXCEPT ![r] = CursorAfter(r, rows)]
      /\ pc' = [pc EXCEPT ![r] = IF rows = {} THEN "idle" ELSE "item"]
      /\ UNCHANGED <<creationVars, fixedVars, eventVars, seen, queueVars>>

EndedOpen(t) == phase[t] = "released"
Ended(t) == phase[t] \in {"failed", "released"}

(* The row of the creation an event waits for, if it is what the event named. *)
Recorded(t) == t \in kept /\ phase[t] \in {"sent", "committed"}
MatchesByName(t, e) == t \in Tickets
Matches(t, e) == hasId[e] => t = source[e] /\ t \in known

Begin(r) ==
  LET e == Item(r).event
      t == intent[e]
  IN  /\ pc[r] = "item"
      /\ \/ Item(r).was = "pending" /\ Goto(r, "validate")
         \/ /\ Item(r).was = "waiting"
            /\ \/ Ended(t) /\ Goto(r, "retain")
               \/ Recorded(t) /\ ~Matches(t, e) /\ Goto(r, "retain")
               \/ Recorded(t) /\ Matches(t, e) /\ Goto(r, "promote")
               \/ ~Ended(t) /\ ~Recorded(t) /\ Advance(r)
      /\ UNCHANGED <<creationVars, fixedVars, eventVars, seen, cursor, queueVars>>

(* Only a waiting event takes the instance, if the instance is there still: the foreign key.  *)
(* Whoever took it first, the event goes on if it is pending.                                 *)
Promote(r) ==
  LET e == Item(r).event
  IN  /\ pc[r] = "promote"
      /\ \/ /\ state[e] = "waiting" /\ intent[e] \in kept
            /\ state' = [state EXCEPT ![e] = "pending"]
            /\ inst' = [inst EXCEPT ![e] = intent[e]]
            /\ Goto(r, "validate")
         \/ state[e] = "waiting" /\ intent[e] \notin kept /\ Advance(r) /\ UNCHANGED <<state, inst>>
         \/ state[e] = "pending" /\ Goto(r, "validate") /\ UNCHANGED <<state, inst>>
         \/ state[e] \notin {"waiting", "pending"} /\ Advance(r) /\ UNCHANGED <<state, inst>>
      /\ UNCHANGED <<creationVars, fixedVars, source, hasId, intent, seen, cursor, queueVars>>

Restart(r) ==
  /\ pc' = [pc EXCEPT ![r] = "idle"]
  /\ page' = [page EXCEPT ![r] = {}]
  /\ cursor' = [cursor EXCEPT ![r] = 0]
  /\ UNCHANGED <<creationVars, fixedVars, eventVars, seen, queueVars>>

-----------------------------------------------------------------------------
(* The worker. A job that fails is tried again, and after the last time the mark that records *)
(* it is sent without waiting for it.                                                         *)

Work(e, to) == job' = [job EXCEPT ![e] = to] /\ UNCHANGED <<tries, stalls, late>>

(* Nothing reads the counts of a job that has ended. *)
End(e, to) ==
  /\ job' = [job EXCEPT ![e] = to]
  /\ tries' = [tries EXCEPT ![e] = 0]
  /\ stalls' = [stalls EXCEPT ![e] = 0]

Complete(e) == End(e, "done") /\ UNCHANGED late

Fail(e) ==
  \/ /\ tries[e] + 1 < Attempts
     /\ job' = [job EXCEPT ![e] = "ready"]
     /\ tries' = [tries EXCEPT ![e] = @ + 1]
     /\ UNCHANGED <<stalls, late>>
  \/ /\ tries[e] + 1 = Attempts
     /\ End(e, "dead")
     /\ late' = late \cup {e}

Start(e) ==
  /\ job[e] = "ready"
  /\ Work(e, "validate")
  /\ UNCHANGED <<creationVars, fixedVars, eventVars, pc, seen, scanVars, posts>>

Destination(e) == output[ask[inst[e]].product]

WorkValidate(e) ==
  /\ job[e] = "validate"
  /\ Work(e, IF inst[e] \notin kept \/ Destination(e) = "missing" THEN "markRetained"
             ELSE IF Destination(e) = "off" THEN "markDelivered" ELSE "post")
  /\ UNCHANGED <<creationVars, fixedVars, eventVars, pc, seen, scanVars, posts>>

(* The product receives the event; its answer may be lost. *)
MarkedUnsent(e) == Work(e, "markDelivered") /\ posts' = posts
Posted(e) == posts' = [posts EXCEPT ![e] = @ + 1] /\ (Work(e, "markDelivered") \/ Fail(e))

Post(e) ==
  /\ job[e] = "post"
  /\ Posted(e)
  /\ UNCHANGED <<creationVars, fixedVars, eventVars, pc, seen, scanVars>>

(* The mark, too, may be made and its answer lost. *)
Mark(e) ==
  /\ \/ job[e] = "markDelivered" /\ MarkEvent(e, "delivered")
     \/ job[e] = "markRetained" /\ MarkEvent(e, "retained")
  /\ Complete(e) \/ Fail(e)
  /\ UNCHANGED <<creationVars, fixedVars, source, hasId, intent, inst, pc, seen, scanVars, posts>>

(* The product is not there, or a call to the database fails. *)
WorkThrow(e) ==
  /\ job[e] \in Running
  /\ Fail(e)
  /\ UNCHANGED <<creationVars, fixedVars, eventVars, pc, seen, scanVars, posts>>

(* The worker dies: the queue revives the job a few times, then gives it up without a mark. *)
Stall(e) ==
  /\ job[e] \in Running
  /\ \/ /\ stalls[e] < MaxStalls
        /\ job' = [job EXCEPT ![e] = "ready"]
        /\ stalls' = [stalls EXCEPT ![e] = @ + 1]
        /\ UNCHANGED tries
     \/ stalls[e] = MaxStalls /\ End(e, "dead")
  /\ UNCHANGED <<creationVars, fixedVars, eventVars, pc, seen, scanVars, late, posts>>

MarkFailed(e) ==
  /\ e \in late
  /\ late' = late \ {e}
  /\ MarkEvent(e, "failed") \/ UNCHANGED state
  /\ UNCHANGED <<creationVars, fixedVars, source, hasId, intent, inst, pc, seen, scanVars>>
  /\ UNCHANGED <<job, tries, stalls, posts>>

-----------------------------------------------------------------------------
Receive(e) == Emit(e) \/ ReadInstances(e) \/ Accept(e)
Publish(p) == Validate(p) \/ Retain(p) \/ Add(p) \/ MarkQueued(p)
Recover(r) == Scan(r) \/ Begin(r) \/ Promote(r) \/ Publish(r)
Deliver(e) == Start(e) \/ WorkValidate(e) \/ Post(e) \/ Mark(e)

Next ==
  \/ Create
  \/ \E e \in Events :
       Receive(e) \/ Publish(e) \/ Deliver(e) \/ WorkThrow(e) \/ Stall(e) \/ MarkFailed(e)
  \/ \E r \in Replicas : Recover(r) \/ Restart(r)
  \/ \E p \in Publishers : Throw(p)

Spec == Init /\ [][Next]_vars

(* The scan's timer fires for ever. *)
Fairness == \A r \in Replicas : WF_vars(Recover(r))

LiveSpec == Spec /\ Fairness

-----------------------------------------------------------------------------
(* An event that carries the remote id is posted to the instance of the session that sent it,  *)
(* never to a later instance of the same name, however late it arrives or is recovered.        *)
RightInstance ==
  \A e \in Events : posts[e] > 0 /\ hasId[e] => inst[e] = source[e]

(* "Persist first so a failed queue publication can be recovered": an event that the recovery  *)
(* no longer reads has a job, so a replica that dies while publishing loses nothing.           *)
QueuedHasJob == \A e \in Events : state[e] = "queued" => job[e] # "none"

(* An event is recorded as delivered only after its product received it, unless the relay of   *)
(* the product is off.                                                                         *)
DeliveredIsReceived ==
  \A e \in Events : state[e] = "delivered" => posts[e] > 0 \/ Destination(e) = "off"

(* However many replicas and receivers publish an event, and however often, the product is     *)
(* sent it no more often than one job is tried and revived.                                    *)
OneJobPerEvent == \A e \in Events : posts[e] <= Attempts + MaxStalls

(* Once delivered, always delivered: neither a late failure mark, nor a replica that read the  *)
(* event before, takes it back.                                                                *)
DeliveredForever ==
  [][\A e \in Events : state[e] = "delivered" => state'[e] = "delivered"]_vars

(* From some time on no replica dies and no call of a scan fails. *)
Calm(r) == Recover(r) \/ UNCHANGED <<pc[r], page[r], cursor[r]>>
EventuallyCalm == <>[][\A r \in Replicas : Calm(r)]_vars

(* A stored event whose publication failed does not stay so: it is published or retained,      *)
(* wherever the cursor is.                                                                     *)
PublicationRecovered ==
  EventuallyCalm => \A e \in Events : []<>(state[e] # "pending")

(* An event that came before its instance does not wait for ever once the creation ended       *)
(* without one, or recorded it and kept it.                                                    *)
Decided(t) ==
  phase[t] \in {"failed", "released"} \/ (t \in kept /\ phase[t] \in {"sent", "committed"})

EarlyEventSettled ==
  EventuallyCalm =>
    \A e \in Events, t \in Tickets :
      []<>~(state[e] = "waiting" /\ intent[e] = t /\ Decided(t))

(* "Se o produto estiver indisponivel, o job aguarda na fila com retry - sem perda de eventos": *)
(* no event of a live instance is given up unreceived.                                          *)
NoEventGivenUp ==
  \A e \in Events :
    state[e] = "failed" /\ inst[e] \in kept => posts[e] > 0
=============================================================================
