------------------------------ MODULE Batches ------------------------------
(***************************************************************************)
(* Messages sent in a batch: a request makes a row and queues the          *)
(* messages, workers execute them one by one, and count in the cache until *)
(* the one that reaches the total writes the counts to the row.            *)
(*                                                                         *)
(*   message.service.ts, batch.producer.ts   the batch                     *)
(*   batch.worker.ts                         an execution of a message     *)
(*                                                                         *)
(* BullMQ gives a message to one worker at a time, and to another when the *)
(* first has not renewed its lock, once: it may still be at it.            *)
(***************************************************************************)
EXTENDS DefaultProxy

CONSTANTS
  Messages,      \* messages of the batch
  MediaMessages, \* those that carry media
  Workloads

VARIABLES
  batch,   \* the BatchJob row
  tally,   \* counters in the cache; lost: outcomes no counter has (history)
  job,     \* the queued messages: who executes them, how often they stalled
  bounds   \* bound: stalls, crashes, failures of the cache and deletions left

batchVars == <<batch, tally, job, bounds>>
vars == <<requestVars, proxyVars, batchVars>>

ASSUME BatchesAssumption ==
  /\ IsFiniteSet(Messages) /\ IsFiniteSet(Executions)
  /\ MediaMessages \subseteq Messages /\ None \notin Executions \cup Nat
  /\ \A w \in Workloads : w.kind \in [Requests -> {"text", "media", "batch", "proxy", None}]

Total == Cardinality(Messages)

Init ==
  \E w \in Workloads :
    /\ StartRequests(w) /\ StartProxy
    /\ batch = [status |-> "none", sent |-> 0, failed |-> 0]
    /\ tally = [total |-> None, done |-> 0, sent |-> 0, failed |-> 0, lost |-> 0]
    /\ job = [m \in Messages |-> [status |-> "none", owner |-> None, stalls |-> 0]]
    /\ bounds = w.bounds
-----------------------------------------------------------------------------
(* A batch is made. *)

idle == <<elsewhere, proxyVars>>

Spend(what) == bounds[what] > 0 /\ bounds' = [bounds EXCEPT ![what] = @ - 1]

CreateRow(r) ==
  /\ At(r, "row")
  /\ batch.status = "none"
  /\ batch' = [batch EXCEPT !.status = "processing"]
  /\ Goto(r, "total")
  /\ UNCHANGED <<idle, tally, job, bounds>>

SetTotal(r) ==
  /\ At(r, "total")
  /\ tally' = [tally EXCEPT !.total = Total]
  /\ Goto(r, "queue")
  /\ UNCHANGED <<idle, batch, job, bounds>>

AddJobs(r) ==
  /\ At(r, "queue")
  /\ job' = [m \in Messages |-> [job[m] EXCEPT !.status = "waiting"]]
  /\ Become(r, Sent(r))
  /\ UNCHANGED <<idle, batch, tally, bounds>>

(* The row stays, whatever it could not get queued. *)
NotQueued(r) ==
  /\ task[r].pc \in {"total", "queue"}
  /\ Spend("faults")
  /\ Become(r, Failed(r))
  /\ UNCHANGED <<idle, batch, tally, job>>

DeleteBatch ==
  /\ batch.status \in {"processing", "completed"}
  /\ Spend("deletes")
  /\ batch' = [batch EXCEPT !.status = "deleted"]
  /\ UNCHANGED <<idle, task, tally, job>>
-----------------------------------------------------------------------------
(* A message is executed. *)

Take(x, m) ==
  /\ At(x, "over") /\ job[m].status = "waiting"
  /\ job' = [job EXCEPT ![m].status = "active", ![m].owner = x]
  /\ Become(x, [NewTask(IF m \in MediaMessages THEN "mediaJob" ELSE "job", None,
                        IF m \in MediaMessages THEN "prepare" ELSE "send")
                  EXCEPT !.message = m])
  /\ UNCHANGED <<idle, batch, tally, bounds>>

(* A mutant: done is counted before its outcome. *)
CountLater(x) ==
  /\ At(x, "free") /\ x \in Executions
  /\ Goto(x, "tell")
  /\ UNCHANGED <<idle, batch, tally, job, bounds>>

(* What was sent but could not be counted is counted as failed; what failed may be lost. *)
CountOutcome(x) ==
  /\ At(x, "free") /\ x \in Executions
  /\ LET sent == task[x].outcome = "sent"
     IN \/ /\ tally' = IF sent THEN [tally EXCEPT !.sent = @ + 1]
                               ELSE [tally EXCEPT !.failed = @ + 1]
           /\ Goto(x, "tell")
           /\ UNCHANGED bounds
        \/ /\ Spend("faults")
           /\ IF sent THEN Become(x, [task[x] EXCEPT !.outcome = "failed"]) /\ UNCHANGED tally
              ELSE Goto(x, "tell") /\ tally' = [tally EXCEPT !.lost = @ + 1]
  /\ UNCHANGED <<idle, batch, job>>

(* The message is done with, unless it has been given to someone else. *)
Ends(x) ==
  /\ Become(x, Idle)
  /\ job' = [m \in Messages |-> IF job[m].owner = x /\ task[x].message = m
                                THEN [job[m] EXCEPT !.status = "ended", !.owner = None] ELSE job[m]]

(* The one that makes the count equal to the total completes the batch, and no other. *)
CountDone(x) ==
  /\ At(x, "tell")
  /\ tally' = [tally EXCEPT !.done = @ + 1]
  /\ IF tally'.done = tally.total THEN Goto(x, "tally") /\ UNCHANGED job ELSE Ends(x)
  /\ UNCHANGED <<idle, batch, bounds>>

(* The batch is not finished by anyone else when the cache or the database fails here. *)
FinishFails(x) ==
  /\ task[x].pc \in {"tell", "tally", "save"}
  /\ Spend("faults")
  /\ Ends(x)
  /\ \/ UNCHANGED tally
     \/ At(x, "tell") /\ tally' = [tally EXCEPT !.done = @ + 1]
  /\ UNCHANGED <<idle, batch>>

ReadSent(x) ==
  /\ At(x, "tally")
  /\ Become(x, [task[x] EXCEPT !.pc = "save", !.loaded = tally.sent])
  /\ UNCHANGED <<idle, batchVars>>

SaveBatch(x) ==
  /\ At(x, "save")
  /\ batch' = IF batch.status = "deleted" THEN batch
              ELSE [status |-> "completed", sent |-> task[x].loaded, failed |-> tally.failed]
  /\ Ends(x)
  /\ UNCHANGED <<idle, tally, bounds>>
-----------------------------------------------------------------------------
(* The process of a worker dies. *)
Crash(x) ==
  /\ ~At(x, "over")
  /\ Spend("crashes")
  /\ Become(x, Idle)
  /\ UNCHANGED <<idle, batch, tally, job>>

(* Its lock has not been renewed: the message is executed again, but only once. *)
Stall(m) ==
  LET x == job[m].owner
  IN /\ job[m].status = "active"
     /\ IF task[x].message = m /\ ~At(x, "over") THEN Spend("stalls") ELSE UNCHANGED bounds
     /\ job' = [job EXCEPT ![m] =
          [status |-> IF @.stalls = 0 THEN "waiting" ELSE "failed", owner |-> None,
           stalls |-> @.stalls + 1]]
     /\ UNCHANGED <<idle, task, batch, tally>>

(* A day has passed. *)
ForgetTotal ==
  /\ tally.total # None
  /\ Spend("faults")
  /\ tally' = [tally EXCEPT !.total = None]
  /\ UNCHANGED <<idle, task, batch, job>>

Prepare(r) == CreateRow(r) \/ SetTotal(r) \/ AddJobs(r) \/ NotQueued(r)

Execute(x) ==
  \/ \E m \in Messages : Take(x, m)
  \/ CountOutcome(x) \/ CountDone(x) \/ FinishFails(x) \/ ReadSent(x) \/ SaveBatch(x)
  \/ Crash(x)

Next ==
  \/ (\E r \in Tasks : Work(r)) /\ UNCHANGED <<proxyVars, batchVars>>
  \/ (\E r \in Requests : ApplyDefaultProxy(r)) /\ UNCHANGED batchVars
  \/ (TakesEffect \/ OperatorSets) /\ UNCHANGED batchVars
  \/ \E r \in Requests : Prepare(r)
  \/ \E x \in Executions : Execute(x)
  \/ (\E m \in Messages : Stall(m)) \/ DeleteBatch \/ ForgetTotal
  \/ (Administer \/ Pass) /\ UNCHANGED <<proxyVars, batchVars>>

(* Redis lets keys expire. *)
Fairness ==
  /\ \A k \in Keys : WF_vars(ExpireAuth(k) /\ UNCHANGED <<proxyVars, batchVars>>)
  /\ WF_vars(ExpirePlace /\ UNCHANGED <<proxyVars, batchVars>>)

Spec == Init /\ [][Next]_vars /\ Fairness
-----------------------------------------------------------------------------
(* Every media request being worked on holds a slot, its own, and no other does; only one     *)
(* answered while it was being let in, for its body had taken too long, may go on without     *)
(* (media-http-admission.ts 55).                                                              *)
WorkHasSlot ==
  /\ slots = Cardinality({r \in Requests : task[r].slot = "held"})
  /\ \A r \in Requests :
       /\ (task[r].file \/ At(r, "wait")) /\ Media(r) /\ ~task[r].late => task[r].slot = "held"
       /\ At(r, "over") => task[r].slot # "held"

(* A media message is sent once by each who executes it, and never after its client was seen  *)
(* to leave or its request reached its deadline (media-request-context.ts 108). What this     *)
(* does not forbid: one answered while it was being let in, for its body had taken too long   *)
(* (late), may be sent all the same (media-http-admission.ts 69, timeout.interceptor.ts 165). *)
MediaSentOnce ==
  [][\A r \in Tasks :
       Media(r) /\ task'[r].calls > task[r].calls => task[r].calls = 0 /\ ~task[r].gone]_vars

(* A creation answers with its product's proxy only if its session has had it, since it was   *)
(* set and while the creation was wanted; it makes no call for it afterwards, four at most,   *)
(* and none that the circuit of the provider notices (evolution.http.ts 158).                 *)
ProxyConfirmedIsHeld ==
  [][\A r \in Requests :
       Optional(r) /\ task'[r] # task[r] =>
         /\ breaker' = breaker /\ slots' = slots
         /\ task'[r].calls > task[r].calls => ~Stopped(r) /\ budget /\ task[r].calls <= Reads
         /\ task'[r].outcome = "confirmed" => proxy.held /\ ~Stopped(r) /\ budget]_vars

(* What a completed batch says adds up to its messages, less what the cache failed to count;  *)
(* unless one was executed twice, none is counted twice and none is missing                   *)
(* (batch.worker.ts 166).                                                                     *)
BatchAccounted ==
  batch.status = "completed" =>
    /\ batch.sent + batch.failed + tally.lost >= Total
    /\ (\A m \in Messages : job[m].stalls = 0) =>
         /\ batch.sent + batch.failed <= Total
         /\ \A m \in Messages : job[m].status \in {"active", "ended"}

(* A cached answer the database contradicts does not last, in whatever order it was read,     *)
(* written and invalidated (apikey.guard.ts 72, instance.resolver.ts 101).                    *)
StaleAuth(k) ==
  auth[k] # None /\ auth[k].value /\ ~(product.key = k /\ product.active)
StalePlace ==
  place # None /\ (~instance.exists \/ place.value # instance.at)
StaleEnds == (\A k \in Keys : StaleAuth(k) ~> ~StaleAuth(k)) /\ (StalePlace ~> ~StalePlace)
=============================================================================
