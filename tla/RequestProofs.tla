---------------------------- MODULE RequestProofs ----------------------------
(***************************************************************************)
(* The proof that media requests are worked on within their slots, that a  *)
(* media message is sent once and for a client that is still there, and    *)
(* that a proxy is only confirmed when it was had, and that what a batch   *)
(* says adds up: for any number of requests, executions, slots, retries    *)
(* and messages of a batch.                                                *)
(*                                                                         *)
(* Every step but those of the administration and of time replaces one     *)
(* task by another (Step), so the invariant is about a task on its own     *)
(* (TaskOK), and about the slots, which are counted against the tasks.     *)
(* The batch has an invariant of its own (BatchInv), proved from that one: *)
(* its counters are bounded by what its executions still have to count.    *)
(***************************************************************************)
EXTENDS Batches, TLAPS, FiniteSetTheorems

TaskFields == {"kind", "key", "pc", "loaded", "slot", "adopted", "gone", "late", "reason", "file",
               "calls", "outcome", "message"}

Entrance == {"guard", "read", "store", "limit", "expire", "enter"}
Before == {"resolve", "load", "keep", "row", "total", "queue", "prepare", "fill", "send"}
After == {"wait", "clean", "free"}
ProxySteps == {"set", "setting", "check", "checking", "checked"}

IsMedia(x) == x.kind \in {"media", "mediaJob"}

(* The work is adopted, keeps its slot until it ends, and makes no call before it sends; whoever *)
(* leaves before that stops it.                                                                   *)
RequestOK(x) ==
  /\ x.kind \in {"text", "media", "batch", "proxy", "job"}
  /\ x.pc \in {"new", "over"} \cup Entrance \cup Before \cup After \cup ProxySteps
  /\ x.kind = "job" => x.pc = "over"
  /\ x.kind = "proxy" <=> x.pc \in ProxySteps \/ (x.kind = "proxy" /\ x.pc = "over")
  /\ x.pc \in {"new", "over"} \cup ProxySteps => x.slot # "held"
  /\ x.pc \in Before \cup After => x.adopted
  /\ x.file => x.pc \in {"fill", "send", "wait", "clean"}
  /\ x.kind = "media" =>
       /\ x.pc \notin {"new", "over"} /\ (x.adopted \/ ~x.gone) /\ ~x.late => x.slot = "held"
       /\ x.pc \notin After \cup {"over"} => x.calls = 0
       /\ x.adopted /\ x.gone /\ x.calls = 0 => x.reason # None

ExecutionOK(x) ==
  /\ x.kind \in {"job", "mediaJob"}
  /\ x.pc \in {"prepare", "fill", "send", "wait", "clean", "free", "tell", "tally", "save", "over"}
  /\ x.slot # "held" /\ ~x.gone
  /\ x.kind = "mediaJob" /\ x.pc \in {"prepare", "fill", "send"} => x.calls = 0

(* The end of a creation: it reads at most so often, and what it read was once set. *)
ProxyOK(x) ==
  x.kind = "proxy" =>
    /\ x.pc # "over" => x.outcome = None
    /\ x.pc = "set" => x.calls = 0
    /\ x.pc = "setting" => x.calls = 1
    /\ x.pc = "check" => x.calls \in 1 .. Reads
    /\ x.pc \in {"checking", "checked"} => x.calls >= 1
    /\ x.pc = "checked" /\ x.loaded = "sent" => proxy.held

TaskOK(r, x) ==
  /\ DOMAIN x = TaskFields /\ x.calls \in Nat
  /\ IF r \in Requests THEN RequestOK(x) ELSE ExecutionOK(x)

Holders == {r \in Requests : task[r].slot = "held"}

SlotsOK ==
  /\ DOMAIN task = Tasks
  /\ \A r \in Tasks : TaskOK(r, task[r])
  /\ slots = Cardinality(Holders)

ProxiesOK ==
  /\ DOMAIN proxy = {"value", "pending", "held"}
  /\ proxy.value = "sent" => proxy.held
  /\ \A r \in Requests : ProxyOK(task[r])

RequestInv == SlotsOK /\ ProxiesOK
-----------------------------------------------------------------------------
(* A step of one task. *)

SentOnce(x, y) == IsMedia(x) /\ y.calls > x.calls => x.calls = 0 /\ ~x.gone

Step(r, y) ==
  /\ task' = [task EXCEPT ![r] = y]
  /\ TaskOK(r, y) /\ SentOnce(task[r], y)
  /\ r \in Requests => y.kind = task[r].kind
  /\ \/ (y.slot = "held" <=> task[r].slot = "held") /\ slots' = slots
     \/ y.slot = "held" /\ task[r].slot # "held" /\ slots' = slots + 1
     \/ y.slot # "held" /\ task[r].slot = "held" /\ slots' = slots - 1

LEMMA StepKeeps ==
  ASSUME RequestsAssumption, SlotsOK, NEW r \in Tasks, NEW y, Step(r, y)
  PROVE  SlotsOK'
<1>1. DOMAIN task' = Tasks /\ task'[r] = y /\ \A o \in Tasks \ {r} : task'[o] = task[o]
  BY DEF SlotsOK, Step
<1>2. \A o \in Tasks : TaskOK(o, task'[o])
  BY <1>1 DEF SlotsOK, Step
<1>3. IsFiniteSet(Holders) /\ IsFiniteSet(Requests)
  <2>1. IsFiniteSet(Requests)
    BY DEF RequestsAssumption
  <2> QED
    BY <2>1, FS_Subset DEF Holders
<1>4. slots = Cardinality(Holders) /\ Cardinality(Holders) \in Nat
  BY <1>3, FS_CardinalityType DEF SlotsOK
<1>5. CASE r \notin Requests
  <2>1. y.slot # "held" /\ task[r].slot # "held"
    BY <1>1, <1>2, <1>5 DEF SlotsOK, TaskOK, ExecutionOK
  <2>2. Holders' = Holders
    BY <1>1, <1>5 DEF Holders, Tasks
  <2> QED
    BY <1>1, <1>2, <1>4, <2>1, <2>2 DEF SlotsOK, Step
<1>6. CASE r \in Requests
  <2>1. \A o \in Requests \ {r} : o \in Holders' <=> o \in Holders
    BY <1>1 DEF Holders, Tasks
  <2>2. (r \in Holders' <=> y.slot = "held") /\ (r \in Holders <=> task[r].slot = "held")
    BY <1>1, <1>6 DEF Holders
  <2>3. CASE y.slot = "held" /\ task[r].slot # "held"
    <3>1. Holders' = Holders \cup {r} /\ r \notin Holders
      BY <1>6, <2>1, <2>2, <2>3 DEF Holders
    <3>2. Cardinality(Holders') = Cardinality(Holders) + 1
      BY <1>3, <3>1, FS_AddElement
    <3> QED
      BY <1>1, <1>2, <1>4, <2>3, <3>2 DEF SlotsOK, Step
  <2>4. CASE y.slot # "held" /\ task[r].slot = "held"
    <3>1. Holders' = Holders \ {r} /\ r \in Holders
      BY <1>6, <2>1, <2>2, <2>4 DEF Holders
    <3>2. Cardinality(Holders') = Cardinality(Holders) - 1
      BY <1>3, <3>1, FS_RemoveElement
    <3> QED
      BY <1>1, <1>2, <1>4, <2>4, <3>2 DEF SlotsOK, Step
  <2>5. CASE y.slot = "held" <=> task[r].slot = "held"
    <3>1. Holders' = Holders
      BY <1>6, <2>1, <2>2, <2>5 DEF Holders
    <3> QED
      BY <1>1, <1>2, <1>4, <2>5, <3>1 DEF SlotsOK, Step
  <2> QED
    BY <2>3, <2>4, <2>5
<1> QED
  BY <1>5, <1>6

LEMMA SameTasksKeep ==
  ASSUME SlotsOK, UNCHANGED <<task, slots>>
  PROVE  SlotsOK'
BY DEF SlotsOK, Holders

LEMMA Counted ==
  ASSUME RequestsAssumption, SlotsOK
  PROVE  slots \in Nat
<1>1. IsFiniteSet(Holders)
  BY FS_Subset DEF RequestsAssumption, Holders
<1> QED
  BY <1>1, FS_CardinalityType DEF SlotsOK

LEMMA Stepped ==
  ASSUME NEW r \in Tasks, NEW y, task' = [task EXCEPT ![r] = y], TaskOK(r, y), SentOnce(task[r], y),
         r \in Requests => y.kind = task[r].kind,
         \/ (y.slot = "held" <=> task[r].slot = "held") /\ slots' = slots
         \/ y.slot = "held" /\ task[r].slot # "held" /\ slots' = slots + 1
         \/ y.slot # "held" /\ task[r].slot = "held" /\ slots' = slots - 1
  PROVE  Step(r, y)
BY DEF Step

(* What its step is, if it ends or is refused: its slot is given back. *)
LEMMA Released ==
  ASSUME slots \in Nat, NEW r \in Tasks, NEW x, DOMAIN x = TaskFields, x.slot = task[r].slot,
         Release(r, x)
  PROVE  \E y : /\ task' = [task EXCEPT ![r] = y]
                /\ DOMAIN y = TaskFields /\ y.slot # "held"
                /\ \A f \in TaskFields \ {"slot"} : y[f] = x[f]
                /\ \/ task[r].slot # "held" /\ slots' = slots
                   \/ task[r].slot = "held" /\ slots' = slots - 1
<1> DEFINE y == Freed(x)
<1>1. task' = [task EXCEPT ![r] = y]
  BY DEF Release, Become
<1>2. /\ DOMAIN y = TaskFields /\ y.slot # "held"
      /\ \A f \in TaskFields \ {"slot"} : y[f] = x[f]
  BY DEF Freed, TaskFields
<1>3. \/ task[r].slot # "held" /\ slots' = slots
      \/ task[r].slot = "held" /\ slots' = slots - 1
  BY DEF Release
<1> HIDE DEF y
<1> QED
  BY <1>1, <1>2, <1>3

LEMMA Refused ==
  ASSUME RequestsAssumption, SlotsOK, NEW r \in Requests, task[r].pc \in Entrance, Refuse(r)
  PROVE  \E y : Step(r, y)
<1> DEFINE x == [task[r] EXCEPT !.pc = "over"]
<1>1. /\ r \in Tasks /\ TaskOK(r, task[r]) /\ DOMAIN task[r] = TaskFields /\ slots \in Nat
  BY Counted DEF SlotsOK, TaskOK, Tasks
<1>2. /\ DOMAIN x = TaskFields /\ x.pc = "over"
      /\ \A f \in TaskFields \ {"pc"} : x[f] = task[r][f]
  BY <1>1 DEF TaskFields
<1>3. Release(r, x) /\ x.slot = task[r].slot
  BY <1>2 DEF Refuse, TaskFields
<1> HIDE DEF x
<1>4. PICK y : /\ task' = [task EXCEPT ![r] = y]
               /\ DOMAIN y = TaskFields /\ y.slot # "held"
               /\ \A f \in TaskFields \ {"slot"} : y[f] = x[f]
               /\ \/ task[r].slot # "held" /\ slots' = slots
                  \/ task[r].slot = "held" /\ slots' = slots - 1
  BY <1>1, <1>2, <1>3, Released
<1>5. /\ y.pc = "over" /\ y.kind = task[r].kind /\ y.file = task[r].file
      /\ y.calls = task[r].calls /\ y.adopted = task[r].adopted /\ y.gone = task[r].gone
      /\ y.reason = task[r].reason
  BY <1>2, <1>4 DEF TaskFields
<1>6. TaskOK(r, y)
  BY <1>1, <1>4, <1>5 DEF TaskOK, RequestOK, Entrance, Before, After, ProxySteps
<1>7. SentOnce(task[r], y)
  BY <1>1, <1>5 DEF SentOnce, TaskOK
<1> QED
  BY <1>1, <1>4, <1>5, <1>6, <1>7, Stepped

(* How a task is replaced by one that differs in some fields. *)
Changed(r, y, fields) ==
  /\ task' = [task EXCEPT ![r] = y] /\ DOMAIN y = TaskFields
  /\ \A f \in TaskFields \ fields : y[f] = task[r][f]

Progress == {"pc", "loaded", "outcome", "file", "reason", "adopted", "calls"}

LEMMA Proceeds ==
  ASSUME SlotsOK, NEW r \in Tasks, slots' = slots, NEW y, Changed(r, y, Progress),
         y.calls \in Nat, SentOnce(task[r], y), RequestOK(task[r]) => RequestOK(y),
         ExecutionOK(task[r]) => ExecutionOK(y)
  PROVE  \E z : Step(r, z)
<1>1. TaskOK(r, task[r]) /\ y.slot = task[r].slot /\ y.kind = task[r].kind
  BY DEF SlotsOK, TaskFields, Changed, Progress
<1>2. TaskOK(r, y)
  BY <1>1 DEF TaskOK, Changed
<1> QED
  BY <1>1, <1>2, Stepped DEF Changed

LEMMA GoesTo ==
  ASSUME SlotsOK, NEW r \in Tasks, NEW pc, Goto(r, pc)
  PROVE  \E y : Changed(r, y, {"pc"}) /\ y.pc = pc
<1> DEFINE y == [task[r] EXCEPT !.pc = pc]
<1>1. DOMAIN task[r] = TaskFields
  BY DEF SlotsOK, TaskOK
<1>2. /\ y.pc = pc /\ DOMAIN y = TaskFields /\ \A f \in TaskFields \ {"pc"} : y[f] = task[r][f]
  BY <1>1 DEF TaskFields
<1>3. task' = [task EXCEPT ![r] = y]
  BY DEF Goto, Become
<1> HIDE DEF y
<1> QED
  BY <1>2, <1>3 DEF Changed

LEMMA Loads ==
  ASSUME SlotsOK, NEW r \in Tasks, NEW pc, NEW loaded,
         Become(r, [task[r] EXCEPT !.pc = pc, !.loaded = loaded])
  PROVE  \E y : Changed(r, y, {"pc", "loaded"}) /\ y.pc = pc
<1> DEFINE y == [task[r] EXCEPT !.pc = pc, !.loaded = loaded]
<1>1. DOMAIN task[r] = TaskFields
  BY DEF SlotsOK, TaskOK
<1>2. /\ y.pc = pc /\ DOMAIN y = TaskFields
      /\ \A f \in TaskFields \ {"pc", "loaded"} : y[f] = task[r][f]
  BY <1>1 DEF TaskFields
<1>3. task' = [task EXCEPT ![r] = y]
  BY DEF Become
<1> HIDE DEF y
<1> QED
  BY <1>2, <1>3 DEF Changed

LEMMA Fails ==
  ASSUME SlotsOK, NEW r \in Tasks,
         Become(r, Failed(r)) \/ Become(r, Sent(r))
           \/ \E why \in Words : Become(r, [Failed(r) EXCEPT !.reason = why])
  PROVE  \E y : /\ Changed(r, y, {"pc", "outcome", "reason"}) /\ y.pc = "clean"
                /\ y.reason = task[r].reason \/ y.reason \in Words
<1> DEFINE Goal(y) == /\ Changed(r, y, {"pc", "outcome", "reason"}) /\ y.pc = "clean"
                      /\ y.reason = task[r].reason \/ y.reason \in Words
<1>1. DOMAIN task[r] = TaskFields
  BY DEF SlotsOK, TaskOK
<1>2. ASSUME NEW o, Become(r, [task[r] EXCEPT !.pc = "clean", !.outcome = o])
      PROVE  \E y : Goal(y)
  <2> DEFINE y == [task[r] EXCEPT !.pc = "clean", !.outcome = o]
  <2>1. /\ y.pc = "clean" /\ DOMAIN y = TaskFields /\ y.reason = task[r].reason
        /\ \A f \in TaskFields \ {"pc", "outcome", "reason"} : y[f] = task[r][f]
    BY <1>1 DEF TaskFields
  <2>2. task' = [task EXCEPT ![r] = y]
    BY <1>2 DEF Become
  <2> HIDE DEF y
  <2> QED
    BY <2>1, <2>2 DEF Changed
<1>3. ASSUME NEW why \in Words, Become(r, [Failed(r) EXCEPT !.reason = why])
      PROVE  \E y : Goal(y)
  <2> DEFINE y == [Failed(r) EXCEPT !.reason = why]
  <2>1. /\ y.pc = "clean" /\ DOMAIN y = TaskFields /\ y.reason = why
        /\ \A f \in TaskFields \ {"pc", "outcome", "reason"} : y[f] = task[r][f]
    BY <1>1 DEF TaskFields, Failed
  <2>2. task' = [task EXCEPT ![r] = y]
    BY <1>3 DEF Become
  <2> HIDE DEF y
  <2> QED
    BY <2>1, <2>2 DEF Changed
<1> QED
  BY <1>2, <1>3 DEF Failed, Sent

(* Who fails, from wherever it was working. *)
LEMMA FailsKeep ==
  ASSUME RequestsAssumption, SlotsOK, NEW r \in Tasks, slots' = slots,
         task[r].pc \in Before \cup {"wait"},
         Become(r, Failed(r)) \/ Become(r, Sent(r))
           \/ \E why \in Words : Become(r, [Failed(r) EXCEPT !.reason = why])
  PROVE  \E z : Step(r, z)
<1>1. PICK y : /\ Changed(r, y, {"pc", "outcome", "reason"}) /\ y.pc = "clean"
               /\ y.reason = task[r].reason \/ y.reason \in Words
  BY Fails
<1>2. TaskOK(r, task[r]) /\ task[r].calls \in Nat
  BY DEF SlotsOK, TaskOK
<1>3. /\ y.kind = task[r].kind /\ y.slot = task[r].slot /\ y.adopted = task[r].adopted
      /\ y.gone = task[r].gone /\ y.late = task[r].late /\ y.file = task[r].file
      /\ y.calls = task[r].calls /\ Changed(r, y, Progress)
  BY <1>1 DEF Changed, TaskFields, Progress
<1>4. y.reason = None => task[r].reason = None
  BY <1>1 DEF RequestsAssumption
<1>5. RequestOK(task[r]) => RequestOK(y)
  BY <1>1, <1>3, <1>4 DEF RequestOK, Before, After, Entrance, ProxySteps
<1>6. ExecutionOK(task[r]) => ExecutionOK(y)
  BY <1>1, <1>3 DEF ExecutionOK
<1> QED
  BY <1>2, <1>3, <1>5, <1>6, Proceeds DEF SentOnce
-----------------------------------------------------------------------------
(* The way in. *)

LEMMA GuardSteps ==
  ASSUME RequestsAssumption, SlotsOK, NEW r \in Tasks,
         Guard(r) \/ ReadProduct(r) \/ StoreProduct(r) \/ CountRate(r) \/ SetExpiry(r)
  PROVE  \E y : Step(r, y)
<1> DEFINE x == task[r]
<1>1. TaskOK(r, x) /\ x.calls \in Nat /\ x.pc \in {"guard", "read", "store", "limit", "expire"}
  BY DEF SlotsOK, TaskOK, Guard, ReadProduct, StoreProduct, CountRate, SetExpiry, At
<1>2. r \in Requests /\ RequestOK(x) /\ x.pc \in Entrance
  BY <1>1 DEF TaskOK, ExecutionOK, Entrance
<1>3. CASE Refuse(r)
  BY <1>2, <1>3, Refused
<1>4. CASE ~Refuse(r)
  <2>1. /\ slots' = slots
        /\ \/ \E pc \in Entrance : Goto(r, pc)
           \/ \E loaded : Become(r, [task[r] EXCEPT !.pc = "store", !.loaded = loaded])
    BY <1>1, <1>4 DEF Guard, ReadProduct, StoreProduct, CountRate, SetExpiry, Entrance
  <2>2. PICK y : (Changed(r, y, {"pc"}) \/ Changed(r, y, {"pc", "loaded"})) /\ y.pc \in Entrance
    <3>1. "store" \in Entrance
      BY DEF Entrance
    <3> QED
      BY <2>1, <3>1, GoesTo, Loads
  <2>3. /\ y.kind = x.kind /\ y.slot = x.slot /\ y.adopted = x.adopted /\ y.gone = x.gone
        /\ y.late = x.late /\ y.file = x.file /\ y.calls = x.calls /\ y.reason = x.reason
        /\ Changed(r, y, Progress)
    BY <2>2 DEF Changed, TaskFields, Progress
  <2>4. RequestOK(y)
    BY <1>2, <2>2, <2>3 DEF RequestOK, Before, After, Entrance, ProxySteps
  <2>5. ~ExecutionOK(x) /\ y.calls \in Nat /\ SentOnce(x, y)
    BY <1>1, <2>3 DEF ExecutionOK, SentOnce
  <2>6. slots' = slots /\ Changed(r, y, Progress)
    BY <2>1, <2>3
  <2> HIDE DEF x
  <2> QED
    BY <2>4, <2>5, <2>6, Proceeds DEF x
<1> QED
  BY <1>3, <1>4

LEMMA ArriveSteps ==
  ASSUME RequestsAssumption, SlotsOK, NEW r \in Tasks, Arrive(r)
  PROVE  \E y : Step(r, y)
<1> DEFINE x == task[r]
<1>1. TaskOK(r, x) /\ x.calls \in Nat /\ x.pc = "new" /\ DOMAIN x = TaskFields
  BY DEF SlotsOK, TaskOK, Arrive, At
<1>2. r \in Requests /\ RequestOK(x) /\ ~ExecutionOK(x)
  BY <1>1 DEF TaskOK, ExecutionOK
<1>3. ASSUME NEW pc \in {"guard", "over"}, Goto(r, pc), slots' = slots,
             pc = "guard" => ~Media(r)
      PROVE  \E y : Step(r, y)
  <2>1. PICK y : Changed(r, y, {"pc"}) /\ y.pc = pc
    BY <1>3, GoesTo
  <2>2. /\ y.kind = x.kind /\ y.slot = x.slot /\ y.adopted = x.adopted /\ y.gone = x.gone
        /\ y.late = x.late /\ y.file = x.file /\ y.calls = x.calls /\ y.reason = x.reason
        /\ Changed(r, y, Progress)
    BY <2>1 DEF Changed, TaskFields, Progress
  <2>3. RequestOK(y)
    BY <1>1, <1>2, <1>3, <2>1, <2>2 DEF RequestOK, Before, After, Entrance, ProxySteps, Media
  <2> QED
    BY <1>1, <1>2, <1>3, <2>2, <2>3, Proceeds DEF SentOnce
<1>4. CASE Media(r) /\ ~(slots >= MaxConcurrent)
  <2> DEFINE y == [x EXCEPT !.pc = "guard", !.slot = "held"]
  <2>1. task' = [task EXCEPT ![r] = y] /\ slots' = slots + 1
    BY <1>4 DEF Arrive, Become
  <2>2. /\ DOMAIN y = TaskFields /\ y.pc = "guard" /\ y.slot = "held" /\ y.kind = x.kind
        /\ y.adopted = x.adopted /\ y.gone = x.gone /\ y.late = x.late /\ y.file = x.file
        /\ y.calls = x.calls /\ y.reason = x.reason
    BY <1>1 DEF TaskFields
  <2> HIDE DEF y
  <2>3. TaskOK(r, y)
    BY <1>1, <1>2, <2>2 DEF TaskOK, RequestOK, Before, After, Entrance, ProxySteps
  <2>4. x.slot # "held" /\ SentOnce(x, y)
    BY <1>1, <1>2, <2>2 DEF RequestOK, SentOnce
  <2> QED
    BY <2>1, <2>2, <2>3, <2>4, Stepped
<1> QED
  BY <1>3, <1>4 DEF Arrive

LEMMA EnterSteps ==
  ASSUME RequestsAssumption, SlotsOK, NEW r \in Tasks, Enter(r)
  PROVE  \E y : Step(r, y)
<1> DEFINE x == task[r]
<1>1. TaskOK(r, x) /\ x.calls \in Nat /\ x.pc = "enter" /\ DOMAIN x = TaskFields
  BY DEF SlotsOK, TaskOK, Enter, At
<1>2. r \in Requests /\ RequestOK(x) /\ ~ExecutionOK(x) /\ x.pc \in Entrance
  BY <1>1 DEF TaskOK, ExecutionOK, Entrance
<1>3. CASE Refuse(r)
  BY <1>2, <1>3, Refused
<1>4. CASE ~x.gone /\ Become(r, Adopted([x EXCEPT !.pc = "resolve"])) /\ UNCHANGED slots
  <2> DEFINE y == [[x EXCEPT !.pc = "resolve"] EXCEPT !.adopted = TRUE]
  <2>1. task' = [task EXCEPT ![r] = y] /\ slots' = slots
    BY <1>4 DEF Become, Adopted
  <2>2. /\ DOMAIN y = TaskFields /\ y.pc = "resolve" /\ y.adopted = TRUE
        /\ \A f \in TaskFields \ {"pc", "adopted"} : y[f] = x[f]
    BY <1>1 DEF TaskFields
  <2> HIDE DEF y
  <2>3. /\ y.kind = x.kind /\ y.slot = x.slot /\ y.gone = x.gone
        /\ y.late = x.late /\ y.file = x.file /\ y.calls = x.calls /\ Changed(r, y, Progress)
    BY <2>1, <2>2 DEF Changed, TaskFields, Progress
  <2>4. RequestOK(y)
    BY <1>1, <1>2, <1>4, <2>2, <2>3 DEF RequestOK, Before, After, Entrance, ProxySteps
  <2> QED
    BY <1>1, <1>2, <2>1, <2>3, <2>4, Proceeds DEF SentOnce
<1> QED
  BY <1>3, <1>4 DEF Enter
-----------------------------------------------------------------------------
(* To the instance, and to the provider. *)

LEMMA NoCall ==
  ASSUME NEW x, NEW y, y.calls = x.calls, x.calls \in Nat
  PROVE  SentOnce(x, y)
BY DEF SentOnce

LEMMA Moves ==
  ASSUME RequestsAssumption, SlotsOK, NEW r \in Requests, slots' = slots,
         task[r].pc \in {"resolve", "load", "keep", "row", "total"},
         NEW pc \in Before,
         Goto(r, pc) \/ \E loaded : Become(r, [task[r] EXCEPT !.pc = pc, !.loaded = loaded])
  PROVE  \E z : Step(r, z)
<1>1. r \in Tasks /\ RequestOK(task[r]) /\ task[r].calls \in Nat /\ ~ExecutionOK(task[r])
  BY DEF SlotsOK, TaskOK, ExecutionOK, Tasks
<1>2. PICK y : (Changed(r, y, {"pc"}) \/ Changed(r, y, {"pc", "loaded"})) /\ y.pc = pc
  BY <1>1, GoesTo, Loads
<1>3. /\ y.kind = task[r].kind /\ y.slot = task[r].slot /\ y.adopted = task[r].adopted
      /\ y.gone = task[r].gone /\ y.late = task[r].late /\ y.file = task[r].file
      /\ y.calls = task[r].calls /\ y.reason = task[r].reason /\ Changed(r, y, Progress)
  BY <1>2 DEF Changed, TaskFields, Progress
<1>4. RequestOK(y)
  BY <1>1, <1>2, <1>3 DEF RequestOK, Before, After, Entrance, ProxySteps
<1>5. y.calls = task[r].calls /\ y.calls \in Nat
  BY <1>1, <1>3
<1>6. SentOnce(task[r], y)
  BY <1>1, <1>5, NoCall
<1> QED
  BY <1>1, <1>3, <1>4, <1>5, <1>6, Proceeds

LEMMA StartsIn ==
  ASSUME NEW r, RequestOK(task[r]), task[r].pc \in Before
  PROVE  Start(r) \in Before
BY DEF Start, RequestOK, Before, ProxySteps

LEMMA PlaceSteps ==
  ASSUME RequestsAssumption, SlotsOK, NEW r \in Tasks,
         Resolve(r) \/ LoadInstance(r) \/ KeepInstance(r)
  PROVE  \E y : Step(r, y)
<1>1. /\ TaskOK(r, task[r]) /\ slots' = slots
      /\ task[r].pc \in {"resolve", "load", "keep"} /\ task[r].pc \in Before
  BY DEF SlotsOK, Resolve, LoadInstance, KeepInstance, At, Before
<1>2. r \in Requests /\ RequestOK(task[r])
  BY <1>1 DEF TaskOK, ExecutionOK
<1>3. CASE Become(r, Failed(r))
  BY <1>1, <1>3, FailsKeep
<1>4. CASE ~Become(r, Failed(r))
  <2>1. \E pc \in Before :
          Goto(r, pc) \/ \E loaded : Become(r, [task[r] EXCEPT !.pc = pc, !.loaded = loaded])
    <3>1. Start(r) \in Before /\ "load" \in Before /\ "keep" \in Before
      BY <1>1, <1>2, StartsIn DEF Before
    <3>2. CASE Resolve(r)
      BY <1>4, <3>1, <3>2 DEF Resolve
    <3>3. CASE LoadInstance(r)
      BY <1>4, <3>1, <3>3 DEF LoadInstance
    <3>4. CASE KeepInstance(r)
      BY <1>4, <3>1, <3>4 DEF KeepInstance, Goto
    <3> QED
      BY <3>2, <3>3, <3>4
  <2> QED
    BY <1>1, <1>2, <2>1, Moves
<1> QED
  BY <1>3, <1>4

LEMMA FileSteps ==
  ASSUME RequestsAssumption, SlotsOK, NEW r \in Tasks,
         BeginFile(r) \/ FillFile(r) \/ CleanFile(r)
  PROVE  \E y : Step(r, y)
<1> DEFINE x == task[r]
<1>1. /\ TaskOK(r, x) /\ slots' = slots /\ x.calls \in Nat /\ DOMAIN x = TaskFields
      /\ x.pc \in {"prepare", "fill", "clean"}
  BY DEF SlotsOK, TaskOK, BeginFile, FillFile, CleanFile, At
<1>2. CASE \/ Become(r, Failed(r)) /\ x.pc \in {"prepare", "fill"}
           \/ Become(r, [Failed(r) EXCEPT !.reason = "download_timeout"]) /\ x.pc = "fill"
  <2>1. x.pc \in Before
    BY <1>2 DEF Before
  <2>2. "download_timeout" \in Words
    BY DEF Words
  <2> QED
    BY <1>1, <1>2, <2>1, <2>2, FailsKeep
<1>3. ASSUME NEW y, Changed(r, y, {"pc", "file"}),
             \/ x.pc = "prepare" /\ y.pc = "fill"
             \/ x.pc = "fill" /\ y.pc = "send"
             \/ x.pc = "clean" /\ y.pc = "free" /\ y.file = FALSE
      PROVE  \E z : Step(r, z)
  <2>1. /\ y.kind = x.kind /\ y.slot = x.slot /\ y.adopted = x.adopted /\ y.gone = x.gone
        /\ y.late = x.late /\ y.calls = x.calls /\ y.reason = x.reason
        /\ Changed(r, y, Progress)
    BY <1>3 DEF Changed, TaskFields, Progress
  <2>2. RequestOK(x) => RequestOK(y)
    BY <1>1, <1>3, <2>1 DEF RequestOK, Before, After, Entrance, ProxySteps
  <2>3. ExecutionOK(x) => ExecutionOK(y)
    BY <1>1, <1>3, <2>1 DEF ExecutionOK
  <2>4. y.calls \in Nat /\ SentOnce(x, y)
    BY <1>1, <2>1 DEF SentOnce
  <2>5. slots' = slots
    BY <1>1
  <2> HIDE DEF x
  <2> QED
    BY <2>1, <2>2, <2>3, <2>4, <2>5, Proceeds DEF x
<1>4. CASE BeginFile(r) /\ ~Stopped(r)
  <2> DEFINE y == [[x EXCEPT !.pc = "fill"] EXCEPT !.file = TRUE]
  <2>1. task' = [task EXCEPT ![r] = y] /\ x.pc = "prepare"
    BY <1>4 DEF BeginFile, Become, CreateFile, At
  <2>2. /\ DOMAIN y = TaskFields /\ y.pc = "fill"
        /\ \A f \in TaskFields \ {"pc", "file"} : y[f] = x[f]
    BY <1>1 DEF TaskFields
  <2> HIDE DEF y
  <2> QED
    BY <1>3, <2>1, <2>2 DEF Changed
<1>5. CASE FillFile(r) /\ Goto(r, "send")
  <2>1. PICK y : Changed(r, y, {"pc"}) /\ y.pc = "send"
    BY <1>5, GoesTo
  <2>2. Changed(r, y, {"pc", "file"}) /\ x.pc = "fill"
    BY <1>5, <2>1 DEF Changed, FillFile, At
  <2> QED
    BY <1>3, <2>1, <2>2
<1>6. CASE CleanFile(r)
  <2> DEFINE y == [x EXCEPT !.pc = "free", !.file = FALSE]
  <2>1. task' = [task EXCEPT ![r] = y] /\ x.pc = "clean"
    BY <1>6 DEF CleanFile, Become, At
  <2>2. /\ DOMAIN y = TaskFields /\ y.pc = "free" /\ y.file = FALSE
        /\ \A f \in TaskFields \ {"pc", "file"} : y[f] = x[f]
    BY <1>1 DEF TaskFields
  <2> HIDE DEF y
  <2> QED
    BY <1>3, <2>1, <2>2 DEF Changed
<1>7. CASE BeginFile(r) /\ Stopped(r)
  BY <1>2, <1>7 DEF BeginFile, At
<1>8. CASE FillFile(r) /\ ~Goto(r, "send")
  BY <1>2, <1>8 DEF FillFile, At
<1> QED
  BY <1>4, <1>5, <1>6, <1>7, <1>8

(* A call: the first of a media message, for a client that is there. *)
LEMMA Calls ==
  ASSUME RequestsAssumption, SlotsOK, NEW r \in Tasks, slots' = slots,
         \/ At(r, "send") /\ ~Stopped(r)
         \/ At(r, "wait") /\ ~Media(r),
         NEW y, Changed(r, y, {"pc", "calls"}), y.pc = "wait", y.calls = task[r].calls + 1
  PROVE  \E z : Step(r, z)
<1> DEFINE x == task[r]
<1>1. TaskOK(r, x) /\ x.calls \in Nat /\ x.pc \in {"send", "wait"} /\ y.calls \in Nat
  BY DEF SlotsOK, TaskOK, At
<1>2. /\ y.kind = x.kind /\ y.slot = x.slot /\ y.adopted = x.adopted /\ y.gone = x.gone
      /\ y.late = x.late /\ y.file = x.file /\ y.reason = x.reason
      /\ Changed(r, y, Progress)
  BY DEF Changed, TaskFields, Progress
<1>3. IsMedia(x) => x.pc = "send" /\ x.calls = 0 /\ ~x.gone
  <2>1. CASE RequestOK(x)
    BY <1>1, <2>1 DEF RequestOK, IsMedia, Media, At, Stopped, Before, Entrance, After
  <2>2. CASE ExecutionOK(x)
    BY <1>1, <2>2 DEF ExecutionOK, IsMedia, Media, At
  <2> QED
    BY <1>1, <2>1, <2>2 DEF TaskOK
<1>4. RequestOK(x) => RequestOK(y)
  BY <1>1, <1>2, <1>3 DEF RequestOK, Before, After, Entrance, ProxySteps, IsMedia
<1>5. ExecutionOK(x) => ExecutionOK(y)
  BY <1>1, <1>2 DEF ExecutionOK
<1>6. SentOnce(x, y)
  BY <1>3 DEF SentOnce
<1> HIDE DEF x
<1> QED
  BY <1>1, <1>2, <1>4, <1>5, <1>6, Proceeds DEF x

LEMMA CallSteps ==
  ASSUME RequestsAssumption, SlotsOK, NEW r \in Tasks, Send(r) \/ Await(r)
  PROVE  \E y : Step(r, y)
<1> DEFINE x == task[r]
<1>1. /\ slots' = slots /\ x.calls \in Nat /\ DOMAIN x = TaskFields
      /\ x.pc \in {"send", "wait"} /\ x.pc \in Before \cup {"wait"}
  BY DEF SlotsOK, TaskOK, Send, Await, At, Before
<1>2. CASE \/ Become(r, Failed(r)) \/ Become(r, Sent(r))
           \/ Become(r, [Failed(r) EXCEPT !.reason = "provider_timeout"])
  <2>1. "provider_timeout" \in Words
    BY DEF Words
  <2> QED
    BY <1>1, <1>2, <2>1, FailsKeep
<1>3. CASE Send(r) /\ Become(r, StartProviderCall(x)) /\ ~Stopped(r)
  <2> DEFINE y == [x EXCEPT !.pc = "wait", !.calls = @ + 1]
  <2>1. task' = [task EXCEPT ![r] = y] /\ At(r, "send") /\ ~Stopped(r)
    BY <1>3 DEF Send, Become, StartProviderCall
  <2>2. /\ DOMAIN y = TaskFields /\ y.pc = "wait" /\ y.calls = x.calls + 1
        /\ \A f \in TaskFields \ {"pc", "calls"} : y[f] = x[f]
    BY <1>1 DEF TaskFields
  <2> HIDE DEF y
  <2> QED
    BY <1>1, <2>1, <2>2, Calls DEF Changed
<1>4. CASE Await(r) /\ Become(r, [x EXCEPT !.calls = @ + 1]) /\ ~Media(r)
  <2> DEFINE y == [x EXCEPT !.calls = @ + 1]
  <2>1. task' = [task EXCEPT ![r] = y] /\ At(r, "wait") /\ ~Media(r)
    BY <1>4 DEF Await, Become
  <2>2. /\ DOMAIN y = TaskFields /\ y.pc = "wait" /\ y.calls = x.calls + 1
        /\ \A f \in TaskFields \ {"pc", "calls"} : y[f] = x[f]
    BY <1>1, <2>1 DEF TaskFields, At
  <2> HIDE DEF y
  <2> QED
    BY <1>1, <2>1, <2>2, Calls DEF Changed
<1>5. CASE Send(r)
  BY <1>2, <1>3, <1>5 DEF Send
<1>6. CASE Await(r)
  BY <1>2, <1>4, <1>6 DEF Await, Answered, Lost, TooSlow
<1> QED
  BY <1>5, <1>6

LEMMA FreeSteps ==
  ASSUME RequestsAssumption, SlotsOK, NEW r \in Tasks, Free(r)
  PROVE  \E y : Step(r, y)
<1> DEFINE x == [task[r] EXCEPT !.pc = "over"]
<1>1. /\ r \in Requests /\ RequestOK(task[r]) /\ DOMAIN task[r] = TaskFields
      /\ slots \in Nat /\ task[r].calls \in Nat /\ task[r].pc = "free"
  BY Counted DEF SlotsOK, TaskOK, Free, At
<1>2. /\ DOMAIN x = TaskFields /\ x.pc = "over"
      /\ \A f \in TaskFields \ {"pc"} : x[f] = task[r][f]
  BY <1>1 DEF TaskFields
<1>3. Release(r, x) /\ x.slot = task[r].slot
  BY <1>2 DEF Free, TaskFields
<1> HIDE DEF x
<1>4. PICK y : /\ task' = [task EXCEPT ![r] = y]
               /\ DOMAIN y = TaskFields /\ y.slot # "held"
               /\ \A f \in TaskFields \ {"slot"} : y[f] = x[f]
               /\ \/ task[r].slot # "held" /\ slots' = slots
                  \/ task[r].slot = "held" /\ slots' = slots - 1
  BY <1>1, <1>2, <1>3, Released
<1>5. /\ y.pc = "over" /\ y.kind = task[r].kind /\ y.file = task[r].file
      /\ y.calls = task[r].calls /\ y.adopted = task[r].adopted /\ y.gone = task[r].gone
      /\ y.reason = task[r].reason
  BY <1>2, <1>4 DEF TaskFields
<1>6. TaskOK(r, y) /\ SentOnce(task[r], y)
  BY <1>1, <1>4, <1>5
     DEF TaskOK, RequestOK, Entrance, Before, After, ProxySteps, SentOnce
<1> QED
  BY <1>4, <1>5, <1>6, Stepped
-----------------------------------------------------------------------------
(* What happens around a request. *)

LEMMA LeaveSteps ==
  ASSUME RequestsAssumption, SlotsOK, NEW r \in Tasks,
         Leave(r) \/ UploadTimeout(r) \/ RequestTimeout(r)
  PROVE  \E y : Step(r, y)
<1> DEFINE x == task[r]
<1>1. /\ r \in Requests /\ RequestOK(x) /\ DOMAIN x = TaskFields
      /\ slots \in Nat /\ x.calls \in Nat /\ x.kind = "media"
      /\ x.pc \in Entrance \cup Before \cup After /\ ~x.gone
  BY Counted DEF SlotsOK, TaskOK, Leave, UploadTimeout, RequestTimeout, Underway, RequestOK, Media,
     ProxySteps
<1>2. ASSUME NEW z, DOMAIN z = TaskFields, Release(r, z), ~x.adopted, z.slot = x.slot,
             \A f \in TaskFields \ {"gone", "late"} : z[f] = x[f], z.gone \/ z.late
      PROVE  \E y : Step(r, y)
  <2>1. PICK y : /\ task' = [task EXCEPT ![r] = y]
                 /\ DOMAIN y = TaskFields /\ y.slot # "held"
                 /\ \A f \in TaskFields \ {"slot"} : y[f] = z[f]
                 /\ \/ task[r].slot # "held" /\ slots' = slots
                    \/ task[r].slot = "held" /\ slots' = slots - 1
    BY <1>1, <1>2, Released
  <2>2. /\ y.pc = x.pc /\ y.kind = x.kind /\ y.file = x.file /\ y.calls = x.calls
        /\ y.adopted = x.adopted /\ y.reason = x.reason /\ (y.gone \/ y.late)
    BY <1>2, <2>1 DEF TaskFields
  <2>3. TaskOK(r, y)
    BY <1>1, <1>2, <2>1, <2>2 DEF TaskOK, RequestOK, Entrance, Before, After, ProxySteps
  <2>4. ~(y.calls > x.calls)
    BY <1>1, <2>2
  <2>5. SentOnce(x, y)
    BY <2>4 DEF SentOnce
  <2> QED
    BY <1>1, <2>1, <2>2, <2>3, <2>5, Stepped
<1>3. ASSUME NEW y, task' = [task EXCEPT ![r] = y], slots' = slots, x.adopted,
             DOMAIN y = TaskFields,
             \A f \in TaskFields \ {"gone", "reason"} : y[f] = x[f],
             x.calls = 0 => y.reason # None
      PROVE  \E z : Step(r, z)
  <2>1. /\ y.pc = x.pc /\ y.kind = x.kind /\ y.file = x.file /\ y.calls = x.calls
        /\ y.adopted = x.adopted /\ y.slot = x.slot /\ y.late = x.late
    BY <1>3 DEF TaskFields
  <2>2. TaskOK(r, y)
    BY <1>1, <1>3, <2>1 DEF TaskOK, RequestOK, Entrance, Before, After, ProxySteps
  <2>3. ~(y.calls > x.calls)
    BY <1>1, <2>1
  <2>4. SentOnce(x, y)
    BY <2>3 DEF SentOnce
  <2> QED
    BY <1>1, <1>3, <2>1, <2>2, <2>4, Stepped
<1> DEFINE gone == [x EXCEPT !.gone = TRUE]
<1>4. /\ DOMAIN gone = TaskFields /\ gone.gone /\ gone.slot = x.slot
      /\ \A f \in TaskFields \ {"gone"} : gone[f] = x[f]
  BY <1>1 DEF TaskFields
<1>5. gone.adopted = x.adopted /\ gone.calls = x.calls
  BY <1>4 DEF TaskFields
<1>6. ASSUME NEW why \in Words
      PROVE  /\ DOMAIN Stop(gone, why) = TaskFields /\ Stop(gone, why).reason # None
             /\ \A f \in TaskFields \ {"gone", "reason"} : Stop(gone, why)[f] = x[f]
  <2> HIDE DEF gone
  <2> QED
    BY <1>4 DEF Stop, TaskFields, RequestsAssumption
<1>7. CASE Leave(r) /\ ~x.adopted
  <2>1. Release(r, gone)
    BY <1>5, <1>7 DEF Leave
  <2> HIDE DEF gone
  <2>2. \A f \in TaskFields \ {"gone", "late"} : gone[f] = x[f]
    BY <1>4
  <2> QED
    BY <1>2, <1>4, <1>7, <2>1, <2>2
<1>8. CASE Leave(r) /\ x.adopted
  <2> DEFINE y == IF x.calls = 0 THEN Stop(gone, "client_disconnected") ELSE gone
  <2>1. task' = [task EXCEPT ![r] = y] /\ slots' = slots
    BY <1>5, <1>8 DEF Leave, Become
  <2>2. "client_disconnected" \in Words
    BY DEF Words
  <2> HIDE DEF gone
  <2>3. CASE x.calls = 0
    <3>1. y = Stop(gone, "client_disconnected")
      BY <2>3
    <3> HIDE DEF y
    <3>2. y.reason # None
      BY <1>6, <2>2, <3>1
    <3>3. DOMAIN y = TaskFields /\ \A f \in TaskFields \ {"gone", "reason"} : y[f] = x[f]
      BY <1>6, <2>2, <3>1
    <3> QED
      BY <1>3, <1>8, <2>1, <3>2, <3>3
  <2>4. CASE x.calls # 0
    <3>1. y = gone
      BY <2>4
    <3> HIDE DEF y
    <3> QED
      BY <1>3, <1>4, <1>8, <2>1, <2>4, <3>1
  <2> QED
    BY <2>3, <2>4
<1>9. CASE UploadTimeout(r)
  <2> DEFINE z == [x EXCEPT !.late = TRUE]
  <2>1. /\ DOMAIN z = TaskFields /\ z.late /\ z.slot = x.slot
        /\ \A f \in TaskFields \ {"gone", "late"} : z[f] = x[f]
    BY <1>1 DEF TaskFields
  <2>2. Release(r, z) /\ ~x.adopted
    BY <1>9 DEF UploadTimeout
  <2> HIDE DEF z
  <2> QED
    BY <1>2, <2>1, <2>2
<1>10. CASE RequestTimeout(r)
  <2> DEFINE y == Stop(gone, "request_timeout")
  <2>1. task' = [task EXCEPT ![r] = y] /\ slots' = slots /\ x.adopted
    BY <1>10 DEF RequestTimeout, Become
  <2>2. "request_timeout" \in Words
    BY DEF Words
  <2> HIDE DEF gone
  <2>3. y.reason # None
    BY <1>6, <2>2
  <2>4. DOMAIN y = TaskFields /\ \A f \in TaskFields \ {"gone", "reason"} : y[f] = x[f]
    BY <1>6, <2>2
  <2> HIDE DEF y
  <2> QED
    BY <1>3, <2>1, <2>3, <2>4
<1> QED
  BY <1>7, <1>8, <1>9, <1>10

LEMMA WorkSteps ==
  ASSUME RequestsAssumption, SlotsOK, NEW r \in Tasks, Work(r)
  PROVE  \E y : Step(r, y)
<1>1. CASE Arrive(r) \/ Enter(r)
  BY <1>1, ArriveSteps, EnterSteps
<1>2. CASE Guard(r) \/ ReadProduct(r) \/ StoreProduct(r) \/ CountRate(r) \/ SetExpiry(r)
  BY <1>2, GuardSteps
<1>3. CASE Resolve(r) \/ LoadInstance(r) \/ KeepInstance(r)
  BY <1>3, PlaceSteps
<1>4. CASE BeginFile(r) \/ FillFile(r) \/ CleanFile(r)
  BY <1>4, FileSteps
<1>5. CASE Send(r) \/ Await(r)
  BY <1>5, CallSteps
<1>6. CASE Free(r)
  BY <1>6, FreeSteps
<1>7. CASE Leave(r) \/ UploadTimeout(r) \/ RequestTimeout(r)
  BY <1>7, LeaveSteps
<1> QED
  BY <1>1, <1>2, <1>3, <1>4, <1>5, <1>6, <1>7 DEF Work

(* A request at work is no creation at its end. *)
LEMMA WorkIsNoProxy ==
  ASSUME SlotsOK, NEW r \in Requests, Work(r) \/ Prepare(r)
  PROVE  task[r].kind # "proxy"
<1>1. RequestOK(task[r])
  BY DEF SlotsOK, TaskOK, Tasks
<1>2. CASE Leave(r) \/ UploadTimeout(r) \/ RequestTimeout(r)
  BY <1>2 DEF Leave, UploadTimeout, RequestTimeout, Underway, Media
<1>3. CASE ~(Leave(r) \/ UploadTimeout(r) \/ RequestTimeout(r))
  <2>1. task[r].pc \notin ProxySteps \cup {"over"}
    BY <1>3 DEF Work, Prepare, Arrive, Guard, ReadProduct, StoreProduct, CountRate, SetExpiry,
       Enter, Resolve, LoadInstance, KeepInstance, BeginFile, FillFile, Send, Await, CleanFile,
       Free, CreateRow, SetTotal, AddJobs, NotQueued, At, ProxySteps
  <2> QED
    BY <1>1, <2>1 DEF RequestOK
<1> QED
  BY <1>2, <1>3
-----------------------------------------------------------------------------
(* A batch is made, and its messages are executed. *)

LEMMA PrepareSteps ==
  ASSUME RequestsAssumption, SlotsOK, NEW r \in Requests, Prepare(r)
  PROVE  \E y : Step(r, y)
<1>1. /\ TaskOK(r, task[r]) /\ slots' = slots /\ r \in Tasks
      /\ task[r].pc \in {"row", "total", "queue"}
  BY DEF SlotsOK, Prepare, CreateRow, SetTotal, AddJobs, NotQueued, At, idle, elsewhere, Tasks
<1>2. CASE CreateRow(r)
  <2>1. Goto(r, "total") /\ "total" \in Before /\ task[r].pc = "row"
    BY <1>2 DEF CreateRow, Before, At
  <2> QED
    BY <1>1, <2>1, Moves
<1>3. CASE SetTotal(r)
  <2>1. Goto(r, "queue") /\ "queue" \in Before /\ task[r].pc = "total"
    BY <1>3 DEF SetTotal, Before, At
  <2> QED
    BY <1>1, <2>1, Moves
<1>4. CASE AddJobs(r) \/ NotQueued(r)
  <2>1. (Become(r, Sent(r)) \/ Become(r, Failed(r))) /\ task[r].pc \in Before
    BY <1>1, <1>4 DEF AddJobs, NotQueued, Before
  <2> QED
    BY <1>1, <2>1, FailsKeep
<1> QED
  BY <1>2, <1>3, <1>4 DEF Prepare

LEMMA Restarts ==
  ASSUME RequestsAssumption, SlotsOK, NEW x \in Executions, slots' = slots, NEW y,
         task' = [task EXCEPT ![x] = y], DOMAIN y = TaskFields, y.calls = 0, y.slot = None,
         y.gone = FALSE, y.kind \in {"job", "mediaJob"}, y.pc \in {"prepare", "send", "over"}
  PROVE  \E z : Step(x, z)
<1>1. x \in Tasks /\ x \notin Requests /\ TaskOK(x, task[x])
  BY DEF SlotsOK, Tasks, RequestsAssumption
<1>2. y.slot # "held" /\ task[x].slot # "held" /\ task[x].calls \in Nat
  BY <1>1 DEF RequestsAssumption, Words, TaskOK, ExecutionOK
<1>3. TaskOK(x, y)
  BY <1>1, <1>2 DEF TaskOK, ExecutionOK
<1>4. ~(y.calls > task[x].calls)
  BY <1>2
<1>5. SentOnce(task[x], y)
  BY <1>4 DEF SentOnce
<1> QED
  BY <1>1, <1>2, <1>3, <1>5, Stepped

LEMMA Continues ==
  ASSUME RequestsAssumption, SlotsOK, NEW x \in Executions, slots' = slots,
         NEW y, Changed(x, y, {"pc", "loaded", "outcome"}),
         y.pc \in {"free", "tell", "tally", "save"}
  PROVE  \E z : Step(x, z)
<1>1. x \in Tasks /\ x \notin Requests /\ TaskOK(x, task[x])
  BY DEF SlotsOK, Tasks, RequestsAssumption
<1>2. /\ y.kind = task[x].kind /\ y.slot = task[x].slot /\ y.gone = task[x].gone
      /\ y.calls = task[x].calls /\ task[x].calls \in Nat
  BY <1>1 DEF Changed, TaskFields, TaskOK
<1>3. TaskOK(x, y)
  BY <1>1, <1>2 DEF TaskOK, ExecutionOK, Changed
<1>4. ~(y.calls > task[x].calls)
  BY <1>2
<1>5. SentOnce(task[x], y) /\ task' = [task EXCEPT ![x] = y]
  BY <1>4 DEF SentOnce, Changed
<1> QED
  BY <1>1, <1>2, <1>3, <1>5, Stepped

LEMMA ExecuteSteps ==
  ASSUME RequestsAssumption, SlotsOK, NEW x \in Executions, Execute(x)
  PROVE  \E y : Step(x, y)
<1>1. x \in Tasks /\ DOMAIN task[x] = TaskFields
  BY DEF SlotsOK, TaskOK, Tasks
<1>2. slots' = slots
  BY DEF Execute, Take, CountOutcome, CountDone, FinishFails, ReadSent, SaveBatch, Crash, idle,
     elsewhere
<1>3. CASE Become(x, Idle)
  <2>1. /\ DOMAIN Idle = TaskFields /\ Idle.calls = 0 /\ Idle.slot = None /\ Idle.gone = FALSE
        /\ Idle.kind = "job" /\ Idle.pc = "over"
    BY DEF Idle, NewTask, TaskFields
  <2>2. task' = [task EXCEPT ![x] = Idle]
    BY <1>3 DEF Become
  <2> QED
    BY <1>2, <2>1, <2>2, Restarts
<1>4. ASSUME NEW m \in Messages, Take(x, m)
      PROVE  \E y : Step(x, y)
  <2> DEFINE k == IF m \in MediaMessages THEN "mediaJob" ELSE "job"
             pc == IF m \in MediaMessages THEN "prepare" ELSE "send"
             y == [NewTask(k, None, pc) EXCEPT !.message = m]
  <2>1. task' = [task EXCEPT ![x] = y]
    BY <1>4 DEF Take, Become
  <2>2. k \in {"job", "mediaJob"} /\ pc \in {"prepare", "send"}
    OBVIOUS
  <2> HIDE DEF k, pc
  <2>3. /\ DOMAIN y = TaskFields /\ y.calls = 0 /\ y.slot = None /\ y.gone = FALSE
        /\ y.kind = k /\ y.pc = pc
    BY DEF NewTask, TaskFields
  <2> HIDE DEF y
  <2> QED
    BY <1>2, <2>1, <2>2, <2>3, Restarts
<1>5. ASSUME NEW pc \in {"free", "tell", "tally", "save"}, Goto(x, pc)
      PROVE  \E y : Step(x, y)
  <2>1. PICK y : Changed(x, y, {"pc"}) /\ y.pc = pc
    BY <1>1, <1>5, GoesTo
  <2>2. Changed(x, y, {"pc", "loaded", "outcome"})
    BY <2>1 DEF Changed
  <2> QED
    BY <1>2, <2>1, <2>2, Continues
<1>6. CASE CountOutcome(x) /\ Become(x, [task[x] EXCEPT !.outcome = "failed"])
  <2> DEFINE y == [task[x] EXCEPT !.outcome = "failed"]
  <2>1. task' = [task EXCEPT ![x] = y] /\ task[x].pc = "free"
    BY <1>6 DEF CountOutcome, Become, At
  <2>2. /\ DOMAIN y = TaskFields /\ y.pc = "free"
        /\ \A f \in TaskFields \ {"outcome"} : y[f] = task[x][f]
    BY <1>1, <2>1 DEF TaskFields
  <2> HIDE DEF y
  <2> QED
    BY <1>2, <2>1, <2>2, Continues DEF Changed
<1>7. CASE ReadSent(x)
  <2>1. Become(x, [task[x] EXCEPT !.pc = "save", !.loaded = tally.sent])
    BY <1>7 DEF ReadSent
  <2>2. PICK y : Changed(x, y, {"pc", "loaded"}) /\ y.pc = "save"
    BY <1>1, <2>1, Loads
  <2>3. Changed(x, y, {"pc", "loaded", "outcome"})
    BY <2>2 DEF Changed
  <2> QED
    BY <1>2, <2>2, <2>3, Continues
<1>8. CASE CountOutcome(x)
  BY <1>5, <1>6, <1>8 DEF CountOutcome
<1>9. CASE CountDone(x)
  BY <1>3, <1>5, <1>9 DEF CountDone, Ends
<1> QED
  BY <1>3, <1>4, <1>7, <1>8, <1>9 DEF Execute, FinishFails, SaveBatch, Crash, Ends
-----------------------------------------------------------------------------
(* The end of a creation. *)

(* What a step of it may do: the second and third part are those of ProxyConfirmedIsHeld. *)
ProxyStep(r, y) ==
  /\ Step(r, y) /\ ProxyOK(y)
  /\ y.calls > task[r].calls => ~Stopped(r) /\ budget /\ task[r].calls <= Reads
  /\ y.outcome = "confirmed" => proxy.held /\ ~Stopped(r) /\ budget

LEMMA ProxyMoves ==
  ASSUME RequestsAssumption, SlotsOK, NEW r \in Requests, task[r].kind = "proxy",
         task[r].pc # "over", slots' = slots,
         NEW y, Changed(r, y, {"pc", "outcome", "loaded", "calls", "reason"}),
         y.pc \in ProxySteps \cup {"over"}, y.calls \in Nat
  PROVE  Step(r, y)
<1>1. /\ r \in Tasks /\ RequestOK(task[r]) /\ task[r].pc \in ProxySteps
  BY DEF SlotsOK, TaskOK, Tasks, RequestOK
<1>2. /\ y.kind = task[r].kind /\ y.slot = task[r].slot /\ y.file = task[r].file
  BY DEF Changed, TaskFields
<1>3. TaskOK(r, y)
  BY <1>1, <1>2 DEF TaskOK, Changed, RequestOK, Before, After, Entrance, ProxySteps
<1>4. SentOnce(task[r], y)
  BY DEF SentOnce, IsMedia
<1> QED
  BY <1>1, <1>2, <1>3, <1>4, Stepped DEF Changed

LEMMA ProxyActions ==
  ASSUME RequestsAssumption, RequestInv, NEW r \in Requests, ApplyDefaultProxy(r), ~BudgetEnds(r)
  PROVE  \E y : ProxyStep(r, y)
<1> DEFINE x == task[r]
<1>1. /\ DOMAIN x = TaskFields /\ x.calls \in Nat /\ RequestOK(x) /\ ProxyOK(x) /\ SlotsOK
      /\ r \in Tasks
  BY DEF RequestInv, SlotsOK, ProxiesOK, TaskOK, Tasks
<1>2. x.kind = "proxy" /\ x.pc \in ProxySteps /\ slots' = slots
  BY <1>1 DEF ApplyDefaultProxy, SetProxy, AwaitSet, CheckProxy, AwaitCheck, CompareProxy,
     Interrupt, At, Optional, elsewhere, RequestOK, ProxySteps
<1>3. x.pc # "over" /\ x.outcome = None /\ None # "confirmed" /\ None # "sent"
  BY <1>1, <1>2 DEF ProxySteps, ProxyOK, RequestsAssumption, Words
<1>4. ASSUME NEW o \in {"confirmed", "unconfirmed"}, Reply(r, o),
             o = "confirmed" => proxy.held /\ ~Stopped(r) /\ budget
      PROVE  \E y : ProxyStep(r, y)
  <2> DEFINE y == [x EXCEPT !.pc = "over", !.outcome = o]
  <2>1. task' = [task EXCEPT ![r] = y]
    BY <1>4 DEF Reply, Become
  <2>2. /\ DOMAIN y = TaskFields /\ y.pc = "over" /\ y.outcome = o /\ y.kind = x.kind
        /\ y.calls = x.calls
        /\ \A f \in TaskFields \ {"pc", "outcome"} : y[f] = x[f]
    BY <1>1 DEF TaskFields
  <2> HIDE DEF y
  <2>3. Changed(r, y, {"pc", "outcome", "loaded", "calls", "reason"})
    BY <2>1, <2>2 DEF Changed
  <2>4. Step(r, y)
    BY <1>1, <1>2, <1>3, <2>2, <2>3, ProxyMoves
  <2>5. ProxyOK(y) /\ ~(y.calls > x.calls)
    BY <1>1, <2>2 DEF ProxyOK
  <2> QED
    BY <1>4, <2>2, <2>4, <2>5 DEF ProxyStep
<1>5. ASSUME NEW pc \in {"setting", "checking"}, Called(r, pc), MayCall(r),
             pc = "setting" => x.pc = "set", pc = "checking" => x.pc = "check"
      PROVE  \E y : ProxyStep(r, y)
  <2> DEFINE y == [x EXCEPT !.pc = pc, !.calls = @ + 1]
  <2>1. task' = [task EXCEPT ![r] = y]
    BY <1>5 DEF Called, Become
  <2>2. /\ DOMAIN y = TaskFields /\ y.pc = pc /\ y.outcome = x.outcome /\ y.kind = x.kind
        /\ y.calls = x.calls + 1
        /\ \A f \in TaskFields \ {"pc", "calls"} : y[f] = x[f]
    BY <1>1 DEF TaskFields
  <2> HIDE DEF y
  <2>3. Changed(r, y, {"pc", "outcome", "loaded", "calls", "reason"})
    BY <2>1, <2>2 DEF Changed
  <2>4. Step(r, y)
    BY <1>1, <1>2, <1>3, <1>5, <2>2, <2>3, ProxyMoves DEF ProxySteps
  <2>5. ProxyOK(y) /\ x.calls <= Reads
    BY <1>1, <1>2, <1>3, <1>5, <2>2 DEF ProxyOK, Reads
  <2> QED
    BY <1>3, <1>5, <2>2, <2>4, <2>5 DEF ProxyStep, MayCall
<1>6. ASSUME Goto(r, "check"), x.calls \in 1 .. Reads
      PROVE  \E y : ProxyStep(r, y)
  <2> DEFINE y == [x EXCEPT !.pc = "check"]
  <2>1. task' = [task EXCEPT ![r] = y]
    BY <1>6 DEF Goto, Become
  <2>2. /\ DOMAIN y = TaskFields /\ y.pc = "check" /\ y.outcome = x.outcome /\ y.kind = x.kind
        /\ y.calls = x.calls
        /\ \A f \in TaskFields \ {"pc"} : y[f] = x[f]
    BY <1>1 DEF TaskFields
  <2> HIDE DEF y
  <2>3. Changed(r, y, {"pc", "outcome", "loaded", "calls", "reason"})
    BY <2>1, <2>2 DEF Changed
  <2>4. Step(r, y)
    BY <1>1, <1>2, <1>3, <2>2, <2>3, ProxyMoves DEF ProxySteps
  <2>5. ProxyOK(y) /\ ~(y.calls > x.calls)
    BY <1>1, <1>2, <1>3, <1>6, <2>2 DEF ProxyOK
  <2> QED
    BY <1>3, <2>2, <2>4, <2>5 DEF ProxyStep
<1>7. ASSUME Become(r, [x EXCEPT !.pc = "checked", !.loaded = proxy.value]), x.pc = "checking"
      PROVE  \E y : ProxyStep(r, y)
  <2> DEFINE y == [x EXCEPT !.pc = "checked", !.loaded = proxy.value]
  <2>1. task' = [task EXCEPT ![r] = y]
    BY <1>7 DEF Become
  <2>2. /\ DOMAIN y = TaskFields /\ y.pc = "checked" /\ y.outcome = x.outcome /\ y.kind = x.kind
        /\ y.calls = x.calls /\ y.loaded = proxy.value
        /\ \A f \in TaskFields \ {"pc", "loaded"} : y[f] = x[f]
    BY <1>1 DEF TaskFields
  <2> HIDE DEF y
  <2>3. Changed(r, y, {"pc", "outcome", "loaded", "calls", "reason"})
    BY <2>1, <2>2 DEF Changed
  <2>4. Step(r, y)
    BY <1>1, <1>2, <1>3, <2>2, <2>3, ProxyMoves DEF ProxySteps
  <2>5. proxy.value = "sent" => proxy.held
    BY DEF RequestInv, ProxiesOK
  <2>6. ProxyOK(y) /\ ~(y.calls > x.calls)
    BY <1>1, <1>2, <1>3, <1>7, <2>2, <2>5 DEF ProxyOK
  <2> QED
    BY <1>3, <2>2, <2>4, <2>6 DEF ProxyStep
<1>8. ASSUME Interrupt(r)
      PROVE  \E y : ProxyStep(r, y)
  <2> DEFINE y == Stop(x, "request_timeout")
  <2>1. task' = [task EXCEPT ![r] = y]
    BY <1>8 DEF Interrupt, Become
  <2>2. /\ DOMAIN y = TaskFields /\ y.pc = x.pc /\ y.outcome = x.outcome /\ y.kind = x.kind
        /\ y.calls = x.calls /\ y.loaded = x.loaded
        /\ \A f \in TaskFields \ {"reason"} : y[f] = x[f]
    BY <1>1 DEF TaskFields, Stop
  <2> HIDE DEF y
  <2>3. Changed(r, y, {"pc", "outcome", "loaded", "calls", "reason"})
    BY <2>1, <2>2 DEF Changed
  <2>4. Step(r, y)
    BY <1>1, <1>2, <1>3, <2>2, <2>3, ProxyMoves DEF ProxySteps
  <2>5. ProxyOK(y) /\ ~(y.calls > x.calls)
    BY <1>1, <1>2, <2>2 DEF ProxyOK
  <2> QED
    BY <1>3, <2>2, <2>4, <2>5 DEF ProxyStep
<1>9. ASSUME Again(r), x.calls >= 1
      PROVE  \E y : ProxyStep(r, y)
  BY <1>1, <1>4, <1>6, <1>9 DEF Again, Reads
<1>10. CASE SetProxy(r)
  <2>1. IF MayCall(r) THEN Called(r, "setting") ELSE Reply(r, "unconfirmed")
    BY <1>10 DEF SetProxy
  <2>2. x.pc = "set"
    BY <1>10 DEF SetProxy, At
  <2>3. CASE MayCall(r)
    <3>1. Called(r, "setting")
      BY <2>1, <2>3
    <3> QED
      BY <1>5, <2>2, <2>3, <3>1
  <2>4. CASE ~MayCall(r)
    BY <1>4, <2>1, <2>4
  <2> QED
    BY <2>3, <2>4
<1>11. CASE AwaitSet(r)
  <2>1. x.calls \in 1 .. Reads
    BY <1>1, <1>2, <1>11 DEF AwaitSet, At, ProxyOK, Reads
  <2> QED
    BY <1>4, <1>6, <1>11, <2>1 DEF AwaitSet
<1>12. CASE CheckProxy(r)
  BY <1>4, <1>5, <1>12 DEF CheckProxy, At
<1>13. CASE AwaitCheck(r)
  <2>1. x.calls >= 1 /\ x.pc = "checking"
    BY <1>1, <1>2, <1>13 DEF AwaitCheck, At, ProxyOK
  <2> QED
    BY <1>4, <1>7, <1>9, <1>13, <2>1 DEF AwaitCheck
<1>14. CASE CompareProxy(r)
  <2>1. x.calls >= 1 /\ (x.loaded = "sent" => proxy.held)
    BY <1>1, <1>2, <1>14 DEF CompareProxy, At, ProxyOK
  <2> QED
    BY <1>4, <1>9, <1>14, <2>1 DEF CompareProxy
<1> QED
  BY <1>8, <1>10, <1>11, <1>12, <1>13, <1>14 DEF ApplyDefaultProxy
-----------------------------------------------------------------------------
(* Every step. *)

MediaSent ==
  \A r \in Tasks : Media(r) /\ task'[r].calls > task[r].calls => task[r].calls = 0 /\ ~task[r].gone

ProxyConfirmed ==
  \A r \in Requests :
    Optional(r) /\ task'[r] # task[r] =>
      /\ breaker' = breaker /\ slots' = slots
      /\ task'[r].calls > task[r].calls => ~Stopped(r) /\ budget /\ task[r].calls <= Reads
      /\ task'[r].outcome = "confirmed" => proxy.held /\ ~Stopped(r) /\ budget

Kept == RequestInv' /\ MediaSent /\ ProxyConfirmed

LEMMA StepSends ==
  ASSUME SlotsOK, NEW r \in Tasks, NEW y, Step(r, y)
  PROVE  MediaSent
<1>1. task'[r] = y /\ \A o \in Tasks \ {r} : task'[o] = task[o]
  BY DEF SlotsOK, Step
<1>2. \A o \in Tasks : task[o].calls \in Nat
  BY DEF SlotsOK, TaskOK
<1>3. Media(r) /\ y.calls > task[r].calls => task[r].calls = 0 /\ ~task[r].gone
  BY DEF Step, SentOnce, Media, IsMedia
<1> QED
  BY <1>1, <1>2, <1>3 DEF MediaSent

LEMMA OtherSteps ==
  ASSUME RequestsAssumption, RequestInv, NEW r \in Tasks, NEW y, Step(r, y),
         r \in Requests => task[r].kind # "proxy", UNCHANGED proxyVars
  PROVE  Kept
<1>1. SlotsOK' /\ MediaSent
  BY StepKeeps, StepSends DEF RequestInv
<1>2. task'[r] = y /\ \A o \in Tasks \ {r} : task'[o] = task[o]
  BY DEF SlotsOK, RequestInv, Step
<1>3. ASSUME NEW o \in Requests
      PROVE  (Optional(o) => task'[o] = task[o]) /\ ProxyOK(task[o])'
  <2>1. proxy' = proxy /\ ProxyOK(task[o]) /\ o \in Tasks
    BY DEF proxyVars, RequestInv, ProxiesOK, Tasks
  <2>2. CASE o = r
    BY <1>2, <2>2 DEF Step, Optional, ProxyOK
  <2>3. CASE o # r
    BY <1>2, <2>1, <2>3 DEF ProxyOK
  <2> QED
    BY <2>2, <2>3
<1>4. ProxiesOK' /\ ProxyConfirmed
  BY <1>3 DEF ProxiesOK, ProxyConfirmed, RequestInv, proxyVars
<1> QED
  BY <1>1, <1>4 DEF Kept, RequestInv

LEMMA ProxyKeeps ==
  ASSUME RequestsAssumption, RequestInv, NEW r \in Requests, NEW y, ProxyStep(r, y),
         proxy'.value = proxy.value, proxy'.held = proxy.held, DOMAIN proxy' = DOMAIN proxy,
         UNCHANGED elsewhere
  PROVE  Kept
<1>1. r \in Tasks /\ SlotsOK' /\ MediaSent
  BY StepKeeps, StepSends DEF RequestInv, ProxyStep, Tasks
<1>2. task'[r] = y /\ \A o \in Tasks \ {r} : task'[o] = task[o]
  BY <1>1 DEF SlotsOK, RequestInv, Step, ProxyStep
<1>3. ASSUME NEW o \in Requests
      PROVE  ProxyOK(task[o])'
  <2>1. ProxyOK(task[o]) /\ ProxyOK(y) /\ o \in Tasks
    BY DEF RequestInv, ProxiesOK, Tasks, ProxyStep
  <2> QED
    BY <1>2, <2>1 DEF ProxyOK
<1>4. ProxiesOK'
  BY <1>3 DEF ProxiesOK, RequestInv
<1>5. ProxyConfirmed
  BY <1>2 DEF ProxyConfirmed, ProxyStep, elsewhere, Tasks
<1> QED
  BY <1>1, <1>4, <1>5 DEF Kept, RequestInv

LEMMA NoTaskKeeps ==
  ASSUME RequestsAssumption, RequestInv, UNCHANGED <<task, slots>>,
         DOMAIN proxy' = DOMAIN proxy, proxy.held => proxy'.held,
         proxy'.value = "sent" => proxy'.held
  PROVE  Kept
<1>1. SlotsOK' /\ \A r \in Tasks : task[r].calls \in Nat
  BY SameTasksKeep DEF RequestInv, SlotsOK, TaskOK
<1>2. ProxiesOK'
  BY DEF RequestInv, ProxiesOK, ProxyOK
<1>3. MediaSent /\ ProxyConfirmed
  BY <1>1 DEF MediaSent, ProxyConfirmed
<1> QED
  BY <1>1, <1>2, <1>3 DEF Kept, RequestInv

LEMMA NextKeeps ==
  ASSUME RequestsAssumption, RequestInv, [Next]_vars
  PROVE  Kept
<1>1. SlotsOK /\ DOMAIN proxy = {"value", "pending", "held"} /\ (proxy.value = "sent" => proxy.held)
  BY DEF RequestInv, ProxiesOK
<1>2. ASSUME NEW r \in Tasks, Work(r), UNCHANGED proxyVars
      PROVE  Kept
  <2>1. r \in Requests => task[r].kind # "proxy"
    BY <1>1, <1>2, WorkIsNoProxy
  <2>2. PICK y : Step(r, y)
    BY <1>1, <1>2, WorkSteps
  <2> QED
    BY <1>2, <2>1, <2>2, OtherSteps
<1>3. ASSUME NEW r \in Requests, Prepare(r)
      PROVE  Kept
  <2>1. task[r].kind # "proxy" /\ r \in Tasks
    BY <1>1, <1>3, WorkIsNoProxy DEF Tasks
  <2>2. PICK y : Step(r, y)
    BY <1>1, <1>3, PrepareSteps
  <2>3. UNCHANGED proxyVars
    BY <1>3 DEF Prepare, CreateRow, SetTotal, AddJobs, NotQueued, idle
  <2> QED
    BY <2>1, <2>2, <2>3, OtherSteps
<1>4. ASSUME NEW x \in Executions, Execute(x)
      PROVE  Kept
  <2>1. x \in Tasks /\ x \notin Requests
    BY DEF Tasks, RequestsAssumption
  <2>2. PICK y : Step(x, y)
    BY <1>1, <1>4, ExecuteSteps
  <2>3. UNCHANGED proxyVars
    BY <1>4 DEF Execute, Take, CountOutcome, CountDone, FinishFails, ReadSent, SaveBatch, Crash,
       idle
  <2> QED
    BY <2>1, <2>2, <2>3, OtherSteps
<1>5. ASSUME NEW r \in Requests, ApplyDefaultProxy(r)
      PROVE  Kept
  <2>1. CASE BudgetEnds(r)
    <3>1. UNCHANGED <<task, slots, proxy>>
      BY <2>1 DEF BudgetEnds, elsewhere
    <3> QED
      BY <1>1, <3>1, NoTaskKeeps
  <2>2. CASE ~BudgetEnds(r)
    <3>1. PICK y : ProxyStep(r, y)
      BY <1>5, <2>2, ProxyActions
    <3>2. UNCHANGED elsewhere /\ (proxy' = proxy \/ proxy' = [proxy EXCEPT !.pending = TRUE])
      BY <1>5, <2>2 DEF ApplyDefaultProxy, SetProxy, AwaitSet, CheckProxy, AwaitCheck, CompareProxy,
         Interrupt, proxyVars
    <3>3. /\ proxy'.value = proxy.value /\ proxy'.held = proxy.held
          /\ DOMAIN proxy' = DOMAIN proxy
      BY <1>1, <3>2
    <3> QED
      BY <3>1, <3>2, <3>3, ProxyKeeps
  <2> QED
    BY <2>1, <2>2
<1>6. CASE TakesEffect \/ OperatorSets
  <2>1. UNCHANGED <<task, slots>>
    BY <1>6 DEF TakesEffect, OperatorSets, elsewhere
  <2>2. /\ DOMAIN proxy' = DOMAIN proxy /\ (proxy.held => proxy'.held)
        /\ (proxy'.value = "sent" => proxy'.held)
    BY <1>1, <1>6 DEF TakesEffect, OperatorSets
  <2> QED
    BY <2>1, <2>2, NoTaskKeeps
<1>7. CASE \/ \E m \in Messages : Stall(m)
           \/ DeleteBatch \/ ForgetTotal
           \/ (Administer \/ Pass) /\ UNCHANGED <<proxyVars, batchVars>>
           \/ UNCHANGED vars
  <2>1. UNCHANGED <<task, slots, proxy>>
    BY <1>7 DEF Stall, DeleteBatch, ForgetTotal, idle, elsewhere, Administer, Deactivate, RotateKey,
       MoveProvider, RemoveInstance, Logout, FinishEdit, Pass, ExpireAuth, ExpirePlace, ExpireRate,
       Rest, vars, requestVars, proxyVars
  <2> QED
    BY <1>1, <2>1, NoTaskKeeps
<1> QED
  BY <1>2, <1>3, <1>4, <1>5, <1>6, <1>7 DEF Next

LEMMA StartsKept ==
  ASSUME RequestsAssumption, BatchesAssumption, Init
  PROVE  RequestInv
<1>1. PICK w \in Workloads : StartRequests(w) /\ StartProxy
  BY DEF Init
<1>2. None # "held" /\ None # "sent"
  BY DEF RequestsAssumption, Words
<1>3. ASSUME NEW r \in Tasks
      PROVE  TaskOK(r, task[r]) /\ task[r].slot # "held" /\ ProxyOK(task[r])
  <2>1. \/ task[r] = Idle
        \/ r \in Requests /\ \E k \in {"text", "media", "batch", "proxy"} : \E key :
             task[r] = NewTask(k, key, IF k = "proxy" THEN "set" ELSE "new")
    <3>1. w.kind \in [Requests -> {"text", "media", "batch", "proxy", None}]
      BY DEF BatchesAssumption
    <3>2. task[r] = IF r \in Executions \/ w.kind[r] = None THEN Idle
                    ELSE NewTask(w.kind[r], product.key,
                                 IF w.kind[r] = "proxy" THEN "set" ELSE "new")
      BY <1>1 DEF StartRequests
    <3> QED
      BY <3>1, <3>2 DEF Tasks
  <2>2. CASE task[r] = Idle
    BY <1>2, <2>2 DEF Idle, NewTask, TaskOK, RequestOK, ExecutionOK, ProxyOK, TaskFields, Entrance,
       Before, After, ProxySteps
  <2>3. ASSUME r \in Requests, NEW k \in {"text", "media", "batch", "proxy"}, NEW key,
               task[r] = NewTask(k, key, IF k = "proxy" THEN "set" ELSE "new")
        PROVE  TaskOK(r, task[r]) /\ task[r].slot # "held" /\ ProxyOK(task[r])
    BY <1>2, <2>3 DEF NewTask, TaskOK, RequestOK, ProxyOK, TaskFields, Entrance, Before, After,
       ProxySteps
  <2> QED
    BY <2>1, <2>2, <2>3
<1>4. Holders = {} /\ slots = 0
  BY <1>1, <1>3 DEF Holders, Tasks, StartRequests
<1>5. slots = Cardinality(Holders)
  BY <1>4, FS_EmptySet
<1>6. DOMAIN task = Tasks
  BY <1>1 DEF StartRequests
<1>7. ProxiesOK
  BY <1>1, <1>2, <1>3 DEF ProxiesOK, StartProxy, Tasks
<1> QED
  BY <1>3, <1>5, <1>6, <1>7 DEF RequestInv, SlotsOK
-----------------------------------------------------------------------------
(* Every task is where its slot, its calls and its reason to stop say it is, and the slots taken *)
(* are those of the tasks that hold one (media-http-admission.ts 52-105, evolution.media.ts).     *)
THEOREM RequestsTracked == Spec => []RequestInv
<1>1. Init => RequestInv
  BY RequestsAssumption, BatchesAssumption, StartsKept
<1>2. RequestInv /\ [Next]_vars => RequestInv'
  BY RequestsAssumption, NextKeeps DEF Kept
<1> QED
  BY <1>1, <1>2, PTL DEF Spec

(* Every media request being worked on holds a slot of its own, whatever ends first: its client, *)
(* its upload, its deadline or its work (media-http-admission.ts 55).                            *)
THEOREM WorkWithinSlots == Spec => []WorkHasSlot
<1>1. RequestInv => WorkHasSlot
  <2> SUFFICES ASSUME RequestInv PROVE WorkHasSlot
    OBVIOUS
  <2>1. slots = Cardinality({r \in Requests : task[r].slot = "held"})
    BY DEF RequestInv, SlotsOK, Holders
  <2>2. ASSUME NEW r \in Requests
        PROVE  /\ (task[r].file \/ At(r, "wait")) /\ Media(r) /\ ~task[r].late
                    => task[r].slot = "held"
               /\ At(r, "over") => task[r].slot # "held"
    <3>1. RequestOK(task[r])
      BY DEF RequestInv, SlotsOK, TaskOK, Tasks
    <3> QED
      BY <3>1 DEF RequestOK, Media, At, Before, After, Entrance, ProxySteps
  <2> QED
    BY <2>1, <2>2 DEF WorkHasSlot
<1> QED
  BY <1>1, RequestsTracked, PTL

(* No execution sends its media message twice, however many attempts other messages get, and     *)
(* none after its client was seen to leave or its request reached its deadline                    *)
(* (media-request-context.ts 108). One answered while it was being let in, for its body had taken *)
(* too long, is neither, and may be sent (media-http-admission.ts 69).                            *)
THEOREM NotSentAgain == Spec => MediaSentOnce
<1>1. RequestInv /\ [Next]_vars => [MediaSent]_vars
  BY RequestsAssumption, NextKeeps DEF Kept
<1>2. [][MediaSent]_vars => MediaSentOnce
  BY PTL DEF MediaSentOnce, MediaSent
<1> QED
  BY <1>1, <1>2, RequestsTracked, PTL DEF Spec

(* A creation never claims a proxy its session has not had, nor spends calls on it once nobody   *)
(* waits for the answer, nor tells the circuit of them (evolution.http.ts 158).                   *)
THEOREM ConfirmedWasHeld == Spec => ProxyConfirmedIsHeld
<1>1. RequestInv /\ [Next]_vars => [ProxyConfirmed]_vars
  BY RequestsAssumption, NextKeeps DEF Kept
<1>2. [][ProxyConfirmed]_vars => ProxyConfirmedIsHeld
  BY PTL DEF ProxyConfirmedIsHeld, ProxyConfirmed
<1> QED
  BY <1>1, <1>2, RequestsTracked, PTL DEF Spec
-----------------------------------------------------------------------------
(* What a batch adds up to.  Who executes which message, and where its outcome is: still to be   *)
(* counted, counted but not told, or told.                                                       *)

Sends == {"prepare", "fill", "send", "wait", "clean", "free"}
Making == {"total", "queue"}

Unstalled == \A m \in Messages : job[m].stalls = 0

Executes(x, m) == job[m].status = "active" /\ job[m].owner = x /\ task[x].message = m

(* The outcome of a message is not yet, or is on its way with who is at one of pcs. *)
Open(m, pcs) ==
  \/ job[m].status \in {"none", "waiting"}
  \/ \E x \in Executions : Executes(x, m) /\ task[x].pc \in pcs

Telling == {x \in Executions : task[x].pc = "tell"}
Uncounted == {m \in Messages : Open(m, Sends)}
Undone == {m \in Messages : Open(m, Sends \cup {"tell"})}

JobOK(j) ==
  /\ DOMAIN j = {"status", "owner", "stalls"} /\ j.stalls \in Nat
  /\ j.status \in {"none", "waiting", "active", "ended", "failed"}
  /\ j.owner # None => j.status = "active"
  /\ j.status = "failed" => j.stalls > 0

CountersOK ==
  /\ DOMAIN tally = {"total", "done", "sent", "failed", "lost"} /\ tally.total \in {None, Total}
  /\ tally.done \in Nat /\ tally.sent \in Nat /\ tally.failed \in Nat /\ tally.lost \in Nat
  /\ DOMAIN batch = {"status", "sent", "failed"} /\ batch.sent \in Nat /\ batch.failed \in Nat

(* Only one request makes the batch, and nothing is executed before it has queued the messages. *)
Made ==
  /\ DOMAIN job = Messages /\ \A m \in Messages : JobOK(job[m])
  /\ \A r, o \in Requests : task[r].pc \in Making /\ task[o].pc \in Making => r = o
  /\ (\E r \in Requests : task[r].pc \in Making) =>
       batch.status # "none" /\ \A m \in Messages : job[m].status = "none"
  /\ batch.status = "none" => \A m \in Messages : job[m].status = "none"

Executed ==
  Unstalled =>
    \A x \in Executions :
      task[x].pc # "over" => task[x].message \in Messages /\ Executes(x, task[x].message)

(* Nothing is told that has not been counted, and who finishes the batch has been told enough. *)
Lower ==
  /\ tally.done + Cardinality(Telling) <= tally.sent + tally.failed + tally.lost
  /\ \A x \in Executions :
       /\ task[x].pc \in {"tally", "save"} => tally.done >= Total
       /\ task[x].pc = "save" =>
            /\ task[x].loaded \in Nat /\ task[x].loaded <= tally.sent
            /\ task[x].loaded + tally.failed + tally.lost >= Total
  /\ batch.status = "completed" =>
       tally.done >= Total /\ batch.sent + batch.failed + tally.lost >= Total
  /\ batch.sent <= tally.sent /\ batch.failed <= tally.failed

(* Nothing is counted, or told, that is still to be. *)
Upper ==
  Unstalled =>
    /\ tally.sent + tally.failed + tally.lost + Cardinality(Uncounted) <= Total
    /\ tally.done + Cardinality(Undone) <= Total

BatchInv == CountersOK /\ Made /\ Executed /\ Lower /\ Upper
-----------------------------------------------------------------------------
LEMMA Sizes ==
  ASSUME BatchesAssumption
  PROVE  /\ IsFiniteSet(Telling) /\ IsFiniteSet(Uncounted) /\ IsFiniteSet(Undone)
         /\ Cardinality(Telling) \in Nat /\ Cardinality(Uncounted) \in Nat
         /\ Cardinality(Undone) \in Nat /\ Total \in Nat
<1>1. IsFiniteSet(Messages) /\ IsFiniteSet(Executions)
  BY DEF BatchesAssumption
<1>2. IsFiniteSet(Telling) /\ IsFiniteSet(Uncounted) /\ IsFiniteSet(Undone)
  <2>1. Telling \in SUBSET Executions /\ Uncounted \in SUBSET Messages /\ Undone \in SUBSET Messages
    BY DEF Telling, Uncounted, Undone
  <2> HIDE DEF Telling, Uncounted, Undone
  <2> QED
    BY <1>1, <2>1, FS_Subset
<1> QED
  BY <1>1, <1>2, FS_CardinalityType DEF Total

LEMMA Smaller ==
  ASSUME NEW S, NEW T, IsFiniteSet(S), \A m \in T : m \in S
  PROVE  /\ Cardinality(T) <= Cardinality(S)
         /\ \A m \in S : m \notin T => Cardinality(T) + 1 <= Cardinality(S)
<1>1. T \in SUBSET S
  OBVIOUS
<1>2. IsFiniteSet(T) /\ Cardinality(T) <= Cardinality(S)
  BY <1>1, FS_Subset
<1>3. ASSUME NEW m \in S, m \notin T
      PROVE  Cardinality(T) + 1 <= Cardinality(S)
  <2>1. T \in SUBSET (S \ {m})
    BY <1>1, <1>3
  <2>2. IsFiniteSet(S \ {m}) /\ Cardinality(S \ {m}) = Cardinality(S) - 1
    BY <1>3, FS_RemoveElement
  <2>3. Cardinality(T) <= Cardinality(S \ {m})
    BY <2>1, <2>2, FS_Subset
  <2>4. Cardinality(T) \in Nat /\ Cardinality(S) \in Nat
    BY <1>2, FS_CardinalityType
  <2> QED
    BY <2>2, <2>3, <2>4
<1> QED
  BY <1>2, <1>3

LEMMA Becomes ==
  ASSUME SlotsOK, NEW r \in Tasks, NEW y, Become(r, y)
  PROVE  task'[r] = y /\ \A o \in Tasks \ {r} : task'[o] = task[o]
BY DEF SlotsOK, Become

LEMMA WorkMoves ==
  ASSUME RequestsAssumption, SlotsOK, NEW r \in Tasks, Work(r)
  PROVE  /\ \A o \in Tasks \ {r} : task'[o] = task[o]
         /\ task'[r].message = task[r].message
         /\ task'[r].pc \in Making => task[r].pc \in Making
         /\ r \in Executions => {task[r].pc, task'[r].pc} \subseteq Sends
<1> DEFINE x == task[r]
           Goal == /\ \A o \in Tasks \ {r} : task'[o] = task[o]
                   /\ task'[r].message = x.message
                   /\ task'[r].pc \in Making => x.pc \in Making
                   /\ r \in Executions => {x.pc, task'[r].pc} \subseteq Sends
<1>1. /\ DOMAIN x = TaskFields
      /\ r \in Requests => RequestOK(x)
      /\ r \in Executions => ExecutionOK(x) /\ r \notin Requests
  BY DEF SlotsOK, TaskOK, Tasks, RequestsAssumption
<1>2. ASSUME NEW y, Become(r, y), y.message = x.message, y.pc \in Making => x.pc \in Making,
             r \in Executions => {x.pc, y.pc} \subseteq Sends
      PROVE  Goal
  BY <1>2, Becomes
<1>3. ASSUME NEW pc, Goto(r, pc), pc \notin Making, r \in Executions => {x.pc, pc} \subseteq Sends
      PROVE  Goal
  <2> DEFINE y == [x EXCEPT !.pc = pc]
  <2>1. Become(r, y)
    BY <1>3 DEF Goto
  <2>2. y.message = x.message /\ y.pc = pc
    BY <1>1 DEF TaskFields
  <2> HIDE DEF y
  <2> QED
    BY <1>2, <1>3, <2>1, <2>2
<1>4. ASSUME NEW z, Release(r, z), z.message = x.message, z.pc \in Making => x.pc \in Making,
             r \notin Executions, DOMAIN z = TaskFields
      PROVE  Goal
  <2>1. Freed(z).message = z.message /\ Freed(z).pc = z.pc
    BY <1>4 DEF Freed, TaskFields
  <2> QED
    BY <1>2, <1>4, <2>1 DEF Release
<1>5. ASSUME Refuse(r), r \notin Executions
      PROVE  Goal
  <2> DEFINE z == [x EXCEPT !.pc = "over"]
  <2>1. Release(r, z) /\ z.message = x.message /\ z.pc = "over" /\ DOMAIN z = TaskFields
    BY <1>1, <1>5 DEF Refuse, TaskFields
  <2> HIDE DEF z
  <2> QED
    BY <1>4, <1>5, <2>1 DEF Making
<1>6. ASSUME \/ Become(r, Failed(r)) \/ Become(r, Sent(r))
             \/ \E why \in Words : Become(r, [Failed(r) EXCEPT !.reason = why]),
             r \in Executions => x.pc \in Sends
      PROVE  Goal
  <2>1. PICK y : Changed(r, y, {"pc", "outcome", "reason"}) /\ y.pc = "clean"
    BY <1>6, Fails
  <2>2. Become(r, y) /\ y.message = x.message
    BY <2>1 DEF Changed, Become, TaskFields
  <2> QED
    BY <1>2, <1>6, <2>1, <2>2 DEF Making, Sends
<1>7. r \in Executions =>
        /\ x.pc \notin {"new", "resolve", "load", "keep"} \cup Entrance
        /\ ~Free(r) /\ ~Underway(r)
  BY <1>1 DEF ExecutionOK, Entrance, Free, Underway
<1>8. CASE Arrive(r)
  <2>1. r \notin Executions
    BY <1>7, <1>8 DEF Arrive, At
  <2>2. CASE Goto(r, "guard") \/ Goto(r, "over")
    BY <1>3, <2>1, <2>2 DEF Making
  <2>3. CASE Become(r, [x EXCEPT !.pc = "guard", !.slot = "held"])
    <3> DEFINE y == [x EXCEPT !.pc = "guard", !.slot = "held"]
    <3>1. Become(r, y) /\ y.message = x.message /\ y.pc = "guard"
      BY <1>1, <2>3 DEF TaskFields
    <3> HIDE DEF y
    <3> QED
      BY <1>2, <2>1, <3>1 DEF Making
  <2> QED
    BY <1>8, <2>2, <2>3 DEF Arrive
<1>9. CASE Guard(r) \/ StoreProduct(r) \/ CountRate(r) \/ SetExpiry(r)
  <2>1. r \notin Executions
    BY <1>7, <1>9 DEF Guard, StoreProduct, CountRate, SetExpiry, At, Entrance
  <2>2. \/ Refuse(r)
        \/ \E pc \in {"read", "limit", "expire", "enter"} : Goto(r, pc)
    BY <1>9 DEF Guard, StoreProduct, CountRate, SetExpiry
  <2> QED
    BY <1>3, <1>5, <2>1, <2>2 DEF Making
<1>10. CASE ReadProduct(r)
  <2>1. r \notin Executions
    BY <1>7, <1>10 DEF ReadProduct, At, Entrance
  <2>2. CASE Refuse(r)
    BY <1>5, <2>1, <2>2
  <2>3. CASE Become(r, [x EXCEPT !.pc = "store", !.loaded = product.active])
    <3> DEFINE y == [x EXCEPT !.pc = "store", !.loaded = product.active]
    <3>1. Become(r, y) /\ y.message = x.message /\ y.pc = "store"
      BY <1>1, <2>3 DEF TaskFields
    <3> HIDE DEF y
    <3> QED
      BY <1>2, <2>1, <3>1 DEF Making
  <2> QED
    BY <1>10, <2>2, <2>3 DEF ReadProduct
<1>11. CASE Enter(r)
  <2>1. r \notin Executions
    BY <1>7, <1>11 DEF Enter, At, Entrance
  <2>2. CASE Refuse(r)
    BY <1>5, <2>1, <2>2
  <2>3. CASE Become(r, Adopted([x EXCEPT !.pc = "resolve"]))
    <3> DEFINE y == [[x EXCEPT !.pc = "resolve"] EXCEPT !.adopted = TRUE]
    <3>1. Become(r, y) /\ y.message = x.message /\ y.pc = "resolve"
      BY <1>1, <2>3 DEF TaskFields, Adopted
    <3> HIDE DEF y
    <3> QED
      BY <1>2, <2>1, <3>1 DEF Making
  <2> QED
    BY <1>11, <2>2, <2>3 DEF Enter
<1>12. CASE Resolve(r) \/ LoadInstance(r) \/ KeepInstance(r)
  <2>1. r \notin Executions /\ r \in Requests /\ RequestOK(x) /\ x.pc \in Before
    BY <1>1, <1>7, <1>12 DEF Resolve, LoadInstance, KeepInstance, At, Tasks, Before
  <2>2. Start(r) \in {"send", "row", "prepare"}
    BY <2>1 DEF Start, RequestOK, Before, ProxySteps
  <2>3. CASE Become(r, Failed(r))
    BY <1>6, <2>1, <2>3
  <2>4. CASE Goto(r, "load") \/ Goto(r, Start(r))
    <3>1. \E pc \in {"load", "send", "row", "prepare"} : Goto(r, pc)
      BY <2>2, <2>4
    <3> QED
      BY <1>3, <2>1, <3>1 DEF Making
  <2>5. CASE Become(r, [x EXCEPT !.pc = "keep", !.loaded = instance.at])
    <3> DEFINE y == [x EXCEPT !.pc = "keep", !.loaded = instance.at]
    <3>1. Become(r, y) /\ y.message = x.message /\ y.pc = "keep"
      BY <1>1, <2>5 DEF TaskFields
    <3> HIDE DEF y
    <3> QED
      BY <1>2, <2>1, <3>1 DEF Making
  <2>6. CASE Resolve(r)
    BY <2>3, <2>4, <2>6 DEF Resolve
  <2>7. CASE LoadInstance(r)
    BY <2>3, <2>5, <2>7 DEF LoadInstance
  <2>8. CASE KeepInstance(r)
    BY <2>3, <2>4, <2>8 DEF KeepInstance, Goto
  <2> QED
    BY <1>12, <2>6, <2>7, <2>8
<1>13. CASE BeginFile(r) \/ FillFile(r) \/ CleanFile(r)
  <2>1. x.pc \in Sends
    BY <1>13 DEF BeginFile, FillFile, CleanFile, At, Sends
  <2>2. "download_timeout" \in Words /\ Making \cap Sends = {}
        /\ "fill" \in Sends /\ "send" \in Sends /\ "free" \in Sends
    BY DEF Words, Making, Sends
  <2>3. CASE Become(r, Failed(r)) \/ Become(r, [Failed(r) EXCEPT !.reason = "download_timeout"])
    BY <1>6, <2>1, <2>2, <2>3
  <2>4. CASE Goto(r, "send")
    BY <1>3, <2>1, <2>2, <2>4
  <2>5. CASE Become(r, CreateFile([x EXCEPT !.pc = "fill"]))
    <3> DEFINE y == [[x EXCEPT !.pc = "fill"] EXCEPT !.file = TRUE]
    <3>1. Become(r, y) /\ y.message = x.message /\ y.pc = "fill"
      BY <1>1, <2>5 DEF TaskFields, CreateFile
    <3> HIDE DEF y
    <3> QED
      BY <1>2, <2>1, <2>2, <3>1
  <2>6. CASE Become(r, [x EXCEPT !.pc = "free", !.file = FALSE])
    <3> DEFINE y == [x EXCEPT !.pc = "free", !.file = FALSE]
    <3>1. Become(r, y) /\ y.message = x.message /\ y.pc = "free"
      BY <1>1, <2>6 DEF TaskFields
    <3> HIDE DEF y
    <3> QED
      BY <1>2, <2>1, <2>2, <3>1
  <2> QED
    BY <1>13, <2>3, <2>4, <2>5, <2>6 DEF BeginFile, FillFile, CleanFile
<1>14. CASE Send(r) \/ Await(r)
  <2>1. x.pc \in Sends
    BY <1>14 DEF Send, Await, At, Sends
  <2>2. "provider_timeout" \in Words /\ Making \cap Sends = {} /\ "wait" \in Sends
    BY DEF Words, Making, Sends
  <2>3. CASE \/ Become(r, Failed(r)) \/ Become(r, Sent(r))
             \/ Become(r, [Failed(r) EXCEPT !.reason = "provider_timeout"])
    BY <1>6, <2>1, <2>2, <2>3
  <2>4. CASE Become(r, StartProviderCall(x))
    <3> DEFINE y == [x EXCEPT !.pc = "wait", !.calls = @ + 1]
    <3>1. Become(r, y) /\ y.message = x.message /\ y.pc = "wait"
      BY <1>1, <2>4 DEF TaskFields, StartProviderCall
    <3> HIDE DEF y
    <3> QED
      BY <1>2, <2>1, <2>2, <3>1
  <2>5. CASE Become(r, [x EXCEPT !.calls = @ + 1])
    <3> DEFINE y == [x EXCEPT !.calls = @ + 1]
    <3>1. Become(r, y) /\ y.message = x.message /\ y.pc = x.pc
      BY <1>1, <2>5 DEF TaskFields
    <3> HIDE DEF y
    <3> QED
      BY <1>2, <2>1, <2>2, <3>1
  <2>6. CASE Send(r)
    BY <2>3, <2>4, <2>6 DEF Send
  <2>7. CASE Await(r)
    BY <2>3, <2>5, <2>7 DEF Await, Answered, Lost, TooSlow
  <2> QED
    BY <1>14, <2>6, <2>7
<1>15. CASE Free(r)
  <2>1. Refuse(r) /\ r \notin Executions
    BY <1>7, <1>15 DEF Free, Refuse
  <2> QED
    BY <1>5, <2>1
<1>16. CASE Leave(r) \/ UploadTimeout(r) \/ RequestTimeout(r)
  <2>1. r \notin Executions
    BY <1>7, <1>16 DEF Leave, UploadTimeout, RequestTimeout
  <2>2. ASSUME NEW z, DOMAIN z = TaskFields, z.message = x.message, z.pc = x.pc,
               Release(r, z) \/ Become(r, z) \/ \E why : Become(r, Stop(z, why))
        PROVE  Goal
    <3>1. ASSUME NEW why
          PROVE  Stop(z, why).message = x.message /\ Stop(z, why).pc = x.pc
      BY <2>2 DEF Stop, TaskFields
    <3>2. CASE Release(r, z)
      BY <1>4, <2>1, <2>2, <3>2
    <3>3. CASE Become(r, z)
      BY <1>2, <2>1, <2>2, <3>3
    <3>4. CASE \E why : Become(r, Stop(z, why))
      <4>1. PICK why : Become(r, Stop(z, why))
        BY <3>4
      <4> QED
        BY <1>2, <2>1, <3>1, <4>1
    <3> QED
      BY <2>2, <3>2, <3>3, <3>4
  <2> DEFINE gone == [x EXCEPT !.gone = TRUE]
             late == [x EXCEPT !.late = TRUE]
  <2>3. /\ DOMAIN gone = TaskFields /\ gone.message = x.message /\ gone.pc = x.pc
        /\ DOMAIN late = TaskFields /\ late.message = x.message /\ late.pc = x.pc
    BY <1>1 DEF TaskFields
  <2>4. CASE UploadTimeout(r)
    <3>1. Release(r, late)
      BY <2>4 DEF UploadTimeout
    <3> HIDE DEF late
    <3> QED
      BY <2>2, <2>3, <3>1
  <2>5. CASE Leave(r)
    <3>1. \/ Release(r, gone) \/ Become(r, Stop(gone, "client_disconnected")) \/ Become(r, gone)
      BY <2>5 DEF Leave
    <3> HIDE DEF gone
    <3> QED
      BY <2>2, <2>3, <3>1
  <2>6. CASE RequestTimeout(r)
    <3>1. Become(r, Stop(gone, "request_timeout"))
      BY <2>6 DEF RequestTimeout
    <3> HIDE DEF gone
    <3> QED
      BY <2>2, <2>3, <3>1
  <2> QED
    BY <1>16, <2>4, <2>5, <2>6
<1> QED
  BY <1>8, <1>9, <1>10, <1>11, <1>12, <1>13, <1>14, <1>15, <1>16 DEF Work
-----------------------------------------------------------------------------
(* A step of an execution: it goes on with its message, or it is over. *)

Others(x) ==
  /\ \A o \in Executions \ {x} : task'[o] = task[o]
  /\ \A r \in Requests : task'[r] = task[r]

Acts(x) ==
  /\ Others(x) /\ DOMAIN job' = Messages
  /\ \A m \in Messages :
       \/ job'[m] = job[m]
       \/ Executes(x, m) /\ job'[m] = [status |-> "ended", owner |-> None, stalls |-> job[m].stalls]
  /\ task[x].pc # "over"
  /\ task'[x].pc = "over" \/ (job' = job /\ task'[x].message = task[x].message)

LEMMA ActsKeepMade ==
  ASSUME RequestsAssumption, Made, NEW x \in Executions, Acts(x),
         batch.status # "none" => batch'.status # "none"
  PROVE  Made' /\ (Unstalled' <=> Unstalled)
<1>1. \A m \in Messages : JobOK(job'[m]) /\ job'[m].stalls = job[m].stalls
  BY DEF Made, Acts, JobOK, Executes
<1>2. \A m \in Messages : job[m].status = "none" => job'[m].status = "none"
  BY DEF Made, Acts, Executes
<1>3. \A r \in Requests : task'[r] = task[r]
  BY DEF Acts, Others
<1>4. DOMAIN job' = Messages
  BY DEF Acts
<1> QED
  BY <1>1, <1>2, <1>3, <1>4 DEF Made, Unstalled

LEMMA ActsKeepExecuted ==
  ASSUME Made, Executed, NEW x \in Executions, Acts(x), Unstalled' => Unstalled
  PROVE  Executed'
<1> SUFFICES ASSUME Unstalled, NEW o \in Executions, task'[o].pc # "over"
             PROVE  task'[o].message \in Messages /\ Executes(o, task[o].message)'
  BY DEF Executed
<1>1. CASE o = x
  <2>1. job' = job /\ task'[x].message = task[x].message /\ task[x].pc # "over"
    BY <1>1 DEF Acts
  <2> QED
    BY <1>1, <2>1 DEF Executed, Executes
<1>2. CASE o # x
  <2>1. task'[o] = task[o] /\ task[o].message \in Messages /\ Executes(o, task[o].message)
    BY <1>2 DEF Acts, Others, Executed
  <2>2. job'[task[o].message] = job[task[o].message]
    BY <1>2, <2>1 DEF Acts, Executes
  <2> QED
    BY <2>1, <2>2 DEF Executes
<1> QED
  BY <1>1, <1>2

LEMMA ActsOpenNothing ==
  ASSUME NEW x \in Executions, Acts(x), NEW pcs, "over" \notin pcs,
         task'[x].pc \in pcs => task[x].pc \in pcs,
         NEW m \in Messages, Open(m, pcs)'
  PROVE  Open(m, pcs)
<1>1. job'[m].status # "ended"
  BY DEF Open, Executes
<1>2. job'[m] = job[m]
  BY <1>1 DEF Acts
<1>3. CASE job'[m].status \in {"none", "waiting"}
  BY <1>2, <1>3 DEF Open
<1>4. ASSUME NEW o \in Executions, Executes(o, m)', task'[o].pc \in pcs
      PROVE  Executes(o, m) /\ task[o].pc \in pcs
  <2>1. CASE o = x
    <3>1. job' = job /\ task'[x].message = task[x].message
      BY <1>4, <2>1 DEF Acts
    <3> QED
      BY <1>4, <2>1, <3>1 DEF Executes
  <2>2. CASE o # x
    BY <1>2, <1>4, <2>2 DEF Acts, Others, Executes
  <2> QED
    BY <2>1, <2>2
<1> QED
  BY <1>3, <1>4 DEF Open

LEMMA ActsClose ==
  ASSUME NEW x \in Executions, Acts(x), NEW pcs, task[x].pc \in pcs, task'[x].pc \notin pcs,
         NEW m \in Messages, Executes(x, m)
  PROVE  Open(m, pcs) /\ ~Open(m, pcs)'
<1>1. Open(m, pcs)
  BY DEF Open
<1>2. job'[m] = job[m] \/ job'[m].status = "ended"
  BY DEF Acts
<1>3. job'[m].status \notin {"none", "waiting"}
  BY <1>2 DEF Executes
<1>4. ASSUME NEW o \in Executions, Executes(o, m)'
      PROVE  o = x
  BY <1>2, <1>4 DEF Executes
<1> QED
  BY <1>1, <1>3, <1>4 DEF Open

(* The four ways in which what is open may become less. *)
LEMMA ActsShrink ==
  ASSUME BatchesAssumption, Executed, Unstalled, NEW x \in Executions, Acts(x)
  PROVE  /\ (task'[x].pc \in Sends => task[x].pc \in Sends)
           => Cardinality(Uncounted)' <= Cardinality(Uncounted)
         /\ task[x].pc \in Sends /\ task'[x].pc \notin Sends
           => Cardinality(Uncounted)' + 1 <= Cardinality(Uncounted)
         /\ (task'[x].pc \in Sends \cup {"tell"} => task[x].pc \in Sends \cup {"tell"})
           => Cardinality(Undone)' <= Cardinality(Undone)
         /\ task[x].pc = "tell" /\ task'[x].pc \notin Sends \cup {"tell"}
           => Cardinality(Undone)' + 1 <= Cardinality(Undone)
<1>1. task[x].message \in Messages /\ Executes(x, task[x].message)
  BY DEF Executed, Acts
<1>2. "over" \notin Sends /\ "over" \notin Sends \cup {"tell"}
  BY DEF Sends
<1>3. IsFiniteSet(Uncounted) /\ IsFiniteSet(Undone)
  BY Sizes
<1> DEFINE m == task[x].message
<1>4. ASSUME task'[x].pc \in Sends => task[x].pc \in Sends
      PROVE  \A o \in Uncounted' : o \in Uncounted
  BY <1>2, <1>4, ActsOpenNothing DEF Uncounted
<1>5. ASSUME task'[x].pc \in Sends \cup {"tell"} => task[x].pc \in Sends \cup {"tell"}
      PROVE  \A o \in Undone' : o \in Undone
  BY <1>2, <1>5, ActsOpenNothing DEF Undone
<1>6. PICK w \in Messages : w = m
  BY <1>1
<1>7. ASSUME task[x].pc \in Sends, task'[x].pc \notin Sends
      PROVE  w \in Uncounted /\ w \notin Uncounted'
  BY <1>1, <1>6, <1>7, ActsClose DEF Uncounted
<1>8. ASSUME task[x].pc = "tell", task'[x].pc \notin Sends \cup {"tell"}
      PROVE  w \in Undone /\ w \notin Undone'
  BY <1>1, <1>6, <1>8, ActsClose DEF Undone
<1> HIDE DEF m
<1>9. /\ Cardinality(Uncounted)' = Cardinality(Uncounted')
      /\ Cardinality(Undone)' = Cardinality(Undone')
  OBVIOUS
<1>10. ASSUME task'[x].pc \in Sends => task[x].pc \in Sends
       PROVE  Cardinality(Uncounted)' <= Cardinality(Uncounted)
  BY <1>3, <1>4, <1>9, <1>10, Smaller
<1>11. ASSUME task'[x].pc \in Sends \cup {"tell"} => task[x].pc \in Sends \cup {"tell"}
       PROVE  Cardinality(Undone)' <= Cardinality(Undone)
  BY <1>3, <1>5, <1>9, <1>11, Smaller
<1>12. ASSUME task[x].pc \in Sends, task'[x].pc \notin Sends
       PROVE  Cardinality(Uncounted)' + 1 <= Cardinality(Uncounted)
  BY <1>3, <1>4, <1>7, <1>9, <1>12, Smaller
<1>13. ASSUME task[x].pc = "tell", task'[x].pc \notin Sends \cup {"tell"}
       PROVE  Cardinality(Undone)' + 1 <= Cardinality(Undone)
  BY <1>3, <1>5, <1>8, <1>9, <1>13, Smaller
<1> QED
  BY <1>10, <1>11, <1>12, <1>13

LEMMA Tells ==
  ASSUME BatchesAssumption, NEW x \in Executions, Others(x)
  PROVE  /\ task[x].pc # "tell" /\ task'[x].pc # "tell"
              => Cardinality(Telling)' = Cardinality(Telling)
         /\ task[x].pc # "tell" /\ task'[x].pc = "tell"
              => Cardinality(Telling)' = Cardinality(Telling) + 1
         /\ task[x].pc = "tell" /\ task'[x].pc # "tell"
              => Cardinality(Telling)' = Cardinality(Telling) - 1
<1>1. IsFiniteSet(Telling) /\ Cardinality(Telling)' = Cardinality(Telling')
  BY Sizes
<1>2. \A o \in Executions \ {x} : o \in Telling' <=> o \in Telling
  BY DEF Others, Telling
<1>3. (x \in Telling <=> task[x].pc = "tell") /\ (x \in Telling' <=> task'[x].pc = "tell")
  BY DEF Telling
<1>4. Telling \subseteq Executions /\ Telling' \subseteq Executions
  BY DEF Telling
<1>5. ASSUME task[x].pc # "tell", task'[x].pc # "tell"
      PROVE  Telling' = Telling
  BY <1>2, <1>3, <1>4, <1>5
<1>6. ASSUME task[x].pc # "tell", task'[x].pc = "tell"
      PROVE  Telling' = Telling \cup {x} /\ x \notin Telling
  BY <1>2, <1>3, <1>4, <1>6
<1>7. ASSUME task[x].pc = "tell", task'[x].pc # "tell"
      PROVE  Telling' = Telling \ {x} /\ x \in Telling
  BY <1>2, <1>3, <1>4, <1>7
<1>8. ASSUME task[x].pc # "tell", task'[x].pc # "tell"
      PROVE  Cardinality(Telling)' = Cardinality(Telling)
  BY <1>1, <1>5, <1>8
<1>9. ASSUME task[x].pc # "tell", task'[x].pc = "tell"
      PROVE  Cardinality(Telling)' = Cardinality(Telling) + 1
  BY <1>1, <1>6, <1>9, FS_AddElement
<1>10. ASSUME task[x].pc = "tell", task'[x].pc # "tell"
       PROVE  Cardinality(Telling)' = Cardinality(Telling) - 1
  BY <1>1, <1>7, <1>10, FS_RemoveElement
<1> QED
  BY <1>8, <1>9, <1>10
-----------------------------------------------------------------------------
(* What the counters say after it. *)

FinishOK(x) ==
  /\ task[x].pc \in {"tally", "save"} => tally.done >= Total
  /\ task[x].pc = "save" =>
       /\ task[x].loaded \in Nat /\ task[x].loaded <= tally.sent
       /\ task[x].loaded + tally.failed + tally.lost >= Total

SavedOK ==
  /\ batch.status = "completed" =>
       tally.done >= Total /\ batch.sent + batch.failed + tally.lost >= Total
  /\ batch.sent <= tally.sent /\ batch.failed <= tally.failed

Told == tally.done + Cardinality(Telling) <= tally.sent + tally.failed + tally.lost

Within ==
  /\ tally.sent + tally.failed + tally.lost + Cardinality(Uncounted) <= Total
  /\ tally.done + Cardinality(Undone) <= Total

Grows ==
  /\ CountersOK /\ CountersOK'
  /\ tally'.done >= tally.done /\ tally'.sent >= tally.sent
  /\ tally'.failed >= tally.failed /\ tally'.lost >= tally.lost

LEMMA FinishKept ==
  ASSUME BatchesAssumption, Grows, NEW o \in Executions, FinishOK(o), task'[o] = task[o]
  PROVE  FinishOK(o)'
<1>1. Total \in Nat
  BY Sizes
<1>2. /\ tally.done \in Nat /\ tally'.done \in Nat /\ tally.sent \in Nat /\ tally'.sent \in Nat
      /\ tally.failed \in Nat /\ tally'.failed \in Nat /\ tally.lost \in Nat /\ tally'.lost \in Nat
  BY DEF Grows, CountersOK
<1> QED
  BY <1>1, <1>2 DEF Grows, FinishOK, Total

LEMMA SavedKept ==
  ASSUME BatchesAssumption, Grows, SavedOK, batch'.sent = batch.sent, batch'.failed = batch.failed,
         batch'.status = "completed" => batch.status = "completed"
  PROVE  SavedOK'
<1>1. Total \in Nat
  BY Sizes
<1>2. /\ tally.done \in Nat /\ tally'.done \in Nat /\ tally.sent \in Nat /\ tally'.sent \in Nat
      /\ tally.failed \in Nat /\ tally'.failed \in Nat /\ tally.lost \in Nat /\ tally'.lost \in Nat
      /\ batch.sent \in Nat /\ batch.failed \in Nat
  BY DEF Grows, CountersOK
<1> QED
  BY <1>1, <1>2 DEF Grows, SavedOK, Total

LEMMA ActsKeep ==
  ASSUME RequestsAssumption, BatchesAssumption, BatchInv, NEW x \in Executions, Acts(x), Grows,
         batch.status # "none" => batch'.status # "none",
         FinishOK(x)', SavedOK', Told', Unstalled => Within'
  PROVE  BatchInv'
<1>1. Made' /\ (Unstalled' <=> Unstalled)
  BY ActsKeepMade DEF BatchInv
<1>2. Executed'
  BY <1>1, ActsKeepExecuted DEF BatchInv
<1>3. ASSUME NEW o \in Executions
      PROVE  FinishOK(o)'
  <2>1. CASE o = x
    BY <2>1
  <2>2. CASE o # x
    <3>1. FinishOK(o) /\ task'[o] = task[o]
      BY <2>2 DEF BatchInv, Lower, FinishOK, Acts, Others
    <3> QED
      BY <3>1, FinishKept
  <2> QED
    BY <2>1, <2>2
<1>4. Lower'
  BY <1>3 DEF Lower, FinishOK, SavedOK, Told
<1>5. Upper'
  BY <1>1 DEF Upper, Within
<1>6. CountersOK'
  BY DEF Grows
<1> QED
  BY <1>1, <1>2, <1>4, <1>5, <1>6 DEF BatchInv

LEMMA GoesOn ==
  ASSUME RequestsAssumption, SlotsOK, Made, NEW x \in Executions, NEW y, Become(x, y),
         y.message = task[x].message, UNCHANGED job, task[x].pc # "over"
  PROVE  Acts(x) /\ task'[x] = y
<1>1. x \in Tasks /\ x \notin Requests
  BY DEF Tasks, RequestsAssumption
<1>2. task'[x] = y /\ \A o \in Tasks \ {x} : task'[o] = task[o]
  BY <1>1, Becomes
<1>3. Others(x)
  BY <1>1, <1>2 DEF Others, Tasks
<1> QED
  BY <1>2, <1>3 DEF Acts, Made

LEMMA IsOver ==
  ASSUME RequestsAssumption, BatchesAssumption, SlotsOK, Made, NEW x \in Executions,
         task[x].pc # "over", Ends(x) \/ (Become(x, Idle) /\ UNCHANGED job)
  PROVE  Acts(x) /\ task'[x].pc = "over"
<1>1. x \in Tasks /\ x \notin Requests /\ x # None
  BY DEF Tasks, RequestsAssumption, BatchesAssumption
<1>2. task'[x] = Idle /\ \A o \in Tasks \ {x} : task'[o] = task[o]
  BY <1>1, Becomes DEF Ends
<1>3. task'[x].pc = "over" /\ Others(x)
  BY <1>1, <1>2 DEF Others, Tasks, Idle, NewTask
<1>4. CASE UNCHANGED job
  BY <1>3, <1>4 DEF Acts, Made
<1>5. CASE Ends(x)
  <2>1. job' = [m \in Messages |->
                  IF job[m].owner = x /\ task[x].message = m
                  THEN [job[m] EXCEPT !.status = "ended", !.owner = None] ELSE job[m]]
    BY <1>5 DEF Ends
  <2>2. DOMAIN job' = Messages
    BY <2>1
  <2>3. ASSUME NEW m \in Messages
        PROVE  \/ job'[m] = job[m]
               \/ /\ Executes(x, m)
                  /\ job'[m] = [status |-> "ended", owner |-> None, stalls |-> job[m].stalls]
    <3>1. JobOK(job[m])
      BY DEF Made
    <3>2. CASE job[m].owner = x /\ task[x].message = m
      <4>1. Executes(x, m)
        BY <1>1, <3>1, <3>2 DEF Executes, JobOK
      <4>2. job'[m] = [job[m] EXCEPT !.status = "ended", !.owner = None]
        BY <2>1, <3>2
      <4>3. job'[m] = [status |-> "ended", owner |-> None, stalls |-> job[m].stalls]
        BY <3>1, <4>2 DEF JobOK
      <4> QED
        BY <4>1, <4>3
    <3>3. CASE ~(job[m].owner = x /\ task[x].message = m)
      BY <2>1, <3>3
    <3> QED
      BY <3>2, <3>3
  <2> QED
    BY <1>3, <2>2, <2>3 DEF Acts
<1> QED
  BY <1>3, <1>4, <1>5

(* The counters as numbers, before and after a step of x. *)
LEMMA Numbers ==
  ASSUME BatchesAssumption, CountersOK
  PROVE  /\ tally.done \in Nat /\ tally.sent \in Nat /\ tally.failed \in Nat /\ tally.lost \in Nat
         /\ batch.sent \in Nat /\ batch.failed \in Nat /\ Total \in Nat
         /\ Cardinality(Telling) \in Nat /\ Cardinality(Uncounted) \in Nat
         /\ Cardinality(Undone) \in Nat
BY Sizes DEF CountersOK

LEMMA NumbersAfter ==
  ASSUME BatchesAssumption, CountersOK'
  PROVE  /\ tally'.done \in Nat /\ tally'.sent \in Nat /\ tally'.failed \in Nat
         /\ tally'.lost \in Nat /\ batch'.sent \in Nat /\ batch'.failed \in Nat
         /\ Cardinality(Telling)' \in Nat /\ Cardinality(Uncounted)' \in Nat
         /\ Cardinality(Undone)' \in Nat
<1>1. IsFiniteSet(Messages) /\ IsFiniteSet(Executions)
  BY DEF BatchesAssumption
<1>2. /\ Telling' \in SUBSET Executions /\ Uncounted' \in SUBSET Messages
      /\ Undone' \in SUBSET Messages
  BY DEF Telling, Uncounted, Undone
<1> HIDE DEF Telling, Uncounted, Undone
<1>3. IsFiniteSet(Telling') /\ IsFiniteSet(Uncounted') /\ IsFiniteSet(Undone')
  BY <1>1, <1>2, FS_Subset
<1>4. /\ Cardinality(Telling)' = Cardinality(Telling')
      /\ Cardinality(Uncounted)' = Cardinality(Uncounted')
      /\ Cardinality(Undone)' = Cardinality(Undone')
  OBVIOUS
<1>5. /\ Cardinality(Telling)' \in Nat /\ Cardinality(Uncounted)' \in Nat
      /\ Cardinality(Undone)' \in Nat
  BY <1>3, <1>4, FS_CardinalityType
<1> QED
  BY <1>5 DEF CountersOK
-----------------------------------------------------------------------------
(* Every step keeps what the batch adds up to: first those of an execution. *)

LEMMA CountOutcomeKeeps ==
  ASSUME RequestsAssumption, BatchesAssumption, SlotsOK, BatchInv, NEW x \in Executions,
         CountOutcome(x)
  PROVE  BatchInv'
<1>1. /\ task[x].pc = "free" /\ DOMAIN task[x] = TaskFields
      /\ job' = job /\ batch' = batch /\ CountersOK /\ Made
  BY DEF CountOutcome, At, SlotsOK, TaskOK, Tasks, BatchInv
<1>2. SavedOK /\ Told /\ (Unstalled => Within) /\ Executed
  BY DEF BatchInv, Lower, Upper, SavedOK, Told, Within
<1>3. CASE /\ Become(x, [task[x] EXCEPT !.outcome = "failed"])
           /\ tally' = tally
  <2> DEFINE y == [task[x] EXCEPT !.outcome = "failed"]
  <2>1. Become(x, y) /\ y.message = task[x].message /\ y.pc = "free"
    BY <1>1, <1>3 DEF TaskFields
  <2> HIDE DEF y
  <2>2. Acts(x) /\ task'[x] = y
    BY <1>1, <2>1, GoesOn
  <2>3. Others(x) /\ task'[x].pc = "free"
    BY <2>1, <2>2 DEF Acts
  <2>4. CountersOK' /\ Grows
    BY <1>1, <1>3 DEF CountersOK, Grows
  <2>5. Told'
    BY <1>1, <1>2, <1>3, <2>3, Tells DEF Told
  <2>6. ASSUME Unstalled
        PROVE  Within'
    <3>1. /\ Cardinality(Uncounted)' <= Cardinality(Uncounted)
          /\ Cardinality(Undone)' <= Cardinality(Undone)
      BY <1>1, <1>2, <2>2, <2>3, <2>6, ActsShrink DEF Sends
    <3>2. tally' = tally /\ Within
      BY <1>2, <1>3, <2>6
    <3> QED
      BY <2>4, <3>1, <3>2, Numbers, NumbersAfter DEF Grows, Within, Total
  <2>7. FinishOK(x)'
    BY <2>3 DEF FinishOK
  <2>8. SavedOK'
    BY <1>1, <1>2, <2>4, SavedKept
  <2> QED
    BY <1>1, <2>2, <2>4, <2>5, <2>6, <2>7, <2>8, ActsKeep
<1>4. ASSUME Goto(x, "tell"), CountersOK', tally'.done = tally.done, Grows,
             tally'.sent + tally'.failed + tally'.lost
               = tally.sent + tally.failed + tally.lost + 1
      PROVE  BatchInv'
  <2> DEFINE y == [task[x] EXCEPT !.pc = "tell"]
  <2>1. Become(x, y) /\ y.message = task[x].message /\ y.pc = "tell"
    BY <1>1, <1>4 DEF TaskFields, Goto
  <2> HIDE DEF y
  <2>2. Acts(x) /\ task'[x] = y
    BY <1>1, <2>1, GoesOn
  <2>3. Others(x) /\ task'[x].pc = "tell"
    BY <2>1, <2>2 DEF Acts
  <2>4. Told'
    <3>1. Cardinality(Telling)' = Cardinality(Telling) + 1
      BY <1>1, <2>3, Tells
    <3> QED
      BY <1>1, <1>2, <1>4, <3>1, Numbers, NumbersAfter DEF Told
  <2>5. ASSUME Unstalled
        PROVE  Within'
    <3>1. /\ Cardinality(Uncounted)' + 1 <= Cardinality(Uncounted)
          /\ Cardinality(Undone)' <= Cardinality(Undone)
      BY <1>1, <1>2, <2>2, <2>3, <2>5, ActsShrink DEF Sends
    <3>2. Within
      BY <1>2, <2>5
    <3> QED
      BY <1>1, <1>4, <3>1, <3>2, Numbers, NumbersAfter DEF Within, Total
  <2>6. FinishOK(x)'
    BY <2>3 DEF FinishOK
  <2>7. SavedOK'
    BY <1>1, <1>2, <1>4, SavedKept
  <2> QED
    BY <1>1, <1>4, <2>2, <2>4, <2>5, <2>6, <2>7, ActsKeep
<1>5. ASSUME NEW f \in {"sent", "failed", "lost"}, tally' = [tally EXCEPT ![f] = @ + 1]
      PROVE  /\ CountersOK' /\ tally'.done = tally.done /\ Grows
             /\ tally'.sent + tally'.failed + tally'.lost
                  = tally.sent + tally.failed + tally.lost + 1
  <2>1. /\ DOMAIN tally' = DOMAIN tally /\ tally'.total = tally.total /\ tally'.done = tally.done
        /\ tally'.sent = IF f = "sent" THEN tally.sent + 1 ELSE tally.sent
        /\ tally'.failed = IF f = "failed" THEN tally.failed + 1 ELSE tally.failed
        /\ tally'.lost = IF f = "lost" THEN tally.lost + 1 ELSE tally.lost
    BY <1>1, <1>5 DEF CountersOK
  <2>2. CountersOK'
    BY <1>1, <2>1 DEF CountersOK, Total
  <2> QED
    BY <1>1, <2>1, <2>2, Numbers DEF Grows
<1>6. CASE /\ Goto(x, "tell")
           /\ \E f \in {"sent", "failed", "lost"} : tally' = [tally EXCEPT ![f] = @ + 1]
  BY <1>4, <1>5, <1>6
<1> QED
  BY <1>3, <1>6 DEF CountOutcome

LEMMA CountDoneKeeps ==
  ASSUME RequestsAssumption, BatchesAssumption, SlotsOK, BatchInv, NEW x \in Executions,
         CountDone(x)
  PROVE  BatchInv'
<1>1. /\ task[x].pc = "tell" /\ DOMAIN task[x] = TaskFields
      /\ batch' = batch /\ CountersOK /\ Made /\ tally' = [tally EXCEPT !.done = @ + 1]
  BY DEF CountDone, At, SlotsOK, TaskOK, Tasks, BatchInv
<1>2. SavedOK /\ Told /\ (Unstalled => Within) /\ Executed
  BY DEF BatchInv, Lower, Upper, SavedOK, Told, Within
<1>3. /\ DOMAIN tally' = DOMAIN tally /\ tally'.total = tally.total
      /\ tally'.done = tally.done + 1 /\ tally'.sent = tally.sent
      /\ tally'.failed = tally.failed /\ tally'.lost = tally.lost
  BY <1>1 DEF CountersOK
<1>4. CountersOK' /\ Grows
  <2>1. CountersOK'
    BY <1>1, <1>3 DEF CountersOK, Total
  <2> QED
    BY <1>1, <1>3, <2>1, Numbers DEF Grows
<1>5. Acts(x) /\ task'[x].pc \in {"over", "tally"} /\ (task'[x].pc = "tally" => tally'.done = Total)
  <2>1. CASE tally'.done = tally.total
    <3> DEFINE y == [task[x] EXCEPT !.pc = "tally"]
    <3>1. Become(x, y) /\ y.message = task[x].message /\ y.pc = "tally" /\ job' = job
      BY <1>1, <2>1 DEF TaskFields, Goto, CountDone
    <3> HIDE DEF y
    <3>2. Acts(x) /\ task'[x] = y
      BY <1>1, <3>1, GoesOn
    <3>3. tally.total # None
      BY <1>1, <1>3, <2>1, Numbers DEF BatchesAssumption
    <3> QED
      BY <1>1, <2>1, <3>1, <3>2, <3>3 DEF CountersOK
  <2>2. CASE tally'.done # tally.total
    <3>1. Ends(x)
      BY <2>2 DEF CountDone
    <3>2. Acts(x) /\ task'[x].pc = "over"
      BY <1>1, <3>1, IsOver
    <3> QED
      BY <3>2
  <2> QED
    BY <2>1, <2>2
<1>6. Told'
  <2>1. Cardinality(Telling)' = Cardinality(Telling) - 1
    BY <1>1, <1>5, Tells DEF Acts
  <2> QED
    BY <1>1, <1>2, <1>3, <2>1, Numbers DEF Told
<1>7. ASSUME Unstalled
      PROVE  Within'
  <2>1. /\ Cardinality(Uncounted)' <= Cardinality(Uncounted)
        /\ Cardinality(Undone)' + 1 <= Cardinality(Undone)
    BY <1>1, <1>2, <1>5, <1>7, ActsShrink DEF Sends
  <2>2. Within
    BY <1>2, <1>7
  <2> QED
    BY <1>1, <1>3, <1>4, <2>1, <2>2, Numbers, NumbersAfter DEF Within, Total
<1>8. FinishOK(x)'
  <2>1. Total \in Nat /\ Total' = Total
    BY Sizes DEF Total
  <2> QED
    BY <1>5, <2>1 DEF FinishOK
<1>9. SavedOK'
  BY <1>1, <1>2, <1>4, SavedKept
<1> QED
  BY <1>1, <1>4, <1>5, <1>6, <1>7, <1>8, <1>9, ActsKeep

LEMMA ReadSentKeeps ==
  ASSUME RequestsAssumption, BatchesAssumption, SlotsOK, BatchInv, NEW x \in Executions,
         ReadSent(x)
  PROVE  BatchInv'
<1>1. /\ task[x].pc = "tally" /\ DOMAIN task[x] = TaskFields
      /\ batch' = batch /\ tally' = tally /\ job' = job /\ CountersOK /\ Made
  BY DEF ReadSent, At, SlotsOK, TaskOK, Tasks, BatchInv, batchVars
<1>2. SavedOK /\ Told /\ (Unstalled => Within) /\ Executed /\ FinishOK(x)
  BY DEF BatchInv, Lower, Upper, SavedOK, Told, Within, FinishOK
<1> DEFINE y == [task[x] EXCEPT !.pc = "save", !.loaded = tally.sent]
<1>3. /\ Become(x, y) /\ y.message = task[x].message /\ y.pc = "save" /\ y.loaded = tally.sent
  BY <1>1 DEF TaskFields, ReadSent
<1> HIDE DEF y
<1>4. Acts(x) /\ task'[x] = y
  BY <1>1, <1>3, GoesOn
<1>5. CountersOK' /\ Grows
  BY <1>1, Numbers DEF CountersOK, Grows, Total
<1>6. Told'
  BY <1>1, <1>2, <1>3, <1>4, Tells DEF Told, Acts
<1>7. ASSUME Unstalled
      PROVE  Within'
  <2>1. /\ Cardinality(Uncounted)' <= Cardinality(Uncounted)
        /\ Cardinality(Undone)' <= Cardinality(Undone)
    BY <1>1, <1>2, <1>3, <1>4, <1>7, ActsShrink DEF Sends
  <2>2. Within
    BY <1>2, <1>7
  <2> QED
    BY <1>1, <1>5, <2>1, <2>2, Numbers, NumbersAfter DEF Within, Total
<1>8. FinishOK(x)'
  <2>1. tally.done >= Total
    BY <1>1, <1>2 DEF FinishOK
  <2>2. tally.sent + tally.failed + tally.lost >= Total
    BY <1>1, <1>2, <2>1, Numbers DEF Told
  <2> QED
    BY <1>1, <1>3, <1>4, <2>1, <2>2, Numbers DEF FinishOK, Total
<1>9. SavedOK'
  BY <1>1, <1>2, <1>5, SavedKept
<1> QED
  BY <1>1, <1>4, <1>5, <1>6, <1>7, <1>8, <1>9, ActsKeep

(* Who is over may have told, or written, and may also just have failed or died. *)
LEMMA OverKeeps ==
  ASSUME RequestsAssumption, BatchesAssumption, SlotsOK, BatchInv, NEW x \in Executions,
         FinishFails(x) \/ SaveBatch(x) \/ Crash(x)
  PROVE  BatchInv'
<1>1. CountersOK /\ Made /\ task[x].pc # "over"
  BY DEF FinishFails, SaveBatch, Crash, At, BatchInv
<1>2. SavedOK /\ Told /\ (Unstalled => Within) /\ Executed /\ FinishOK(x)
  BY DEF BatchInv, Lower, Upper, SavedOK, Told, Within, FinishOK
<1>3. Ends(x) \/ (Become(x, Idle) /\ UNCHANGED job)
  BY DEF FinishFails, SaveBatch, Crash
<1>4. Acts(x) /\ task'[x].pc = "over"
  BY <1>1, <1>3, IsOver
<1>5. \/ UNCHANGED tally
      \/ task[x].pc = "tell" /\ tally' = [tally EXCEPT !.done = @ + 1]
  BY DEF FinishFails, SaveBatch, Crash, At
<1>6. \/ UNCHANGED batch
      \/ /\ SaveBatch(x) /\ task[x].pc = "save" /\ batch.status # "deleted" /\ UNCHANGED tally
         /\ batch' = [status |-> "completed", sent |-> task[x].loaded, failed |-> tally.failed]
  BY DEF FinishFails, SaveBatch, Crash, At
<1>7. /\ DOMAIN tally' = DOMAIN tally /\ tally'.total = tally.total
      /\ \/ tally'.done = tally.done
         \/ tally'.done = tally.done + 1 /\ task[x].pc = "tell"
      /\ tally'.sent = tally.sent /\ tally'.failed = tally.failed /\ tally'.lost = tally.lost
  BY <1>1, <1>5 DEF CountersOK
<1>8. CountersOK' /\ Grows
  <2>1. /\ DOMAIN batch' = {"status", "sent", "failed"}
        /\ batch'.sent \in Nat /\ batch'.failed \in Nat
    BY <1>1, <1>2, <1>6 DEF CountersOK, FinishOK
  <2>2. CountersOK'
    BY <1>1, <1>7, <2>1 DEF CountersOK, Total
  <2> QED
    BY <1>1, <1>7, <2>2, Numbers DEF Grows
<1>9. Told'
  <2>1. /\ task[x].pc = "tell" => Cardinality(Telling)' = Cardinality(Telling) - 1
        /\ task[x].pc # "tell" => Cardinality(Telling)' = Cardinality(Telling)
    BY <1>4, Tells DEF Acts
  <2> QED
    BY <1>1, <1>2, <1>7, <2>1, Numbers DEF Told
<1>10. ASSUME Unstalled
       PROVE  Within'
  <2>1. /\ Cardinality(Uncounted)' <= Cardinality(Uncounted)
        /\ Cardinality(Undone)' <= Cardinality(Undone)
        /\ task[x].pc = "tell" => Cardinality(Undone)' + 1 <= Cardinality(Undone)
    BY <1>2, <1>4, <1>10, ActsShrink DEF Sends
  <2>2. Within
    BY <1>2, <1>10
  <2> QED
    BY <1>1, <1>7, <1>8, <2>1, <2>2, Numbers, NumbersAfter DEF Within, Total
<1>11. FinishOK(x)'
  BY <1>4 DEF FinishOK
<1>12. SavedOK'
  <2>1. CASE UNCHANGED batch
    BY <1>2, <1>8, <2>1, SavedKept
  <2>2. CASE /\ task[x].pc = "save" /\ UNCHANGED tally
             /\ batch' = [status |-> "completed", sent |-> task[x].loaded, failed |-> tally.failed]
    <3>1. batch'.sent = task[x].loaded /\ batch'.failed = tally.failed
      BY <2>2
    <3> QED
      BY <1>1, <1>2, <2>2, <3>1, Numbers DEF SavedOK, FinishOK, Total
  <2> QED
    BY <1>6, <2>1, <2>2
<1>13. batch.status # "none" => batch'.status # "none"
  BY <1>6
<1> QED
  BY <1>1, <1>4, <1>8, <1>9, <1>10, <1>11, <1>12, <1>13, ActsKeep
-----------------------------------------------------------------------------
(* A step that moves no message: no one executes another, or comes to tell. *)

LEMMA QuietKeeps ==
  ASSUME RequestsAssumption, BatchesAssumption, BatchInv, CountersOK', Made', UNCHANGED job,
         tally'.done = tally.done, tally'.sent = tally.sent, tally'.failed = tally.failed,
         tally'.lost = tally.lost, batch'.sent = batch.sent, batch'.failed = batch.failed,
         batch'.status = "completed" => batch.status = "completed",
         \A x \in Executions :
           \/ task'[x] = task[x]
           \/ {task[x].pc, task'[x].pc} \subseteq Sends /\ task'[x].message = task[x].message
  PROVE  BatchInv'
<1>1. Grows
  BY Numbers DEF Grows, BatchInv
<1>2. ASSUME NEW x \in Executions
      PROVE  /\ task'[x].pc \in Sends <=> task[x].pc \in Sends
             /\ task'[x].pc \notin Sends => task'[x] = task[x]
             /\ task'[x].pc \in Sends => task'[x].pc # "tell" /\ task'[x].pc # "over"
             /\ task[x].pc \in Sends => task[x].pc # "tell" /\ task[x].pc # "over"
             /\ task'[x].message = task[x].message
  <2>1. "tell" \notin Sends /\ "over" \notin Sends
    BY DEF Sends
  <2> QED
    BY <2>1
<1>3. Telling' = Telling
  BY <1>2 DEF Telling
<1>4. ASSUME NEW pcs, pcs \in {Sends, Sends \cup {"tell"}}, NEW m \in Messages
      PROVE  Open(m, pcs)' <=> Open(m, pcs)
  <2>1. \A x \in Executions : task'[x].pc \in pcs <=> task[x].pc \in pcs
    BY <1>2, <1>4
  <2> QED
    BY <1>2, <2>1 DEF Open, Executes
<1>5. Uncounted' = Uncounted /\ Undone' = Undone
  BY <1>4 DEF Uncounted, Undone
<1>6. Unstalled' = Unstalled /\ (Unstalled => Within)
  BY DEF Unstalled, BatchInv, Upper, Within
<1>7. Upper'
  BY <1>5, <1>6 DEF Upper, Within, Total
<1>8. Executed'
  BY <1>2, <1>6 DEF BatchInv, Executed, Executes
<1>9. ASSUME NEW x \in Executions
      PROVE  FinishOK(x)'
  <2>1. FinishOK(x)
    BY DEF BatchInv, Lower, FinishOK
  <2>2. CASE task'[x] = task[x]
    BY <1>1, <2>1, <2>2, FinishKept
  <2>3. CASE task'[x].pc \in Sends
    BY <2>3 DEF FinishOK, Sends
  <2> QED
    BY <1>2, <2>2, <2>3
<1>10. SavedOK'
  BY <1>1, SavedKept DEF BatchInv, Lower, SavedOK
<1>11. Told'
  BY <1>3 DEF BatchInv, Lower, Told
<1>12. Lower'
  BY <1>9, <1>10, <1>11 DEF Lower, FinishOK, SavedOK, Told
<1> QED
  BY <1>7, <1>8, <1>12 DEF BatchInv

LEMMA StillMade ==
  ASSUME Made, UNCHANGED job, batch.status # "none" => batch'.status # "none",
         \A r \in Requests : task'[r].pc \in Making => task[r].pc \in Making
  PROVE  Made'
BY DEF Made

(* The steps of others than executions, and those of the calls. *)
LEMMA ElsewhereKeeps ==
  ASSUME RequestsAssumption, BatchesAssumption, BatchInv, UNCHANGED batchVars,
         \A r \in Requests : task'[r].pc \in Making => task[r].pc \in Making,
         \A x \in Executions :
           \/ task'[x] = task[x]
           \/ {task[x].pc, task'[x].pc} \subseteq Sends /\ task'[x].message = task[x].message
  PROVE  BatchInv'
<1>1. batch' = batch /\ tally' = tally /\ job' = job
  BY DEF batchVars
<1>2. CountersOK'
  BY <1>1 DEF BatchInv, CountersOK, Total
<1>3. Made'
  BY <1>1, StillMade DEF BatchInv
<1> QED
  BY <1>1, <1>2, <1>3, QuietKeeps

(* One request at a time makes the batch. *)
LEMMA RequestMoves ==
  ASSUME RequestsAssumption, SlotsOK, NEW r \in Requests, NEW y, Become(r, y)
  PROVE  /\ task'[r] = y /\ \A o \in Requests \ {r} : task'[o] = task[o]
         /\ \A x \in Executions : task'[x] = task[x]
<1>1. r \in Tasks /\ r \notin Executions
  BY DEF Tasks, RequestsAssumption
<1> QED
  BY <1>1, Becomes DEF Tasks

LEMMA CreateRowKeeps ==
  ASSUME RequestsAssumption, BatchesAssumption, SlotsOK, BatchInv, NEW r \in Requests, CreateRow(r)
  PROVE  BatchInv'
<1>1. /\ batch.status = "none" /\ batch' = [batch EXCEPT !.status = "processing"]
      /\ tally' = tally /\ job' = job /\ CountersOK /\ Made
  BY DEF CreateRow, BatchInv
<1>2. /\ batch'.status = "processing" /\ batch'.sent = batch.sent /\ batch'.failed = batch.failed
      /\ DOMAIN batch' = DOMAIN batch
  BY <1>1 DEF CountersOK
<1>3. /\ \A o \in Requests \ {r} : task'[o] = task[o]
      /\ \A x \in Executions : task'[x] = task[x]
  BY RequestMoves DEF CreateRow, Goto
<1>4. \A o \in Requests : task[o].pc \notin Making
  BY <1>1 DEF Made
<1>5. \A m \in Messages : job[m].status = "none"
  BY <1>1 DEF Made
<1>6. Made'
  BY <1>1, <1>2, <1>3, <1>4, <1>5 DEF Made
<1>7. CountersOK'
  BY <1>1, <1>2 DEF CountersOK, Total
<1> QED
  BY <1>1, <1>2, <1>3, <1>6, <1>7, QuietKeeps

LEMMA SetTotalKeeps ==
  ASSUME RequestsAssumption, BatchesAssumption, SlotsOK, BatchInv, NEW r \in Requests, SetTotal(r)
  PROVE  BatchInv'
<1>1. /\ batch' = batch /\ tally' = [tally EXCEPT !.total = Total] /\ job' = job
      /\ CountersOK /\ Made /\ task[r].pc \in Making
  BY DEF SetTotal, BatchInv, At, Making
<1>2. /\ DOMAIN tally' = DOMAIN tally /\ tally'.total = Total /\ tally'.done = tally.done
      /\ tally'.sent = tally.sent /\ tally'.failed = tally.failed /\ tally'.lost = tally.lost
  BY <1>1 DEF CountersOK
<1>3. /\ \A o \in Requests \ {r} : task'[o] = task[o]
      /\ \A x \in Executions : task'[x] = task[x]
  BY RequestMoves DEF SetTotal, Goto
<1>4. \A o \in Requests : task'[o].pc \in Making => task[o].pc \in Making
  BY <1>1, <1>3
<1>5. Made'
  BY <1>1, <1>4, StillMade
<1>6. CountersOK'
  BY <1>1, <1>2 DEF CountersOK, Total
<1> QED
  BY <1>1, <1>2, <1>3, <1>5, <1>6, QuietKeeps

LEMMA NotQueuedKeeps ==
  ASSUME RequestsAssumption, BatchesAssumption, SlotsOK, BatchInv, NEW r \in Requests, NotQueued(r)
  PROVE  BatchInv'
<1>1. batch' = batch /\ tally' = tally /\ job' = job /\ task[r].pc \in Making /\ CountersOK /\ Made
  BY DEF NotQueued, Making, BatchInv
<1>2. /\ \A o \in Requests \ {r} : task'[o] = task[o]
      /\ \A x \in Executions : task'[x] = task[x]
  BY RequestMoves DEF NotQueued
<1>3. Made' /\ CountersOK'
  BY <1>1, <1>2, StillMade DEF CountersOK, Total
<1> QED
  BY <1>1, <1>2, <1>3, QuietKeeps

LEMMA DeleteOrForgetKeeps ==
  ASSUME RequestsAssumption, BatchesAssumption, BatchInv, DeleteBatch \/ ForgetTotal
  PROVE  BatchInv'
<1>1. task' = task /\ job' = job /\ CountersOK /\ Made
  BY DEF DeleteBatch, ForgetTotal, BatchInv
<1>2. CASE DeleteBatch
  <2>1. /\ tally' = tally /\ batch'.status = "deleted" /\ batch'.sent = batch.sent
        /\ batch'.failed = batch.failed /\ DOMAIN batch' = DOMAIN batch
    BY <1>1, <1>2 DEF DeleteBatch, CountersOK
  <2>2. Made' /\ CountersOK'
    BY <1>1, <2>1, StillMade DEF CountersOK, Total
  <2> QED
    BY <1>1, <2>1, <2>2, QuietKeeps
<1>3. CASE ForgetTotal
  <2>1. /\ batch' = batch /\ DOMAIN tally' = DOMAIN tally /\ tally'.total = None
        /\ tally'.done = tally.done /\ tally'.sent = tally.sent
        /\ tally'.failed = tally.failed /\ tally'.lost = tally.lost
    BY <1>1, <1>3 DEF ForgetTotal, CountersOK
  <2>2. Made' /\ CountersOK'
    BY <1>1, <2>1, StillMade DEF CountersOK, Total
  <2> QED
    BY <1>1, <2>1, <2>2, QuietKeeps
<1> QED
  BY <1>2, <1>3

(* What is queued was open before: nobody has begun to execute it. *)
LEMMA AddJobsKeeps ==
  ASSUME RequestsAssumption, BatchesAssumption, SlotsOK, BatchInv, NEW r \in Requests, AddJobs(r)
  PROVE  BatchInv'
<1>1. /\ task[r].pc = "queue" /\ batch' = batch /\ tally' = tally /\ CountersOK /\ Made
      /\ job' = [m \in Messages |-> [job[m] EXCEPT !.status = "waiting"]]
  BY DEF AddJobs, At, BatchInv
<1>2. task[r].pc \in Making
  BY <1>1 DEF Making
<1>3. batch.status # "none" /\ \A m \in Messages : job[m].status = "none" /\ JobOK(job[m])
  BY <1>1, <1>2 DEF Made
<1>4. ASSUME NEW m \in Messages
      PROVE  /\ JobOK(job'[m]) /\ job'[m].status = "waiting" /\ job'[m].stalls = job[m].stalls
  <2>1. job'[m] = [job[m] EXCEPT !.status = "waiting"] /\ JobOK(job[m]) /\ job[m].status = "none"
    BY <1>1, <1>3
  <2> QED
    BY <2>1 DEF JobOK
<1>5. /\ \A o \in Requests \ {r} : task'[o] = task[o]
      /\ \A x \in Executions : task'[x] = task[x]
  BY RequestMoves DEF AddJobs
<1>6. task'[r].pc = "clean"
  <2>1. task'[r] = Sent(r) /\ DOMAIN task[r] = TaskFields
    BY RequestMoves DEF AddJobs, SlotsOK, TaskOK, Tasks
  <2> QED
    BY <2>1 DEF Sent, TaskFields
<1>7. \A o \in Requests : task'[o].pc \notin Making
  <2>1. \A o \in Requests \ {r} : task[o].pc \notin Making
    BY <1>1, <1>2 DEF Made
  <2> QED
    BY <1>5, <1>6, <2>1 DEF Making
<1>8. Made'
  <2>1. DOMAIN job' = Messages
    BY <1>1
  <2> QED
    BY <1>1, <1>3, <1>4, <1>7, <2>1 DEF Made
<1>9. Unstalled' <=> Unstalled
  BY <1>4 DEF Unstalled
<1>10. Executed'
  <2>1. ASSUME Unstalled, NEW x \in Executions
        PROVE  task[x].pc = "over"
    BY <1>3, <2>1 DEF BatchInv, Executed, Executes
  <2> QED
    BY <1>5, <1>9, <2>1 DEF Executed
<1>11. Telling' = Telling
  BY <1>5 DEF Telling
<1>12. Uncounted' = Uncounted /\ Undone' = Undone
  BY <1>3, <1>4 DEF Uncounted, Undone, Open
<1>13. Upper'
  BY <1>1, <1>9, <1>12 DEF BatchInv, Upper, Total
<1>14. Lower'
  BY <1>1, <1>5, <1>11 DEF BatchInv, Lower, Total
<1>15. CountersOK'
  BY <1>1 DEF CountersOK, Total
<1> QED
  BY <1>8, <1>10, <1>13, <1>14, <1>15 DEF BatchInv

LEMMA TakeKeeps ==
  ASSUME RequestsAssumption, BatchesAssumption, SlotsOK, BatchInv, NEW x \in Executions,
         NEW m \in Messages, Take(x, m)
  PROVE  BatchInv'
<1>1. /\ task[x].pc = "over" /\ job[m].status = "waiting" /\ batch' = batch /\ tally' = tally
      /\ job' = [job EXCEPT ![m].status = "active", ![m].owner = x] /\ CountersOK /\ Made
  BY DEF Take, At, BatchInv
<1>2. /\ task'[x].message = m /\ task'[x].pc \in {"prepare", "send"}
      /\ Others(x)
  <2> DEFINE k == IF m \in MediaMessages THEN "mediaJob" ELSE "job"
             pc == IF m \in MediaMessages THEN "prepare" ELSE "send"
             y == [NewTask(k, None, pc) EXCEPT !.message = m]
  <2>1. Become(x, y) /\ pc \in {"prepare", "send"}
    BY DEF Take
  <2> HIDE DEF k, pc
  <2>2. y.message = m /\ y.pc = pc
    BY DEF NewTask
  <2> HIDE DEF y
  <2>3. x \in Tasks /\ x \notin Requests
    BY DEF Tasks, RequestsAssumption
  <2>4. task'[x] = y /\ \A o \in Tasks \ {x} : task'[o] = task[o]
    BY <2>1, <2>3, Becomes
  <2> QED
    BY <2>1, <2>2, <2>3, <2>4 DEF Others, Tasks
<1>3. /\ DOMAIN job' = Messages /\ \A o \in Messages \ {m} : job'[o] = job[o]
      /\ DOMAIN job'[m] = {"status", "owner", "stalls"}
      /\ job'[m].status = "active" /\ job'[m].owner = x /\ job'[m].stalls = job[m].stalls
      /\ job[m].stalls \in Nat
  <2>1. DOMAIN job = Messages /\ JobOK(job[m])
    BY <1>1 DEF Made
  <2> QED
    BY <1>1, <2>1 DEF JobOK
<1>4. batch.status # "none" /\ \A r \in Requests : task[r].pc \notin Making
  BY <1>1 DEF Made
<1>5. Made'
  <2>1. \A o \in Messages : JobOK(job'[o])
    BY <1>1, <1>3 DEF Made, JobOK
  <2>2. \A r \in Requests : task'[r].pc \notin Making
    BY <1>2, <1>4 DEF Others
  <2> QED
    BY <1>1, <1>3, <1>4, <2>1, <2>2 DEF Made
<1>6. Unstalled' <=> Unstalled
  BY <1>3 DEF Unstalled
<1>7. Executed'
  <2> SUFFICES ASSUME Unstalled, NEW o \in Executions, task'[o].pc # "over"
               PROVE  task'[o].message \in Messages /\ Executes(o, task[o].message)'
    BY <1>6 DEF Executed
  <2>1. CASE o = x
    BY <1>2, <1>3, <2>1 DEF Executes
  <2>2. CASE o # x
    <3>1. task'[o] = task[o] /\ task[o].message \in Messages /\ Executes(o, task[o].message)
      BY <1>2, <2>2 DEF BatchInv, Executed, Others
    <3>2. task[o].message # m
      BY <1>1, <3>1 DEF Executes
    <3> QED
      BY <1>3, <3>1, <3>2 DEF Executes
  <2> QED
    BY <2>1, <2>2
<1>8. ASSUME NEW pcs, NEW w \in Messages, Open(w, pcs)'
      PROVE  Open(w, pcs)
  <2>1. CASE w = m
    BY <1>1, <2>1 DEF Open
  <2>2. CASE w # m
    <3>1. job'[w] = job[w]
      BY <1>3, <2>2
    <3>2. ASSUME NEW o \in Executions, Executes(o, w)', task'[o].pc \in pcs
          PROVE  Executes(o, w) /\ task[o].pc \in pcs
      BY <1>2, <2>2, <3>1, <3>2 DEF Executes, Others
    <3> QED
      BY <1>8, <3>1, <3>2 DEF Open
  <2> QED
    BY <2>1, <2>2
<1>9. /\ \A w \in Uncounted' : w \in Uncounted
      /\ \A w \in Undone' : w \in Undone
  BY <1>8 DEF Uncounted, Undone
<1>10. /\ Cardinality(Uncounted)' <= Cardinality(Uncounted)
       /\ Cardinality(Undone)' <= Cardinality(Undone)
  <2>1. /\ IsFiniteSet(Uncounted) /\ IsFiniteSet(Undone)
        /\ Cardinality(Uncounted)' = Cardinality(Uncounted')
        /\ Cardinality(Undone)' = Cardinality(Undone')
    BY Sizes
  <2> QED
    BY <1>9, <2>1, Smaller
<1>11. CountersOK'
  BY <1>1 DEF CountersOK, Total
<1>12. Upper'
  <2>1. Unstalled => Within
    BY DEF BatchInv, Upper, Within
  <2> SUFFICES ASSUME Unstalled PROVE Within'
    BY <1>6 DEF Upper, Within
  <2> QED
    BY <1>1, <1>10, <1>11, <2>1, Numbers, NumbersAfter DEF Within, Total
<1>13. Cardinality(Telling)' = Cardinality(Telling)
  BY <1>1, <1>2, Tells
<1>14. Lower'
  <2>1. ASSUME NEW o \in Executions, task'[o].pc \in {"tally", "save"}
        PROVE  task'[o] = task[o]
    BY <1>2, <2>1 DEF Others
  <2> QED
    BY <1>1, <1>13, <2>1 DEF BatchInv, Lower, Total
<1> QED
  BY <1>5, <1>7, <1>11, <1>12, <1>14 DEF BatchInv

(* From then on, nothing is claimed of what is counted twice. *)
LEMMA StallKeeps ==
  ASSUME RequestsAssumption, BatchesAssumption, BatchInv, NEW m \in Messages, Stall(m)
  PROVE  BatchInv'
<1>1. /\ job[m].status = "active" /\ task' = task /\ batch' = batch /\ tally' = tally
      /\ job' = [job EXCEPT ![m] =
           [status |-> IF @.stalls = 0 THEN "waiting" ELSE "failed", owner |-> None,
            stalls |-> @.stalls + 1]]
      /\ CountersOK /\ Made
  BY DEF Stall, BatchInv
<1>2. /\ DOMAIN job' = Messages /\ \A o \in Messages \ {m} : job'[o] = job[o]
      /\ job'[m] = [status |-> IF job[m].stalls = 0 THEN "waiting" ELSE "failed", owner |-> None,
                    stalls |-> job[m].stalls + 1]
      /\ job[m].stalls \in Nat
  BY <1>1 DEF Made, JobOK
<1>3. ~Unstalled'
  BY <1>2 DEF Unstalled
<1>4. Made'
  <2>1. \A o \in Messages : JobOK(job'[o])
    BY <1>1, <1>2 DEF Made, JobOK
  <2>2. batch.status # "none" /\ \A r \in Requests : task[r].pc \notin Making
    BY <1>1 DEF Made
  <2> QED
    BY <1>1, <1>2, <2>1, <2>2 DEF Made
<1>5. Executed' /\ Upper'
  BY <1>3 DEF Executed, Upper
<1>6. Lower' /\ CountersOK'
  BY <1>1 DEF BatchInv, Lower, Telling, CountersOK, Total
<1> QED
  BY <1>4, <1>5, <1>6 DEF BatchInv

LEMMA BatchKept ==
  ASSUME RequestsAssumption, BatchesAssumption, RequestInv, BatchInv, [Next]_vars
  PROVE  BatchInv'
<1>1. SlotsOK
  BY DEF RequestInv
<1>2. ASSUME NEW r \in Tasks, Work(r), UNCHANGED <<proxyVars, batchVars>>
      PROVE  BatchInv'
  <2>1. /\ \A o \in Tasks \ {r} : task'[o] = task[o]
        /\ task'[r].message = task[r].message
        /\ task'[r].pc \in Making => task[r].pc \in Making
        /\ r \in Executions => {task[r].pc, task'[r].pc} \subseteq Sends
    BY <1>1, <1>2, WorkMoves
  <2>2. \A o \in Requests : task'[o].pc \in Making => task[o].pc \in Making
    BY <2>1 DEF Tasks
  <2>3. \A x \in Executions :
          \/ task'[x] = task[x]
          \/ {task[x].pc, task'[x].pc} \subseteq Sends /\ task'[x].message = task[x].message
    BY <2>1 DEF Tasks
  <2>4. UNCHANGED batchVars
    BY <1>2
  <2> QED
    BY <2>2, <2>3, <2>4, ElsewhereKeeps
<1>3. ASSUME NEW r \in Requests, ApplyDefaultProxy(r), UNCHANGED batchVars
      PROVE  BatchInv'
  <2>1. CASE BudgetEnds(r)
    <3>1. task' = task
      BY <2>1 DEF BudgetEnds
    <3> QED
      BY <1>3, <3>1, ElsewhereKeeps
  <2>2. CASE ~BudgetEnds(r)
    <3>1. PICK y : ProxyStep(r, y)
      BY <1>3, <2>2, ProxyActions
    <3>2. task[r].kind = "proxy"
      <4>1. Optional(r) \/ task[r].pc \in ProxySteps
        BY <1>3 DEF ApplyDefaultProxy, SetProxy, AwaitSet, CheckProxy, AwaitCheck, CompareProxy,
           Interrupt, BudgetEnds, At, ProxySteps
      <4>2. RequestOK(task[r])
        BY <1>1 DEF SlotsOK, TaskOK, Tasks
      <4> QED
        BY <4>1, <4>2 DEF Optional, RequestOK
    <3>3. Become(r, y) /\ RequestOK(y) /\ y.kind = "proxy"
      BY <3>1, <3>2 DEF ProxyStep, Step, TaskOK, Become
    <3>4. y.pc \notin Making
      BY <3>3 DEF RequestOK, ProxySteps, Making
    <3>5. /\ task'[r] = y /\ \A o \in Requests \ {r} : task'[o] = task[o]
          /\ \A x \in Executions : task'[x] = task[x]
      BY <1>1, <3>3, RequestMoves
    <3>6. \A o \in Requests : task'[o].pc \in Making => task[o].pc \in Making
      BY <3>4, <3>5
    <3> QED
      BY <1>3, <3>5, <3>6, ElsewhereKeeps
  <2> QED
    BY <2>1, <2>2
<1>4. CASE \/ (TakesEffect \/ OperatorSets) /\ UNCHANGED batchVars
           \/ (Administer \/ Pass) /\ UNCHANGED <<proxyVars, batchVars>>
           \/ UNCHANGED vars
  <2>1. task' = task /\ UNCHANGED batchVars
    BY <1>4 DEF TakesEffect, OperatorSets, Administer, Deactivate, RotateKey, MoveProvider,
       RemoveInstance, Logout, FinishEdit, Pass, ExpireAuth, ExpirePlace, ExpireRate, Rest, vars,
       requestVars
  <2> QED
    BY <2>1, ElsewhereKeeps
<1>5. ASSUME NEW r \in Requests, Prepare(r)
      PROVE  BatchInv'
  BY <1>1, <1>5, CreateRowKeeps, SetTotalKeeps, AddJobsKeeps, NotQueuedKeeps DEF Prepare
<1>6. ASSUME NEW x \in Executions, Execute(x)
      PROVE  BatchInv'
  BY <1>1, <1>6, TakeKeeps, CountOutcomeKeeps, CountDoneKeeps, ReadSentKeeps, OverKeeps DEF Execute
<1>7. CASE (\E m \in Messages : Stall(m)) \/ DeleteBatch \/ ForgetTotal
  BY <1>7, StallKeeps, DeleteOrForgetKeeps
<1> QED
  BY <1>2, <1>3, <1>4, <1>5, <1>6, <1>7 DEF Next

LEMMA BatchStarts ==
  ASSUME RequestsAssumption, BatchesAssumption, Init
  PROVE  BatchInv
<1>1. /\ batch = [status |-> "none", sent |-> 0, failed |-> 0]
      /\ tally = [total |-> None, done |-> 0, sent |-> 0, failed |-> 0, lost |-> 0]
      /\ job = [m \in Messages |-> [status |-> "none", owner |-> None, stalls |-> 0]]
  BY DEF Init
<1>2. PICK w \in Workloads : StartRequests(w)
  BY DEF Init
<1>3. \A x \in Executions : task[x].pc = "over"
  <2>1. \A x \in Executions : task[x] = Idle
    BY <1>2 DEF StartRequests, Tasks
  <2> QED
    BY <2>1 DEF Idle, NewTask
<1>4. \A r \in Requests : task[r].pc \notin Making
  <2> TAKE r \in Requests
  <2>1. \/ task[r] = Idle
        \/ \E k, key : \E pc \in {"set", "new"} : task[r] = NewTask(k, key, pc)
    BY <1>2 DEF StartRequests, Tasks, RequestsAssumption
  <2>2. CASE task[r] = Idle
    BY <2>2 DEF Idle, NewTask, Making
  <2>3. ASSUME NEW k, NEW key, NEW pc \in {"set", "new"}, task[r] = NewTask(k, key, pc)
        PROVE  task[r].pc \notin Making
    BY <2>3 DEF NewTask, Making
  <2> QED
    BY <2>1, <2>2, <2>3
<1>5. CountersOK
  BY <1>1 DEF CountersOK
<1>6. Made
  BY <1>1, <1>4 DEF Made, JobOK
<1>7. Executed
  BY <1>3 DEF Executed
<1>8. Telling = {} /\ Uncounted \subseteq Messages /\ Undone \subseteq Messages
  BY <1>3 DEF Telling, Uncounted, Undone
<1>9. /\ Cardinality(Telling) = 0 /\ Cardinality(Uncounted) <= Total
      /\ Cardinality(Undone) <= Total /\ Total \in Nat
  <2>1. IsFiniteSet(Messages) /\ Total \in Nat
    BY Sizes DEF BatchesAssumption
  <2>2. Uncounted \in SUBSET Messages /\ Undone \in SUBSET Messages
    BY <1>8
  <2> HIDE DEF Uncounted, Undone
  <2> QED
    BY <1>8, <2>1, <2>2, FS_EmptySet, FS_Subset DEF Total
<1>10. Lower
  BY <1>1, <1>3, <1>9 DEF Lower
<1>11. Upper
  <2>1. Cardinality(Uncounted) \in Nat /\ Cardinality(Undone) \in Nat
    BY Sizes
  <2> QED
    BY <1>1, <1>9, <2>1 DEF Upper
<1> QED
  BY <1>5, <1>6, <1>7, <1>10, <1>11 DEF BatchInv

LEMMA BatchCounts ==
  ASSUME BatchesAssumption, BatchInv
  PROVE  BatchAccounted
<1> SUFFICES ASSUME batch.status = "completed" PROVE BatchAccounted
  BY DEF BatchAccounted
<1>1. /\ tally.done >= Total /\ batch.sent + batch.failed + tally.lost >= Total
      /\ batch.sent <= tally.sent /\ batch.failed <= tally.failed /\ CountersOK /\ Made
  BY DEF BatchInv, Lower
<1>2. ASSUME Unstalled
      PROVE  /\ batch.sent + batch.failed <= Total
             /\ \A m \in Messages : job[m].status \in {"active", "ended"}
  <2>1. Within
    BY <1>2 DEF BatchInv, Upper, Within
  <2>2. batch.sent + batch.failed <= Total
    BY <1>1, <2>1, Numbers DEF Within
  <2>3. Cardinality(Undone) = 0
    <3>1. /\ tally.done \in Nat /\ Total \in Nat /\ Cardinality(Undone) \in Nat
          /\ tally.done + Cardinality(Undone) <= Total /\ tally.done >= Total
      BY <1>1, <2>1, Numbers DEF Within
    <3> HIDE DEF Total
    <3> QED
      BY <3>1
  <2>4. Undone = {}
    BY <2>3, Sizes, FS_EmptySet
  <2>5. ASSUME NEW m \in Messages
        PROVE  job[m].status \in {"active", "ended"}
    BY <1>1, <1>2, <2>4 DEF Undone, Open, Made, JobOK, Unstalled
  <2> QED
    BY <2>2, <2>5
<1> QED
  BY <1>1, <1>2 DEF BatchAccounted, Unstalled
-----------------------------------------------------------------------------
(* What a completed batch says adds up to its messages, for any number of them and of workers,   *)
(* whoever crashes and whatever the cache fails to count; and if nothing was executed twice,     *)
(* none is counted twice or missing (batch.worker.ts 166).                                       *)
THEOREM BatchesAddUp == Spec => []BatchAccounted
<1>1. Init => BatchInv
  BY RequestsAssumption, BatchesAssumption, BatchStarts
<1>2. RequestInv /\ BatchInv /\ [Next]_vars => BatchInv'
  BY RequestsAssumption, BatchesAssumption, BatchKept
<1>3. BatchInv => BatchAccounted
  BY BatchesAssumption, BatchCounts
<1> QED
  BY <1>1, <1>2, <1>3, RequestsTracked, PTL DEF Spec
=============================================================================
