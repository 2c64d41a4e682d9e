------------------------------ MODULE Requests ------------------------------
(***************************************************************************)
(* A request of a client, from its key to the provider: authenticated from *)
(* a cache, limited in rate, resolved to an instance from another cache,   *)
(* and sent by the HTTP client.  A media request holds one of a few slots  *)
(* from its arrival to the end of its work, which may outlive its client.  *)
(*                                                                         *)
(*   apikey.guard.ts, rate-limit.guard.ts, instance.resolver.ts   the way  *)
(*   media-http-admission.ts, timeout.interceptor.ts   slots and deadlines *)
(*   media-preparation.service.ts, evolution.media.ts  the temporary file  *)
(*   evolution.http.ts                        retries and circuit breaker  *)
(*                                                                         *)
(* There is one product, one instance and one provider.  An administrator  *)
(* deactivates the product, replaces its key, moves the provider or        *)
(* removes the instance, and then, or before, invalidates a cache.         *)
(***************************************************************************)
EXTENDS Integers, FiniteSets, Sequences

CONSTANTS
  Requests,      \* requests of clients, each made once
  Executions,    \* executions of queued messages, see Batches
  Keys,          \* keys the product may have, one after the other
  MaxConcurrent, \* MEDIA_MAX_CONCURRENT
  RateLimit,     \* DEFAULT_RATE_LIMIT
  Threshold,     \* CIRCUIT_BREAKER_THRESHOLD
  MaxRetries,    \* PROXY_MAX_RETRIES
  None

VARIABLES
  product,   \* the product: its key, and whether it is active
  instance,  \* the instance: whether it exists, and where its provider is
  auth,      \* cached by key: whether the product is active, and whether that expires
  place,     \* cached: where the instance is
  rate,      \* requests counted, and whether the count will expire
  slots,     \* media requests admitted
  breaker,   \* the circuit of the provider
  task,      \* requests and executions
  edit       \* the steps left of an edit; bounds: edits left, whether anything expires

requestVars == <<product, instance, auth, place, rate, slots, breaker, task, edit>>

(* What is said of a slot, of why work must stop, of an outcome, of what a provider has. *)
Words == {"held", "freed", "client_disconnected", "request_timeout", "download_timeout",
          "provider_timeout", "confirmed", "unconfirmed", "sent", "other"}

ASSUME RequestsAssumption ==
  /\ MaxConcurrent \in Nat \ {0} /\ RateLimit \in Nat \ {0}
  /\ Threshold \in Nat \ {0} /\ MaxRetries \in Nat
  /\ Requests \cap Executions = {} /\ IsFiniteSet(Requests)
  /\ None \notin Words

Tasks == Requests \cup Executions

(* slot: held, freed, or None; adopted: the work releases it; reason: why the work must stop. *)
NewTask(kind, key, pc) ==
  [kind |-> kind, key |-> key, pc |-> pc, loaded |-> None, slot |-> None, adopted |-> FALSE,
   gone |-> FALSE, late |-> FALSE, reason |-> None, file |-> FALSE, calls |-> 0,
   outcome |-> None, message |-> None]

Idle == NewTask("job", None, "over")

Cached(x) == [value |-> x, expires |-> TRUE]

(* w is a workload: the key of the product; what requests ask for, or None; whether the      *)
(* caches know the product and the instance, and the requests counted before these; how many *)
(* edits there may be, and whether it lasts long enough for anything to expire.              *)
StartRequests(w) ==
  /\ product = [key |-> w.key, active |-> TRUE]
  /\ instance = [exists |-> TRUE, at |-> 0]
  /\ auth = [k \in Keys |-> IF w.warm /\ k = product.key THEN Cached(TRUE) ELSE None]
  /\ place = IF w.warm THEN Cached(0) ELSE None
  /\ rate = [count |-> w.counted, expires |-> w.counted > 0]
  /\ slots = 0
  /\ breaker = [state |-> "CLOSED", failures |-> 0, rested |-> FALSE]
  /\ task = [r \in Tasks |->
       IF r \in Executions \/ w.kind[r] = None THEN Idle
       ELSE NewTask(w.kind[r], product.key, IF w.kind[r] = "proxy" THEN "set" ELSE "new")]
  /\ edit = [steps |-> <<>>, left |-> w.edits, long |-> w.long]

Become(r, x) == task' = [task EXCEPT ![r] = x]
Goto(r, pc) == Become(r, [task[r] EXCEPT !.pc = pc])
At(r, pc) == task[r].pc = pc
Media(r) == task[r].kind \in {"media", "mediaJob"}
Adopted(x) == [x EXCEPT !.adopted = TRUE]

(* A slot is given back once, whoever does it first. *)
Freed(x) == IF x.slot = "held" THEN [x EXCEPT !.slot = "freed"] ELSE x
Release(r, x) ==
  /\ Become(r, Freed(x))
  /\ slots' = slots - (IF x.slot = "held" THEN 1 ELSE 0)
-----------------------------------------------------------------------------
(* The way in. *)

Arrive(r) ==
  /\ At(r, "new")
  /\ IF ~Media(r) THEN Goto(r, "guard") /\ UNCHANGED slots
     ELSE IF slots >= MaxConcurrent THEN Goto(r, "over") /\ UNCHANGED slots
     ELSE /\ Become(r, [task[r] EXCEPT !.pc = "guard", !.slot = "held"])
          /\ slots' = slots + 1
  /\ UNCHANGED <<product, instance, auth, place, rate, breaker, edit>>

(* A refusal ends the response, and with it what nobody has adopted. *)
Refuse(r) == Release(r, [task[r] EXCEPT !.pc = "over"])

Guard(r) ==
  LET hit == auth[task[r].key]
  IN /\ At(r, "guard")
     /\ IF hit # None /\ ~hit.value THEN Refuse(r)
        ELSE Goto(r, IF hit = None THEN "read" ELSE "limit") /\ UNCHANGED slots
     /\ UNCHANGED <<product, instance, auth, place, rate, breaker, edit>>

ReadProduct(r) ==
  /\ At(r, "read")
  /\ IF product.key # task[r].key THEN Refuse(r)
     ELSE /\ Become(r, [task[r] EXCEPT !.pc = "store", !.loaded = product.active])
          /\ UNCHANGED slots
  /\ UNCHANGED <<product, instance, auth, place, rate, breaker, edit>>

(* A mutant: set instead of setWithTTL. *)
StoreForGood(r) ==
  /\ At(r, "store")
  /\ auth' = [auth EXCEPT ![task[r].key] = [value |-> task[r].loaded, expires |-> FALSE]]
  /\ IF task[r].loaded THEN Goto(r, "limit") /\ UNCHANGED slots ELSE Refuse(r)
  /\ UNCHANGED <<product, instance, place, rate, breaker, edit>>

StoreProduct(r) ==
  /\ At(r, "store")
  /\ auth' = [auth EXCEPT ![task[r].key] = Cached(task[r].loaded)]
  /\ IF task[r].loaded THEN Goto(r, "limit") /\ UNCHANGED slots ELSE Refuse(r)
  /\ UNCHANGED <<product, instance, place, rate, breaker, edit>>

(* The first to count sets the expiry, in a step of its own. *)
CountRate(r) ==
  /\ At(r, "limit")
  /\ rate' = [rate EXCEPT !.count = @ + 1]
  /\ IF rate.count = 0 THEN Goto(r, "expire") /\ UNCHANGED slots
     ELSE IF rate'.count > RateLimit THEN Refuse(r)
     ELSE Goto(r, "enter") /\ UNCHANGED slots
  /\ UNCHANGED <<product, instance, auth, place, breaker, edit>>

SetExpiry(r) ==
  /\ At(r, "expire")
  /\ rate' = [rate EXCEPT !.expires = TRUE]
  /\ Goto(r, "enter")
  /\ UNCHANGED <<product, instance, auth, place, slots, breaker, edit>>

(* The interceptor, if there is still a client, hands the slot over to the work; of one that  *)
(* has been answered the connection may be closed by now, or not yet.                         *)
Enter(r) ==
  /\ At(r, "enter")
  /\ \/ (task[r].gone \/ task[r].late) /\ Refuse(r)
     \/ /\ ~task[r].gone
        /\ Become(r, Adopted([task[r] EXCEPT !.pc = "resolve"]))
        /\ UNCHANGED slots
  /\ UNCHANGED <<product, instance, auth, place, rate, breaker, edit>>
-----------------------------------------------------------------------------
(* To the instance. *)

Start(r) == CASE task[r].kind = "text" -> "send"
              [] task[r].kind = "batch" -> "row"
              [] task[r].kind = "media" -> "prepare"

Failed(r) == [task[r] EXCEPT !.pc = "clean", !.outcome = "failed"]

(* Whoever has been told to stop does so where it next looks. *)
Stopped(r) == task[r].reason # None

Resolve(r) ==
  /\ At(r, "resolve")
  /\ IF place = None THEN Goto(r, "load")
     ELSE IF Stopped(r) THEN Become(r, Failed(r))
     ELSE Goto(r, Start(r))
  /\ UNCHANGED <<product, instance, auth, place, rate, slots, breaker, edit>>

LoadInstance(r) ==
  /\ At(r, "load")
  /\ Become(r, IF instance.exists THEN [task[r] EXCEPT !.pc = "keep", !.loaded = instance.at]
                                  ELSE Failed(r))
  /\ UNCHANGED <<product, instance, auth, place, rate, slots, breaker, edit>>

KeepInstance(r) ==
  /\ At(r, "keep")
  /\ place' = Cached(task[r].loaded)
  /\ Become(r, IF Stopped(r) THEN Failed(r) ELSE [task[r] EXCEPT !.pc = Start(r)])
  /\ UNCHANGED <<product, instance, auth, rate, slots, breaker, edit>>
-----------------------------------------------------------------------------
(* To the provider. *)

CreateFile(x) == [x EXCEPT !.file = TRUE]

BeginFile(r) ==
  /\ At(r, "prepare")
  /\ Become(r, IF Stopped(r) THEN Failed(r) ELSE CreateFile([task[r] EXCEPT !.pc = "fill"]))
  /\ UNCHANGED <<product, instance, auth, place, rate, slots, breaker, edit>>

(* Downloaded or decoded, within the limits, or not. *)
FillFile(r) ==
  /\ At(r, "fill")
  /\ \/ Become(r, Failed(r))
     \/ ~Stopped(r) /\ Goto(r, "send")
     \/ ~Stopped(r) /\ Become(r, [Failed(r) EXCEPT !.reason = "download_timeout"])
  /\ UNCHANGED <<product, instance, auth, place, rate, slots, breaker, edit>>

Closed == breaker.state # "OPEN" \/ breaker.rested
StartProviderCall(x) == [x EXCEPT !.pc = "wait", !.calls = @ + 1]

(* A mutant: without looking again. *)
SendAnyway(r) ==
  /\ At(r, "send")
  /\ IF ~Closed THEN Become(r, Failed(r)) /\ UNCHANGED breaker
     ELSE /\ breaker' = [breaker EXCEPT !.state = IF @ = "OPEN" THEN "HALF_OPEN" ELSE @]
          /\ Become(r, StartProviderCall(task[r]))
  /\ UNCHANGED <<product, instance, auth, place, rate, slots, edit>>

(* A circuit that has rested lets everyone through until one of them fails. *)
Send(r) ==
  /\ At(r, "send")
  /\ IF Stopped(r) \/ ~Closed THEN Become(r, Failed(r)) /\ UNCHANGED breaker
     ELSE /\ breaker' = [breaker EXCEPT !.state = IF @ = "OPEN" THEN "HALF_OPEN" ELSE @]
          /\ Become(r, StartProviderCall(task[r]))
  /\ UNCHANGED <<product, instance, auth, place, rate, slots, edit>>

RecordSuccess == breaker' = [state |-> "CLOSED", failures |-> 0, rested |-> FALSE]

RecordFailure ==
  LET failures == IF breaker.failures < Threshold THEN breaker.failures + 1 ELSE Threshold
  IN breaker' = IF failures = Threshold
                THEN [state |-> "OPEN", failures |-> failures, rested |-> FALSE]
                ELSE [breaker EXCEPT !.failures = failures]

Sent(r) == [task[r] EXCEPT !.pc = "clean", !.outcome = "sent"]

(* An answer that is an error says nothing of the circuit. *)
Answered(r) ==
  \/ ~Stopped(r) /\ RecordSuccess /\ Become(r, Sent(r))
  \/ UNCHANGED breaker /\ Become(r, Failed(r))

(* Anything but media is sent again when its answer is lost. *)
Lost(r) ==
  IF ~Media(r) /\ task[r].calls <= MaxRetries
  THEN UNCHANGED breaker /\ Become(r, [task[r] EXCEPT !.calls = @ + 1])
  ELSE ~Stopped(r) /\ RecordFailure /\ Become(r, Failed(r))

TooSlow(r) ==
  /\ Media(r) /\ ~Stopped(r)
  /\ RecordFailure
  /\ Become(r, [Failed(r) EXCEPT !.reason = "provider_timeout"])

Await(r) ==
  /\ At(r, "wait")
  /\ Answered(r) \/ Lost(r) \/ TooSlow(r)
  /\ UNCHANGED <<product, instance, auth, place, rate, slots, edit>>

CleanFile(r) ==
  /\ At(r, "clean")
  /\ Become(r, [task[r] EXCEPT !.pc = "free", !.file = FALSE])
  /\ UNCHANGED <<product, instance, auth, place, rate, slots, breaker, edit>>

Free(r) ==
  /\ At(r, "free") /\ r \in Requests
  /\ Release(r, [task[r] EXCEPT !.pc = "over"])
  /\ UNCHANGED <<product, instance, auth, place, rate, breaker, edit>>
-----------------------------------------------------------------------------
(* What happens around a media request. *)

Underway(r) == r \in Requests /\ Media(r) /\ task[r].pc \notin {"new", "over"} /\ ~task[r].gone

Stop(x, why) == [x EXCEPT !.reason = IF @ = None THEN why ELSE @]

(* A mutant: whatever ends the response gives the slot back. *)
LeaveAndFree(r) ==
  /\ Underway(r)
  /\ LET x == [task[r] EXCEPT !.gone = TRUE]
     IN Release(r, IF x.adopted /\ x.calls = 0 THEN Stop(x, "client_disconnected") ELSE x)
  /\ UNCHANGED <<product, instance, auth, place, rate, breaker, edit>>

(* The client leaves: what was not sent is not sent any more, what was is waited for. *)
(* Once a response has been written, work that goes on does not notice.               *)
Leave(r) ==
  /\ Underway(r) /\ ~(task[r].late /\ task[r].adopted)
  /\ LET x == [task[r] EXCEPT !.gone = TRUE]
     IN IF ~x.adopted THEN Release(r, x)
        ELSE /\ Become(r, IF x.calls = 0 THEN Stop(x, "client_disconnected") ELSE x)
             /\ UNCHANGED slots
  /\ UNCHANGED <<product, instance, auth, place, rate, breaker, edit>>

(* Its body took too long: it is answered, and its connection closed a little later. *)
UploadTimeout(r) ==
  /\ Underway(r) /\ ~task[r].adopted /\ ~task[r].late
  /\ Release(r, [task[r] EXCEPT !.late = TRUE])
  /\ UNCHANGED <<product, instance, auth, place, rate, breaker, edit>>

(* It took too long as a whole: it is answered, and what it is doing is aborted. *)
RequestTimeout(r) ==
  /\ Underway(r) /\ task[r].adopted
  /\ Become(r, Stop([task[r] EXCEPT !.gone = TRUE], "request_timeout"))
  /\ UNCHANGED <<product, instance, auth, place, rate, slots, breaker, edit>>
-----------------------------------------------------------------------------
(* Meanwhile. *)

Editing == edit.steps = <<>> /\ edit.left > 0
Begin(steps) == edit' = [edit EXCEPT !.steps = steps, !.left = @ - 1]

Deactivate ==
  /\ Editing /\ product.active
  /\ product' = [product EXCEPT !.active = FALSE]
  /\ Begin(<<"auth">>)
  /\ UNCHANGED <<instance, auth, place, rate, slots, breaker, task>>

(* The only edit that invalidates first. *)
RotateKey ==
  /\ Editing
  /\ Begin(<<"auth", "key">>)
  /\ UNCHANGED <<product, instance, auth, place, rate, slots, breaker, task>>

MoveProvider ==
  /\ Editing
  /\ instance' = [instance EXCEPT !.at = @ + 1]
  /\ Begin(<<"place">>)
  /\ UNCHANGED <<product, auth, place, rate, slots, breaker, task>>

RemoveInstance ==
  /\ Editing /\ instance.exists
  /\ instance' = [instance EXCEPT !.exists = FALSE]
  /\ Begin(<<"place">>)
  /\ UNCHANGED <<product, auth, place, rate, slots, breaker, task>>

(* It looks up the instances of the provider, or has the one; the caches lose them. *)
InvalidatePlaces == place' = None

(* A logout changes nothing here, but invalidates. *)
Logout ==
  /\ Editing /\ instance.exists
  /\ Begin(<<"place">>)
  /\ UNCHANGED <<product, instance, auth, place, rate, slots, breaker, task>>

FinishEdit ==
  /\ edit.steps # <<>>
  /\ edit' = [edit EXCEPT !.steps = Tail(@)]
  /\ CASE edit.steps[1] = "auth" ->
            /\ auth' = [auth EXCEPT ![product.key] = None]
            /\ UNCHANGED <<product, place>>
       [] edit.steps[1] = "place" ->
            InvalidatePlaces /\ UNCHANGED <<product, auth>>
       [] edit.steps[1] = "key" ->
            /\ \E k \in Keys \ {product.key} : product' = [product EXCEPT !.key = k]
            /\ UNCHANGED <<auth, place>>
  /\ UNCHANGED <<instance, rate, slots, breaker, task>>

ExpireAuth(k) ==
  /\ edit.long /\ auth[k] # None /\ auth[k].expires
  /\ auth' = [auth EXCEPT ![k] = None]
  /\ UNCHANGED <<product, instance, place, rate, slots, breaker, task, edit>>

ExpirePlace ==
  /\ edit.long /\ place # None /\ place.expires
  /\ place' = None
  /\ UNCHANGED <<product, instance, auth, rate, slots, breaker, task, edit>>

ExpireRate ==
  /\ edit.long /\ rate.expires
  /\ rate' = [count |-> 0, expires |-> FALSE]
  /\ UNCHANGED <<product, instance, auth, place, slots, breaker, task, edit>>

Rest ==
  /\ edit.long /\ breaker.state = "OPEN" /\ ~breaker.rested
  /\ breaker' = [breaker EXCEPT !.rested = TRUE]
  /\ UNCHANGED <<product, instance, auth, place, rate, slots, task, edit>>

Work(r) ==
  \/ Arrive(r) \/ Guard(r) \/ ReadProduct(r) \/ StoreProduct(r) \/ CountRate(r) \/ SetExpiry(r)
  \/ Enter(r) \/ Resolve(r) \/ LoadInstance(r) \/ KeepInstance(r) \/ BeginFile(r) \/ FillFile(r)
  \/ Send(r) \/ Await(r) \/ CleanFile(r) \/ Free(r)
  \/ Leave(r) \/ UploadTimeout(r) \/ RequestTimeout(r)

Administer == Deactivate \/ RotateKey \/ MoveProvider \/ RemoveInstance \/ Logout \/ FinishEdit

Pass == (\E k \in Keys : ExpireAuth(k)) \/ ExpirePlace \/ ExpireRate \/ Rest
=============================================================================
