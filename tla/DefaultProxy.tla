---------------------------- MODULE DefaultProxy ----------------------------
(***************************************************************************)
(* The end of a creation: the proxy its product wants is set on the new    *)
(* session, and read back up to three times.  It is optional: what goes    *)
(* wrong with it is left out of the answer, and never fails the creation.  *)
(*                                                                         *)
(*   evolution.adapter.ts   applyDefaultProxy                              *)
(*   evolution.http.ts      optional calls, within a budget of their own   *)
(*                                                                         *)
(* The creation, a request of kind "proxy", has come this far: Provisioning *)
(* models how.  An operator may set another proxy on the same session.     *)
(***************************************************************************)
EXTENDS Requests

VARIABLES
  proxy,  \* on the provider: its value, whether the call that sets it may still take effect,
          \* and whether it has had that effect (history)
  budget  \* whether there is time left for optional calls

proxyVars == <<proxy, budget>>

Reads == 3  \* DEFAULT_PROXY_CONFIRM_DELAYS_MS, and one at once

StartProxy ==
  /\ proxy = [value |-> None, pending |-> FALSE, held |-> FALSE]
  /\ budget = TRUE

Optional(r) == task[r].kind = "proxy"
elsewhere == <<product, instance, auth, place, rate, slots, breaker, edit>>

(* An optional call looks at the circuit, but neither probes it nor reports to it. *)
MayCall(r) == ~Stopped(r) /\ budget /\ Closed

Called(r, pc) == Become(r, [task[r] EXCEPT !.pc = pc, !.calls = @ + 1])
Reply(r, outcome) == Become(r, [task[r] EXCEPT !.pc = "over", !.outcome = outcome])

SetProxy(r) ==
  /\ At(r, "set")
  /\ IF MayCall(r) THEN Called(r, "setting") /\ proxy' = [proxy EXCEPT !.pending = TRUE]
                   ELSE Reply(r, "unconfirmed") /\ UNCHANGED proxy
  /\ UNCHANGED <<elsewhere, budget>>

(* A mutant: what was acknowledged is believed. *)
AwaitSetTrusting(r) ==
  /\ At(r, "setting")
  /\ \/ Reply(r, "unconfirmed")
     \/ ~Stopped(r) /\ budget /\ Reply(r, "confirmed")
  /\ UNCHANGED <<elsewhere, proxyVars>>

(* Acknowledged by this session; or refused, lost, late, or interrupted. *)
AwaitSet(r) ==
  /\ At(r, "setting")
  /\ \/ Reply(r, "unconfirmed")
     \/ ~Stopped(r) /\ budget /\ Goto(r, "check")
  /\ UNCHANGED <<elsewhere, proxyVars>>

CheckProxy(r) ==
  /\ At(r, "check")
  /\ IF MayCall(r) THEN Called(r, "checking") ELSE Reply(r, "unconfirmed")
  /\ UNCHANGED <<elsewhere, proxyVars>>

(* Nothing yet, or something else: it is read again, after a pause. *)
Again(r) == IF task[r].calls <= Reads THEN Goto(r, "check") ELSE Reply(r, "unconfirmed")

AwaitCheck(r) ==
  /\ At(r, "checking")
  /\ \/ Reply(r, "unconfirmed")
     \/ ~Stopped(r) /\ budget /\ Again(r)  \* 404
     \/ Become(r, [task[r] EXCEPT !.pc = "checked", !.loaded = proxy.value])
  /\ UNCHANGED <<elsewhere, proxyVars>>

CompareProxy(r) ==
  /\ At(r, "checked")
  /\ \/ Reply(r, "unconfirmed")
     \/ /\ ~Stopped(r) /\ budget
        /\ IF task[r].loaded = "sent" THEN Reply(r, "confirmed") ELSE Again(r)
  /\ UNCHANGED <<elsewhere, proxyVars>>

(* The caller of the creation leaves, or its time is over. *)
Interrupt(r) ==
  /\ Optional(r) /\ ~At(r, "over")
  /\ Become(r, Stop(task[r], "request_timeout"))
  /\ UNCHANGED <<elsewhere, proxyVars>>

BudgetEnds(r) ==
  /\ Optional(r) /\ ~At(r, "over") /\ budget
  /\ budget' = FALSE
  /\ UNCHANGED <<elsewhere, proxy, task>>

TakesEffect ==
  /\ proxy.pending
  /\ proxy' = [value |-> "sent", pending |-> FALSE, held |-> TRUE]
  /\ UNCHANGED <<elsewhere, task, budget>>

OperatorSets ==
  /\ Editing /\ (\E r \in Requests : Optional(r))
  /\ proxy' = [proxy EXCEPT !.value = "other"]
  /\ Begin(<<>>)
  /\ UNCHANGED <<product, instance, auth, place, rate, slots, breaker, task, budget>>

ApplyDefaultProxy(r) ==
  \/ SetProxy(r) \/ AwaitSet(r) \/ CheckProxy(r) \/ AwaitCheck(r) \/ CompareProxy(r)
  \/ Interrupt(r) \/ BudgetEnds(r)
=============================================================================
