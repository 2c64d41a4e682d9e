-------------------------- MODULE CreationPromise --------------------------
(***************************************************************************)
(* What the creation of instances promises, without processes, leases,     *)
(* recovery or messages: a creation is reserved, sent, and then committed, *)
(* or undone, or forgotten before it was ever sent.  A session is made at  *)
(* most once, a session that lives is never out of sight, and a record is  *)
(* dropped only when its session is gone for good.                         *)
(***************************************************************************)
CONSTANT Tickets

VARIABLES
  ask,      \* what each creation asks for
  phase,
  session,  \* what became of the one session a creation may make
  kept      \* creations recorded as an instance

vars == <<ask, phase, session, kept>>

Phases == {"none", "reserved", "sent", "undoing", "committed", "failed", "released"}
Held(t) == phase[t] \in {"reserved", "sent", "undoing"}
Clash(t, u) ==
  /\ ask[t].name = ask[u].name
  /\ ask[t].product = ask[u].product \/ ask[t].provider = ask[u].provider

Init ==
  /\ phase = [t \in Tickets |-> "none"]
  /\ session = [t \in Tickets |-> "unsent"]
  /\ kept = {}

Become(t, from, to) == phase[t] = from /\ phase' = [phase EXCEPT ![t] = to]
Turn(t, from, to) == session[t] = from /\ session' = [session EXCEPT ![t] = to]

(* A name is promised to one creation at a time, and only when nothing is left of earlier ones. *)
Hold(t) ==
  /\ Become(t, "none", "reserved")
  /\ \A u \in Tickets :
       Clash(t, u) => ~Held(u) /\ u \notin kept /\ session[u] \notin {"flight", "up"}
  /\ UNCHANGED <<ask, session, kept>>

Release(t) == Become(t, "reserved", "released") /\ UNCHANGED <<ask, session, kept>>

Dispatch(t) == Become(t, "reserved", "sent") /\ UNCHANGED <<ask, session, kept>>

Call(t) ==
  phase[t] = "sent" /\ Turn(t, "unsent", "flight") /\ UNCHANGED <<ask, phase, kept>>

Answer(t) ==
  (Turn(t, "flight", "up") \/ Turn(t, "flight", "void")) /\ UNCHANGED <<ask, phase, kept>>

Vanish(t) == Turn(t, "up", "gone") /\ UNCHANGED <<ask, phase, kept>>

Keep(t) ==
  /\ phase[t] = "sent"
  /\ session[t] \in {"up", "gone"}
  /\ kept' = kept \cup {t}
  /\ UNCHANGED <<ask, phase, session>>

Commit(t) == t \in kept /\ Become(t, "sent", "committed") /\ UNCHANGED <<ask, session, kept>>

Undo(t) == t \in kept /\ Become(t, "sent", "undoing") /\ UNCHANGED <<ask, session, kept>>

Undone(t) ==
  /\ session[t] = "gone"
  /\ Become(t, "undoing", "failed")
  /\ kept' = kept \ {t}
  /\ UNCHANGED <<ask, session>>

Discard(t) ==
  /\ phase[t] = "committed"
  /\ session[t] = "gone"
  /\ kept' = kept \ {t}
  /\ UNCHANGED <<ask, phase, session>>

Next ==
  \E t \in Tickets :
    \/ Hold(t) \/ Release(t) \/ Dispatch(t) \/ Call(t) \/ Answer(t) \/ Vanish(t)
    \/ Keep(t) \/ Commit(t) \/ Undo(t) \/ Undone(t) \/ Discard(t)

Spec == Init /\ [][Next]_vars
=============================================================================
