---------------------------- MODULE MCInventory ----------------------------
(* Small instances of Inventory for TLC. *)
EXTENDS Inventory

CONSTANTS p1, p2, v1, t1, t2, n1, n2, u1, f1, c1, c2, r1, r2

Asked(p, n) == [product |-> p, provider |-> v1, name |-> n]
OwnEndpoint == [u \in Urls |-> u]
Intruders == {[provider |-> v1, name |-> n1, id |-> f1]}
Quiet(who) == [running |-> who, crashes |-> 0, stalls |-> 0, outages |-> 0, intruders |-> 0]

Product(mode, active) ==
  [mode |-> mode, default |-> v1, rev |-> 0, relay |-> FALSE, active |-> active]

(* A provider on its own, in use by every product that is active. *)
Workload(asked, mode, active, max, editing, limits) ==
  [ask |-> asked,
   product |-> [p \in Products |-> Product(mode, p \in active)],
   provider |-> [v \in Providers |->
     [NewProvider(u1) EXCEPT !.max = max, !.identity = "verified", !.callback = "ready"]],
   link |-> [p \in Products |-> [v \in Providers |-> NewLink(TRUE)]],
   done |-> {}, setup |-> [confirmed |-> FALSE, consolidated |-> TRUE],
   undelivered |-> {}, edits |-> editing, bounds |-> limits]

First == Asked(p1, n1)

Both(other, limits) ==
  Workload([t \in Tickets |-> IF t = t1 THEN First ELSE other], "capacity", Products, 1, 0, limits)

(* Two creations for one place: one after the other under one name, or under two names. *)
Race ==
  {Both(Asked(p2, n1), [Quiet({c1}) EXCEPT !.intruders = 1]), Both(Asked(p2, n2), Quiet({c1}))}

Alone(mode, active, max, editing, limits) ==
  Workload([t \in Tickets |-> IF t = t1 THEN First ELSE Asked(p2, n1)],
           mode, active, max, editing, limits)

(* One creation while the provider and the product are edited. *)
Edited ==
  {Alone("capacity", {p1}, None, 1, Quiet({c1})), Alone("legacy", {p1}, 1, 1, Quiet({c1}))}

(* One creation while collectors stall and die. *)
Racing == {Alone("legacy", {p1}, 1, 0, [Quiet({c1, c2}) EXCEPT !.crashes = 1, !.stalls = 1])}

(* No creation: the provider goes down and comes back. *)
Failing == {Alone("capacity", {}, None, 0, [Quiet({c1, r1, r2}) EXCEPT !.outages = 2])}

Mixed == Race \cup Edited \cup Racing \cup Failing
NoEdit == [policy |-> FALSE, url |-> NotGiven, key |-> FALSE, active |-> NotGiven, max |-> NotGiven,
           accepting |-> NotGiven, moved |-> FALSE, confirm |-> FALSE, writers |-> FALSE]
LimitEdits ==
  {[NoEdit EXCEPT !.policy = TRUE, !.max = 1, !.writers = w] : w \in BOOLEAN}
  \cup {[NoEdit EXCEPT !.policy = TRUE, !.accepting = a, !.confirm = w] : a, w \in BOOLEAN}
  \cup {[NoEdit EXCEPT !.key = TRUE], [NoEdit EXCEPT !.active = FALSE], [NoEdit EXCEPT !.moved = TRUE]}
RelayEdits == {[default |-> NotGiven, relay |-> TRUE, active |-> NotGiven]}
=============================================================================
