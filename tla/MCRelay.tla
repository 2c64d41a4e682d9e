------------------------------ MODULE MCRelay ------------------------------
(* Small instances of Relay for TLC. *)
EXTENDS Relay, TLC

CONSTANTS p1, p2, v1, v2, n1

Ask(p, v) == [product |-> p, provider |-> v, name |-> n1]

(* Creations of one name, one after the other, on one provider. *)
OneHost == {Ask(p1, v1)}
OwnAddress == [v \in {v1, v2} |-> {v}]

(* One name on two providers behind one address: a call may come from either. *)
TwoHosts == {Ask(p1, v1), Ask(p2, v2)}
OneAddress == [v \in {v1, v2} |-> {v1, v2}]

(* Tickets are alike, and so are the two products, each with its provider. *)
Swapped == (p1 :> p2) @@ (p2 :> p1) @@ (v1 :> v2) @@ (v2 :> v1)
Alike == Permutations(Tickets) \cup {Swapped}
=============================================================================
