----------------------------- MODULE MCBatches -----------------------------
(* Small instances of Batches for TLC. *)
EXTENDS Batches

CONSTANTS q1, q2, x1, x2, k1, k2, m1, m2

NoBounds == [stalls |-> 0, crashes |-> 0, faults |-> 0, deletes |-> 0]
Workload(one, two, warm, long, edits, limits) ==
  [kind |-> [r \in Requests |-> IF r = q1 THEN one ELSE two], key |-> k1, warm |-> warm, counted |-> 0,
   long |-> long, edits |-> edits, bounds |-> limits]

(* Requests for one slot, with clients that leave and deadlines that pass. *)
Sending == {Workload("media", kind, TRUE, FALSE, 0, NoBounds) : kind \in {"media", "text"}}

(* The product, the provider and the instance are edited while requests come in. *)
Edited == {Workload("text", None, FALSE, TRUE, 2, NoBounds),
           [Workload("text", "text", FALSE, TRUE, 1, NoBounds) EXCEPT !.counted = 1]}

(* A batch, whose messages are executed by two workers, with one thing that goes wrong. *)
Batched ==
  {Workload("batch", None, TRUE, FALSE, 0, [NoBounds EXCEPT ![what] = 1]) :
     what \in {"stalls", "crashes", "faults", "deletes"}}

(* The end of a creation, whose session an operator changes, or whose provider fails others. *)
Proxied == {Workload("proxy", None, TRUE, TRUE, 1, NoBounds),
            Workload("proxy", "text", TRUE, TRUE, 0, NoBounds)}

Mixed == Proxied \cup Sending \cup Edited \cup Batched
=============================================================================
