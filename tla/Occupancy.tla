----------------------------- MODULE Occupancy -----------------------------
(***************************************************************************)
(* How the Hub counts the sessions of one provider: from the provider's    *)
(* inventory, the rows of its own instances and its open reservations,     *)
(* which may be three accounts of one session.  An account has a name, a   *)
(* remote id when it is known, and a product when it is the Hub's own.     *)
(***************************************************************************)
EXTENDS Integers, FiniteSets, SequencesExt

CONSTANT None

SameSession(a, b) ==
  a.name = b.name /\ (a.id = None \/ b.id = None \/ a.id = b.id)

Shares(a, b) == a.name = b.name \/ (a.id # None /\ a.id = b.id)

Known(x, y) == IF x # None THEN x ELSE y

(* An account joins the first group it shares a name or an id with, or contradicts it. *)
Add(acc, item) ==
  LET hit == SelectInSeq(acc.groups, LAMBDA g : Shares(g, item))
      g == acc.groups[hit]
      owned == g.product # None /\ item.product # None
      joined == [g EXCEPT !.id = Known(@, item.id), !.product = Known(@, item.product)]
  IN IF hit = 0 THEN [acc EXCEPT !.groups = Append(@, item)]
     ELSE IF ~SameSession(g, item) \/ (owned /\ g.product # item.product)
     THEN [acc EXCEPT !.ambiguous = TRUE]
     ELSE [acc EXCEPT !.groups[hit] = joined]

Groups(remote, instances, reservations) ==
  LET items == SetToSeq(remote) \o SetToSeq(instances) \o SetToSeq(reservations)
      merged[n \in 0 .. Len(items)] ==
        IF n = 0 THEN [groups |-> <<>>, ambiguous |-> FALSE] ELSE Add(merged[n - 1], items[n])
  IN merged[Len(items)]

(* What admission and the administration read of it. *)
Occupancy(remote, instances, reservations) ==
  LET merged == Groups(remote, instances, reservations)
  IN [effective |-> Len(merged.groups), ambiguous |-> merged.ambiguous]
=============================================================================
