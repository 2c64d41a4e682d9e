--------------------------- MODULE MCProvisioning ---------------------------
(* Small instances of Provisioning for TLC. *)
EXTENDS Provisioning, TLC

CONSTANTS p1, p2, v1, v2, n1

Ask(p, v, hook, clientToken) ==
  [product |-> p, provider |-> v, name |-> n1, hook |-> hook, clientToken |-> clientToken]

(* One name on one provider: a request that configures a webhook and one that brings its token. *)
OneHost == {Ask(p1, v1, TRUE, FALSE), Ask(p1, v1, FALSE, TRUE)}

(* A token that other sessions may share, so that only the remote id proves anything. *)
SharedToken == {Ask(p1, v1, TRUE, TRUE)}

(* One name of a product that admission may place on either of two providers, *)
(* and a second product that shares the first provider.                       *)
TwoHosts == {Ask(p1, v1, FALSE, FALSE), Ask(p1, v2, FALSE, FALSE), Ask(p2, v1, FALSE, FALSE)}

(* Both kinds of token, with a webhook that can fail and must be compensated. *)
Hooked == {Ask(p1, v1, TRUE, FALSE), Ask(p1, v1, TRUE, TRUE)}

(* A single kind of request; what it asks for plays no part in the run. *)
Plain == {Ask(p1, v1, FALSE, FALSE)}

SameTickets == Permutations(Tickets)
SameRecoverers == Permutations(Recoverers)
=============================================================================
