----------------------------- MODULE MCChanges -----------------------------
(* Small instances of Changes for TLC. *)
EXTENDS Changes, TLC

CONSTANTS p1, p2, v1, v2, u1, u2, e1, t1, n1, h1, h2, r1, r2

Installations == [u \in Urls |-> IF u = u1 THEN e1 ELSE u]

Ready(u) ==
  [NewProvider(u) EXCEPT !.identity = "verified", !.status = "ready", !.observed = "recent",
                         !.seen = "recent", !.callback = "ready"]
Silent(u) == [Ready(u) EXCEPT !.callback = "pending"]
NotKnown == [Ready(u1) EXCEPT !.known = FALSE, !.active = FALSE]
Only1 == [v \in Providers |-> IF v = v1 THEN Silent(u1) ELSE NotKnown]
Every(x(_)) == [v \in Providers |-> x(IF v = v1 THEN u1 ELSE u2)]

Two(mode, relay) ==
  [p \in Products |->
     [mode |-> mode, default |-> v1, rev |-> 0, relay |-> relay, active |-> TRUE]]
Away == [p \in Products |-> [Two("legacy", FALSE)[p] EXCEPT !.default = None, !.active = FALSE]]
All == Products \X Providers

Bounds(who, drafts) ==
  [running |-> who, drafts |-> drafts, crashes |-> 0, stalls |-> 0, agings |-> 0]

Workload(p, v, products, providers, linked, pending, editing, limits) ==
  [ask |-> [t \in Tickets |-> [product |-> p, provider |-> v, name |-> n1]],
   product |-> products, provider |-> providers,
   link |-> [q \in Products |-> [u \in Providers |->
                IF <<q, u>> \in linked THEN NewLink(TRUE) ELSE None]],
   done |-> {}, setup |-> [confirmed |-> TRUE, consolidated |-> TRUE],
   undelivered |-> pending, edits |-> editing, bounds |-> limits]
-----------------------------------------------------------------------------
Draft(action, target) ==
  [product |-> p1, action |-> action, target |-> target, links |-> <<>>, limits |-> <<>>,
   identities |-> {}, accepted |-> <<>>]

Configure(links, limits, identities, accepted) ==
  [Draft("configure_capacity", None) EXCEPT
     !.links = links, !.limits = limits, !.identities = identities, !.accepted = accepted]

Reversals == {Draft("single_destination", v1), Draft("restore_legacy", v1), Draft("detach", v2)}
Limits1 ==
  {Configure(v1 :> NotGiven, v1 :> 1, {v1}, <<>>), Configure(<<>>, v1 :> 1, {}, v1 :> Products)}
Open2 == Configure(v1 :> FALSE @@ v2 :> TRUE, <<>>, {}, <<>>)
Open1 == Configure(v1 :> NotGiven, <<>>, {}, <<>>)

(* An event that may have come from any provider. *)
Event ==
  [kind |-> "event", instance |-> None, ticket |-> None, provider |-> None, origins |-> {},
   name |-> n1, id |-> None]

(* A creation, and an event to deliver, while a change is prepared and applied. *)
Moving ==
  {Workload(p1, v2, Two("capacity", FALSE), Every(Ready), All, {Event}, 0,
            Bounds({h1, r1}, Reversals))}

(* Two changes of one product, without creations. *)
Rivalling ==
  {Workload(p2, v2, Two("legacy", FALSE), Every(Ready), {<<p1, v1>>, <<p1, v2>>, <<p2, v1>>}, {}, 0,
            Bounds({h1, h2, r1}, {Open2} \cup Reversals))}

(* The catalogue is edited while a change is prepared and applied. *)
Editing ==
  {Workload(p2, v2, Two("legacy", FALSE), Every(Ready), {<<p1, v1>>, <<p2, v1>>}, {}, 1,
            [Bounds({h1, r1}, {Open2} \cup Limits1) EXCEPT !.agings = 1])}

(* A callback to confirm, with replicas that stall or die. *)
Confirming ==
  {[Workload(p1, v1, Two("legacy", TRUE), Only1, {<<p1, v1>>, <<p2, v1>>}, {}, 0, limits) EXCEPT !.done = {t1}] :
     limits \in {[Bounds({h1, r1}, {Open1}) EXCEPT !.crashes = 1],
                 [Bounds({h1, r1, r2}, {Open1}) EXCEPT !.stalls = 1]}}

(* A limit that leaves no room, for an instance may already be there. *)
Filling ==
  {[Workload(p1, v1, Two("legacy", FALSE), Every(Ready), {<<p1, v1>>, <<p2, v1>>}, {}, 0,
             Bounds({h1, r1}, Limits1)) EXCEPT !.done = {t1}]}

(* Providers come, are limited, paused and moved, and nobody uses them. *)
Registering ==
  {Workload(p1, v1, Away, [v \in Providers |-> IF v = v1 THEN Ready(u1) ELSE NotKnown], {}, {}, 3,
            Bounds({}, {}))}

Mixed == Moving \cup Rivalling \cup Editing \cup Confirming \cup Filling \cup Registering
-----------------------------------------------------------------------------
NoEdit == [policy |-> FALSE, url |-> NotGiven, key |-> FALSE, active |-> NotGiven, max |-> NotGiven,
           accepting |-> NotGiven, moved |-> FALSE, confirm |-> FALSE, writers |-> FALSE]
Policies ==
  {[NoEdit EXCEPT !.policy = TRUE, !.max = 1, !.confirm = c] : c \in BOOLEAN}
  \cup {[NoEdit EXCEPT !.policy = TRUE, !.accepting = a] : a \in BOOLEAN}
Fields ==
  {[NoEdit EXCEPT !.key = TRUE], [NoEdit EXCEPT !.active = FALSE]}
  \cup {[NoEdit EXCEPT !.url = u] : u \in Urls}
AnyEdit == Policies \cup Fields
Settings ==
  {[default |-> v2, relay |-> NotGiven, active |-> NotGiven], [default |-> NotGiven, relay |-> TRUE, active |-> NotGiven],
   [default |-> None, relay |-> NotGiven, active |-> TRUE]}

=============================================================================
