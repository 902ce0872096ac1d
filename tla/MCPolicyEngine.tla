--------------------------- MODULE MCPolicyEngine ---------------------------
(* One plugin, two tools, two requests, and two configs of different       *)
(* capacity: c1 declares p1, keeps two entries and routes tool e1 through  *)
(* p1, and through p1 whatever carries tag t1; c2 keeps one entry, uses    *)
(* the plugin that is there and routes both tools through it; each         *)
(* annotates one route.                                                    *)
EXTENDS PolicyEngine, TLC

CONSTANTS p1, e1, e2, c1, c2, t1

MCDeclares == [c \in Config |-> IF c = c1 THEN {p1} ELSE {}]
MCLineup == [c \in Config |-> [e \in Entity |-> IF c = c2 \/ e = e1 THEN {p1} ELSE {}]]
MCGroup == [c \in Config |-> [t \in Tag |-> IF c = c1 THEN {p1} ELSE {}]]
MCRoutes == [c \in Config |-> <<e1>>]
MCCap == [c \in Config |-> IF c = c1 THEN 2 ELSE 1]

\* Mutators differ in name only, and so do requests.
MCSymmetry == Permutations(Mutators) \cup Permutations(Requests)
=============================================================================
