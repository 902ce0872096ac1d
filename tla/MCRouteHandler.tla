--------------------------- MODULE MCRouteHandler ---------------------------
(***************************************************************************)
(* Two requests over the routes that bring out overlapping calls, field    *)
(* pipelines with a plugin stage, taints, restrictions and elicitation.    *)
(***************************************************************************)
EXTENDS RouteHandler, TLC

CONSTANTS r1, r2, alice, bob, v, w, seq, seq2, tidy, conc, f, g, l, m, s1, s2

MCMode == (seq :> "sequential") @@ (seq2 :> "transform") @@ (tidy :> "sequential") @@ (conc :> "concurrent")
MCEditOf == (seq :> f) @@ (seq2 :> g) @@ (tidy :> g) @@ (conc :> f)
MCLabelOf == (seq :> l) @@ (seq2 :> m) @@ (tidy :> l) @@ (conc :> l)

Plain(op, on) == [op |-> op, on |-> on]

\* Bob's value w has the id of alice's v.
MCShortHash == [t \in Subject \X (Raw \cup {Workloads}) |-> IF t \in {<<alice, v>>, <<bob, w>>} THEN s1 ELSE s2]

MCRoutes ==
    {<<Plain("plugin", {seq}), Plain("parallel", {conc, seq2})>>,
     <<Plain("parallel", {seq, tidy})>>,
     <<Plain("taint", m), Plain("parallel", {conc}), Plain("plugin", {seq2})>>,
     <<Plain("mask", f), Plain("stage", <<f, seq2>>), Plain("plugin", {seq})>>,
     <<Plain("stage", <<f, seq>>), Plain("restrict", v), Plain("restrict", w)>>,
     <<Plain("elicit", None), Plain("plugin", {seq})>>}

In(subject, agent, claim, labels, peek) ==
    [subject |-> subject, agent |-> agent, claim |-> claim, labels |-> labels, peek |-> peek]

\* The global block, which may run plugins that modify side by side.
MCCatchAll == <<Plain("mask", f), Plain("parallel", {seq, tidy})>>

Arrival(in, route, visited) == [in |-> in, route |-> route, visited |-> visited]

\* The first request takes any route or the catch-all; the second one taints
\* its session and comes from the same subject, from another one, from one
\* whose session collides, or from nobody.
MCTraffic ==
    {(r1 :> arrival) @@ (r2 :> Arrival(other, <<Plain("taint", m)>>, TRUE)) :
        arrival \in {Arrival(in, route, TRUE) :
                        in \in {In(alice, v, None, {}, FALSE), In(alice, None, v, {l}, TRUE)}, route \in MCRoutes}
                    \cup {Arrival(In(alice, v, None, {}, FALSE), MCCatchAll, FALSE)},
        other \in {In(alice, v, None, {}, FALSE), In(bob, v, None, {}, FALSE), In(bob, w, None, {}, FALSE),
                   In(None, v, v, {}, FALSE)}}
=============================================================================
