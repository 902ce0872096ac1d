---------------------------- MODULE MCLifecycle ----------------------------
(***************************************************************************)
(* Three plugins with equal and different priorities under two hooks, two  *)
(* host tasks, an override in a lineup and one in a dispatch plan.         *)
(***************************************************************************)
EXTENDS Lifecycle, TLC

CONSTANTS c1, c2, p, q, s, pre, post, lineup, plan

MCServes == (p :> {pre}) @@ (q :> {pre, post}) @@ (s :> {pre, post})
MCPriority == (p :> 10) @@ (q :> 5) @@ (s :> 5)
Callers == Permutations({c1, c2})

MCTarget == (lineup :> p) @@ (plan :> q)
=============================================================================
