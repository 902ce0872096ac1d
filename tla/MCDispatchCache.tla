-------------------------- MODULE MCDispatchCache --------------------------
(* A route that dispatches to two plugins, two mutators and two planners.  *)
EXTENDS DispatchCache, TLC

\* Names carry no meaning.
MCSymmetry == Permutations(Mutators) \cup Permutations(Planners) \cup Permutations(Plugin)
=============================================================================
