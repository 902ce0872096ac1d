--------------------------- MODULE BranchOutcomes ---------------------------
(***************************************************************************)
(* The outcome vectors run_branches may hand to its caller, as a set: what *)
(* the callers (the executor's concurrent phase, the APL `parallel:`       *)
(* block) are specified against. BranchesProofs shows that run_branches    *)
(* returns no other vector.                                                *)
(***************************************************************************)
EXTENDS Naturals

\* BranchOutcome: Completed(r) is the result r itself.
OutcomeOf(results) == results \cup {"TimedOut", "Aborted", "Panicked"}

\* One outcome per branch; a branch is Aborted only where a deny stands.
Deliverable(branches, results, denies, hasTimeout, shortCircuit) ==
    {o \in [branches -> OutcomeOf(results)] :
        /\ (\E b \in branches : o[b] = "Aborted") =>
                shortCircuit /\ \E d \in branches : o[d] \in denies
        /\ (\E b \in branches : o[b] = "TimedOut") => hasTimeout}
=============================================================================
