---------------------------- MODULE BranchFates ----------------------------
(***************************************************************************)
(* What run_branches (crates/ppe-orchestration/src/lib.rs) promises its    *)
(* two callers, the concurrent phase of the executor and the `parallel:`   *)
(* block of the APL evaluator, with no word about tasks, joins or the      *)
(* JoinSet: every branch meets one fate, a branch may be cut short only    *)
(* once another branch has denied, and the caller is handed exactly the    *)
(* fates, in input order.                                                  *)
(***************************************************************************)
EXTENDS BranchOutcomes

CONSTANTS
    N,              \* the number of branches
    Results,        \* the values a branch's future can produce
    Denies,         \* the results the caller's is_deny predicate accepts
    HasTimeout,     \* BranchConfig::timeout_per_branch is Some
    ShortCircuit    \* BranchConfig::short_circuit_on_deny

Branch == 1 .. N

\* The ways a branch ends by itself.
OwnEnd == Results \cup {"Panicked"} \cup (IF HasTimeout THEN {"TimedOut"} ELSE {})

VARIABLES
    fate,       \* fate[b]: how branch b ended, or "Pending"
    outcomes,   \* the vector handed to the caller, "Absent" until then
    returned    \* the caller has it

fateVars == <<fate, outcomes, returned>>

FateInit ==
    /\ fate = [b \in Branch |-> "Pending"]
    /\ outcomes = [b \in Branch |-> "Absent"]
    /\ returned = FALSE

\* A branch completes, times out or panics.
Ends(b) ==
    /\ fate[b] = "Pending"
    /\ \E o \in OwnEnd : fate' = [fate EXCEPT ![b] = o]
    /\ UNCHANGED <<outcomes, returned>>

\* A branch is cut short, which takes a deny.
CutShort(b) ==
    /\ fate[b] = "Pending"
    /\ ShortCircuit
    /\ \E d \in Branch : fate[d] \in Denies
    /\ fate' = [fate EXCEPT ![b] = "Aborted"]
    /\ UNCHANGED <<outcomes, returned>>

\* The caller gets the fates of all branches, each at its own position.
Deliver ==
    /\ ~returned
    /\ \A b \in Branch : fate[b] # "Pending"
    /\ outcomes' = fate
    /\ returned' = TRUE
    /\ UNCHANGED fate

FateNext ==
    \/ \E b \in Branch : Ends(b) \/ CutShort(b)
    \/ Deliver

FateSpec == FateInit /\ [][FateNext]_fateVars
=============================================================================
