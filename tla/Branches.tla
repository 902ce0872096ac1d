------------------------------ MODULE Branches ------------------------------
(***************************************************************************)
(* run_branches of crates/ppe-orchestration/src/lib.rs: N futures spawned  *)
(* on a JoinSet, joined in the order in which they finish, the rest        *)
(* aborted at the first deny when short_circuit_on_deny is set.            *)
(*                                                                         *)
(* The spawned tasks run on a multi-threaded runtime: they finish in any   *)
(* order, also while the spawn loop is still running, and a task that is   *)
(* being polled when abort_all is called may still finish by itself.       *)
(***************************************************************************)
EXTENDS BranchOutcomes

CONSTANTS N, Results, Denies, HasTimeout, ShortCircuit

ASSUME BranchesAssumption ==
    /\ N \in Nat
    /\ Denies \subseteq Results
    /\ HasTimeout \in BOOLEAN
    /\ ShortCircuit \in BOOLEAN
    /\ Results \cap {"Unspawned", "Running", "TimedOut", "Aborted", "Panicked",
                     "Absent", "Pending"} = {}

Branch == 1 .. N

Outcome == OutcomeOf(Results)

VARIABLES
    task,       \* task[b]: "Unspawned", "Running" or how the task ended
                \* ("Aborted": cancelled by the runtime)
    joined,     \* the tasks join_next_with_id has returned
    done,       \* the `done` map: done[b] is an outcome or "Absent"
    aborted,    \* abort_all has been called
    outcomes,   \* the returned vector, all "Absent" until then
    returned    \* run_branches has returned

vars == <<task, joined, done, aborted, outcomes, returned>>

TypeOK ==
    /\ task \in [Branch -> Outcome \cup {"Unspawned", "Running"}]
    /\ joined \subseteq Branch
    /\ done \in [Branch -> Outcome \cup {"Absent"}]
    /\ aborted \in BOOLEAN
    /\ outcomes \in [Branch -> Outcome \cup {"Absent"}]
    /\ returned \in BOOLEAN
    /\ returned => outcomes \in [Branch -> Outcome]

Init ==
    /\ task = [b \in Branch |-> "Unspawned"]
    /\ joined = {}
    /\ done = [b \in Branch |-> "Absent"]
    /\ aborted = FALSE
    /\ outcomes = [b \in Branch |-> "Absent"]
    /\ returned = FALSE

Ended(b) == task[b] \in Outcome

AllSpawned == \A b \in Branch : task[b] # "Unspawned"

-----------------------------------------------------------------------------
(* The spawn loop, in input order.                                         *)
Spawn(b) ==
    /\ task[b] = "Unspawned"
    /\ \A a \in 1 .. (b - 1) : task[a] # "Unspawned"
    /\ task' = [task EXCEPT ![b] = "Running"]
    /\ UNCHANGED <<joined, done, aborted, outcomes, returned>>

(* The tasks.                                                              *)
Complete(b, r) ==
    /\ task[b] = "Running"
    /\ task' = [task EXCEPT ![b] = r]
    /\ UNCHANGED <<joined, done, aborted, outcomes, returned>>

Timeout(b) ==
    /\ HasTimeout
    /\ task[b] = "Running"
    /\ task' = [task EXCEPT ![b] = "TimedOut"]
    /\ UNCHANGED <<joined, done, aborted, outcomes, returned>>

Panic(b) ==
    /\ task[b] = "Running"
    /\ task' = [task EXCEPT ![b] = "Panicked"]
    /\ UNCHANGED <<joined, done, aborted, outcomes, returned>>

(* The runtime drops a task abort_all has marked.                          *)
Cancel(b) ==
    /\ aborted
    /\ task[b] = "Running"
    /\ task' = [task EXCEPT ![b] = "Aborted"]
    /\ UNCHANGED <<joined, done, aborted, outcomes, returned>>

(* One turn of the join loop: the outcome lands in the branch's own slot   *)
(* (a cancelled task leaves its slot absent), then the first deny aborts   *)
(* whatever is still running. The loop goes on until the JoinSet is empty. *)
JoinBreaksAtDeny(b) ==      \* mutant: breaks out of the loop at the first deny
    /\ AllSpawned
    /\ Ended(b)
    /\ b \notin joined
    /\ done' = IF task[b] = "Aborted" THEN done ELSE [done EXCEPT ![b] = task[b]]
    /\ aborted' = (aborted \/ (ShortCircuit /\ task[b] \in Denies))
    /\ joined' = IF aborted' THEN Branch ELSE joined \cup {b}
    /\ UNCHANGED <<task, outcomes, returned>>

JoinHaltsOnFailure(b) ==    \* mutant: a timeout or a panic aborts the others too
    /\ AllSpawned
    /\ Ended(b)
    /\ b \notin joined
    /\ joined' = joined \cup {b}
    /\ done' = IF task[b] = "Aborted" THEN done ELSE [done EXCEPT ![b] = task[b]]
    /\ aborted' = (aborted \/ (ShortCircuit /\ task[b] \in Denies \cup {"TimedOut", "Panicked"}))
    /\ UNCHANGED <<task, outcomes, returned>>

JoinSkipsCancelled(b) ==    \* mutant: a cancelled task is never joined
    /\ AllSpawned
    /\ Ended(b)
    /\ task[b] # "Aborted"
    /\ b \notin joined
    /\ joined' = joined \cup {b}
    /\ done' = [done EXCEPT ![b] = task[b]]
    /\ aborted' = (aborted \/ (ShortCircuit /\ task[b] \in Denies))
    /\ UNCHANGED <<task, outcomes, returned>>

Join(b) ==
    /\ AllSpawned
    /\ Ended(b)
    /\ b \notin joined
    /\ joined' = joined \cup {b}
    /\ done' = IF task[b] = "Aborted" THEN done ELSE [done EXCEPT ![b] = task[b]]
    /\ aborted' = (aborted \/ (ShortCircuit /\ task[b] \in Denies))
    /\ UNCHANGED <<task, outcomes, returned>>

(* The JoinSet is empty: absent slots are filled with Aborted.             *)
ReturnWhenNoneReady ==      \* mutant: returns as soon as no finished task waits
    /\ ~returned
    /\ AllSpawned
    /\ \A b \in Branch : Ended(b) => b \in joined
    /\ outcomes' = [b \in Branch |-> IF done[b] = "Absent" THEN "Aborted" ELSE done[b]]
    /\ returned' = TRUE
    /\ UNCHANGED <<task, joined, done, aborted>>

Return ==
    /\ ~returned
    /\ AllSpawned
    /\ joined = Branch
    /\ outcomes' = [b \in Branch |-> IF done[b] = "Absent" THEN "Aborted" ELSE done[b]]
    /\ returned' = TRUE
    /\ UNCHANGED <<task, joined, done, aborted>>

Next ==
    \/ \E b \in Branch :
        \/ Spawn(b) \/ Timeout(b) \/ Panic(b) \/ Cancel(b) \/ Join(b)
        \/ \E r \in Results : Complete(b, r)
    \/ Return

Spec == Init /\ [][Next]_vars

-----------------------------------------------------------------------------
(* The runtime polls the orchestrating future, the timer behind every      *)
(* timeout fires, and an aborted task is dropped; nothing is assumed of    *)
(* the branches' own futures.                                              *)
Fairness ==
    /\ WF_vars(Return)
    /\ \A b \in Branch : WF_vars(Spawn(b)) /\ WF_vars(Join(b))
    /\ \A b \in Branch : WF_vars(Timeout(b)) /\ WF_vars(Cancel(b))

FairSpec == Spec /\ Fairness

-----------------------------------------------------------------------------
Fate == [b \in Branch |-> IF task[b] \in {"Unspawned", "Running"} THEN "Pending" ELSE task[b]]

Promise == INSTANCE BranchFates WITH fate <- Fate

(* run_branches implements its contract: each branch meets one fate, only  *)
(* a deny cuts a branch short, and the caller is handed the fates in input *)
(* order.                                                                  *)
Implements == Promise!FateSpec

(* No deny is lost: a branch whose task finished with a deny is reported   *)
(* with it, whatever was aborted meanwhile ("an Aborted that was really a  *)
(* Deny is a policy bypass", the comment on `done`).                       *)
NoDenyLost ==
    returned =>
        \A b \in Branch : task[b] \in Denies => outcomes[b] = task[b]

(* The returned vector is one the callers are specified against. Above all *)
(* an Aborted slot is always accompanied by the deny that caused it: the   *)
(* executor records nothing for an Aborted branch and relies on the deny   *)
(* standing elsewhere in the vector.                                       *)
ReturnsDeliverable ==
    returned => outcomes \in Deliverable(Branch, Results, Denies, HasTimeout, ShortCircuit)

(* With a timeout per branch the caller always gets its outcomes, even if  *)
(* no branch future ever completes.                                        *)
Returns == <>(returned)
=============================================================================
