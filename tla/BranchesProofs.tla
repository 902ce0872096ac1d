--------------------------- MODULE BranchesProofs ---------------------------
(***************************************************************************)
(* run_branches, for every number of branches and every configuration:     *)
(* its type invariant, that no deny is lost, that an abort is always       *)
(* accompanied by a deny, and that it implements BranchFates.              *)
(***************************************************************************)
EXTENDS Branches, TLAPS

(* Type correctness, including that the returned vector has an outcome in  *)
(* every slot.                                                             *)
THEOREM TypeCorrect == Spec => []TypeOK
<1>1. Init => TypeOK
  BY DEF Init, TypeOK
<1>2. TypeOK /\ [Next]_vars => TypeOK'
  <2> SUFFICES ASSUME TypeOK, [Next]_vars PROVE TypeOK'
    OBVIOUS
  <2> USE DEF TypeOK, Outcome, OutcomeOf
  <2>1. ASSUME NEW b \in Branch, Spawn(b) PROVE TypeOK'
    BY <2>1 DEF Spawn
  <2>2. ASSUME NEW b \in Branch, Timeout(b) PROVE TypeOK'
    BY <2>2 DEF Timeout
  <2>3. ASSUME NEW b \in Branch, Panic(b) PROVE TypeOK'
    BY <2>3 DEF Panic
  <2>4. ASSUME NEW b \in Branch, Cancel(b) PROVE TypeOK'
    BY <2>4 DEF Cancel
  <2>5. ASSUME NEW b \in Branch, Join(b) PROVE TypeOK'
    BY <2>5 DEF Join, Ended
  <2>6. ASSUME NEW b \in Branch, NEW r \in Results, Complete(b, r) PROVE TypeOK'
    BY <2>6 DEF Complete
  <2>7. CASE Return
    BY <2>7 DEF Return
  <2>8. CASE UNCHANGED vars
    BY <2>8 DEF vars
  <2>9. QED
    BY <2>1, <2>2, <2>3, <2>4, <2>5, <2>6, <2>7, <2>8 DEF Next
<1>3. QED
  BY <1>1, <1>2, PTL DEF Spec

-----------------------------------------------------------------------------
(* What the join loop maintains: the slots of joined tasks hold how they   *)
(* ended, a cancelled task leaves its slot absent, and abort_all is only   *)
(* ever called with a deny already in its slot.                            *)
SlotsMatchTasks ==
    \A b \in Branch :
        /\ b \in joined => task[b] \in Outcome
        /\ b \in joined /\ task[b] # "Aborted" => done[b] = task[b]
        /\ b \notin joined \/ task[b] = "Aborted" => done[b] = "Absent"

AbortHasDeny ==
    /\ \A b \in Branch : task[b] = "Aborted" => aborted
    /\ aborted => ShortCircuit /\ \E d \in joined : done[d] \in Denies /\ task[d] \in Denies

TimeoutConfigured == \A b \in Branch : task[b] = "TimedOut" => HasTimeout

ReturnedIsFates ==
    /\ ~returned => outcomes = [b \in Branch |-> "Absent"]
    /\ returned => joined = Branch /\ outcomes = task

IInv ==
    TypeOK /\ SlotsMatchTasks /\ AbortHasDeny /\ TimeoutConfigured /\ ReturnedIsFates

LEMMA InitIInv == Init => IInv
  BY DEF Init, IInv, TypeOK, SlotsMatchTasks, AbortHasDeny,
         TimeoutConfigured, ReturnedIsFates, Branch

LEMMA StepIInv == IInv /\ [Next]_vars => IInv'
<1> SUFFICES ASSUME IInv, [Next]_vars PROVE IInv'
  OBVIOUS
<1> USE BranchesAssumption DEF IInv, TypeOK, Outcome, OutcomeOf, SlotsMatchTasks, AbortHasDeny,
         TimeoutConfigured, ReturnedIsFates
<1>1. ASSUME NEW b \in Branch, Spawn(b) PROVE IInv'
  BY <1>1 DEF Spawn
<1>2. ASSUME NEW b \in Branch, Timeout(b) PROVE IInv'
  BY <1>2 DEF Timeout
<1>3. ASSUME NEW b \in Branch, Panic(b) PROVE IInv'
  BY <1>3 DEF Panic
<1>4. ASSUME NEW b \in Branch, Cancel(b) PROVE IInv'
  BY <1>4 DEF Cancel
<1>5. ASSUME NEW b \in Branch, Join(b) PROVE IInv'
  BY <1>5 DEF Join, Ended
<1>6. ASSUME NEW b \in Branch, NEW r \in Results, Complete(b, r) PROVE IInv'
  BY <1>6 DEF Complete
<1>7. CASE Return
  BY <1>7 DEF Return
<1>8. CASE UNCHANGED vars
  BY <1>8 DEF vars
<1>9. QED
  BY <1>1, <1>2, <1>3, <1>4, <1>5, <1>6, <1>7, <1>8 DEF Next

LEMMA Invariance == Spec => []IInv
  BY InitIInv, StepIInv, PTL DEF Spec

(* No deny is lost, for every number of branches.                          *)
THEOREM DenyReported == Spec => []NoDenyLost
<1>1. IInv => NoDenyLost
  BY DEF IInv, NoDenyLost, ReturnedIsFates
<1>2. QED
  BY <1>1, Invariance, PTL

(* run_branches returns only the vectors its callers are specified against.*)
THEOREM OutcomesDeliverable == Spec => []ReturnsDeliverable
<1>1. IInv => ReturnsDeliverable
  <2> SUFFICES ASSUME IInv, returned
               PROVE  outcomes \in Deliverable(Branch, Results, Denies, HasTimeout, ShortCircuit)
    BY DEF ReturnsDeliverable
  <2> USE DEF IInv, TypeOK, Outcome
  <2>1. outcomes \in [Branch -> OutcomeOf(Results)]
    OBVIOUS
  <2>2. (\E b \in Branch : outcomes[b] = "Aborted") =>
            ShortCircuit /\ \E d \in Branch : outcomes[d] \in Denies
    BY DEF ReturnedIsFates, AbortHasDeny
  <2>3. (\E b \in Branch : outcomes[b] = "TimedOut") => HasTimeout
    BY DEF ReturnedIsFates, TimeoutConfigured
  <2>4. QED
    BY <2>1, <2>2, <2>3 DEF Deliverable
<1>2. QED
  BY <1>1, Invariance, PTL

-----------------------------------------------------------------------------
(* run_branches implements its contract.                                   *)
THEOREM ImplementsFates == Spec => Implements
<1>1. Init => Promise!FateInit
  BY DEF Init, Promise!FateInit, Fate, Promise!Branch, Branch
<1>2. IInv /\ [Next]_vars => [Promise!FateNext]_(Promise!fateVars)
  <2> SUFFICES ASSUME IInv, [Next]_vars
               PROVE  [Promise!FateNext]_(Promise!fateVars)
    OBVIOUS
  <2> USE DEF Promise!fateVars, Promise!Branch, Branch, Fate
  <2>1. ASSUME NEW b \in Branch, Spawn(b) PROVE UNCHANGED Promise!fateVars
    BY <2>1 DEF Spawn, IInv, TypeOK
  <2>2. ASSUME NEW b \in Branch, Join(b) PROVE UNCHANGED Promise!fateVars
    BY <2>2 DEF Join
  <2>3. ASSUME NEW b \in Branch, NEW o \in Promise!OwnEnd,
               task[b] = "Running", task' = [task EXCEPT ![b] = o],
               UNCHANGED <<outcomes, returned>>
        PROVE  Promise!Ends(b)
    BY <2>3, BranchesAssumption DEF Promise!Ends, Promise!OwnEnd, IInv, TypeOK, Outcome, OutcomeOf
  <2>4. ASSUME NEW b \in Branch, Cancel(b) PROVE Promise!CutShort(b)
    BY <2>4, BranchesAssumption DEF Cancel, Promise!CutShort, IInv, TypeOK, AbortHasDeny, Outcome, OutcomeOf
  <2>5. ASSUME NEW b \in Branch, Timeout(b) PROVE Promise!Ends(b)
    BY <2>3, <2>5 DEF Timeout, Promise!OwnEnd
  <2>6. ASSUME NEW b \in Branch, Panic(b) PROVE Promise!Ends(b)
    BY <2>3, <2>6 DEF Panic, Promise!OwnEnd
  <2>7. ASSUME NEW b \in Branch, NEW r \in Results, Complete(b, r) PROVE Promise!Ends(b)
    BY <2>3, <2>7 DEF Complete, Promise!OwnEnd
  <2>8. CASE Return
    <3>1. \A b \in Branch : task[b] \in Outcome
      BY <2>8 DEF Return, IInv, SlotsMatchTasks
    <3>2. \A b \in Branch : outcomes'[b] = task[b]
      BY <2>8, <3>1, BranchesAssumption DEF Return, IInv, SlotsMatchTasks, TypeOK, Outcome, OutcomeOf
    <3>3. Promise!Deliver
      BY <2>8, <3>1, <3>2, BranchesAssumption DEF Return, Promise!Deliver, Outcome, OutcomeOf, IInv, TypeOK
    <3>4. QED
      BY <3>3 DEF Promise!FateNext
  <2>9. CASE UNCHANGED vars
    BY <2>9 DEF vars
  <2>10. QED
    BY <2>1, <2>2, <2>4, <2>5, <2>6, <2>7, <2>8, <2>9 DEF Next, Promise!FateNext
<1>3. QED
  BY <1>1, <1>2, Invariance, PTL DEF Spec, Implements, Promise!FateSpec
=============================================================================
