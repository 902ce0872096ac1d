--------------------------- MODULE ExecutorProofs ---------------------------
(***************************************************************************)
(* The executor, for every set of plugins, every capability assignment and *)
(* every handler behaviour.                                                *)
(***************************************************************************)
EXTENDS Executor, SequenceTheorems, WellFoundedInduction, TLAPS

(* What acceptance makes canonical is well typed.                          *)
LEMMA AcceptType ==
    ASSUME NEW e \in ExtensionsType, NEW o \in ExtensionsType, NEW caps
    PROVE  AcceptExtensions(e, o, caps) \in ExtensionsType
<1> USE DEF ExtensionsType, Maybe
<1>1. MergeHttp(e, o, caps) \in Maybe(HttpExtension)
  BY NoneAssumption DEF MergeHttp, HttpExtension
<1>2. MergeSecurity(e, o, caps) \in Maybe(SecurityExtension)
  BY NoneAssumption DEF MergeSecurity, SecurityExtension
<1>3. MergeDelegation(e, o, caps) \in Maybe(DelegationExtension)
  BY NoneAssumption DEF MergeDelegation, DelegationExtension
<1>4. MergeOwned(e, o, caps) \in ExtensionsType
  BY <1>1, <1>2, <1>3 DEF MergeOwned
<1>5. QED
  BY <1>4 DEF AcceptExtensions

(* Whatever a handler returns, what becomes canonical is within the tiers  *)
(* of the capabilities its plugin holds; of the credentials it returns     *)
(* what it was shown and what was minted.                                  *)
LEMMA AcceptWithinTiers ==
    ASSUME NEW e \in ExtensionsType, NEW o \in ExtensionsType, NEW caps,
           HandsBack(FilterExtensions(e, caps), o)
    PROVE  TierStep(e, AcceptExtensions(e, o, caps), caps)
<1> DEFINE n == AcceptExtensions(e, o, caps)
<1>1. CASE n = e
  BY <1>1 DEF TierStep, ImmutableKept, LabelsGrow, ChainGrows, CredentialsStand, WriteAuthorised,
              ExtensionsType, Maybe, DelegationExtension
<1>2. CASE n # e
  <2>1. n = MergeOwned(e, o, caps) /\ CandidateConstraintWriteOk(e, o, caps)
    BY <1>2 DEF AcceptExtensions
  <2>2. ImmutableKept(e, n)
    BY <2>1, NoneAssumption DEF ImmutableKept, MergeOwned, MergeHttp, MergeSecurity, ExtensionsType, Maybe,
       HttpExtension, SecurityExtension
  <2>3. LabelsGrow(e, n)
    BY <2>1 DEF LabelsGrow, MergeOwned, MergeSecurity, ExtensionsType, Maybe, SecurityExtension
  <2>4. ChainGrows(e, n)
    BY <2>1, NoneAssumption DEF ChainGrows, MergeOwned, MergeDelegation, ChainExtends, ExtensionsType, Maybe, DelegationExtension
  <2>5. WriteAuthorised(e, n, caps)
    BY <2>1 DEF WriteAuthorised, CandidateConstraintWriteOk, MergeOwned, MergeHttp,
                MergeSecurity, MergeDelegation
  <2>6. CredentialsStand(e, n, caps)
    <3> DEFINE old == e.raw_credentials
               view == FilterExtensions(e, caps).raw_credentials
               new == o.raw_credentials
    <3>1. n.raw_credentials = IF new # None THEN new ELSE old
      BY <2>1 DEF MergeOwned
    <3>2. /\ old \in Maybe(RawCredentialsExtension) /\ new \in Maybe(RawCredentialsExtension)
          /\ view = IF old # None /\ (HasReadAccess("inbound", caps) \/ HasReadAccess("delegated", caps))
                    THEN FilteredRawCredentials(old, caps) ELSE None
      BY DEF ExtensionsType, FilterExtensions
    <3>3. CASE new = None
      BY <3>1, <3>3 DEF CredentialsStand
    <3>4. CASE new # None /\ new = view
      BY <3>1, <3>2, <3>4, NoneAssumption DEF CredentialsStand, FilteredRawCredentials, Gate, RawCredentialsExtension, Maybe
    <3>5. CASE new # None /\ new # view
      <4>1. PICK minted : new = [(IF view = None THEN [inbound |-> {}, delegated |-> {}] ELSE view)
                                   EXCEPT !.delegated = @ \cup minted]
        BY <3>5 DEF HandsBack
      <4>2. CASE view = None
        <5>1. new.inbound = {} /\ n.raw_credentials = new
          BY <3>1, <3>5, <4>1, <4>2
        <5>2. old # None => FilteredRawCredentials(old, caps) \in RawCredentialsExtension
          BY <3>2 DEF FilteredRawCredentials, Gate, Maybe, RawCredentialsExtension
        <5>3. old # None => ~HasReadAccess("inbound", caps) /\ ~HasReadAccess("delegated", caps)
          BY <3>2, <4>2, <5>2, NoneAssumption
        <5>4. QED
          BY <3>5, <5>1, <5>3 DEF CredentialsStand
      <4>3. CASE view # None
        BY <3>1, <3>2, <4>1, <4>3, NoneAssumption DEF CredentialsStand, FilteredRawCredentials, Gate, Maybe, RawCredentialsExtension
      <4>4. QED
        BY <4>2, <4>3
    <3>6. QED
      BY <3>3, <3>4, <3>5
  <2>7. QED
    BY <2>2, <2>3, <2>4, <2>5, <2>6 DEF TierStep
<1>3. QED
  BY <1>1, <1>2

(* A nonempty set of entries has a first one: the post-loop of the         *)
(* concurrent phase names an entry whenever one halts.                     *)
LEMMA FirstExists ==
    ASSUME NEW S \in SUBSET Plugin, S # {}
    PROVE  /\ FirstHalting(S) \in S
           /\ \A p \in S : FirstHalting(S) <= p
<1>1. S \subseteq Nat
  BY ExecutorAssumption DEF Plugin
<1>2. PICK x \in S : \A y \in S : ~(<<y, x>> \in OpToRel(<, Nat))
  BY <1>1, NatLessThanWellFounded, WFMin, Zenon
<1>3. \A y \in S : ~(y < x)
  BY <1>1, <1>2, Zenon DEF OpToRel
<1>4. \A y \in S : x <= y
  BY <1>1, <1>3
<1>5. QED
  BY <1>4, Zenon DEF FirstHalting

(* Updating one entry of a table of tables keeps its type and the others.  *)
LEMMA UpdateTable ==
    ASSUME NEW A, NEW B, NEW C, NEW f \in [A -> [B -> C]], NEW a \in A, NEW b \in B, NEW c \in C
    PROVE  /\ [f EXCEPT ![a][b] = c] \in [A -> [B -> C]]
           /\ \A s \in A, n \in B :
                [f EXCEPT ![a][b] = c][s][n] = IF s = a /\ n = b THEN c ELSE f[s][n]
<1>1. [f[a] EXCEPT ![b] = c] \in [B -> C]
  OBVIOUS
<1>2. QED
  BY <1>1

(* The parts of a serial or audit step that touch one entry.               *)
LEMMA StepTypes ==
    ASSUME TypeOK, NEW r \in Requests, NEW m \in Modes, NEW p \in Plugin
    PROVE  /\ Pop(r, m, p) => queue' \in [Requests -> [Modes -> SUBSET Plugin]]
           /\ LogError(r, p) => errors' \in [Requests -> [Plugin -> Nat]]
           /\ \A end \in Ends : Record(r, p, end) => fate' \in [Requests -> [Plugin -> Ends]]
           /\ StoreContext(r, p) => /\ locals' \in [Requests -> SUBSET Plugin]
                                    /\ global' \in [Requests -> SUBSET Plugin]
<1>1. Pop(r, m, p) => queue' \in [Requests -> [Modes -> SUBSET Plugin]]
  BY UpdateTable DEF TypeOK, Pop
<1>2. LogError(r, p) => errors' \in [Requests -> [Plugin -> Nat]]
  BY UpdateTable DEF TypeOK, LogError
<1>3. \A end \in Ends : Record(r, p, end) => fate' \in [Requests -> [Plugin -> Ends]]
  BY UpdateTable DEF TypeOK, Record
<1>4. StoreContext(r, p) => /\ locals' \in [Requests -> SUBSET Plugin]
                            /\ global' \in [Requests -> SUBSET Plugin]
  BY DEF TypeOK, StoreContext
<1>5. QED
  BY <1>1, <1>2, <1>3, <1>4

(* Every step keeps the types.                                             *)
LEMMA TypeStep == TypeOK /\ [Next]_vars => TypeOK'
<1> SUFFICES ASSUME TypeOK, [Next]_vars PROVE TypeOK'
  OBVIOUS
<1> USE DEF TypeOK
<1>1. ASSUME NEW r \in Requests, Execute(r) PROVE TypeOK'
  <2>1. GroupByMode \in [Modes -> SUBSET Plugin]
    BY DEF GroupByMode
  <2>2. QED
    BY <1>1, <2>1, ExecutorAssumption DEF Execute, NoErrors, NoFates, Maybe, Ends
<1>2. ASSUME NEW r \in Requests, NEW m \in SerialPhases, NEW p \in Plugin, SerialReply(r, m, p)
      PROVE  TypeOK'
  <2>1. PICK reply \in Replies(p, FilterExtensions(ext[r], Caps[p])) :
          \/ SerialDeny(r, p, ReplyEnd(reply))
          \/ SerialAccept(r, m, p, reply)
    BY <1>2 DEF SerialReply
  <2>2. ReplyEnd(reply) \in Ends
    BY DEF ReplyEnd, Ends
  <2>3. CASE SerialDeny(r, p, ReplyEnd(reply))
    BY <2>2, <2>3 DEF SerialDeny, Deny, Record, EmptyQueue, Maybe
  <2>4. CASE SerialAccept(r, m, p, reply)
    <3>1. ext' \in [Requests -> ExtensionsType]
      <4>1. reply.extensions # None => reply.extensions \in ExtensionsType
        BY DEF Replies, Maybe
      <4>2. reply.extensions # None => AcceptExtensions(ext[r], reply.extensions, Caps[p]) \in ExtensionsType
        BY <4>1, AcceptType
      <4>3. QED
        BY <2>4, <4>2 DEF SerialAccept
    <3>2. reply.payload \in BOOLEAN
      BY DEF Replies
    <3>3. modified' \in [Requests -> BOOLEAN] /\ payload' \in [Requests -> Maybe(Plugin)]
      BY <2>4, <3>2 DEF SerialAccept, Maybe
    <3>4. m \in Modes /\ Pop(r, m, p) /\ Record(r, p, ReplyEnd(reply)) /\ StoreContext(r, p)
      BY <2>4 DEF SerialAccept, SerialPhases, Modes
    <3>5. /\ queue' \in [Requests -> [Modes -> SUBSET Plugin]]
          /\ fate' \in [Requests -> [Plugin -> Ends]]
          /\ locals' \in [Requests -> SUBSET Plugin]
          /\ global' \in [Requests -> SUBSET Plugin]
      BY <2>2, <3>4, StepTypes
    <3>6. QED
      BY <2>4, <3>1, <3>3, <3>5 DEF SerialAccept
  <2>5. QED
    BY <2>1, <2>3, <2>4
<1>3. ASSUME NEW r \in Requests, NEW m \in SerialPhases, NEW p \in Plugin,
             SerialFailure(r, m, p)
      PROVE  TypeOK'
  <2>1. PICK end \in {"Error", "TimedOut"} : SerialDeny(r, p, end) \/ SerialSwallow(r, m, p, end)
    BY <1>3 DEF SerialFailure
  <2>2. end \in Ends
    BY DEF Ends, Failures
  <2>3. CASE SerialDeny(r, p, end)
    BY <2>2, <2>3 DEF SerialDeny, Deny, Record, EmptyQueue, Maybe
  <2>4. CASE SerialSwallow(r, m, p, end)
    <3>1. m \in Modes /\ Pop(r, m, p) /\ Record(r, p, end) /\ StoreContext(r, p) /\ LogError(r, p)
      BY <2>4 DEF SerialSwallow, SerialPhases, Modes
    <3>2. /\ queue' \in [Requests -> [Modes -> SUBSET Plugin]]
          /\ errors' \in [Requests -> [Plugin -> Nat]]
          /\ fate' \in [Requests -> [Plugin -> Ends]]
          /\ locals' \in [Requests -> SUBSET Plugin]
          /\ global' \in [Requests -> SUBSET Plugin]
      BY <2>2, <3>1, StepTypes
    <3>3. QED
      BY <2>4, <3>2 DEF SerialSwallow, Disable
  <2>5. QED
    BY <2>1, <2>3, <2>4
<1>4. ASSUME NEW r \in Requests, NEW p \in Plugin, AuditReply(r, p) PROVE TypeOK'
  BY <1>4, StepTypes DEF AuditReply, Ends, Modes
<1>5. ASSUME NEW r \in Requests, NEW p \in Plugin, AuditFailure(r, p) PROVE TypeOK'
  BY <1>5, StepTypes DEF AuditFailure, Disable, Ends, Failures, Modes
<1>6. ASSUME NEW r \in Requests, ConcurrentPhase(r) PROVE TypeOK'
  <2> DEFINE ps == queue[r]["Concurrent"]
  <2>1. PICK outcome \in Deliverable(ps, BranchData, BranchDenies, TRUE, ShortCircuit) :
          ConcurrentResult(r, outcome)
    BY <1>6 DEF ConcurrentPhase
  <2>2. outcome \in [ps -> Ends]
    BY DEF Deliverable, OutcomeOf, BranchData, Ends, Failures
  <2>3. \A S \in SUBSET Plugin : S # {} => FirstHalting(S) \in Plugin
    BY FirstExists
  <2>4. ps \subseteq Plugin
    BY DEF Modes
  <2>5. fate' \in [Requests -> [Plugin -> Ends]]
    BY <2>1, <2>2, <2>4 DEF ConcurrentResult
  <2>6. errors' \in [Requests -> [Plugin -> Nat]] /\ tripped' \subseteq Plugin
    BY <2>1, <2>4 DEF ConcurrentResult
  <2>7. CASE queue' = [queue EXCEPT ![r]["Concurrent"] = {}]
             /\ UNCHANGED <<payload, modified, verdict, violator>>
    <3>1. queue' \in [Requests -> [Modes -> SUBSET Plugin]]
      BY <2>7, UpdateTable DEF Modes
    <3>2. QED
      BY <1>6, <2>5, <2>6, <2>7, <3>1 DEF ConcurrentPhase
  <2>8. CASE \E S \in SUBSET Plugin : S # {} /\ Deny(r, FirstHalting(S))
    <3>1. PICK v \in Plugin : Deny(r, v)
      BY <2>3, <2>8
    <3>2. QED
      BY <1>6, <2>5, <2>6, <3>1 DEF ConcurrentPhase, Deny, EmptyQueue, Maybe
  <2>9. QED
    <3> DEFINE halting == {p \in ps : Halts(p, outcome[p])}
    <3>1. halting \in SUBSET Plugin
      BY <2>4
    <3>2. \/ queue' = [queue EXCEPT ![r]["Concurrent"] = {}]
             /\ UNCHANGED <<payload, modified, verdict, violator>>
          \/ halting # {} /\ Deny(r, FirstHalting(halting))
      BY <2>1 DEF ConcurrentResult
    <3>3. QED
      BY <2>7, <2>8, <3>1, <3>2
<1>7. ASSUME NEW r \in Requests, Finish(r) PROVE TypeOK'
  BY <1>7 DEF Finish, Modes
<1>8. ASSUME NEW r \in Requests, NEW h \in Hooks, WaitForBackgroundTasks(r, h) PROVE TypeOK'
  BY <1>8 DEF WaitForBackgroundTasks, pipeline, Maybe
<1>9. ASSUME NEW r \in Requests, NEW h \in Hooks, NEW p \in Plugin, BackgroundEnds(r, h, p)
      PROVE  TypeOK'
  <2>1. PICK end \in {"Ok"} \cup Failures : background' = [background EXCEPT ![r][h][p] = end]
    BY <1>9 DEF BackgroundEnds
  <2>2. [background[r] EXCEPT ![h][p] = end]
          \in [Hooks -> [Plugin -> {"None", "Running", "Ok"} \cup Failures]]
    BY UpdateTable
  <2>3. QED
    BY <1>9, <2>1, <2>2 DEF BackgroundEnds, pipeline
<1>10. CASE UNCHANGED vars
  BY <1>10 DEF vars, pipeline
<1>11. QED
  BY <1>1, <1>2, <1>3, <1>4, <1>5, <1>6, <1>7, <1>8, <1>9, <1>10 DEF Next, HookStep

(* Type correctness, for every registration of plugins and every handler   *)
(* behaviour.                                                              *)
THEOREM TypeCorrect == Spec => []TypeOK
<1>1. Init => TypeOK
  BY ExecutorAssumption DEF Init, TypeOK, EmptyQueue, NoErrors, NoFates, NoTasks, Maybe, Ends
<1>2. QED
  BY <1>1, TypeStep, PTL DEF Spec

-----------------------------------------------------------------------------
(* What the phases maintain. An entry that is still queued has not run, is *)
(* of the phase it is queued for and was not barred; an awaited entry that *)
(* has not run is still queued; nothing that ran has blocked while the     *)
(* hook goes on; no later phase runs before the sequential one is over;    *)
(* and no task is charged to a hook that has not started.                  *)
Going(r) == verdict[r] \in {"Running", "Allowed"}

Pending ==
    \A r \in Requests, m \in Modes : \A p \in queue[r][m] :
        /\ verdict[r] = "Running"
        /\ Mode[p] = m /\ m # "Disabled"
        /\ fate[r][p] = "None"
        /\ p \notin barred[r]

Covered ==
    \A r \in Requests, p \in Plugin :
        Going(r) /\ Awaited(p) /\ p \notin barred[r] /\ fate[r][p] = "None" =>
            p \in queue[r][Mode[p]]

Unblocked ==
    \A r \in Requests, p \in Plugin :
        Going(r) => ~Stops(p, fate[r][p]) /\ fate[r][p] # "Aborted"

PhaseOrder ==
    \A r \in Requests, p \in Plugin :
        queue[r]["Sequential"] # {} /\ Mode[p] # "Sequential" => fate[r][p] = "None"

Started ==
    \A r \in Requests :
        /\ verdict[r] = "Running" => hook[r] \in Hooks
        /\ \A h \in Hooks, p \in Plugin : h > hook[r] => background[r][h][p] = "None"

PhaseInv == Pending /\ Covered /\ Unblocked /\ PhaseOrder /\ Started
IInv == TypeOK /\ PhaseInv /\ ErrorsExact /\ BreakerHolds /\ DeniedByFirstBlocker

(* One entry of a serial or audit phase ends without blocking.             *)
EntryEnds(r, m, p, end) ==
    /\ Record(r, p, end)
    /\ Pop(r, m, p)
    /\ IF end \in Failures THEN LogError(r, p) ELSE errors' = errors
    /\ IF end \in Failures THEN Disable(p) ELSE tripped' = tripped
    /\ UNCHANGED <<hook, verdict, violator, background, barred>>

LEMMA EntryEndsKeeps ==
    ASSUME IInv, TypeOK',
           NEW r \in Requests, NEW m \in {"Sequential", "Transform", "Audit"},
           NEW p \in Plugin, NEW end \in Ends \ {"None", "Aborted"},
           Turn(r, m, p), ~Stops(p, end), EntryEnds(r, m, p, end)
    PROVE  IInv'
<1>0. /\ TypeOK /\ Pending /\ Covered /\ Unblocked /\ PhaseOrder /\ Started
      /\ ErrorsExact /\ BreakerHolds /\ DeniedByFirstBlocker
  BY DEF IInv, PhaseInv
<1>1. m \in Modes /\ p \in queue[r][m] /\ Mode[p] = m /\ fate[r][p] = "None" /\ p \notin barred[r]
      /\ verdict[r] = "Running"
  BY <1>0 DEF Turn, Reached, Pending, Modes
<1>2. \A s \in Requests, q \in Plugin :
        fate'[s][q] = IF s = r /\ q = p THEN end ELSE fate[s][q]
  BY <1>0 DEF EntryEnds, Record, TypeOK
<1>3. \A s \in Requests, n \in Modes :
        queue'[s][n] = IF s = r /\ n = m THEN queue[s][n] \ {p} ELSE queue[s][n]
  <2>1. queue \in [Requests -> [Modes -> SUBSET Plugin]] /\ queue[r][m] \ {p} \in SUBSET Plugin
    BY <1>0, <1>1 DEF TypeOK
  <2>2. queue' = [queue EXCEPT ![r][m] = queue[r][m] \ {p}]
    BY <1>0, <1>1, <2>1 DEF EntryEnds, Pop
  <2>3. \A s \in Requests, n \in Modes :
            [queue EXCEPT ![r][m] = queue[r][m] \ {p}][s][n] =
                IF s = r /\ n = m THEN queue[r][m] \ {p} ELSE queue[s][n]
    BY <1>1, <2>1
  <2>4. QED
    BY <2>2, <2>3
<1>4. \A s \in Requests, q \in Plugin :
        errors'[s][q] = IF s = r /\ q = p /\ end \in Failures THEN errors[s][q] + 1 ELSE errors[s][q]
  BY <1>0 DEF EntryEnds, LogError, TypeOK
<1>5. tripped \subseteq tripped' /\ (end \in Failures /\ OnError[p] = "Disable" => p \in tripped')
  BY DEF EntryEnds, Disable
<1>6. UNCHANGED <<hook, verdict, violator, background, barred>>
  BY DEF EntryEnds
<1>7. Pending'
  <2> SUFFICES ASSUME NEW s \in Requests, NEW n \in Modes, NEW q \in queue'[s][n]
               PROVE  /\ verdict'[s] = "Running"
                      /\ Mode[q] = n /\ n # "Disabled"
                      /\ fate'[s][q] = "None"
                      /\ q \notin barred'[s]
    BY DEF Pending
  <2>1. q \in queue[s][n] /\ q \in Plugin /\ ~(s = r /\ n = m /\ q = p)
    <3>1. q \in queue[s][n] /\ ~(s = r /\ n = m /\ q = p)
      BY <1>3
    <3>2. QED
      BY <1>0, <3>1 DEF TypeOK
  <2>2. Mode[q] = n
    BY <1>0, <2>1 DEF Pending
  <2>3. fate'[s][q] = fate[s][q]
    BY <1>1, <1>2, <2>1, <2>2
  <2>4. QED
    BY <1>0, <1>6, <2>1, <2>3 DEF Pending
<1>8. Covered'
  <2> SUFFICES ASSUME NEW s \in Requests, NEW q \in Plugin,
                      Going(s)', Awaited(q), q \notin barred'[s], fate'[s][q] = "None"
               PROVE  q \in queue'[s][Mode[q]]
    BY DEF Covered, Awaited
  <2>1. Going(s) /\ q \notin barred[s] /\ fate[s][q] = "None" /\ ~(s = r /\ q = p)
    BY <1>2, <1>6 DEF Going
  <2>2. q \in queue[s][Mode[q]] /\ Mode[q] \in Modes
    BY <1>0, <2>1, ExecutorAssumption DEF Covered
  <2>3. QED
    BY <1>3, <2>1, <2>2
<1>9. Unblocked'
  BY <1>0, <1>2, <1>6 DEF Unblocked, Going
<1>10. PhaseOrder'
  <2>1. m # "Sequential" => queue[r]["Sequential"] = {}
    BY DEF Turn, Reached, Before
  <2> SUFFICES ASSUME NEW s \in Requests, NEW q \in Plugin, queue'[s]["Sequential"] # {},
                      Mode[q] # "Sequential"
               PROVE  fate'[s][q] = "None"
    BY DEF PhaseOrder
  <2>2. queue[s]["Sequential"] # {}
    BY <1>3 DEF Modes
  <2>3. QED
    BY <1>0, <1>1, <1>2, <2>1, <2>2 DEF PhaseOrder
<1>11. Started'
  BY <1>0, <1>6 DEF Started
<1>12. ErrorsExact'
  <2> SUFFICES ASSUME NEW s \in Requests, NEW q \in Plugin
               PROVE  errors'[s][q] = IF fate'[s][q] \in Failures /\ ~Stops(q, fate'[s][q]) THEN 1 ELSE 0
    BY DEF ErrorsExact, Stops, Blocks, LetThrough
  <2>1. errors[s][q] = IF fate[s][q] \in Failures /\ ~Stops(q, fate[s][q]) THEN 1 ELSE 0
    BY <1>0 DEF ErrorsExact
  <2>2. CASE s = r /\ q = p
    <3>1. errors[s][q] = 0
      BY <1>1, <2>1, <2>2 DEF Failures
    <3>2. QED
      BY <1>2, <1>4, <2>2, <3>1
  <2>3. CASE ~(s = r /\ q = p)
    BY <1>2, <1>4, <2>1, <2>3
  <2>4. QED
    BY <2>2, <2>3
<1>13. BreakerHolds'
  BY <1>0, <1>1, <1>2, <1>5, <1>6 DEF BreakerHolds
<1>14. DeniedByFirstBlocker'
  <2> SUFFICES ASSUME NEW s \in Requests, verdict'[s] = "Denied"
               PROVE  DeniedRightly(s)'
    BY DEF DeniedByFirstBlocker
  <2>1. s # r /\ verdict[s] = "Denied"
    BY <1>1, <1>6
  <2>2. DeniedRightly(s)
    BY <1>0, <2>1 DEF DeniedByFirstBlocker
  <2>3. violator[s] \in Plugin
    BY <1>0, <2>2 DEF DeniedRightly, TypeOK, Maybe
  <2>4. QED
    BY <1>2, <1>6, <2>1, <2>2, <2>3 DEF DeniedRightly, Stops, Blocks, LetThrough
<1>15. QED
  BY <1>7, <1>8, <1>9, <1>10, <1>11, <1>12, <1>13, <1>14 DEF IInv, PhaseInv

(* A sequential entry blocks: the violation is its own.                    *)
LEMMA SerialDenyKeeps ==
    ASSUME IInv, TypeOK', NEW r \in Requests, NEW p \in Plugin, NEW end \in Ends,
           Turn(r, "Sequential", p), Stops(p, end),
           end \in Failures => OnError[p] # "Disable",
           SerialDeny(r, p, end)
    PROVE  IInv'
<1>0. /\ TypeOK /\ Pending /\ Covered /\ Unblocked /\ PhaseOrder /\ Started
      /\ ErrorsExact /\ BreakerHolds /\ DeniedByFirstBlocker
  BY DEF IInv, PhaseInv
<1>1. p \in queue[r]["Sequential"] /\ Mode[p] = "Sequential" /\ fate[r][p] = "None"
      /\ p \notin barred[r] /\ verdict[r] = "Running"
  BY <1>0 DEF Turn, Reached, Pending, Modes
<1>2. \A s \in Requests, q \in Plugin :
        fate'[s][q] = IF s = r /\ q = p THEN end ELSE fate[s][q]
  BY <1>0 DEF SerialDeny, Record, TypeOK
<1>3. \A s \in Requests, n \in Modes :
        queue'[s][n] = IF s = r THEN {} ELSE queue[s][n]
  BY <1>0 DEF SerialDeny, Deny, EmptyQueue, TypeOK
<1>4. /\ \A s \in Requests : verdict'[s] = IF s = r THEN "Denied" ELSE verdict[s]
      /\ \A s \in Requests : violator'[s] = IF s = r THEN p ELSE violator[s]
  BY <1>0 DEF SerialDeny, Deny, TypeOK
<1>5. UNCHANGED <<hook, tripped, errors, background, barred>>
  BY DEF SerialDeny
<1>6. Pending'
  <2> SUFFICES ASSUME NEW s \in Requests, NEW n \in Modes, NEW q \in queue'[s][n]
               PROVE  /\ verdict'[s] = "Running"
                      /\ Mode[q] = n /\ n # "Disabled"
                      /\ fate'[s][q] = "None"
                      /\ q \notin barred'[s]
    BY DEF Pending
  <2>1. s # r /\ q \in queue[s][n] /\ q \in Plugin
    BY <1>0, <1>3 DEF TypeOK
  <2>2. QED
    BY <1>0, <1>2, <1>4, <1>5, <2>1 DEF Pending
<1>7. Covered' /\ Unblocked'
  BY <1>0, <1>2, <1>3, <1>4, <1>5, ExecutorAssumption DEF Covered, Unblocked, Going
<1>8. PhaseOrder'
  BY <1>0, <1>1, <1>2, <1>3 DEF PhaseOrder, Modes
<1>9. Started'
  BY <1>0, <1>4, <1>5 DEF Started
<1>10. ErrorsExact'
  BY <1>0, <1>1, <1>2, <1>5 DEF ErrorsExact, Failures
<1>11. BreakerHolds'
  BY <1>0, <1>1, <1>2, <1>5 DEF BreakerHolds
<1>12. DeniedByFirstBlocker'
  <2> SUFFICES ASSUME NEW s \in Requests, verdict'[s] = "Denied"
               PROVE  DeniedRightly(s)'
    BY DEF DeniedByFirstBlocker
  <2>1. CASE s = r
    <3>1. violator'[s] = p /\ p # None
      BY <1>4, <2>1, ExecutorAssumption
    <3>2. \A q \in Plugin : q < p => q # p
      BY ExecutorAssumption DEF Plugin
    <3>3. \A q \in Plugin : ~Stops(q, fate[r][q])
      BY <1>0, <1>1 DEF Unblocked, Going
    <3>4. \A q \in Plugin : Mode[q] # "Sequential" => fate[r][q] = "None"
      BY <1>0, <1>1 DEF PhaseOrder
    <3>5. QED
      BY <1>1, <1>2, <2>1, <3>1, <3>2, <3>3, <3>4 DEF DeniedRightly
  <2>2. CASE s # r
    <3>1. verdict[s] = "Denied" /\ violator'[s] = violator[s]
      BY <1>4, <2>2
    <3>2. DeniedRightly(s)
      BY <1>0, <3>1 DEF DeniedByFirstBlocker
    <3>3. violator[s] \in Plugin
      BY <1>0, <3>2 DEF DeniedRightly, TypeOK, Maybe
    <3>4. QED
      BY <1>2, <2>2, <3>1, <3>2, <3>3 DEF DeniedRightly, Stops, Blocks, LetThrough
  <2>3. QED
    BY <2>1, <2>2
<1>13. QED
  BY <1>6, <1>7, <1>8, <1>9, <1>10, <1>11, <1>12 DEF IInv, PhaseInv

(* The concurrent phase: every branch's outcome is recorded, and the       *)
(* post-loop halts exactly when one of them blocks.                        *)
LEMMA ConcurrentKeeps ==
    ASSUME IInv, TypeOK', NEW r \in Requests, ConcurrentPhase(r)
    PROVE  IInv'
<1> DEFINE ps == queue[r]["Concurrent"]
<1>0. /\ TypeOK /\ Pending /\ Covered /\ Unblocked /\ PhaseOrder /\ Started
      /\ ErrorsExact /\ BreakerHolds /\ DeniedByFirstBlocker
  BY DEF IInv, PhaseInv
<1>1. PICK outcome \in Deliverable(ps, BranchData, BranchDenies, TRUE, ShortCircuit) :
        ConcurrentResult(r, outcome)
  BY DEF ConcurrentPhase
<1> DEFINE halting == {p \in ps : Halts(p, outcome[p])}
           swallowed == {p \in ps : outcome[p] \in Failures /\ OnError[p] # "Fail"}
<1>2. UNCHANGED <<hook, background, barred>>
  BY DEF ConcurrentPhase
<1>3. /\ verdict[r] = "Running"
      /\ queue[r]["Sequential"] = {}
      /\ ps \subseteq Plugin
      /\ \A q \in ps : Mode[q] = "Concurrent" /\ fate[r][q] = "None" /\ q \notin barred[r]
  BY <1>0 DEF ConcurrentPhase, Reached, Before, TypeOK, Pending, Modes
<1>4. /\ \A q \in ps : outcome[q] \in Ends \ {"None"}
      /\ (\A q \in ps : outcome[q] \notin BranchDenies) => \A q \in ps : outcome[q] # "Aborted"
  BY DEF Deliverable, OutcomeOf, BranchData, BranchDenies, Ends, Failures
<1>5. \A s \in Requests, q \in Plugin :
        fate'[s][q] = IF s = r /\ q \in ps THEN outcome[q] ELSE fate[s][q]
  BY <1>0, <1>1 DEF ConcurrentResult, TypeOK
<1>6. \A s \in Requests, q \in Plugin :
        errors'[s][q] = IF s = r /\ q \in swallowed THEN errors[s][q] + 1 ELSE errors[s][q]
  BY <1>0, <1>1 DEF ConcurrentResult, TypeOK
<1>7. tripped \subseteq tripped' /\ \A q \in swallowed : OnError[q] = "Disable" => q \in tripped'
  BY <1>1 DEF ConcurrentResult
<1>8. \A q \in ps : Halts(q, outcome[q]) <=> Stops(q, outcome[q])
  BY <1>3 DEF Halts, Stops, Blocks, LetThrough, BranchDenies, Failures
<1>9. ErrorsExact'
  <2> SUFFICES ASSUME NEW s \in Requests, NEW q \in Plugin
               PROVE  errors'[s][q] = IF fate'[s][q] \in Failures /\ ~Stops(q, fate'[s][q]) THEN 1 ELSE 0
    BY DEF ErrorsExact, Stops, Blocks, LetThrough
  <2>1. errors[s][q] = IF fate[s][q] \in Failures /\ ~Stops(q, fate[s][q]) THEN 1 ELSE 0
    BY <1>0 DEF ErrorsExact
  <2>2. CASE s = r /\ q \in ps
    <3>1. errors[s][q] = 0
      BY <1>3, <2>1, <2>2 DEF Failures
    <3>2. q \in swallowed <=> outcome[q] \in Failures /\ ~Stops(q, outcome[q])
      BY <1>3, <2>2 DEF Stops, Blocks, LetThrough, Failures
    <3>3. QED
      BY <1>5, <1>6, <2>2, <3>1, <3>2
  <2>3. CASE ~(s = r /\ q \in ps)
    BY <1>5, <1>6, <2>1, <2>3
  <2>4. QED
    BY <2>2, <2>3
<1>10. BreakerHolds'
  <2> SUFFICES ASSUME NEW s \in Requests, NEW q \in Plugin
               PROVE  /\ fate'[s][q] \in Failures /\ OnError[q] = "Disable" => q \in tripped'
                      /\ q \in barred'[s] => fate'[s][q] = "None"
    BY DEF BreakerHolds
  <2>1. /\ fate[s][q] \in Failures /\ OnError[q] = "Disable" => q \in tripped
        /\ q \in barred[s] => fate[s][q] = "None"
    BY <1>0 DEF BreakerHolds
  <2>2. CASE s = r /\ q \in ps
    <3>1. q \notin barred'[s] /\ fate'[s][q] = outcome[q]
      BY <1>2, <1>3, <1>5, <2>2
    <3>2. outcome[q] \in Failures /\ OnError[q] = "Disable" => q \in tripped'
      BY <1>7, <2>2
    <3>3. QED
      BY <3>1, <3>2
  <2>3. CASE ~(s = r /\ q \in ps)
    BY <1>2, <1>5, <1>7, <2>1, <2>3
  <2>4. QED
    BY <2>2, <2>3
<1>11. CASE halting = {} /\ queue' = [queue EXCEPT ![r]["Concurrent"] = {}]
                         /\ UNCHANGED <<payload, modified, verdict, violator>>
  <2>1. \A s \in Requests, n \in Modes :
            queue'[s][n] = IF s = r /\ n = "Concurrent" THEN {} ELSE queue[s][n]
    BY <1>0, <1>11 DEF TypeOK, Modes
  <2>2. \A q \in ps : ~Stops(q, outcome[q]) /\ outcome[q] \notin {"None", "Aborted"}
    BY <1>4, <1>8, <1>11 DEF Halts
  <2>3. Pending'
    <3> SUFFICES ASSUME NEW s \in Requests, NEW n \in Modes, NEW q \in queue'[s][n]
                 PROVE  /\ verdict'[s] = "Running"
                        /\ Mode[q] = n /\ n # "Disabled"
                        /\ fate'[s][q] = "None"
                        /\ q \notin barred'[s]
      BY DEF Pending
    <3>1. q \in queue[s][n] /\ ~(s = r /\ n = "Concurrent")
      BY <2>1
    <3>2. q \in Plugin /\ Mode[q] = n
      BY <1>0, <3>1 DEF TypeOK, Pending
    <3>3. fate'[s][q] = fate[s][q]
      BY <1>3, <1>5, <3>1, <3>2
    <3>4. QED
      BY <1>0, <1>2, <1>11, <3>1, <3>3 DEF Pending
  <2>4. Covered'
    <3> SUFFICES ASSUME NEW s \in Requests, NEW q \in Plugin,
                        Going(s)', Awaited(q), q \notin barred'[s], fate'[s][q] = "None"
                 PROVE  q \in queue'[s][Mode[q]]
      BY DEF Covered, Awaited
    <3>1. Going(s) /\ q \notin barred[s] /\ fate[s][q] = "None" /\ ~(s = r /\ q \in ps)
      BY <1>2, <1>5, <1>11, <2>2 DEF Going
    <3>2. q \in queue[s][Mode[q]] /\ Mode[q] \in Modes
      BY <1>0, <3>1, ExecutorAssumption DEF Covered
    <3>3. QED
      BY <2>1, <3>1, <3>2
  <2>5. Unblocked'
    BY <1>0, <1>5, <1>11, <2>2 DEF Unblocked, Going
  <2>6. PhaseOrder'
    BY <1>0, <1>3, <1>5, <2>1 DEF PhaseOrder, Modes
  <2>7. Started'
    BY <1>0, <1>2, <1>11 DEF Started
  <2>8. DeniedByFirstBlocker'
    <3> SUFFICES ASSUME NEW s \in Requests, verdict'[s] = "Denied"
                 PROVE  DeniedRightly(s)'
      BY DEF DeniedByFirstBlocker
    <3>1. s # r /\ DeniedRightly(s)
      BY <1>0, <1>3, <1>11 DEF DeniedByFirstBlocker
    <3>2. violator[s] \in Plugin
      BY <1>0, <3>1 DEF DeniedRightly, TypeOK, Maybe
    <3>3. QED
      BY <1>5, <1>11, <3>1, <3>2 DEF DeniedRightly, Stops, Blocks, LetThrough
  <2>9. QED
    BY <1>9, <1>10, <2>3, <2>4, <2>5, <2>6, <2>7, <2>8 DEF IInv, PhaseInv
<1>12. CASE halting # {} /\ Deny(r, FirstHalting(halting))
  <2> DEFINE v == FirstHalting(halting)
  <2>1. v \in halting /\ \A q \in halting : v <= q
    BY <1>3, <1>12, FirstExists
  <2>2. \A s \in Requests, n \in Modes : queue'[s][n] = IF s = r THEN {} ELSE queue[s][n]
    BY <1>0, <1>12 DEF Deny, EmptyQueue, TypeOK
  <2>3. /\ \A s \in Requests : verdict'[s] = IF s = r THEN "Denied" ELSE verdict[s]
        /\ \A s \in Requests : violator'[s] = IF s = r THEN v ELSE violator[s]
    BY <1>0, <1>12 DEF Deny, TypeOK
  <2>4. Pending'
    <3> SUFFICES ASSUME NEW s \in Requests, NEW n \in Modes, NEW q \in queue'[s][n]
                 PROVE  /\ verdict'[s] = "Running"
                        /\ Mode[q] = n /\ n # "Disabled"
                        /\ fate'[s][q] = "None"
                        /\ q \notin barred'[s]
      BY DEF Pending
    <3>1. s # r /\ q \in queue[s][n]
      BY <2>2
    <3>2. q \in Plugin
      BY <1>0, <3>1 DEF TypeOK
    <3>3. QED
      BY <1>0, <1>2, <1>5, <2>3, <3>1, <3>2 DEF Pending
  <2>5. Covered'
    BY <1>0, <1>2, <1>5, <2>2, <2>3, ExecutorAssumption DEF Covered, Going
  <2>6. Unblocked'
    BY <1>0, <1>5, <2>3 DEF Unblocked, Going
  <2>7. PhaseOrder'
    BY <1>0, <1>5, <2>2 DEF PhaseOrder, Modes
  <2>8. Started'
    BY <1>0, <1>2, <2>3 DEF Started
  <2>9. DeniedByFirstBlocker'
    <3> SUFFICES ASSUME NEW s \in Requests, verdict'[s] = "Denied"
                 PROVE  DeniedRightly(s)'
      BY DEF DeniedByFirstBlocker
    <3>1. CASE s = r
      <4>1. violator'[s] = v /\ v # None /\ v \in ps /\ v \in Plugin /\ Mode[v] = "Concurrent"
        BY <1>3, <2>1, <2>3, <3>1, ExecutorAssumption
      <4>2. Stops(v, fate'[s][v])
        BY <1>5, <1>8, <2>1, <3>1, <4>1
      <4>3. ASSUME NEW q \in Plugin, q < v PROVE ~Stops(q, fate'[s][q])
        <5>1. q \notin halting
          <6>1. \A x, y \in Plugin : x < y => ~(y <= x)
            BY ExecutorAssumption DEF Plugin
          <6> HIDE DEF halting, v
          <6>2. QED
            BY <2>1, <4>1, <4>3, <6>1
        <5>2. CASE q \in ps
          BY <1>5, <1>8, <3>1, <5>1, <5>2
        <5>3. CASE q \notin ps
          BY <1>0, <1>3, <1>5, <3>1, <5>3 DEF Unblocked, Going
        <5>4. QED
          BY <5>2, <5>3
      <4>4. QED
        BY <4>1, <4>2, <4>3 DEF DeniedRightly, Stops, Blocks, LetThrough
    <3>2. CASE s # r
      <4>1. DeniedRightly(s) /\ violator'[s] = violator[s]
        BY <1>0, <2>3, <3>2 DEF DeniedByFirstBlocker
      <4>2. violator[s] \in Plugin
        BY <1>0, <4>1 DEF DeniedRightly, TypeOK, Maybe
      <4>3. QED
        BY <1>5, <3>2, <4>1, <4>2 DEF DeniedRightly, Stops, Blocks, LetThrough
    <3>3. QED
      BY <3>1, <3>2
  <2>10. QED
    BY <1>9, <1>10, <2>4, <2>5, <2>6, <2>7, <2>8, <2>9 DEF IInv, PhaseInv
<1>13. QED
  BY <1>1, <1>11, <1>12 DEF ConcurrentResult

(* The breakers are read once, when the hook starts.                       *)
LEMMA ExecuteKeeps ==
    ASSUME IInv, TypeOK', NEW r \in Requests, Execute(r)
    PROVE  IInv'
<1>0. /\ TypeOK /\ Pending /\ Covered /\ Unblocked /\ PhaseOrder /\ Started
      /\ ErrorsExact /\ BreakerHolds /\ DeniedByFirstBlocker
  BY DEF IInv, PhaseInv
<1>1. /\ \A s \in Requests : hook'[s] = IF s = r THEN hook[s] + 1 ELSE hook[s]
      /\ \A s \in Requests : verdict'[s] = IF s = r THEN "Running" ELSE verdict[s]
      /\ \A s \in Requests : violator'[s] = IF s = r THEN None ELSE violator[s]
      /\ \A s \in Requests : barred'[s] = IF s = r THEN tripped ELSE barred[s]
      /\ hook[r] \in Nat /\ hook[r] < MaxHooks
  BY <1>0, ExecutorAssumption DEF Execute, TypeOK
<1>2. /\ \A s \in Requests, q \in Plugin : fate'[s][q] = IF s = r THEN "None" ELSE fate[s][q]
      /\ \A s \in Requests, q \in Plugin : errors'[s][q] = IF s = r THEN 0 ELSE errors[s][q]
  BY <1>0 DEF Execute, TypeOK, NoFates, NoErrors
<1>3. \A s \in Requests, n \in Modes :
        queue'[s][n] = IF s = r THEN {p \in Plugin : n # "Disabled" /\ EffectiveMode(p) = n}
                                ELSE queue[s][n]
  BY <1>0 DEF Execute, GroupByMode, TypeOK
<1>4. UNCHANGED <<tripped, background>>
  BY DEF Execute
<1>5. Pending'
  <2> SUFFICES ASSUME NEW s \in Requests, NEW n \in Modes, NEW q \in queue'[s][n]
               PROVE  /\ verdict'[s] = "Running"
                      /\ Mode[q] = n /\ n # "Disabled"
                      /\ fate'[s][q] = "None"
                      /\ q \notin barred'[s]
    BY DEF Pending
  <2>1. CASE s = r
    <3>1. q \in {p \in Plugin : n # "Disabled" /\ EffectiveMode(p) = n}
      BY <1>3, <2>1
    <3>2. q \in Plugin /\ n # "Disabled" /\ q \notin tripped /\ Mode[q] = n
      BY <3>1 DEF EffectiveMode
    <3>3. QED
      BY <1>1, <1>2, <2>1, <3>2
  <2>2. CASE s # r
    <3>1. q \in queue[s][n]
      BY <1>3, <2>2
    <3>2. q \in Plugin
      BY <1>0, <3>1 DEF TypeOK
    <3>3. QED
      BY <1>0, <1>1, <1>2, <2>2, <3>1, <3>2 DEF Pending
  <2>3. QED
    BY <2>1, <2>2
<1>6. Covered'
  <2> SUFFICES ASSUME NEW s \in Requests, NEW q \in Plugin,
                      Going(s)', Awaited(q), q \notin barred'[s], fate'[s][q] = "None"
               PROVE  q \in queue'[s][Mode[q]]
    BY DEF Covered, Awaited
  <2>1. Mode[q] \in Modes /\ Mode[q] # "Disabled"
    BY ExecutorAssumption DEF Awaited
  <2>2. CASE s = r
    BY <1>1, <1>3, <2>1, <2>2 DEF EffectiveMode
  <2>3. CASE s # r
    BY <1>0, <1>1, <1>2, <1>3, <2>1, <2>3 DEF Covered, Going
  <2>4. QED
    BY <2>2, <2>3
<1>7. Unblocked'
  BY <1>0, <1>1, <1>2 DEF Unblocked, Going, Stops, Blocks, LetThrough, Failures
<1>8. PhaseOrder'
  <2> SUFFICES ASSUME NEW s \in Requests, NEW q \in Plugin, queue'[s]["Sequential"] # {},
                      Mode[q] # "Sequential"
               PROVE  fate'[s][q] = "None"
    BY DEF PhaseOrder
  <2>1. CASE s = r
    BY <1>2, <2>1
  <2>2. CASE s # r
    <3>1. queue[s]["Sequential"] # {}
      BY <1>3, <2>2 DEF Modes
    <3>2. QED
      BY <1>0, <1>2, <2>2, <3>1 DEF PhaseOrder
  <2>3. QED
    BY <2>1, <2>2
<1>9. Started'
  <2> SUFFICES ASSUME NEW s \in Requests
               PROVE  /\ verdict'[s] = "Running" => hook'[s] \in Hooks
                      /\ \A h \in Hooks, p \in Plugin : h > hook'[s] => background'[s][h][p] = "None"
    BY DEF Started
  <2>1. CASE s = r
    BY <1>0, <1>1, <1>4, <2>1, ExecutorAssumption DEF Started, Hooks
  <2>2. CASE s # r
    BY <1>0, <1>1, <1>4, <2>2 DEF Started
  <2>3. QED
    BY <2>1, <2>2
<1>10. ErrorsExact'
  BY <1>0, <1>2 DEF ErrorsExact, Failures
<1>11. BreakerHolds'
  <2> SUFFICES ASSUME NEW s \in Requests, NEW q \in Plugin
               PROVE  /\ fate'[s][q] \in Failures /\ OnError[q] = "Disable" => q \in tripped'
                      /\ q \in barred'[s] => fate'[s][q] = "None"
    BY DEF BreakerHolds
  <2>1. CASE s = r
    BY <1>1, <1>2, <1>4, <2>1 DEF Failures
  <2>2. CASE s # r
    BY <1>0, <1>1, <1>2, <1>4, <2>2 DEF BreakerHolds
  <2>3. QED
    BY <2>1, <2>2
<1>12. DeniedByFirstBlocker'
  <2> SUFFICES ASSUME NEW s \in Requests, verdict'[s] = "Denied"
               PROVE  DeniedRightly(s)'
    BY DEF DeniedByFirstBlocker
  <2>1. s # r /\ DeniedRightly(s) /\ violator'[s] = violator[s]
    BY <1>0, <1>1 DEF DeniedByFirstBlocker
  <2>2. violator[s] \in Plugin
    BY <1>0, <2>1 DEF DeniedRightly, TypeOK, Maybe
  <2>3. QED
    BY <1>2, <2>1, <2>2 DEF DeniedRightly, Stops, Blocks, LetThrough
<1>13. QED
  BY <1>5, <1>6, <1>7, <1>8, <1>9, <1>10, <1>11, <1>12 DEF IInv, PhaseInv

(* The hook returns; its fire-and-forget entries become tasks.             *)
LEMMA FinishKeeps ==
    ASSUME IInv, TypeOK', NEW r \in Requests, Finish(r)
    PROVE  IInv'
<1>0. /\ TypeOK /\ Pending /\ Covered /\ Unblocked /\ PhaseOrder /\ Started
      /\ ErrorsExact /\ BreakerHolds /\ DeniedByFirstBlocker
  BY DEF IInv, PhaseInv
<1> DEFINE faf == queue[r]["FireAndForget"]
<1>1. /\ verdict[r] = "Running" /\ hook[r] \in Hooks
      /\ queue[r]["Sequential"] = {} /\ queue[r]["Transform"] = {}
      /\ queue[r]["Audit"] = {} /\ queue[r]["Concurrent"] = {}
      /\ \A q \in faf : q \notin barred[r]
  BY <1>0 DEF Finish, Reached, Before, Started, Pending, Modes
<1>2. \A s \in Requests, n \in Modes :
        queue'[s][n] = IF s = r /\ n = "FireAndForget" THEN {} ELSE queue[s][n]
  BY <1>0 DEF Finish, TypeOK, Modes
<1>3. \A s \in Requests : verdict'[s] = IF s = r THEN "Allowed" ELSE verdict[s]
  BY <1>0 DEF Finish, TypeOK
<1>4. \A s \in Requests, h \in Hooks, q \in Plugin :
        background'[s][h][q] = IF s = r /\ h = hook[r]
                               THEN IF q \in faf THEN "Running" ELSE "None"
                               ELSE background[s][h][q]
  BY <1>0, <1>1 DEF Finish, TypeOK
<1>5. UNCHANGED <<tripped, hook, errors, violator, fate, barred>>
  BY DEF Finish
<1>6. Pending'
  <2> SUFFICES ASSUME NEW s \in Requests, NEW n \in Modes, NEW q \in queue'[s][n]
               PROVE  /\ verdict'[s] = "Running"
                      /\ Mode[q] = n /\ n # "Disabled"
                      /\ fate'[s][q] = "None"
                      /\ q \notin barred'[s]
    BY DEF Pending
  <2>1. q \in queue[s][n] /\ ~(s = r /\ n = "FireAndForget")
    BY <1>2
  <2>2. n # "Disabled"
    BY <1>0, <2>1 DEF Pending
  <2>3. s # r
    BY <1>1, <2>1, <2>2 DEF Modes
  <2>4. QED
    BY <1>0, <1>3, <1>5, <2>1, <2>3 DEF Pending
<1>7. Covered'
  <2> SUFFICES ASSUME NEW s \in Requests, NEW q \in Plugin,
                      Going(s)', Awaited(q), q \notin barred'[s], fate'[s][q] = "None"
               PROVE  q \in queue'[s][Mode[q]]
    BY DEF Covered, Awaited
  <2>1. Going(s) /\ q \in queue[s][Mode[q]] /\ Mode[q] \in Modes /\ Mode[q] # "FireAndForget"
    BY <1>0, <1>1, <1>3, <1>5, ExecutorAssumption DEF Covered, Going, Awaited
  <2>2. QED
    BY <1>2, <2>1
<1>8. Unblocked'
  BY <1>0, <1>1, <1>3, <1>5 DEF Unblocked, Going
<1>9. PhaseOrder'
  BY <1>0, <1>2, <1>5 DEF PhaseOrder, Modes
<1>10. Started'
  <2>1. \A s \in Requests : verdict'[s] = "Running" => hook'[s] \in Hooks
    BY <1>0, <1>3, <1>5 DEF Started
  <2>2. ASSUME NEW s \in Requests, NEW h \in Hooks, NEW q \in Plugin, h > hook[s]
        PROVE  background'[s][h][q] = "None"
    <3>1. h # hook[s]
      BY <2>2, ExecutorAssumption DEF Hooks
    <3>2. background'[s][h][q] = background[s][h][q]
      BY <1>4, <3>1
    <3>3. QED
      BY <1>0, <2>2, <3>2 DEF Started
  <2>3. QED
    BY <1>5, <2>1, <2>2 DEF Started
<1>11. ErrorsExact'
  BY <1>0, <1>5 DEF ErrorsExact
<1>12. BreakerHolds'
  BY <1>0, <1>5 DEF BreakerHolds
<1>13. DeniedByFirstBlocker'
  BY <1>0, <1>1, <1>3, <1>5 DEF DeniedByFirstBlocker, DeniedRightly
<1>14. QED
  BY <1>6, <1>7, <1>8, <1>9, <1>10, <1>11, <1>12, <1>13 DEF IInv, PhaseInv

(* The background: tasks end and are awaited, the hook is not disturbed.   *)
LEMMA BackgroundKeeps ==
    ASSUME IInv, TypeOK', NEW r \in Requests, NEW h \in Hooks,
           \/ WaitForBackgroundTasks(r, h)
           \/ \E p \in Plugin : BackgroundEnds(r, h, p)
    PROVE  IInv'
<1>0. /\ TypeOK /\ Pending /\ Covered /\ Unblocked /\ PhaseOrder /\ Started
      /\ ErrorsExact /\ BreakerHolds /\ DeniedByFirstBlocker
  BY DEF IInv, PhaseInv
<1>1. UNCHANGED <<tripped, hook, pipeline, barred>>
  BY DEF WaitForBackgroundTasks, BackgroundEnds
<1>2. UNCHANGED <<queue, errors, verdict, violator, fate>>
  BY <1>1 DEF pipeline
<1>3. \A s \in Requests, k \in Hooks, q \in Plugin :
        background[s][k][q] = "None" => background'[s][k][q] = "None"
  <2>1. CASE WaitForBackgroundTasks(r, h)
    BY <2>1 DEF WaitForBackgroundTasks
  <2>2. ASSUME NEW p \in Plugin, BackgroundEnds(r, h, p)
        PROVE  \A s \in Requests, k \in Hooks, q \in Plugin :
                background[s][k][q] = "None" => background'[s][k][q] = "None"
    BY <1>0, <2>2 DEF BackgroundEnds, TypeOK
  <2>3. QED
    BY <2>1, <2>2
<1>4. Pending' /\ Covered' /\ Unblocked' /\ PhaseOrder'
  BY <1>0, <1>1, <1>2 DEF Pending, Covered, Unblocked, PhaseOrder, Going
<1>5. Started'
  BY <1>0, <1>1, <1>2, <1>3 DEF Started
<1>6. ErrorsExact' /\ DeniedByFirstBlocker'
  BY <1>0, <1>2 DEF ErrorsExact, DeniedByFirstBlocker, DeniedRightly
<1>7. BreakerHolds'
  BY <1>0, <1>1, <1>2 DEF BreakerHolds
<1>8. QED
  BY <1>4, <1>5, <1>6, <1>7 DEF IInv, PhaseInv

(* The inductive invariant.                                                *)
THEOREM Invariance == Spec => []IInv
<1>1. Init => IInv
  <2> SUFFICES ASSUME Init PROVE IInv
    OBVIOUS
  <2>1. TypeOK
    BY ExecutorAssumption DEF Init, TypeOK, EmptyQueue, NoErrors, NoFates, NoTasks, Maybe, Ends
  <2>2. PhaseInv
    BY DEF Init, PhaseInv, Pending, Covered, Unblocked, PhaseOrder, Started, Going, EmptyQueue,
           NoFates, NoTasks, Modes
  <2>3. ErrorsExact /\ BreakerHolds /\ DeniedByFirstBlocker
    BY DEF Init, ErrorsExact, BreakerHolds, DeniedByFirstBlocker, NoErrors, NoFates, Failures
  <2>4. QED
    BY <2>1, <2>2, <2>3 DEF IInv
<1>2. IInv /\ [Next]_vars => IInv'
  <2> SUFFICES ASSUME IInv, [Next]_vars PROVE IInv'
    OBVIOUS
  <2>0. TypeOK /\ TypeOK'
    BY TypeStep DEF IInv
  <2>1. ASSUME NEW r \in Requests, Execute(r) PROVE IInv'
    BY <2>0, <2>1, ExecuteKeeps
  <2>2. ASSUME NEW r \in Requests, NEW m \in SerialPhases, NEW p \in Plugin, SerialReply(r, m, p)
        PROVE  IInv'
    <3>1. PICK reply \in Replies(p, FilterExtensions(ext[r], Caps[p])) :
            IF m = "Sequential" /\ ~reply.continue /\ reply.violation
            THEN SerialDeny(r, p, ReplyEnd(reply))
            ELSE SerialAccept(r, m, p, reply)
      BY <2>2 DEF SerialReply
    <3>2. Turn(r, m, p) /\ Mode[p] = m
      BY <2>2 DEF SerialReply, Turn, IInv, PhaseInv, Pending, SerialPhases, Modes
    <3>3. CASE m = "Sequential" /\ ~reply.continue /\ reply.violation
      <4>1. ReplyEnd(reply) = "Deny" /\ Stops(p, "Deny") /\ "Deny" \in Ends /\ "Deny" \notin Failures
        BY <3>2, <3>3 DEF ReplyEnd, Stops, Blocks, LetThrough, Ends, Failures
      <4>2. QED
        BY <2>0, <3>1, <3>2, <3>3, <4>1, SerialDenyKeeps
    <3>4. CASE ~(m = "Sequential" /\ ~reply.continue /\ reply.violation)
      <4> DEFINE end == ReplyEnd(reply)
      <4>1. end \in Ends \ {"None", "Aborted"} /\ end \notin Failures /\ ~Stops(p, end)
        BY <3>2, <3>4 DEF ReplyEnd, Stops, Blocks, LetThrough, Ends, Failures, SerialPhases
      <4>2. EntryEnds(r, m, p, end)
        BY <3>1, <3>4, <4>1 DEF SerialAccept, EntryEnds
      <4>3. m \in {"Sequential", "Transform", "Audit"}
        BY DEF SerialPhases
      <4>4. QED
        BY <2>0, <3>2, <4>1, <4>2, <4>3, EntryEndsKeeps
    <3>5. QED
      BY <3>3, <3>4
  <2>3. ASSUME NEW r \in Requests, NEW m \in SerialPhases, NEW p \in Plugin,
               SerialFailure(r, m, p)
        PROVE  IInv'
    <3>1. PICK end \in {"Error", "TimedOut"} :
            IF m = "Sequential" /\ OnError[p] = "Fail"
            THEN SerialDeny(r, p, end)
            ELSE SerialSwallow(r, m, p, end)
      BY <2>3 DEF SerialFailure
    <3>2. Turn(r, m, p) /\ Mode[p] = m
      BY <2>3 DEF SerialFailure, Turn, IInv, PhaseInv, Pending, SerialPhases, Modes
    <3>3. end \in Ends \ {"None", "Aborted"} /\ end \in Failures
      BY DEF Ends, Failures
    <3>4. CASE m = "Sequential" /\ OnError[p] = "Fail"
      <4>1. Stops(p, end)
        BY <3>2, <3>3, <3>4 DEF Stops, Blocks, LetThrough
      <4>2. QED
        BY <2>0, <3>1, <3>2, <3>3, <3>4, <4>1, SerialDenyKeeps
    <3>5. CASE ~(m = "Sequential" /\ OnError[p] = "Fail")
      <4>1. ~Stops(p, end)
        BY <3>2, <3>5 DEF Stops, Blocks, LetThrough, SerialPhases
      <4>2. EntryEnds(r, m, p, end)
        BY <3>1, <3>3, <3>5 DEF SerialSwallow, EntryEnds
      <4>3. m \in {"Sequential", "Transform", "Audit"}
        BY DEF SerialPhases
      <4>4. QED
        BY <2>0, <3>2, <3>3, <4>1, <4>2, <4>3, EntryEndsKeeps
    <3>6. QED
      BY <3>4, <3>5
  <2>4. ASSUME NEW r \in Requests, NEW p \in Plugin, AuditReply(r, p) \/ AuditFailure(r, p)
        PROVE  IInv'
    <3>1. PICK end \in {"Allow", "Deny", "DenyBare", "Error", "TimedOut"} :
            EntryEnds(r, "Audit", p, end)
      BY <2>4 DEF AuditReply, AuditFailure, EntryEnds, Failures
    <3>2. Turn(r, "Audit", p)
      BY <2>4 DEF AuditReply, AuditFailure
    <3>3. Mode[p] = "Audit"
      BY <3>2 DEF Turn, IInv, PhaseInv, Pending, Modes
    <3>4. ~Stops(p, end) /\ end \in Ends \ {"None", "Aborted"}
      BY <3>3 DEF Stops, Blocks, LetThrough, Ends, Failures
    <3>5. QED
      BY <2>0, <3>1, <3>2, <3>4, EntryEndsKeeps
  <2>5. ASSUME NEW r \in Requests, ConcurrentPhase(r) PROVE IInv'
    BY <2>0, <2>5, ConcurrentKeeps
  <2>6. ASSUME NEW r \in Requests, Finish(r) PROVE IInv'
    BY <2>0, <2>6, FinishKeeps
  <2>7. ASSUME NEW r \in Requests, NEW h \in Hooks,
               \/ WaitForBackgroundTasks(r, h)
               \/ \E p \in Plugin : BackgroundEnds(r, h, p)
        PROVE  IInv'
    BY <2>0, <2>7, BackgroundKeeps
  <2>8. CASE UNCHANGED vars
    <3>1. PhaseInv'
      BY <2>8 DEF vars, pipeline, IInv, PhaseInv, Pending, Covered, Unblocked, PhaseOrder, Started,
                  Going
    <3>2. ErrorsExact' /\ BreakerHolds' /\ DeniedByFirstBlocker'
      BY <2>8 DEF vars, pipeline, IInv, ErrorsExact, BreakerHolds, DeniedByFirstBlocker,
                  DeniedRightly
    <3>3. QED
      BY <2>0, <3>1, <3>2 DEF IInv
  <2>9. QED
    BY <2>1, <2>2, <2>3, <2>4, <2>5, <2>6, <2>7, <2>8 DEF Next, HookStep
<1>3. QED
  BY <1>1, <1>2, PTL DEF Spec

(* An allowed hook means that every awaited, unbarred entry ran to its end *)
(* and none of them blocked, for every registration.                       *)
THEOREM AllowedIsSound == Spec => []AllowedMeansAllPassed
<1>1. IInv => AllowedMeansAllPassed
  <2> SUFFICES ASSUME IInv, NEW r \in Requests, NEW p \in Plugin, verdict[r] = "Allowed"
               PROVE  /\ ~Stops(p, fate[r][p])
                      /\ Awaited(p) /\ p \notin barred[r] => fate[r][p] \notin {"None", "Aborted"}
    BY DEF AllowedMeansAllPassed, Stops
  <2>1. ~Stops(p, fate[r][p]) /\ fate[r][p] # "Aborted"
    BY DEF IInv, PhaseInv, Unblocked, Going
  <2>2. p \notin queue[r][Mode[p]]
    BY ExecutorAssumption DEF IInv, PhaseInv, Pending
  <2>3. QED
    BY <2>1, <2>2 DEF IInv, PhaseInv, Covered, Going
<1>2. QED
  BY <1>1, Invariance, PTL

(* The violator of a denied hook is the first entry that blocked.          *)
THEOREM DeniedIsExplained == Spec => []DeniedByFirstBlocker
<1>1. IInv => DeniedByFirstBlocker
  BY DEF IInv
<1>2. QED
  BY <1>1, Invariance, PTL

(* PipelineResult.errors is exactly the swallowed failures.                *)
THEOREM ErrorsAreExact == Spec => []ErrorsExact
<1>1. IInv => ErrorsExact
  BY DEF IInv
<1>2. QED
  BY <1>1, Invariance, PTL

(* A tripped breaker keeps its plugin out of every later hook, of any      *)
(* number of requests.                                                     *)
THEOREM BreakerIsSound == Spec => []BreakerHolds
<1>1. IInv => BreakerHolds
  BY DEF IInv
<1>2. QED
  BY <1>1, Invariance, PTL

(* Extensions change only in a serial step, and only within the tiers of   *)
(* the plugin that took it.                                                *)
THEOREM TiersHold == Spec => TierDiscipline
<1> DEFINE Step ==
        \A r \in Requests : ext'[r] # ext[r] =>
            \E p \in Plugin :
                /\ Mode[p] \in SerialPhases
                /\ fate[r][p] = "None" /\ fate'[r][p] # "None"
                /\ TierStep(ext[r], ext'[r], Caps[p])
<1>1. IInv /\ [Next]_vars => [Step]_vars
  <2> SUFFICES ASSUME IInv, Next PROVE Step
    OBVIOUS
  <2>1. ASSUME NEW s \in Requests, NEW m \in SerialPhases, NEW p \in Plugin, SerialReply(s, m, p)
        PROVE  Step
    <3>1. PICK reply \in Replies(p, FilterExtensions(ext[s], Caps[p])) :
            \/ SerialDeny(s, p, ReplyEnd(reply))
            \/ SerialAccept(s, m, p, reply)
      BY <2>1 DEF SerialReply
    <3>2. CASE SerialDeny(s, p, ReplyEnd(reply))
      BY <3>2 DEF SerialDeny
    <3>3. CASE SerialAccept(s, m, p, reply)
      <4> SUFFICES ASSUME NEW r \in Requests, ext'[r] # ext[r]
                   PROVE  \E q \in Plugin :
                            /\ Mode[q] \in SerialPhases
                            /\ fate[r][q] = "None" /\ fate'[r][q] # "None"
                            /\ TierStep(ext[r], ext'[r], Caps[q])
        OBVIOUS
      <4>1. /\ r = s
            /\ reply.extensions # None
            /\ ext'[r] = AcceptExtensions(ext[r], reply.extensions, Caps[p])
        BY <3>3 DEF SerialAccept, IInv, TypeOK
      <4>2. TierStep(ext[r], ext'[r], Caps[p])
        <5>1. ext[r] \in ExtensionsType
          BY DEF IInv, TypeOK
        <5>2. /\ reply.extensions \in ExtensionsType
              /\ HandsBack(FilterExtensions(ext[r], Caps[p]), reply.extensions)
          BY <4>1 DEF Replies, Maybe
        <5>3. QED
          BY <4>1, <5>1, <5>2, AcceptWithinTiers
      <4>3. fate'[r][p] # "None"
        BY <3>3, <4>1 DEF SerialAccept, Record, ReplyEnd, IInv, TypeOK
      <4>4. Mode[p] = m /\ fate[r][p] = "None"
        BY <2>1, <4>1 DEF SerialReply, Turn, IInv, PhaseInv, Pending, SerialPhases, Modes
      <4>5. QED
        BY <4>2, <4>3, <4>4
    <3>4. QED
      BY <3>1, <3>2, <3>3
  <2>2. ASSUME NEW s \in Requests, NEW m \in SerialPhases, NEW p \in Plugin,
               SerialFailure(s, m, p)
        PROVE  Step
    BY <2>2 DEF SerialFailure, SerialDeny, SerialSwallow
  <2>3. ASSUME NEW s \in Requests, NEW p \in Plugin, AuditReply(s, p) \/ AuditFailure(s, p)
        PROVE  Step
    BY <2>3 DEF AuditReply, AuditFailure
  <2>4. ASSUME NEW s \in Requests, ConcurrentPhase(s) \/ Finish(s) \/ Execute(s) PROVE Step
    BY <2>4 DEF ConcurrentPhase, Finish, Execute
  <2>5. ASSUME NEW s \in Requests, NEW h \in Hooks,
               \/ WaitForBackgroundTasks(s, h)
               \/ \E p \in Plugin : BackgroundEnds(s, h, p)
        PROVE  Step
    BY <2>5 DEF WaitForBackgroundTasks, BackgroundEnds, pipeline
  <2>6. QED
    BY <2>1, <2>2, <2>3, <2>4, <2>5 DEF Next, HookStep
<1>2. QED
  BY <1>1, Invariance, PTL DEF Spec, TierDiscipline
=============================================================================
