------------------------ MODULE DispatchCacheProofs ------------------------
(* A served dispatch plan is never stale, and a cached one is never torn   *)
(* while the engine is quiet: for any number of mutators, planners and     *)
(* plugins.                                                                *)
EXTENDS DispatchCache, TLAPS

-----------------------------------------------------------------------------
(* The inductive invariant. No bump since a planner read the generation    *)
(* means no mutation completed since; and none published either, if the    *)
(* engine is quiet.                                                        *)

Counted ==
    /\ completed <= published
    /\ \A m \in Mutators : stored[m] <= published

BuildInv(q) ==
    /\ since[q] <= completed
    /\ planner[q].gen = generation => since[q] = completed
    /\ \A p \in Plugin \ planner[q].todo : since[q] <= planner[q].plan[p]
    /\ planner[q].gen = generation /\ Quiet =>
            \A p \in Plugin \ planner[q].todo : planner[q].plan[p] = published

CachedInv ==
    cached # None /\ cached.gen = generation =>
        \A p \in Plugin : completed <= cached.plan[p] /\ (Quiet => cached.plan[p] = published)

Busy(q) == planner[q].pc # "idle"

IInv ==
    /\ TypeOK
    /\ Counted
    /\ CachedInv
    /\ \A q \in Planners : Busy(q) => BuildInv(q)
    /\ \A q \in Planners : planner[q].pc = "done" => planner[q].todo = {}

-----------------------------------------------------------------------------

\* Every component of the state keeps its type, and no generation is ahead of
\* the engine's.
LEMMA TypeStep == TypeOK /\ [Next]_vars => TypeOK'
<1> SUFFICES ASSUME TypeOK, [Next]_vars PROVE TypeOK'
    OBVIOUS
<1> USE CacheAssumption DEF TypeOK, Versions, Plan, Entry, Local
<1>1. ASSUME NEW m \in Mutators, Publish(m) PROVE TypeOK'
    BY <1>1 DEF Publish
<1>2. ASSUME NEW m \in Mutators, Bump(m) PROVE TypeOK'
    BY <1>2 DEF Bump
<1>3. ASSUME NEW q \in Planners, GetOrBuild(q) PROVE TypeOK'
    BY <1>3 DEF GetOrBuild, Unresolved
<1>4. ASSUME NEW q \in Planners, InsertPlan(q) PROVE TypeOK'
    BY <1>4 DEF InsertPlan, BuiltUnder
<1>5. ASSUME NEW q \in Planners, Finish(q) PROVE TypeOK'
    BY <1>5 DEF Finish, Idle, Unresolved
<1>6. ASSUME NEW q \in Planners, NEW p \in Plugin, ResolvePlugin(q, p) PROVE TypeOK'
    BY <1>6 DEF ResolvePlugin
<1>7. CASE UNCHANGED vars
    BY <1>7 DEF vars
<1> QED
    BY <1>1, <1>2, <1>3, <1>4, <1>5, <1>6, <1>7 DEF Next

\* Init establishes the invariant.
LEMMA Initially == Init => IInv
BY CacheAssumption DEF Init, IInv, TypeOK, Counted, CachedInv, Busy, Idle, Unresolved, Versions,
                       Plan, Entry, Local

\* Publishing leaves the engine unquiet, so the exact clauses hold vacuously.
LEMMA PublishStep ==
    ASSUME IInv, NEW m \in Mutators, Publish(m) PROVE IInv'
<1>1. TypeOK /\ TypeOK'
    BY TypeStep DEF IInv, Next
<1>2. published' = published + 1 /\ stored'[m] = published'
    BY <1>1 DEF Publish, TypeOK
<1>3. ~Quiet'
    BY <1>1, <1>2 DEF Quiet, TypeOK, Versions
<1>4. Counted'
    BY <1>1, <1>2 DEF IInv, Counted, Publish, TypeOK, Versions
<1>5. CachedInv'
    BY <1>3 DEF IInv, CachedInv, Publish
<1>6. \A q \in Planners : Busy(q)' => BuildInv(q)'
    BY <1>3 DEF IInv, Busy, BuildInv, Publish
<1> QED
    BY <1>1, <1>4, <1>5, <1>6 DEF IInv, Publish

\* After a bump nothing was read under the current generation.
LEMMA BumpStep ==
    ASSUME IInv, NEW m \in Mutators, Bump(m) PROVE IInv'
<1>1. TypeOK /\ TypeOK'
    BY TypeStep DEF IInv, Next
<1>2. Counted' /\ completed <= completed'
    BY <1>1 DEF IInv, Counted, Bump, TypeOK, Versions
<1>3. generation' = generation + 1
    BY DEF Bump
<1>4. CachedInv'
    BY <1>1, <1>3 DEF CachedInv, Bump, TypeOK, Entry
<1>5. ASSUME NEW q \in Planners, Busy(q)' PROVE BuildInv(q)'
    <2>1. planner[q].gen # generation'
        BY <1>1, <1>3 DEF TypeOK, Local
    <2>2. BuildInv(q)
        BY <1>5 DEF IInv, Busy, Bump
    <2>3. since[q] \in Int /\ completed \in Int /\ completed' \in Int
        BY <1>1 DEF TypeOK, Versions
    <2> QED
        BY <1>2, <2>1, <2>2, <2>3 DEF BuildInv, Bump
<1> QED
    BY <1>1, <1>2, <1>4, <1>5 DEF IInv, Bump

\* Only planner q's locals change; `others` is the same for every planner step.
LEMMA OthersStand ==
    ASSUME IInv, NEW q \in Planners, NEW r \in Planners \ {q},
           UNCHANGED <<published, generation, stored, completed>>,
           planner'[r] = planner[r], since'[r] = since[r], Busy(r)'
    PROVE  BuildInv(r)'
<1>1. BuildInv(r)
    BY DEF IInv, Busy
<1> QED
    BY <1>1 DEF BuildInv, Quiet

\* A hit returns what the cache invariant promises; a miss starts with nothing.
LEMMA GetStep ==
    ASSUME IInv, NEW q \in Planners, GetOrBuild(q) PROVE IInv'
<1>1. TypeOK /\ TypeOK'
    BY TypeStep DEF IInv, Next
<1>2. Counted' /\ CachedInv'
    BY DEF IInv, Counted, CachedInv, GetOrBuild, Quiet
<1>3. planner'[q] = IF cached # None /\ cached.gen = generation
            THEN [pc |-> "done", gen |-> generation, todo |-> {}, plan |-> cached.plan]
            ELSE [pc |-> "build", gen |-> generation, todo |-> Plugin, plan |-> Unresolved]
    BY <1>1 DEF GetOrBuild, TypeOK
<1>4. since'[q] = completed /\ completed \in Int
    BY <1>1 DEF GetOrBuild, TypeOK, Versions
<1>5. BuildInv(q)'
    <2>1. CASE cached # None /\ cached.gen = generation
        BY <1>3, <1>4, <2>1 DEF IInv, CachedInv, BuildInv, GetOrBuild, Quiet
    <2>2. CASE ~(cached # None /\ cached.gen = generation)
        BY <1>3, <1>4, <2>2 DEF BuildInv, GetOrBuild
    <2> QED
        BY <2>1, <2>2
<1>6. ASSUME NEW r \in Planners \ {q}, Busy(r)' PROVE BuildInv(r)'
    <2>1. planner'[r] = planner[r] /\ since'[r] = since[r]
        BY <1>1 DEF GetOrBuild, TypeOK
    <2> QED
        BY <1>6, <2>1, OthersStand DEF GetOrBuild
<1>7. \A r \in Planners : planner'[r].pc = "done" => planner'[r].todo = {}
    BY <1>1, <1>3 DEF IInv, GetOrBuild, TypeOK
<1> QED
    BY <1>1, <1>2, <1>5, <1>6, <1>7 DEF IInv

\* An entry is resolved on the published snapshot, as new as any completed one.
LEMMA ResolveStep ==
    ASSUME IInv, NEW q \in Planners, NEW p \in Plugin, ResolvePlugin(q, p) PROVE IInv'
<1>1. TypeOK /\ TypeOK'
    BY TypeStep DEF IInv, Next
<1>2. Counted' /\ CachedInv'
    BY DEF IInv, Counted, CachedInv, ResolvePlugin, Quiet
<1>3. /\ planner'[q].gen = planner[q].gen
      /\ planner'[q].pc = "build"
      /\ planner'[q].todo = planner[q].todo \ {p}
      /\ planner'[q].plan = [planner[q].plan EXCEPT ![p] = published]
    BY <1>1 DEF ResolvePlugin, TypeOK, Local
<1>4. BuildInv(q) /\ since[q] <= published
    <2>1. BuildInv(q)
        BY DEF IInv, Busy, ResolvePlugin
    <2> QED
        BY <1>1, <2>1 DEF BuildInv, IInv, Counted, TypeOK, Versions
<1>5. BuildInv(q)'
    <2>1. planner[q].plan \in [Plugin -> Versions]
        BY <1>1 DEF TypeOK, Local, Plan
    <2>2. ASSUME NEW x \in Plugin \ planner'[q].todo
          PROVE  planner'[q].plan[x] = IF x = p THEN published ELSE planner[q].plan[x]
        BY <1>3, <2>1
    <2>3. \A x \in Plugin \ planner'[q].todo : x = p \/ x \in Plugin \ planner[q].todo
        BY <1>3
    <2>4. UNCHANGED <<published, generation, stored, completed, since>> /\ (Quiet' <=> Quiet)
        BY DEF ResolvePlugin, Quiet
    <2> QED
        BY <1>3, <1>4, <2>2, <2>3, <2>4 DEF BuildInv
<1>6. ASSUME NEW r \in Planners \ {q}, Busy(r)' PROVE BuildInv(r)'
    <2>1. planner'[r] = planner[r] /\ since'[r] = since[r]
        BY <1>1 DEF ResolvePlugin, TypeOK
    <2> QED
        BY <1>6, <2>1, OthersStand DEF ResolvePlugin
<1>7. \A r \in Planners : planner'[r].pc = "done" => planner'[r].todo = {}
    BY <1>1, <1>3 DEF IInv, ResolvePlugin, TypeOK
<1> QED
    BY <1>1, <1>2, <1>5, <1>6, <1>7 DEF IInv

\* A finished build satisfies the cache invariant under the generation it read.
LEMMA InsertStep ==
    ASSUME IInv, NEW q \in Planners, InsertPlan(q) PROVE IInv'
<1>1. TypeOK /\ TypeOK'
    BY TypeStep DEF IInv, Next
<1>2. BuildInv(q) /\ planner[q].todo = {}
    BY DEF IInv, Busy, InsertPlan
<1>3. cached' = [gen |-> planner[q].gen, plan |-> planner[q].plan]
    BY DEF InsertPlan, BuiltUnder
<1>4. Counted' /\ CachedInv'
    BY <1>2, <1>3 DEF IInv, Counted, CachedInv, BuildInv, InsertPlan, Quiet
<1>5. /\ planner'[q].gen = planner[q].gen
      /\ planner'[q].todo = planner[q].todo
      /\ planner'[q].plan = planner[q].plan
    BY <1>1 DEF InsertPlan, TypeOK, Local
<1>6. BuildInv(q)'
    BY <1>2, <1>5 DEF BuildInv, InsertPlan, Quiet
<1>7. ASSUME NEW r \in Planners \ {q}, Busy(r)' PROVE BuildInv(r)'
    <2>1. planner'[r] = planner[r] /\ since'[r] = since[r]
        BY <1>1 DEF InsertPlan, TypeOK
    <2> QED
        BY <1>7, <2>1, OthersStand DEF InsertPlan
<1>8. \A r \in Planners : planner'[r].pc = "done" => planner'[r].todo = {}
    BY <1>1, <1>2, <1>5 DEF IInv, InsertPlan, TypeOK
<1> QED
    BY <1>1, <1>4, <1>6, <1>7, <1>8 DEF IInv

\* An idle planner promises nothing.
LEMMA FinishStep ==
    ASSUME IInv, NEW q \in Planners, Finish(q) PROVE IInv'
<1>1. TypeOK /\ TypeOK'
    BY TypeStep DEF IInv, Next
<1>2. Counted' /\ CachedInv'
    BY DEF IInv, Counted, CachedInv, Finish, Quiet
<1>3. planner'[q].pc = "idle"
    BY <1>1 DEF Finish, TypeOK, Idle
<1>4. ASSUME NEW r \in Planners, Busy(r)' PROVE BuildInv(r)'
    <2>1. r # q
        BY <1>3, <1>4 DEF Busy
    <2>2. planner'[r] = planner[r] /\ since'[r] = since[r]
        BY <1>1, <2>1 DEF Finish, TypeOK
    <2> QED
        BY <1>4, <2>1, <2>2, OthersStand DEF Finish
<1>5. \A r \in Planners : planner'[r].pc = "done" => planner'[r].todo = {}
    BY <1>1, <1>3 DEF IInv, Finish, TypeOK
<1> QED
    BY <1>1, <1>2, <1>4, <1>5 DEF IInv

\* Stuttering.
LEMMA StutterStep == ASSUME IInv, UNCHANGED vars PROVE IInv'
BY DEF IInv, TypeOK, Counted, CachedInv, Busy, BuildInv, Quiet, vars

(* The invariant of the dispatch-plan cache holds in every reachable state. *)
THEOREM Invariance == Spec => []IInv
<1>1. IInv /\ [Next]_vars => IInv'
    BY PublishStep, BumpStep, GetStep, ResolveStep, InsertStep, FinishStep, StutterStep DEF Next
<1> QED
    BY Initially, <1>1, PTL DEF Spec

(* Type correctness, with no plan stored or in the making under a          *)
(* generation the engine has not reached.                                  *)
THEOREM TypeCorrect == Spec => []TypeOK
BY Invariance, PTL DEF IInv

(* get_or_build never returns a plan with an entry older than a mutation   *)
(* that had completed when it was called.                                  *)
THEOREM PlansAreFresh == Spec => []PlanIsFresh
<1>1. IInv => PlanIsFresh
    BY DEF IInv, Busy, BuildInv, PlanIsFresh
<1> QED
    BY <1>1, Invariance, PTL

(* A plan torn by a mutation is never found by a lookup once the mutation  *)
(* is over.                                                                *)
THEOREM CachedPlansAreWhole == Spec => []CachedPlanIsWhole
<1>1. IInv => CachedPlanIsWhole
    BY DEF IInv, CachedInv, CachedPlanIsWhole
<1> QED
    BY <1>1, Invariance, PTL
=============================================================================
