--------------------------- MODULE DispatchCache ---------------------------
(***************************************************************************)
(* DispatchCache::get_or_build (crates/ppe-apl-runtime/src/                *)
(* dispatch_plan.rs) for one route, against the engine's config generation *)
(* (crates/ppe-core/src/engine.rs).                                        *)
(*                                                                         *)
(* A mutator publishes a snapshot and then, in a step of its own, bumps    *)
(* the generation. A planner reads the generation, and on a miss builds    *)
(* the plan plugin by plugin, loading the snapshot anew for each one and   *)
(* awaiting in between; it then inserts the plan under the generation it   *)
(* read first. A plan is represented by the version of the snapshot that   *)
(* each of its entries was resolved on.                                    *)
(***************************************************************************)
EXTENDS Integers

CONSTANTS
    Plugin,         \* the plugins the route dispatches to
    Mutators, Planners,
    None,
    MaxMutations    \* bound: published snapshots

Versions == 0 .. MaxMutations
Plan == [Plugin -> Versions]
Entry == [gen : Nat, plan : Plan]

ASSUME CacheAssumption == MaxMutations \in Nat /\ None \notin Entry

VARIABLES
    published,  \* the version of the published snapshot: the stores made so far
    generation, \* config_generation
    stored,     \* stored[m]: the version m has published and not yet counted, 0 if none
    cached,     \* the cached plan with the generation it is stored under, or None
    planner,    \* planner[q]: the locals of get_or_build
    \* history, read by the properties only:
    completed,  \* the newest version whose mutator has bumped the generation
    since       \* since[q]: `completed` when planner q read the generation

vars == <<published, generation, stored, cached, planner, completed, since>>

Local == [pc : {"idle", "build", "done"}, gen : Nat, todo : SUBSET Plugin, plan : Plan]

TypeOK ==
    /\ published \in Versions
    /\ generation \in Nat
    /\ stored \in [Mutators -> Versions]
    /\ cached \in Entry \cup {None}
    /\ planner \in [Planners -> Local]
    /\ completed \in Versions
    /\ since \in [Planners -> Versions]
    /\ cached # None => cached.gen <= generation
    /\ \A q \in Planners : planner[q].gen <= generation

Unresolved == [p \in Plugin |-> 0]
Idle == [pc |-> "idle", gen |-> 0, todo |-> {}, plan |-> Unresolved]

Init ==
    /\ published = 0
    /\ generation = 0
    /\ stored = [m \in Mutators |-> 0]
    /\ cached = None
    /\ planner = [q \in Planners |-> Idle]
    /\ completed = 0
    /\ since = [q \in Planners |-> 0]

-----------------------------------------------------------------------------
(* mutate_runtime, try_mutate_runtime, load_config: store, then fetch_add. *)

PublishUncounted(m) ==      \* mutant: a swap that does not bump the generation
    /\ stored[m] = 0 /\ published < MaxMutations
    /\ published' = published + 1
    /\ UNCHANGED <<generation, stored, cached, planner, completed, since>>

Publish(m) ==
    /\ stored[m] = 0 /\ published < MaxMutations
    /\ published' = published + 1
    /\ stored' = [stored EXCEPT ![m] = published']
    /\ UNCHANGED <<generation, cached, planner, completed, since>>

Bump(m) ==
    /\ stored[m] # 0
    /\ generation' = generation + 1
    /\ completed' = IF stored[m] > completed THEN stored[m] ELSE completed
    /\ stored' = [stored EXCEPT ![m] = 0]
    /\ UNCHANGED <<published, cached, planner, since>>

-----------------------------------------------------------------------------
(* get_or_build.                                                           *)

\* The generation is read once, before the lookup and before the build.
GetOrBuild(q) ==
    /\ planner[q].pc = "idle"
    /\ planner' = [planner EXCEPT ![q] =
            IF cached # None /\ cached.gen = generation
            THEN [pc |-> "done", gen |-> generation, todo |-> {}, plan |-> cached.plan]
            ELSE [pc |-> "build", gen |-> generation, todo |-> Plugin, plan |-> Unresolved]]
    /\ since' = [since EXCEPT ![q] = completed]
    /\ UNCHANGED <<published, generation, stored, cached, completed>>

\* build_override_entries loads the current snapshot for every plugin.
ResolvePlugin(q, p) ==
    /\ planner[q].pc = "build" /\ p \in planner[q].todo
    /\ planner' = [planner EXCEPT ![q].todo = @ \ {p}, ![q].plan[p] = published]
    /\ UNCHANGED <<published, generation, stored, cached, completed, since>>

GenerationNow(q) == generation          \* mutant: the generation is read again for the insert
BuiltUnder(q) == planner[q].gen

\* The insert overwrites what another builder may have inserted meanwhile.
InsertPlan(q) ==
    /\ planner[q].pc = "build" /\ planner[q].todo = {}
    /\ cached' = [gen |-> BuiltUnder(q), plan |-> planner[q].plan]
    /\ planner' = [planner EXCEPT ![q].pc = "done"]
    /\ UNCHANGED <<published, generation, stored, completed, since>>

\* The request is over, and its planner serves another.
Finish(q) ==
    /\ planner[q].pc = "done"
    /\ planner' = [planner EXCEPT ![q] = Idle]
    /\ since' = [since EXCEPT ![q] = 0]
    /\ UNCHANGED <<published, generation, stored, cached, completed>>

Next ==
    \/ \E m \in Mutators : Publish(m) \/ Bump(m)
    \/ \E q \in Planners : \/ GetOrBuild(q) \/ InsertPlan(q) \/ Finish(q)
                           \/ \E p \in Plugin : ResolvePlugin(q, p)

Spec == Init /\ [][Next]_vars

-----------------------------------------------------------------------------
(* A plan, built or taken from the cache, is nowhere older than the        *)
(* mutations that had completed when it was asked for, however builders    *)
(* and mutators interleave.                                                *)
PlanIsFresh ==
    \A q \in Planners, p \in Plugin :
        planner[q].pc = "done" => planner[q].plan[p] >= since[q]

\* No mutator is between its store and its bump.
Quiet == \A m \in Mutators : stored[m] = 0

(* A plan may be torn, its entries resolved on different snapshots. But    *)
(* while no mutation is between its store and its bump, a plan that a      *)
(* lookup would return is the published snapshot's, in every entry.        *)
CachedPlanIsWhole ==
    cached # None /\ cached.gen = generation /\ Quiet =>
        \A p \in Plugin : cached.plan[p] = published
=============================================================================
