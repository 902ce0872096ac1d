---------------------------- MODULE PolicyEngine ----------------------------
(***************************************************************************)
(* The shared state of PolicyEngine (crates/ppe-core/src/engine.rs): the   *)
(* runtime snapshot that mutators replace by copy-on-write, and the        *)
(* routing cache that requests fill from the snapshot they loaded.         *)
(*                                                                         *)
(* Mutators and requests run concurrently on one engine behind an Arc;     *)
(* each loads the snapshot once and works on what it loaded. The config    *)
(* generation that each publication bumps is read by the dispatch-plan     *)
(* cache only: see DispatchCache.                                          *)
(***************************************************************************)
EXTENDS Integers, Sequences, FiniteSetsExt, Functions

CONSTANTS
    Plugin, Entity, Config,
    None,
    Declares,       \* Declares[c]: the plugins config c lists
    Lineup,         \* Lineup[c][e]: the plugins its routes resolve for entity e
    Tag, Group,     \* Group[c][t]: the plugins of its policy group t
    Routes,         \* Routes[c]: the entities a visitor annotates, in route order
    Cap,            \* Cap[c]: its route_cache_max_entries
    DefaultCap,     \* route_cache_max_entries of an engine without a config
    MaxUsize,       \* usize::MAX, what a capacity can be at most
    Mutators, Requests,
    MaxMutations    \* bound: published snapshots

ASSUME EngineAssumption ==
    /\ None \notin Config /\ \A s \in SUBSET Plugin : s # None
    /\ Declares \in [Config -> SUBSET Plugin]
    /\ Lineup \in [Config -> [Entity -> SUBSET Plugin]]
    /\ Group \in [Config -> [Tag -> SUBSET Plugin]]
    /\ Routes \in [Config -> Seq(Entity)]
    /\ MaxUsize \in Nat
    /\ Cap \in [Config -> 0 .. MaxUsize]
    /\ DefaultCap \in 0 .. MaxUsize
    /\ MaxMutations \in Nat

\* RuntimeSnapshot; `version` counts the snapshots published before it.
Snapshot ==
    [plugins : SUBSET Plugin, config : Config \cup {None}, annotated : SUBSET Entity,
     cap : 0 .. MaxUsize, version : 0 .. MaxMutations]

Empty == [plugins |-> {}, config |-> None, annotated |-> {}, cap |-> DefaultCap, version |-> 0]

\* What a mutating call asks for.
Op ==
    [kind : {"register", "unregister"}, arg : Plugin] \cup [kind : {"load"}, arg : Config]
        \cup [kind : {"annotate", "unannotate"}, arg : Entity]

VARIABLES
    runtime,    \* the published snapshot
    cache,      \* cache[e]: the lineup cached for e, or None; `tags` is history
    mutator,    \* mutator[m]: the locals of mutator m
    request,    \* request[r]: the locals of request r
    \* history, read by the properties only:
    versions,   \* the snapshots published so far
    late,       \* the cached entities that a race has left outdated: their lineup was
                \* already replaced when it was inserted, or a mutator has published
                \* a snapshot that lacks the mutations made since it loaded its own
    overfull    \* since the last clear a race has left the cache above the published
                \* capacity: a request inserted under the capacity of a replaced snapshot,
                \* or a mutator published a capacity over one it had not seen

vars == <<runtime, cache, mutator, request, versions, late, overfull>>

MutatorLocal ==
    [pc : {"idle", "loaded", "stored"}, op : Op \cup {None}, next : Snapshot, clears : BOOLEAN,
     todo : Seq(Entity)]
RequestLocal ==
    [pc : {"idle", "lookup", "resolve", "done"}, entity : Entity \cup {None}, tags : SUBSET Tag,
     snapshot : Snapshot, lineup : (SUBSET Plugin) \cup {None}]

TypeOK ==
    /\ runtime \in Snapshot
    /\ cache \in [Entity -> [lineup : SUBSET Plugin, tags : SUBSET Tag] \cup {None}]
    /\ mutator \in [Mutators -> MutatorLocal]
    /\ request \in [Requests -> RequestLocal]
    /\ versions \in 0 .. MaxMutations
    /\ late \subseteq Entity
    /\ overfull \in BOOLEAN
    /\ runtime.version = versions
    /\ \A r \in Requests : request[r].pc = "done" =>
            (request[r].lineup = None <=> request[r].entity \in request[r].snapshot.annotated)

Idle(routes) == [pc |-> "idle", op |-> None, next |-> Empty, clears |-> FALSE, todo |-> routes]

NoRequest == [pc |-> "idle", entity |-> None, tags |-> {}, snapshot |-> Empty, lineup |-> None]

\* PolicyEngine::new, and PolicyEngine::from_config.
FromConfig(c) == [Empty EXCEPT !.plugins = Declares[c], !.config = c, !.cap = Cap[c]]

Init ==
    /\ runtime \in {Empty} \cup {FromConfig(c) : c \in Config}
    /\ cache = [e \in Entity |-> None]
    /\ mutator = [m \in Mutators |-> Idle(<< >>)]
    /\ request = [r \in Requests |-> NoRequest]
    /\ versions = 0
    /\ late = {}
    /\ overfull = FALSE

\* What the routes of snapshot s select for entity e of a request with these
\* tags; without a config every registered plugin.
Resolve(s, e, tags) ==
    IF s.config = None THEN s.plugins
    ELSE s.plugins \cap (Lineup[s.config][e] \cup UNION {Group[s.config][t] : t \in tags})

Cached == {e \in Entity : cache[e] # None}
Outdated(s, e) == cache[e].lineup # Resolve(s, e, cache[e].tags)

-----------------------------------------------------------------------------
(* Mutating operations: load the snapshot, mutate a clone, publish it,     *)
(* clear the routing cache.                                                *)

\* A name can be registered once; a config declares plugins of its own.
Fails(s, op) ==
    \/ op.kind = "register" /\ op.arg \in s.plugins
    \/ op.kind = "load" /\ Declares[op.arg] \cap s.plugins # {}

Mutated(s, op) ==
    CASE op.kind = "register" -> [s EXCEPT !.plugins = @ \cup {op.arg}]
      [] op.kind = "unregister" -> [s EXCEPT !.plugins = @ \ {op.arg}]
      [] op.kind = "load" -> [s EXCEPT !.plugins = @ \cup Declares[op.arg], !.config = op.arg,
                                       !.annotated = {}, !.cap = Cap[op.arg]]
      [] op.kind = "annotate" -> [s EXCEPT !.annotated = @ \cup {op.arg}]
      [] op.kind = "unannotate" -> [s EXCEPT !.annotated = @ \ {op.arg}]

ClearsOnLoadOnly(s, op) == op.kind = "load"     \* mutant: registration keeps the cache

Clears(s, op) ==
    \/ op.kind \in {"register", "load"}
    \/ op.kind = "unregister" /\ op.arg \in s.plugins

\* A failed mutation discards the clone: nothing is published.
Load(m, op) ==
    /\ ~Fails(runtime, op)
    /\ mutator' = [mutator EXCEPT ![m].pc = "loaded", ![m].op = op,
                                  ![m].next = Mutated(runtime, op),
                                  ![m].clears = Clears(runtime, op)]
    /\ UNCHANGED <<runtime, cache, request, versions, late, overfull>>

Mutate(m) ==
    /\ mutator[m].pc = "idle" /\ mutator[m].todo = << >>
    /\ versions < MaxMutations
    /\ \E op \in Op : Load(m, op)

\* load_config_yaml after load_config: the visitor annotates route after route.
VisitRoute(m) ==
    /\ mutator[m].pc = "idle" /\ mutator[m].todo # << >>
    /\ versions < MaxMutations
    /\ Load(m, [kind |-> "annotate", arg |-> Head(mutator[m].todo)])

\* The visitor rejects a route; what was published stays.
VisitorFails(m) ==
    /\ mutator[m].pc = "idle" /\ mutator[m].todo # << >>
    /\ mutator' = [mutator EXCEPT ![m].todo = << >>]
    /\ UNCHANGED <<runtime, cache, request, versions, late, overfull>>

\* What load_config_yaml has still to do once the current snapshot is published.
Rest(m) ==
    IF mutator[m].op.kind = "load" THEN Routes[mutator[m].op.arg]
    ELSE IF mutator[m].todo # << >> THEN Tail(mutator[m].todo) ELSE << >>

\* A plain store, no compare-and-swap: what was published since the load is lost.
Store(m) ==
    /\ mutator[m].pc = "loaded"
    /\ versions < MaxMutations
    /\ versions' = versions + 1
    /\ runtime' = [mutator[m].next EXCEPT !.version = versions']
    /\ late' = IF mutator[m].next.version = runtime.version THEN late
               ELSE late \cup {e \in Cached : Outdated(runtime', e)}
    /\ overfull' = \/ overfull
                   \/ /\ mutator[m].next.version # runtime.version
                      /\ Cardinality(Cached) > mutator[m].next.cap
    /\ mutator' = [mutator EXCEPT ![m] =
            IF @.clears THEN [@ EXCEPT !.pc = "stored", !.todo = Rest(m)] ELSE Idle(Rest(m))]
    /\ UNCHANGED <<cache, request>>

ClearRoutingCache(m) ==
    /\ mutator[m].pc = "stored"
    /\ cache' = [e \in Entity |-> None]
    /\ late' = {}
    /\ overfull' = FALSE
    /\ mutator' = [mutator EXCEPT ![m] = Idle(mutator[m].todo)]
    /\ UNCHANGED <<runtime, request, versions>>

-----------------------------------------------------------------------------
(* A request: load the snapshot once, then filter_entries_by_route.        *)

\* The early returns before the cache: no plugin and no annotation at all, an
\* annotated route (its own handler answers), no config to route by.
SkipsCache(s, e) ==
    \/ s.plugins = {} /\ s.annotated = {}
    \/ e \in s.annotated
    \/ s.config = None

LoadRuntime(r, e, tags) ==
    /\ request[r].pc = "idle"
    /\ request' = [request EXCEPT ![r] =
            [entity |-> e, tags |-> tags, snapshot |-> runtime,
             pc |-> IF SkipsCache(runtime, e) THEN "done" ELSE "lookup",
             lineup |-> IF SkipsCache(runtime, e) /\ e \notin runtime.annotated
                        THEN Resolve(runtime, e, tags) ELSE None]]
    /\ UNCHANGED <<runtime, cache, mutator, versions, late, overfull>>

\* The key is the entity, the hook and the scope; the tags are no part of it.
Lookup(r) ==
    LET hit == cache[request[r].entity]
    IN  /\ request[r].pc = "lookup"
        /\ request' = IF hit # None
                      THEN [request EXCEPT ![r].pc = "done", ![r].lineup = hit.lineup]
                      ELSE [request EXCEPT ![r].pc = "resolve"]
        /\ UNCHANGED <<runtime, cache, mutator, versions, late, overfull>>

FullAbove(s) == Cardinality(Cached) > s.cap     \* mutant: off by one
Full(s) == Cardinality(Cached) >= s.cap

\* Insert under the write lock, unless the cache is at the snapshot's capacity.
Insert(r) ==
    LET e == request[r].entity
        entry == [lineup |-> Resolve(request[r].snapshot, e, request[r].tags),
                  tags |-> request[r].tags]
    IN  /\ request[r].pc = "resolve"
        /\ request' = [request EXCEPT ![r].pc = "done", ![r].lineup = entry.lineup]
        /\ IF Full(request[r].snapshot)
           THEN UNCHANGED <<cache, late, overfull>>
           ELSE /\ cache' = [cache EXCEPT ![e] = entry]
                /\ late' = IF entry.lineup = Resolve(runtime, e, entry.tags)
                           THEN late \ {e} ELSE late \cup {e}
                /\ overfull' = \/ overfull
                               \/ /\ request[r].snapshot.version # runtime.version
                                  /\ Cardinality(Cached \cup {e}) > runtime.cap
        /\ UNCHANGED <<runtime, mutator, versions>>

Respond(r) ==
    /\ request[r].pc = "done"
    /\ request' = [request EXCEPT ![r] = NoRequest]
    /\ UNCHANGED <<runtime, cache, mutator, versions, late, overfull>>

Next ==
    \/ \E m \in Mutators : \/ Mutate(m) \/ VisitRoute(m) \/ VisitorFails(m)
                           \/ Store(m) \/ ClearRoutingCache(m)
    \/ \E r \in Requests : \/ \E e \in Entity, tags \in SUBSET Tag : LoadRuntime(r, e, tags)
                           \/ Lookup(r) \/ Insert(r) \/ Respond(r)

Spec == Init /\ [][Next]_vars

-----------------------------------------------------------------------------
(* The routing cache is outdated only where a race left it so: a request   *)
(* inserted a lineup that had already been replaced, a mutator published   *)
(* over mutations it had not seen, or the mutator that replaced the lineup *)
(* has yet to clear the cache. Every other mutation leaves no entry behind *)
(* that was current before it.                                             *)
OutdatedOnlyByRace ==
    \A e \in Cached :
        \/ ~Outdated(runtime, e)
        \/ e \in late
        \/ \E m \in Mutators : mutator[m].pc = "stored"

(* The routing cache keeps within the capacity of the published config     *)
(* (route_cache_max_entries), although every request compares its length   *)
(* with the capacity of the snapshot it loaded itself, and the lookup, the *)
(* resolution and the insert of several requests interleave. A cache left  *)
(* above it is one whose clear is pending, or the work of a race since the *)
(* last clear: an insert under a replaced snapshot, or a mutator that      *)
(* published over a config it had not seen.                                *)
CacheWithinCapacity ==
    \/ Cardinality(Cached) <= runtime.cap
    \/ overfull
    \/ \E m \in Mutators : mutator[m].pc = "stored"
=============================================================================
