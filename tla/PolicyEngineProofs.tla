------------------------- MODULE PolicyEngineProofs -------------------------
(* The routing cache is overfull and outdated only by a race, for any      *)
(* number of mutators, requests, plugins, entities and configs.  And what  *)
(* a lineup is resolved from: for any document and any request the most    *)
(* specific route serves, and no layer of the document is lost.            *)
EXTENDS PolicyEngine, RouteResolution, FiniteSetTheorems, TLAPS

-----------------------------------------------------------------------------
(* The inductive invariant. A snapshot's version tells whether a mutator   *)
(* has seen every publication; if it has and will not clear the cache,     *)
(* what it is about to publish resolves every request as before, under the *)
(* same capacity. It tells too whether a request still works under the     *)
(* published capacity.                                                     *)

SameLineups(s, t) == \A e \in Entity, tags \in SUBSET Tag : Resolve(s, e, tags) = Resolve(t, e, tags)

MutatorInv(m) ==
    /\ mutator[m].next.version <= versions
    /\ mutator[m].pc = "loaded" => mutator[m].op \in Op
    /\ mutator[m].pc = "loaded" /\ mutator[m].next.version = versions /\ ~mutator[m].clears =>
            SameLineups(mutator[m].next, runtime) /\ mutator[m].next.cap = runtime.cap

\* What a request loaded is current as long as nothing was published since.
RequestInv(r) ==
    /\ request[r].snapshot.version <= versions
    /\ request[r].pc \in {"lookup", "resolve"} =>
            /\ request[r].entity \in Entity \ request[r].snapshot.annotated
            /\ request[r].snapshot.version = versions => request[r].snapshot.cap = runtime.cap

Bounded == IsFiniteSet(Cached) /\ CacheWithinCapacity

IInv ==
    /\ TypeOK
    /\ \A m \in Mutators : MutatorInv(m)
    /\ \A r \in Requests : RequestInv(r)
    /\ Bounded
    /\ OutdatedOnlyByRace

-----------------------------------------------------------------------------
(* Operators.                                                              *)

\* What the mutation closures leave of a snapshot.
LEMMA MutatedSnapshot ==
    ASSUME NEW s \in Snapshot, NEW op \in Op
    PROVE  /\ Mutated(s, op) \in Snapshot
           /\ Mutated(s, op).version = s.version
<1> USE EngineAssumption DEF Op, Snapshot, Mutated
<1>1. CASE op.kind = "register"
    BY <1>1
<1>2. CASE op.kind = "unregister"
    BY <1>2
<1>3. CASE op.kind = "load"
    BY <1>3
<1>4. CASE op.kind = "annotate"
    BY <1>4
<1>5. CASE op.kind = "unannotate"
    BY <1>5
<1> QED
    BY <1>1, <1>2, <1>3, <1>4, <1>5

\* A mutation that does not clear the cache changes no lineup and no capacity.
LEMMA KeepsLineups ==
    ASSUME NEW s \in Snapshot, NEW op \in Op, ~Clears(s, op)
    PROVE  SameLineups(Mutated(s, op), s) /\ Mutated(s, op).cap = s.cap
<1>1. /\ Mutated(s, op).plugins = s.plugins /\ Mutated(s, op).config = s.config
      /\ Mutated(s, op).cap = s.cap
    <2>1. op.kind \in {"unregister", "annotate", "unannotate"}
        BY DEF Clears, Op
    <2>2. CASE op.kind = "unregister"
        BY <2>2 DEF Clears, Mutated, Snapshot
    <2>3. CASE op.kind = "annotate"
        BY <2>3 DEF Mutated, Snapshot
    <2>4. CASE op.kind = "unannotate"
        BY <2>4 DEF Mutated, Snapshot
    <2> QED
        BY <2>1, <2>2, <2>3, <2>4
<1> QED
    BY <1>1 DEF SameLineups, Resolve

\* A lineup is a set of plugins, so never the value that stands for none.
LEMMA ResolveType ==
    ASSUME NEW s \in Snapshot, NEW e \in Entity, NEW tags \in SUBSET Tag
    PROVE  Resolve(s, e, tags) \in SUBSET Plugin /\ Resolve(s, e, tags) # None
<1>1. Resolve(s, e, tags) \in SUBSET Plugin
    BY DEF Resolve, Snapshot
<1> QED
    BY <1>1, EngineAssumption

-----------------------------------------------------------------------------
(* Every step preserves the invariant.                                     *)

\* A mutator that loaded knows whether its snapshot is current, and if its
\* mutation will not clear the cache it changes no lineup.
LEMMA LoadStep ==
    ASSUME IInv, NEW m \in Mutators, NEW op \in Op, mutator[m].pc = "idle", Load(m, op)
    PROVE  IInv'
<1> USE EngineAssumption
<1>1. TypeOK /\ MutatorInv(m) /\ runtime \in Snapshot
    BY DEF IInv, TypeOK
<1> DEFINE next == Mutated(runtime, op)
<1>2. /\ next \in Snapshot /\ next.version = versions
      /\ ~Clears(runtime, op) => SameLineups(next, runtime) /\ next.cap = runtime.cap
    BY <1>1, MutatedSnapshot, KeepsLineups DEF TypeOK
<1>3. Clears(runtime, op) \in BOOLEAN
    BY DEF Clears
<1> HIDE DEF next
<1>4. /\ mutator' \in [Mutators -> MutatorLocal]
      /\ mutator'[m].pc = "loaded" /\ mutator'[m].op = op /\ mutator'[m].next = next
      /\ mutator'[m].clears = Clears(runtime, op)
      /\ \A n \in Mutators \ {m} : mutator'[n] = mutator[n]
    <2>1. mutator' = [mutator EXCEPT ![m].pc = "loaded", ![m].op = op, ![m].next = next,
                                     ![m].clears = Clears(runtime, op)]
        BY DEF Load, next
    <2>2. mutator \in [Mutators -> MutatorLocal]
        BY <1>1 DEF TypeOK
    <2>3. mutator[m] \in MutatorLocal
        BY <2>2
    <2>4. mutator'[m] = [mutator[m] EXCEPT !.pc = "loaded", !.op = op, !.next = next,
                                           !.clears = Clears(runtime, op)]
        BY <2>1, <2>2
    <2>5. mutator'[m] = [pc |-> "loaded", op |-> op, next |-> next, clears |-> Clears(runtime, op),
                         todo |-> mutator[m].todo]
        BY <2>3, <2>4 DEF MutatorLocal
    <2>6. mutator'[m] \in MutatorLocal
        BY <1>2, <1>3, <2>3, <2>5 DEF MutatorLocal
    <2> QED
        BY <2>1, <2>2, <2>5, <2>6
<1>5. TypeOK'
    BY <1>1, <1>4 DEF Load, TypeOK
<1>6. \A n \in Mutators : MutatorInv(n)'
    <2> SUFFICES ASSUME NEW n \in Mutators PROVE MutatorInv(n)'
        OBVIOUS
    <2>1. CASE n = m
        <3>1. runtime' = runtime /\ versions' = versions /\ versions \in Int
            BY <1>1 DEF Load, TypeOK
        <3>2. ~mutator'[m].clears => SameLineups(next, runtime) /\ next.cap = runtime.cap
            BY <1>2, <1>4
        <3> QED
            BY <1>2, <1>4, <2>1, <3>1, <3>2 DEF MutatorInv
    <2>2. CASE n # m
        <3>1. mutator'[n] = mutator[n]
            BY <1>4, <2>2
        <3> QED
            BY <3>1 DEF IInv, Load, MutatorInv
    <2> QED
        BY <2>1, <2>2
<1>7. OutdatedOnlyByRace' /\ Bounded'
    <2>1. \A n \in Mutators : mutator[n].pc = "stored" => mutator'[n].pc = "stored"
        <3>1. ASSUME NEW n \in Mutators, mutator[n].pc = "stored" PROVE n # m
            BY <3>1 DEF Load
        <3> QED
            BY <1>4, <3>1
    <2>2. UNCHANGED <<runtime, cache, late, overfull>>
        BY DEF Load
    <2>3. Cached' = Cached
        BY <2>2 DEF Cached
    <2>4. OutdatedOnlyByRace'
        BY <2>1, <2>2, <2>3 DEF IInv, OutdatedOnlyByRace, Outdated
    <2>5. Bounded'
        BY <2>1, <2>2, <2>3 DEF IInv, Bounded, CacheWithinCapacity
    <2> QED
        BY <2>4, <2>5
<1> QED
    BY <1>5, <1>6, <1>7 DEF IInv, Load, RequestInv

\* A visitor that gives up publishes nothing.
LEMMA VisitorFailsStep ==
    ASSUME IInv, NEW m \in Mutators, VisitorFails(m)
    PROVE  IInv'
<1>1. TypeOK
    BY DEF IInv
<1>2. mutator' = [mutator EXCEPT ![m] = [@ EXCEPT !.todo = << >>]]
    BY DEF VisitorFails
<1>3. \A n \in Mutators : /\ mutator'[n].pc = mutator[n].pc /\ mutator'[n].op = mutator[n].op
                          /\ mutator'[n].next = mutator[n].next
                          /\ mutator'[n].clears = mutator[n].clears
    BY <1>1, <1>2 DEF TypeOK, MutatorLocal
<1>4. TypeOK'
    <2>1. [mutator[m] EXCEPT !.todo = << >>] \in MutatorLocal
        <3>1. << >> \in Seq(Entity)
            OBVIOUS
        <3> QED
            BY <1>1, <3>1 DEF TypeOK, MutatorLocal
    <2>2. mutator' \in [Mutators -> MutatorLocal]
        BY <1>1, <1>2, <2>1 DEF TypeOK
    <2> QED
        BY <1>1, <2>2 DEF VisitorFails, TypeOK
<1>5. \A n \in Mutators : MutatorInv(n)'
    BY <1>3 DEF IInv, VisitorFails, MutatorInv, SameLineups
<1>6. OutdatedOnlyByRace' /\ Bounded'
    BY <1>3 DEF IInv, VisitorFails, OutdatedOnlyByRace, Bounded, CacheWithinCapacity, Cached, Outdated
<1> QED
    BY <1>4, <1>5, <1>6 DEF IInv, VisitorFails, RequestInv

\* The walk still to do is a list of entities.
LEMMA RestType ==
    ASSUME TypeOK, NEW m \in Mutators, mutator[m].op \in Op
    PROVE  Rest(m) \in Seq(Entity)
<1>1. CASE mutator[m].op.kind = "load"
    BY <1>1, EngineAssumption DEF Rest, Op
<1>2. CASE mutator[m].op.kind # "load"
    BY <1>2 DEF Rest, TypeOK, MutatorLocal
<1> QED
    BY <1>1, <1>2

\* A mutator that clears leaves the mark of that behind; one that does not
\* either saw every publication, and changes no lineup, or puts on record
\* whatever its publication leaves outdated.
LEMMA StoreStep ==
    ASSUME IInv, NEW m \in Mutators, Store(m)
    PROVE  IInv'
<1> DEFINE next == mutator[m].next
<1>1. TypeOK /\ MutatorInv(m) /\ mutator[m].op \in Op /\ next \in Snapshot
    BY DEF IInv, TypeOK, MutatorLocal, MutatorInv, Store
<1>2. versions' = versions + 1 /\ versions' \in 0 .. MaxMutations /\ versions \in Nat
    BY <1>1, EngineAssumption DEF Store, TypeOK
<1>3. /\ runtime' \in Snapshot /\ runtime'.version = versions' /\ runtime'.cap = next.cap
      /\ runtime'.plugins = next.plugins /\ runtime'.config = next.config
    BY <1>1, <1>2 DEF Store, Snapshot
<1>4. SameLineups(runtime', next)
    BY <1>3 DEF SameLineups, Resolve
<1>5. Rest(m) \in Seq(Entity)
    BY <1>1, RestType
<1>6. Empty \in Snapshot /\ Empty.version = 0
    BY EngineAssumption DEF Empty, Snapshot
<1>7. /\ mutator' \in [Mutators -> MutatorLocal]
      /\ mutator'[m].pc = IF mutator[m].clears THEN "stored" ELSE "idle"
      /\ mutator'[m].next = IF mutator[m].clears THEN next ELSE Empty
      /\ \A n \in Mutators \ {m} : mutator'[n] = mutator[n]
    <2>1. CASE mutator[m].clears
        BY <1>1, <1>5, <2>1 DEF Store, TypeOK, MutatorLocal
    <2>2. CASE ~mutator[m].clears
        BY <1>1, <1>5, <1>6, <2>2 DEF Store, TypeOK, MutatorLocal, Idle
    <2> QED
        BY <2>1, <2>2
<1> HIDE DEF next
<1>8. TypeOK'
    <2>1. late' \subseteq Entity
        BY <1>1 DEF Store, TypeOK, Cached
    <2> QED
        BY <1>1, <1>2, <1>3, <1>7, <2>1 DEF Store, TypeOK
<1>9. \A n \in Mutators : MutatorInv(n)'
    <2> SUFFICES ASSUME NEW n \in Mutators PROVE MutatorInv(n)'
        OBVIOUS
    <2>1. mutator[n].next.version \in Nat /\ mutator[n].next.version <= versions
        BY <1>1 DEF IInv, MutatorInv, TypeOK, MutatorLocal, Snapshot
    <2>2. CASE n = m
        BY <1>2, <1>6, <1>7, <2>1, <2>2 DEF MutatorInv, next
    <2>3. CASE n # m
        <3>1. mutator'[n] = mutator[n]
            BY <1>7, <2>3
        <3> QED
            BY <1>2, <2>1, <3>1 DEF IInv, MutatorInv
    <2> QED
        BY <2>2, <2>3
<1>10. \A n \in Mutators : mutator[n].pc = "stored" => mutator'[n].pc = "stored"
    BY <1>7 DEF Store
<1>11. OutdatedOnlyByRace'
    <2> SUFFICES ASSUME NEW e \in Cached
                 PROVE  \/ ~Outdated(runtime, e)' \/ e \in late'
                        \/ \E n \in Mutators : mutator'[n].pc = "stored"
        BY DEF OutdatedOnlyByRace, Cached, Store
    <2>1. cache'[e] = cache[e] /\ cache[e].tags \in SUBSET Tag /\ e \in Entity
        BY <1>1 DEF Store, TypeOK, Cached
    <2>2. CASE mutator[m].clears
        BY <1>7, <2>2
    <2>3. CASE next.version # runtime.version
        BY <2>1, <2>3 DEF Store, next, Outdated
    <2>4. CASE next.version = runtime.version /\ ~mutator[m].clears
        <3>1. SameLineups(next, runtime)
            BY <1>1, <2>4 DEF MutatorInv, Store, TypeOK, next
        <3>2. Outdated(runtime, e)' <=> Outdated(runtime, e)
            BY <1>4, <2>1, <3>1 DEF Outdated, SameLineups
        <3>3. late' = late
            BY <2>4 DEF Store, next
        <3> QED
            BY <1>10, <3>2, <3>3 DEF IInv, OutdatedOnlyByRace
    <2> QED
        BY <2>2, <2>3, <2>4
<1>12. Bounded'
    <2>1. Cached' = Cached /\ IsFiniteSet(Cached) /\ Cardinality(Cached) \in Nat /\ CacheWithinCapacity
        BY FS_CardinalityType DEF IInv, Bounded, Cached, Store
    <2>2. CASE mutator[m].clears
        BY <1>7, <2>1, <2>2 DEF Bounded, CacheWithinCapacity
    <2>3. CASE next.version # runtime.version
        <3>1. Cardinality(Cached) > next.cap => overfull'
            BY <2>3 DEF Store, next
        <3>2. next.cap \in Nat
            BY <1>1, EngineAssumption DEF Snapshot
        <3>3. CASE Cardinality(Cached) > next.cap
            BY <2>1, <3>1, <3>3 DEF Bounded, CacheWithinCapacity
        <3>4. CASE Cardinality(Cached) <= next.cap
            <4>1. Cardinality(Cached') <= runtime'.cap
                BY <1>3, <2>1, <3>4
            <4> QED
                BY <2>1, <4>1 DEF Bounded, CacheWithinCapacity
        <3> QED
            BY <2>1, <3>2, <3>3, <3>4
    <2>4. CASE next.version = runtime.version /\ ~mutator[m].clears
        <3>1. next.cap = runtime.cap
            BY <1>1, <2>4 DEF MutatorInv, Store, TypeOK, next
        <3>2. overfull => overfull'
            BY DEF Store
        <3> QED
            BY <1>3, <1>10, <2>1, <3>1, <3>2 DEF Bounded, CacheWithinCapacity
    <2> QED
        BY <2>2, <2>3, <2>4
<1>13. \A r \in Requests : RequestInv(r)'
    <2> SUFFICES ASSUME NEW r \in Requests PROVE RequestInv(r)'
        OBVIOUS
    <2>1. request'[r] = request[r] /\ request[r].snapshot.version \in Nat
        BY <1>1, EngineAssumption DEF Store, TypeOK, RequestLocal, Snapshot
    <2>2. request[r].snapshot.version <= versions
        BY DEF IInv, RequestInv
    <2> QED
        BY <1>2, <2>1, <2>2 DEF IInv, RequestInv
<1> QED
    BY <1>8, <1>9, <1>11, <1>12, <1>13 DEF IInv

\* An empty cache is neither outdated nor full.
LEMMA ClearStep ==
    ASSUME IInv, NEW m \in Mutators, ClearRoutingCache(m)
    PROVE  IInv'
<1>1. TypeOK /\ mutator[m].todo \in Seq(Entity)
    BY DEF IInv, TypeOK, MutatorLocal
<1>2. Empty \in Snapshot /\ Empty.version = 0
    BY EngineAssumption DEF Empty, Snapshot
<1>3. /\ mutator' \in [Mutators -> MutatorLocal]
      /\ mutator'[m].pc = "idle" /\ mutator'[m].next = Empty
      /\ \A n \in Mutators \ {m} : mutator'[n] = mutator[n]
    BY <1>1, <1>2 DEF ClearRoutingCache, TypeOK, MutatorLocal, Idle
<1>4. Cached' = {}
    BY DEF ClearRoutingCache, Cached
<1>5. TypeOK'
    BY <1>1, <1>2, <1>3 DEF ClearRoutingCache, TypeOK
<1>6. \A n \in Mutators : MutatorInv(n)'
    BY <1>1, <1>2, <1>3 DEF IInv, ClearRoutingCache, TypeOK, MutatorInv, SameLineups
<1>7. Bounded'
    <2>1. runtime'.cap \in Nat
        BY <1>5, EngineAssumption DEF TypeOK, Snapshot
    <2> QED
        BY <1>4, <2>1, FS_EmptySet DEF Bounded, CacheWithinCapacity
<1> QED
    BY <1>4, <1>5, <1>6, <1>7 DEF IInv, ClearRoutingCache, RequestInv, OutdatedOnlyByRace

\* Only request r's locals change: `next` is what becomes of them.
LEMMA RequestSteps ==
    ASSUME IInv, NEW r \in Requests, NEW next \in RequestLocal,
           request' = [request EXCEPT ![r] = next],
           next.snapshot.version <= versions,
           next.pc \in {"lookup", "resolve"} =>
                /\ next.entity \in Entity \ next.snapshot.annotated
                /\ next.snapshot.version = versions => next.snapshot.cap = runtime.cap,
           next.pc = "done" => (next.lineup = None <=> next.entity \in next.snapshot.annotated),
           UNCHANGED <<runtime, mutator, versions>>
    PROVE  /\ request' \in [Requests -> RequestLocal]
           /\ \A q \in Requests : request'[q].pc = "done" =>
                (request'[q].lineup = None <=> request'[q].entity \in request'[q].snapshot.annotated)
           /\ \A m \in Mutators : MutatorInv(m)'
           /\ \A q \in Requests : RequestInv(q)'
<1>1. request \in [Requests -> RequestLocal]
    BY DEF IInv, TypeOK
<1>2. request'[r] = next /\ \A q \in Requests \ {r} : request'[q] = request[q]
    BY <1>1
<1>3. request' \in [Requests -> RequestLocal]
    BY <1>1
<1>4. \A q \in Requests : request'[q].pc = "done" =>
          (request'[q].lineup = None <=> request'[q].entity \in request'[q].snapshot.annotated)
    BY <1>2 DEF IInv, TypeOK
<1>5. \A m \in Mutators : MutatorInv(m)'
    BY DEF IInv, MutatorInv
<1>6. \A q \in Requests : RequestInv(q)'
    BY <1>2 DEF IInv, RequestInv
<1> QED
    BY <1>3, <1>4, <1>5, <1>6

\* A request that touches neither the cache nor the engine.
LEMMA RequestStands ==
    ASSUME IInv, NEW r \in Requests, NEW next \in RequestLocal,
           request' = [request EXCEPT ![r] = next],
           next.snapshot.version <= versions,
           next.pc \in {"lookup", "resolve"} =>
                /\ next.entity \in Entity \ next.snapshot.annotated
                /\ next.snapshot.version = versions => next.snapshot.cap = runtime.cap,
           next.pc = "done" => (next.lineup = None <=> next.entity \in next.snapshot.annotated),
           UNCHANGED <<runtime, cache, mutator, versions, late, overfull>>
    PROVE  IInv'
<1>1. /\ request' \in [Requests -> RequestLocal]
      /\ \A q \in Requests : request'[q].pc = "done" =>
            (request'[q].lineup = None <=> request'[q].entity \in request'[q].snapshot.annotated)
      /\ \A m \in Mutators : MutatorInv(m)'
      /\ \A q \in Requests : RequestInv(q)'
    BY RequestSteps
<1>2. TypeOK'
    BY <1>1 DEF IInv, TypeOK
<1>3. Bounded' /\ OutdatedOnlyByRace'
    BY DEF IInv, Bounded, CacheWithinCapacity, OutdatedOnlyByRace, Cached, Outdated
<1> QED
    BY <1>1, <1>2, <1>3 DEF IInv

\* The early returns answer from the loaded snapshot alone.
LEMMA LoadRuntimeStep ==
    ASSUME IInv, NEW r \in Requests, NEW e \in Entity, NEW tags \in SUBSET Tag, LoadRuntime(r, e, tags)
    PROVE  IInv'
<1> DEFINE next == [entity |-> e, tags |-> tags, snapshot |-> runtime,
                    pc |-> IF SkipsCache(runtime, e) THEN "done" ELSE "lookup",
                    lineup |-> IF SkipsCache(runtime, e) /\ e \notin runtime.annotated
                               THEN Resolve(runtime, e, tags) ELSE None]
<1>1. runtime \in Snapshot /\ runtime.version = versions /\ versions \in Int
    BY DEF IInv, TypeOK
<1>2. Resolve(runtime, e, tags) \in SUBSET Plugin /\ Resolve(runtime, e, tags) # None
    BY <1>1, ResolveType
<1>3. next \in RequestLocal
    <2>1. next.lineup \in (SUBSET Plugin) \cup {None}
        BY <1>2
    <2>2. next.pc \in {"done", "lookup"}
        OBVIOUS
    <2>3. next = [pc |-> next.pc, entity |-> e, tags |-> tags, snapshot |-> runtime,
                  lineup |-> next.lineup]
        OBVIOUS
    <2> HIDE DEF next
    <2> QED
        BY <1>1, <2>1, <2>2, <2>3 DEF RequestLocal
<1>4. next.pc = "lookup" => e \notin runtime.annotated
    BY DEF SkipsCache
<1>5. next.pc = "done" => (next.lineup = None <=> e \in runtime.annotated)
    BY <1>2
<1>6. request' = [request EXCEPT ![r] = next] /\ UNCHANGED <<runtime, cache, mutator, versions, late, overfull>>
    BY DEF LoadRuntime
<1>7. /\ next.entity = e /\ next.snapshot = runtime /\ next.pc # "resolve"
    OBVIOUS
<1> HIDE DEF next
<1>8. next.snapshot.version <= versions
    BY <1>1, <1>7
<1> QED
    BY <1>3, <1>4, <1>5, <1>6, <1>7, <1>8, RequestStands

\* A hit is a lineup, and the request that took it is to no annotated entity.
LEMMA LookupStep ==
    ASSUME IInv, NEW r \in Requests, Lookup(r)
    PROVE  IInv'
<1> DEFINE hit == cache[request[r].entity]
<1>1. /\ request \in [Requests -> RequestLocal] /\ request[r] \in RequestLocal
      /\ request[r].pc = "lookup"
      /\ request[r].entity \in Entity \ request[r].snapshot.annotated
      /\ request[r].snapshot.version <= versions
      /\ request[r].snapshot.version = versions => request[r].snapshot.cap = runtime.cap
    BY DEF IInv, TypeOK, RequestInv, Lookup
<1>2. CASE hit # None
    <2> DEFINE next == [request[r] EXCEPT !.pc = "done", !.lineup = hit.lineup]
    <2>1. hit.lineup \in SUBSET Plugin /\ hit.lineup # None
        BY <1>1, <1>2, EngineAssumption DEF IInv, TypeOK
    <2>2. next \in RequestLocal /\ next.snapshot = request[r].snapshot /\ next.pc = "done"
          /\ next.lineup = hit.lineup /\ next.entity = request[r].entity
        BY <1>1, <2>1 DEF RequestLocal
    <2>3. request' = [request EXCEPT ![r] = next]
        BY <1>1, <1>2 DEF Lookup
    <2>4. UNCHANGED <<runtime, cache, mutator, versions, late, overfull>>
        BY DEF Lookup
    <2> HIDE DEF next
    <2> QED
        BY <1>1, <2>1, <2>2, <2>3, <2>4, RequestStands
<1>3. CASE hit = None
    <2> DEFINE next == [request[r] EXCEPT !.pc = "resolve"]
    <2>1. next \in RequestLocal /\ next.snapshot = request[r].snapshot /\ next.pc = "resolve"
          /\ next.entity = request[r].entity
        BY <1>1 DEF RequestLocal
    <2>2. request' = [request EXCEPT ![r] = next]
        BY <1>1, <1>3 DEF Lookup
    <2>3. UNCHANGED <<runtime, cache, mutator, versions, late, overfull>>
        BY DEF Lookup
    <2> HIDE DEF next
    <2> QED
        BY <1>1, <2>1, <2>2, <2>3, RequestStands
<1> QED
    BY <1>2, <1>3

\* A request that has answered leaves nothing behind.
LEMMA RespondStep ==
    ASSUME IInv, NEW r \in Requests, Respond(r)
    PROVE  IInv'
<1>1. Empty \in Snapshot /\ Empty.version <= versions
    BY EngineAssumption DEF Empty, Snapshot, IInv, TypeOK
<1>2. NoRequest \in RequestLocal /\ NoRequest.snapshot = Empty /\ NoRequest.pc = "idle"
    BY <1>1 DEF NoRequest, RequestLocal
<1> QED
    BY <1>1, <1>2, RequestStands DEF Respond

\* The slow path inserts one entry, below the capacity of its own snapshot,
\* and puts on record whether the entry is current.
LEMMA InsertStep ==
    ASSUME IInv, NEW r \in Requests, Insert(r)
    PROVE  IInv'
<1> DEFINE e == request[r].entity
           s == request[r].snapshot
           tags == request[r].tags
           entry == [lineup |-> Resolve(s, e, tags), tags |-> tags]
           next == [request[r] EXCEPT !.pc = "done", !.lineup = entry.lineup]
<1>1. /\ request \in [Requests -> RequestLocal] /\ request[r] \in RequestLocal
      /\ s \in Snapshot /\ tags \in SUBSET Tag
      /\ e \in Entity \ s.annotated
      /\ s.version <= versions /\ (s.version = versions => s.cap = runtime.cap)
      /\ runtime.version = versions /\ runtime \in Snapshot
    BY DEF IInv, TypeOK, RequestInv, Insert, RequestLocal
<1>2. entry.lineup \in SUBSET Plugin /\ entry.lineup # None
    BY <1>1, ResolveType
<1>3. next \in RequestLocal /\ next.snapshot = s /\ next.pc = "done"
      /\ next.lineup = entry.lineup /\ next.entity = e
    BY <1>1, <1>2 DEF RequestLocal
<1>4. request' = [request EXCEPT ![r] = next] /\ UNCHANGED <<runtime, mutator, versions>>
    BY <1>1 DEF Insert
<1>5. entry \in [lineup : SUBSET Plugin, tags : SUBSET Tag]
    BY <1>1, <1>2
<1>6. IF Full(s) THEN UNCHANGED <<cache, late, overfull>>
      ELSE /\ cache' = [cache EXCEPT ![e] = entry]
           /\ late' = IF entry.lineup = Resolve(runtime, e, entry.tags) THEN late \ {e} ELSE late \cup {e}
           /\ overfull' = \/ overfull
                          \/ s.version # runtime.version /\ Cardinality(Cached \cup {e}) > runtime.cap
    BY DEF Insert
<1> HIDE DEF next
<1>7. /\ request' \in [Requests -> RequestLocal]
      /\ \A q \in Requests : request'[q].pc = "done" =>
            (request'[q].lineup = None <=> request'[q].entity \in request'[q].snapshot.annotated)
      /\ \A m \in Mutators : MutatorInv(m)'
      /\ \A q \in Requests : RequestInv(q)'
    BY <1>1, <1>2, <1>3, <1>4, RequestSteps
<1> HIDE DEF entry, s, tags, e
<1>8. TypeOK'
    <2>1. cache' \in [Entity -> [lineup : SUBSET Plugin, tags : SUBSET Tag] \cup {None}]
        BY <1>1, <1>5, <1>6 DEF IInv, TypeOK
    <2>2. late' \subseteq Entity /\ overfull' \in BOOLEAN
        BY <1>1, <1>6 DEF IInv, TypeOK
    <2> QED
        BY <1>4, <1>7, <2>1, <2>2 DEF IInv, TypeOK
<1>9. CASE Full(s)
    <2>1. Bounded' /\ OutdatedOnlyByRace'
        BY <1>4, <1>6, <1>9 DEF IInv, Bounded, CacheWithinCapacity, OutdatedOnlyByRace, Cached, Outdated
    <2> QED
        BY <1>7, <1>8, <2>1 DEF IInv
<1>10. CASE ~Full(s)
    <2>1. cache'[e] = entry /\ \A f \in Entity \ {e} : cache'[f] = cache[f]
        BY <1>1, <1>6, <1>10 DEF IInv, TypeOK
    <2>2. Bounded'
        <3>1. IsFiniteSet(Cached) /\ Cardinality(Cached) \in Nat
            BY FS_CardinalityType DEF IInv, Bounded
        <3>2. IsFiniteSet(Cached \cup {e}) /\ Cardinality(Cached \cup {e}) <= Cardinality(Cached) + 1
            <4>1. /\ IsFiniteSet(Cached \cup {e})
                  /\ Cardinality(Cached \cup {e}) =
                        IF e \in Cached THEN Cardinality(Cached) ELSE Cardinality(Cached) + 1
                BY <3>1, FS_AddElement
            <4> QED
                BY <3>1, <4>1
        <3>3. Cached' \subseteq Cached \cup {e}
            BY <2>1 DEF Cached
        <3>4. /\ IsFiniteSet(Cached') /\ Cardinality(Cached') <= Cardinality(Cached \cup {e})
              /\ Cardinality(Cached') \in Nat /\ Cardinality(Cached \cup {e}) \in Nat
            BY <3>2, <3>3, FS_Subset, FS_CardinalityType
        <3>5. s.cap \in Nat /\ runtime.cap \in Nat /\ Cardinality(Cached) + 1 <= s.cap
            BY <1>1, <1>10, <3>1, EngineAssumption DEF Full, Snapshot
        <3>6. Cardinality(Cached') <= s.cap
            BY <3>1, <3>2, <3>3, <3>4, <3>5
        <3>7. CASE s.version = versions
            BY <1>1, <1>4, <3>4, <3>6, <3>7 DEF Bounded, CacheWithinCapacity
        <3>8. CASE s.version # versions
            <4>1. CASE Cardinality(Cached \cup {e}) > runtime.cap
                BY <1>1, <1>6, <1>10, <3>4, <3>8, <4>1 DEF Bounded, CacheWithinCapacity
            <4>2. CASE Cardinality(Cached \cup {e}) <= runtime.cap
                BY <1>4, <3>4, <3>5, <4>2 DEF Bounded, CacheWithinCapacity
            <4> QED
                BY <3>4, <3>5, <4>1, <4>2
        <3> QED
            BY <3>7, <3>8
    <2>3. OutdatedOnlyByRace'
        <3> SUFFICES ASSUME NEW f \in Cached'
                     PROVE  \/ ~Outdated(runtime, f)' \/ f \in late'
                            \/ \E m \in Mutators : mutator'[m].pc = "stored"
            BY DEF OutdatedOnlyByRace
        <3>1. CASE f = e
            BY <1>4, <1>6, <1>10, <2>1, <3>1 DEF Outdated
        <3>2. CASE f # e
            <4>1. f \in Cached /\ cache'[f] = cache[f]
                BY <2>1, <3>2 DEF Cached
            <4> QED
                BY <1>4, <1>6, <1>10, <3>2, <4>1 DEF IInv, OutdatedOnlyByRace, Outdated
        <3> QED
            BY <3>1, <3>2
    <2> QED
        BY <1>7, <1>8, <2>2, <2>3 DEF IInv
<1> QED
    BY <1>9, <1>10

-----------------------------------------------------------------------------

\* PolicyEngine::new and PolicyEngine::from_config establish the invariant.
LEMMA Initially == Init => IInv
<1> SUFFICES ASSUME Init PROVE IInv
    OBVIOUS
<1> USE EngineAssumption
<1>1. Empty \in Snapshot /\ Empty.version = 0
    BY DEF Empty, Snapshot
<1>2. runtime \in Snapshot /\ runtime.version = 0
    <2>1. CASE runtime = Empty
        BY <1>1, <2>1
    <2>2. ASSUME NEW c \in Config, runtime = FromConfig(c)
          PROVE  runtime \in Snapshot /\ runtime.version = 0
        <3>1. runtime = [plugins |-> Declares[c], config |-> c, annotated |-> {}, cap |-> Cap[c],
                         version |-> 0]
            BY <2>2 DEF FromConfig, Empty
        <3> QED
            BY <3>1 DEF Snapshot
    <2> QED
        BY <2>1, <2>2 DEF Init
<1>3. Idle(<< >>) \in MutatorLocal /\ NoRequest \in RequestLocal
    BY <1>1 DEF Idle, NoRequest, MutatorLocal, RequestLocal
<1>4. TypeOK
    <2>1. /\ overfull \in BOOLEAN /\ late \subseteq Entity
          /\ cache \in [Entity -> [lineup : SUBSET Plugin, tags : SUBSET Tag] \cup {None}]
        BY DEF Init
    <2>2. /\ mutator \in [Mutators -> MutatorLocal] /\ request \in [Requests -> RequestLocal]
          /\ \A r \in Requests : request[r].pc = "idle"
        BY <1>3 DEF Init, NoRequest
    <2> QED
        BY <1>2, <2>1, <2>2 DEF Init, TypeOK
<1>5. \A m \in Mutators : MutatorInv(m)
    BY <1>1, <1>2 DEF Init, MutatorInv, Idle
<1>6. \A r \in Requests : RequestInv(r)
    BY <1>1 DEF Init, RequestInv, NoRequest
<1>7. Cached = {}
    BY DEF Init, Cached
<1>8. Bounded
    <2>1. runtime.cap \in Nat
        BY <1>2 DEF Snapshot
    <2> QED
        BY <1>7, <2>1, FS_EmptySet DEF Bounded, CacheWithinCapacity
<1> QED
    BY <1>4, <1>5, <1>6, <1>7, <1>8 DEF IInv, OutdatedOnlyByRace

\* One case per action.
LEMMA Inductive == IInv /\ [Next]_vars => IInv'
<1> SUFFICES ASSUME IInv, [Next]_vars PROVE IInv'
    OBVIOUS
<1>1. ASSUME NEW m \in Mutators, Mutate(m) PROVE IInv'
    BY <1>1, LoadStep DEF Mutate
<1>2. ASSUME NEW m \in Mutators, VisitRoute(m) PROVE IInv'
    <2>1. mutator[m].todo \in Seq(Entity) /\ mutator[m].todo # << >>
        BY <1>2 DEF IInv, TypeOK, MutatorLocal, VisitRoute
    <2>2. Head(mutator[m].todo) \in Entity
        BY <2>1
    <2>3. [kind |-> "annotate", arg |-> Head(mutator[m].todo)] \in Op
        BY <2>2 DEF Op
    <2> QED
        BY <1>2, <2>3, LoadStep DEF VisitRoute
<1>3. ASSUME NEW m \in Mutators, VisitorFails(m) \/ Store(m) \/ ClearRoutingCache(m) PROVE IInv'
    BY <1>3, VisitorFailsStep, StoreStep, ClearStep
<1>4. ASSUME NEW r \in Requests, NEW e \in Entity, NEW tags \in SUBSET Tag, LoadRuntime(r, e, tags)
      PROVE  IInv'
    BY <1>4, LoadRuntimeStep
<1>5. ASSUME NEW r \in Requests, Lookup(r) \/ Insert(r) \/ Respond(r) PROVE IInv'
    BY <1>5, LookupStep, InsertStep, RespondStep
<1>6. CASE UNCHANGED vars
    BY <1>6 DEF vars, IInv, TypeOK, MutatorInv, SameLineups, RequestInv, Bounded,
                CacheWithinCapacity, OutdatedOnlyByRace, Cached, Outdated
<1> QED
    BY <1>1, <1>2, <1>3, <1>4, <1>5, <1>6 DEF Next

LEMMA Invariant == Spec => []IInv
BY Initially, Inductive, PTL DEF Spec

\* Whatever mutators and requests interleave, the snapshot, the cache and their
\* locals keep their types, the published version counts the publications, and
\* exactly the answers for annotated entities come without a lineup.
THEOREM TypeCorrect == Spec => []TypeOK
<1>1. IInv => TypeOK
    BY DEF IInv
<1> QED
    BY <1>1, Invariant, PTL

\* Reject-on-full in filter_entries_by_route keeps the routing cache within the
\* published capacity, although every request compares its length with the
\* capacity of the snapshot it loaded itself: above it is a cache whose clear is
\* pending, or one that a race the history records has filled.
THEOREM CacheBounded == Spec => []CacheWithinCapacity
<1>1. IInv => CacheWithinCapacity
    BY DEF IInv, Bounded
<1> QED
    BY <1>1, Invariant, PTL

\* clear_routing_cache after every publication that can change a lineup is
\* enough: a cached lineup differs from the published one only while the clear
\* is pending or after a race that the history records.
THEOREM OutdatedByRaceOnly == Spec => []OutdatedOnlyByRace
<1>1. IInv => OutdatedOnlyByRace
    BY DEF IInv
<1> QED
    BY <1>1, Invariant, PTL

-----------------------------------------------------------------------------
(* Route matching.                                                         *)

\* A non-empty set of naturals has a least element.
LEMMA LeastNat ==
    ASSUME NEW S \in SUBSET Nat, S # {}
    PROVE  \E x \in S : \A y \in S : x <= y
<1>1. PICK x \in S : \A y \in S : ~(<<y, x>> \in OpToRel(<, Nat))
    BY NatLessThanWellFounded, WFMin, Zenon
<1>2. \A y \in S : ~(y < x)
    BY <1>1, Zenon DEF OpToRel
<1> QED
    BY <1>2

\* Of the positions with the highest score one is the first.
LEMMA FirstOfBest ==
    ASSUME NEW S, S \subseteq Nat, S # {}, NEW T \in [S -> Nat], NEW b \in Nat, \A i \in S : T[i] <= b
    PROVE  \E i \in S : \A j \in S : T[i] > T[j] \/ (T[i] = T[j] /\ i <= j)
<1> DEFINE gap == {b - T[i] : i \in S}
<1>1. gap \in SUBSET Nat /\ gap # {}
    <2>1. \A i \in S : T[i] \in Nat /\ T[i] <= b
        OBVIOUS
    <2>2. \A i \in S : b - T[i] \in Nat
        BY <2>1
    <2>3. PICK i \in S : TRUE
        OBVIOUS
    <2>4. b - T[i] \in gap
        OBVIOUS
    <2>5. gap \subseteq Nat
        BY <2>2
    <2> QED
        BY <2>4, <2>5
<1>2. PICK g \in gap : \A h \in gap : g <= h
    <2> HIDE DEF gap
    <2> QED
        BY <1>1, LeastNat
<1> DEFINE top == {i \in S : b - T[i] = g}
<1>3. top \in SUBSET Nat /\ top # {}
    <2>1. PICK i \in S : b - T[i] = g
        BY <1>2
    <2>2. i \in top
        BY <2>1
    <2> QED
        BY <2>2
<1>4. PICK i \in top : \A j \in top : i <= j
    <2> HIDE DEF top
    <2> QED
        BY <1>3, LeastNat
<1>5. ASSUME NEW j \in S PROVE T[i] > T[j] \/ (T[i] = T[j] /\ i <= j)
    <2>1. g <= b - T[j] /\ b - T[i] = g /\ T[i] \in Nat /\ T[j] \in Nat /\ T[i] <= b /\ T[j] <= b
        BY <1>2, <1>4
    <2>2. CASE j \in top
        BY <1>4, <2>1, <2>2
    <2>3. CASE j \notin top
        <3>1. b - T[j] # g
            BY <2>3
        <3> QED
            BY <2>1, <3>1
    <2> QED
        BY <2>2, <2>3
<1> QED
    BY <1>4, <1>5

\* The score of a route is a number below 2000, and orders routes as their
\* ranks do: first by the matcher, then by the scope, then by the condition.
LEMMA ScoreFollowsRank ==
    ASSUME NEW r, NEW s, NEW type
    PROVE  /\ C!Total(r, type) \in Nat /\ C!Total(r, type) <= 2000
           /\ C!Total(r, type) > C!Total(s, type) <=> Outranks(Rank(r, type), Rank(s, type))
<1> DEFINE base(x) == Rank(x, type)[1]
           scope(x) == Rank(x, type)[2]
           when(x) == Rank(x, type)[3]
           score(n) == IF n = 0 THEN 0 ELSE IF n = 1 THEN 300 ELSE IF n = 2 THEN 500 ELSE 1000
<1>1. ASSUME NEW x PROVE base(x) \in 0 .. 3 /\ scope(x) \in 0 .. 1 /\ when(x) \in 0 .. 1
    BY DEF Rank
<1>2. ASSUME NEW x PROVE C!ScoreEntityMatch(x.matchers[type][1]) = score(base(x))
    BY DEF Rank, C!ScoreEntityMatch, C!Specificity
<1>3. ASSUME NEW x PROVE C!Total(x, type) = score(base(x)) + 100 * scope(x) + 10 * when(x)
    <2>1. scope(x) = IF C!Some(x.scope) THEN 1 ELSE 0
        BY DEF Rank, C!Some
    <2>2. when(x) = IF C!Some(x.when) THEN 1 ELSE 0
        BY DEF Rank, C!Some
    <2>3. C!Specificity("when") = 10
        BY DEF C!Specificity
    <2> HIDE DEF score, base, scope, when
    <2> QED
        BY <1>2, <2>1, <2>2, <2>3 DEF C!Total
<1>4. Outranks(Rank(r, type), Rank(s, type)) <=>
         \/ base(r) > base(s)
         \/ base(r) = base(s) /\ scope(r) > scope(s)
         \/ base(r) = base(s) /\ scope(r) = scope(s) /\ when(r) > when(s)
    BY DEF Outranks
<1> HIDE DEF base, scope, when
<1>5. base(r) \in 0 .. 3 /\ scope(r) \in 0 .. 1 /\ when(r) \in 0 .. 1
    BY <1>1
<1>6. base(s) \in 0 .. 3 /\ scope(s) \in 0 .. 1 /\ when(s) \in 0 .. 1
    BY <1>1
<1>7. C!Total(r, type) = score(base(r)) + 100 * scope(r) + 10 * when(r)
    BY <1>3
<1>8. C!Total(s, type) = score(base(s)) + 100 * scope(s) + 10 * when(s)
    BY <1>3
<1>9. /\ score(base(r)) \in {0, 300, 500, 1000} /\ score(base(s)) \in {0, 300, 500, 1000}
      /\ score(base(r)) = score(base(s)) <=> base(r) = base(s)
      /\ score(base(r)) > score(base(s)) <=> base(r) > base(s)
    BY <1>5, <1>6
<1> DEFINE a == score(base(r))
           b == score(base(s))
<1> HIDE DEF a, b, score
<1>10. /\ a \in {0, 300, 500, 1000} /\ b \in {0, 300, 500, 1000}
       /\ a = b <=> base(r) = base(s)
       /\ a > b <=> base(r) > base(s)
    BY <1>9 DEF a, b
<1>11. scope(r) \in {0, 1} /\ scope(s) \in {0, 1} /\ when(r) \in {0, 1} /\ when(s) \in {0, 1}
    BY <1>5, <1>6
<1>12. /\ a + 100 * scope(r) + 10 * when(r) \in Nat
       /\ a + 100 * scope(r) + 10 * when(r) <= 2000
       /\ a + 100 * scope(r) + 10 * when(r) > b + 100 * scope(s) + 10 * when(s) <=>
             \/ a > b
             \/ a = b /\ scope(r) > scope(s)
             \/ a = b /\ scope(r) = scope(s) /\ when(r) > when(s)
    BY <1>10, <1>11
<1> QED
    BY <1>4, <1>7, <1>8, <1>10, <1>12 DEF a, b

\* A configuration that is read holds the routes of its document, each parsed.
LEMMA RoutesParsed ==
    ASSUME NEW doc, C!ParseConfig(doc) # <<>>
    PROVE  C!ParseConfig(doc)[1].routes = [i \in DOMAIN doc.routes |-> C!RouteEntry(doc.routes[i])]
BY DEF C!ParseConfig, C!MergeGroupsIntoPolicies, C!PolicyConfig

\* A parsed route matches, and scores, as its raw form says.
LEMMA ParsedRoute ==
    ASSUME NEW raw, NEW type
    PROVE  /\ C!RouteEntry(raw).matchers = raw.matchers /\ C!RouteEntry(raw).scope = raw.scope
           /\ C!Total(C!RouteEntry(raw), type) = C!Total(raw, type)
BY DEF C!RouteEntry, C!Total

\* The candidates of find_matching_route are the routes that cover the request.
LEMMA CandidatesFit ==
    ASSUME NEW case, IsCase(case), NEW i \in DOMAIN case.doc.routes
    PROVE  C!Candidate(C!RouteEntry(case.doc.routes[i]), case.ext.entity_type[1], case.ext.entity_name[1], case.ext.scope)
              <=> i \in Fitting(case.doc, case.ext)
<1> DEFINE raw == case.doc.routes[i]
           type == case.ext.entity_type[1]
           name == case.ext.entity_name[1]
           m == raw.matchers[type][1]
<1>1. IsRoute(raw)
    BY DEF IsCase
<1>2. C!RouteEntry(raw).matchers = raw.matchers /\ C!RouteEntry(raw).scope = raw.scope
    BY ParsedRoute
<1>3. C!ScopeFits(C!RouteEntry(raw), case.ext.scope) <=> raw.scope \in {<<>>, case.ext.scope}
    BY <1>2 DEF C!ScopeFits, C!Some
<1>4. ASSUME type \in C!EntityTypes, raw.matchers[type] # <<>>
      PROVE  C!Matches(m, name) <=> m.pattern = "*" \/ name \in m.covers \cup {m.names[k] : k \in DOMAIN m.names}
    <2>1. m \in Matcher
        <3>1. raw.matchers[type] \in Option(Matcher)
            BY <1>1, <1>4 DEF IsRoute
        <3> QED
            BY <1>4, <3>1 DEF Option
    <2> HIDE DEF m
    <2>2. CASE m.list
        <3>1. m.pattern = "" /\ m.covers = {}
            BY <2>1, <2>2 DEF Matcher
        <3> QED
            BY <2>2, <3>1 DEF C!Matches
    <2>3. CASE ~m.list
        <3>1. m.names = <<>>
            BY <2>1, <2>3 DEF Matcher
        <3>2. {m.names[k] : k \in DOMAIN m.names} = {}
            BY <3>1
        <3> QED
            BY <2>3, <3>2 DEF C!Matches, C!PatternMatches
    <2> QED
        BY <2>2, <2>3
<1>5. C!Candidate(C!RouteEntry(raw), type, name, case.ext.scope) <=>
        /\ raw.scope \in {<<>>, case.ext.scope}
        /\ type \in C!EntityTypes
        /\ raw.matchers[type] # <<>>
        /\ C!Matches(m, name)
    BY <1>2, <1>3, Zenon DEF C!Candidate, C!Some
<1>6. i \in Fitting(case.doc, case.ext) <=>
        /\ raw.scope \in {<<>>, case.ext.scope}
        /\ type \in C!EntityTypes /\ raw.matchers[type] # <<>>
        /\ m.pattern = "*" \/ name \in m.covers \cup {m.names[k] : k \in DOMAIN m.names}
    BY Zenon DEF Fitting
<1> HIDE DEF m, type, name, raw
<1>7. C!Candidate(C!RouteEntry(raw), type, name, case.ext.scope) <=> i \in Fitting(case.doc, case.ext)
    BY <1>4, <1>5, <1>6
<1> QED
    BY <1>7 DEF type, name, raw

\* Of the routes that cover a request find_matching_route takes the first of
\* those that no other outranks.
LEMMA MatchIsMostSpecific ==
    ASSUME NEW case, IsCase(case), C!ParseConfig(case.doc) # <<>>
    PROVE  LET fits == Fitting(case.doc, case.ext)
               rank(i) == Rank(case.doc.routes[i], case.ext.entity_type[1])
               chosen == C!FindMatchingRoute(C!ParseConfig(case.doc)[1], case.ext.entity_type[1],
                                             case.ext.entity_name[1], case.ext.scope)
           IN IF fits = {} THEN chosen = <<>>
              ELSE \E i \in fits :
                      /\ chosen = <<C!RouteEntry(case.doc.routes[i])>>
                      /\ \A j \in fits : /\ ~Outranks(rank(j), rank(i))
                                         /\ j < i => Outranks(rank(i), rank(j))
<1> DEFINE routes == case.doc.routes
           type == case.ext.entity_type[1]
           name == case.ext.entity_name[1]
           config == C!ParseConfig(case.doc)[1]
           fits == Fitting(case.doc, case.ext)
           rank(i) == Rank(routes[i], type)
           T == [i \in DOMAIN routes |-> C!Total(routes[i], type)]
           best == {i \in fits : \A j \in fits : \/ T[i] > T[j]
                                                 \/ T[i] = T[j] /\ i <= j}
           chosen == C!FindMatchingRoute(config, type, name, case.ext.scope)
<1>1. config.routes = [i \in DOMAIN routes |-> C!RouteEntry(routes[i])]
    BY RoutesParsed
<1>2. \A i \in DOMAIN routes : C!Candidate(config.routes[i], type, name, case.ext.scope) <=> i \in fits
    BY <1>1, CandidatesFit
<1>3. \A i \in DOMAIN routes : C!Total(config.routes[i], type) = T[i]
    BY <1>1, ParsedRoute
<1>4. fits \subseteq DOMAIN routes /\ fits \subseteq Nat
    <2>1. routes \in Seq(C!Range(routes))
        BY DEF IsCase
    <2>2. DOMAIN routes = 1 .. Len(routes)
        BY <2>1
    <2>3. fits \subseteq DOMAIN routes
        BY Zenon DEF Fitting
    <2> QED
        BY <2>2, <2>3
<1> HIDE DEF fits, config, type, name
<1>5. chosen = IF fits = {} THEN <<>> ELSE <<config.routes[CHOOSE i \in best : TRUE]>>
    <2> DEFINE found == {i \in DOMAIN config.routes : C!Candidate(config.routes[i], type, name, case.ext.scope)}
               first == {i \in found : \A j \in found :
                            \/ C!Total(config.routes[i], type) > C!Total(config.routes[j], type)
                            \/ C!Total(config.routes[i], type) = C!Total(config.routes[j], type) /\ i <= j}
    <2>1. chosen = IF found = {} THEN <<>> ELSE <<config.routes[CHOOSE i \in first : TRUE]>>
        BY Zenon DEF C!FindMatchingRoute
    <2>2. found = fits
        BY <1>1, <1>2, <1>4
    <2> HIDE DEF found
    <2>3. first = best
        BY <1>3, <1>4, <2>2
    <2> HIDE DEF first, best, chosen
    <2> QED
        BY <2>1, <2>2, <2>3
<1>6. \A i, j \in DOMAIN routes : T[i] > T[j] <=> Outranks(rank(i), rank(j))
    BY ScoreFollowsRank
<1>7. T \in [DOMAIN routes -> Nat] /\ \A i \in DOMAIN routes : T[i] <= 2000
    <2>1. ASSUME NEW i \in DOMAIN routes PROVE C!Total(routes[i], type) \in Nat /\ C!Total(routes[i], type) <= 2000
        BY ScoreFollowsRank
    <2> QED
        BY <2>1
<1> HIDE DEF chosen, rank, T
<1>8. CASE fits = {}
    BY <1>5, <1>8 DEF fits, chosen, config, type, name
<1>9. CASE fits # {}
    <2>1. best # {}
        <3> DEFINE U == [i \in fits |-> T[i]]
        <3>1. U \in [fits -> Nat]
            BY <1>4, <1>7
        <3>2. PICK b \in Nat : \A i \in fits : U[i] <= b
            BY <1>4, <1>7
        <3>3. PICK i \in fits : \A j \in fits : U[i] > U[j] \/ (U[i] = U[j] /\ i <= j)
            <4> HIDE DEF U
            <4> QED
                BY <1>4, <1>9, <3>1, <3>2, FirstOfBest
        <3> QED
            BY <3>3
    <2>2. PICK i : i = CHOOSE k \in best : TRUE
        OBVIOUS
    <2>3. i \in fits /\ \A j \in fits : \/ T[i] > T[j]
                                        \/ T[i] = T[j] /\ i <= j
        BY <2>1, <2>2
    <2>4. chosen = <<C!RouteEntry(routes[i])>>
        BY <1>1, <1>4, <1>5, <1>9, <2>2, <2>3
    <2>5. ASSUME NEW j \in fits
          PROVE  ~Outranks(rank(j), rank(i)) /\ (j < i => Outranks(rank(i), rank(j)))
        <3>1. i \in Nat /\ j \in Nat /\ T[i] \in Nat /\ T[j] \in Nat /\ T[i] <= 2000 /\ T[j] <= 2000
            BY <1>4, <1>7, <2>3
        <3>2. ~(T[j] > T[i]) /\ (j < i => T[i] > T[j])
            BY <2>3, <3>1
        <3> QED
            BY <1>4, <1>6, <2>3, <3>2
    <2> QED
        BY <1>9, <2>3, <2>4, <2>5 DEF fits, chosen, rank, config, type, name
<1> QED
    BY <1>8, <1>9

\* The route that serves a request is the first of the most specific ones
\* that cover it, for any document and any request: no sum of the bonuses of
\* find_matching_route reaches the next matcher's base score.
THEOREM RoutingMostSpecific == RoutingSpec => []MostSpecificRoute
<1> DEFINE Inv == input \in RequestCase /\ MostSpecificRoute
<1>1. RoutingInit => Inv
    BY DEF RoutingInit, MostSpecificRoute, Accepted
<1>2. Inv /\ [ResolveRequest]_routingVars => Inv'
    <2> SUFFICES ASSUME Inv, [ResolveRequest]_routingVars PROVE Inv'
        OBVIOUS
    <2>1. CASE UNCHANGED routingVars
        BY <2>1 DEF routingVars, MostSpecificRoute, Accepted
    <2>2. CASE ResolveRequest
        <3>1. input' = input /\ IsCase(input)
            BY <2>2, RoutingAssumption DEF ResolveRequest, Pending
        <3>2. CASE C!ParseConfig(input.doc) = <<>>
            <4>1. answer' = <<[accepted |-> FALSE]>>
                BY <2>2, <3>2 DEF ResolveRequest
            <4> QED
                BY <3>1, <4>1 DEF MostSpecificRoute, Accepted
        <3>3. CASE C!ParseConfig(input.doc) # <<>>
            <4>1. answer'[1].route =
                     C!FindMatchingRoute(C!ParseConfig(input.doc)[1], input.ext.entity_type[1],
                                         input.ext.entity_name[1], input.ext.scope)
                BY <2>2, <3>3 DEF ResolveRequest
            <4> QED
                BY <3>1, <3>3, <4>1, MatchIsMostSpecific DEF MostSpecificRoute
        <3> QED
            BY <3>2, <3>3
    <2> QED
        BY <2>1, <2>2
<1> QED
    BY <1>1, <1>2, PTL DEF RoutingSpec

-----------------------------------------------------------------------------
(* Lists of lists.                                                         *)

\* FlattenSeq joins the lists one by one, from the left.
LEMMA FlattenUnfolds ==
    ASSUME NEW V, NEW S \in Seq(Seq(V)), S # <<>>
    PROVE  \E f : /\ f \in [1 .. Len(S) -> Seq(V)]
                  /\ f[1] = S[1]
                  /\ \A i \in 2 .. Len(S) : f[i] = f[i - 1] \o S[i]
                  /\ C!FlattenSeq(S) = f[Len(S)]
<1> DEFINE n == Len(S)
           Body(m, f) == [i \in 1 .. m |-> IF i = 1 THEN S[i] ELSE f[i - 1] \o S[i]]
           Solved(m) == \E f \in [1 .. m -> Seq(V)] : f = Body(m, f)
<1>1. n \in Nat /\ n >= 1 /\ \A i \in 1 .. n : S[i] \in Seq(V)
    OBVIOUS
<1>2. Solved(1)
    <2> DEFINE f == [i \in 1 .. 1 |-> S[1]]
    <2>1. f \in [1 .. 1 -> Seq(V)]
        BY <1>1
    <2>2. f = Body(1, f)
        OBVIOUS
    <2> QED
        BY <2>1, <2>2
<1>3. ASSUME NEW m \in 1 .. n, m + 1 \in 1 .. n, Solved(m) PROVE Solved(m + 1)
    <2>1. PICK f \in [1 .. m -> Seq(V)] : f = Body(m, f)
        BY <1>3
    <2> DEFINE g == [i \in 1 .. m + 1 |-> IF i = m + 1 THEN f[m] \o S[m + 1] ELSE f[i]]
    <2>2. f[m] \in Seq(V) /\ S[m + 1] \in Seq(V)
        BY <1>1, <1>3, <2>1
    <2>3. f[m] \o S[m + 1] \in Seq(V)
        BY <2>2
    <2>4. g \in [1 .. m + 1 -> Seq(V)]
        <3>1. ASSUME NEW i \in 1 .. m + 1, i # m + 1 PROVE f[i] \in Seq(V)
            <4>1. i \in 1 .. m
                BY <1>3, <3>1
            <4> QED
                BY <2>1, <4>1
        <3> QED
            BY <2>3, <3>1
    <2>5. ASSUME NEW i \in 1 .. m + 1 PROVE g[i] = IF i = 1 THEN S[i] ELSE g[i - 1] \o S[i]
        <3>1. CASE i = m + 1
            <4>1. i # 1 /\ i - 1 = m /\ g[m] = f[m]
                BY <3>1
            <4> QED
                BY <3>1, <4>1
        <3>2. CASE i # m + 1
            <4>1. i \in 1 .. m /\ g[i] = f[i]
                BY <3>2
            <4>2. f[i] = IF i = 1 THEN S[i] ELSE f[i - 1] \o S[i]
                BY <2>1, <4>1
            <4>3. i # 1 => g[i - 1] = f[i - 1]
                BY <4>1
            <4> QED
                BY <4>1, <4>2, <4>3
        <3> QED
            BY <3>1, <3>2
    <2>6. g = Body(m + 1, g)
        BY <2>4, <2>5
    <2> QED
        BY <2>4, <2>6
<1>4. Solved(n)
    <2> HIDE DEF Solved
    <2> DEFINE Bad == {m \in 1 .. n : ~Solved(m)}
    <2>1. SUFFICES ASSUME Bad # {} PROVE FALSE
        BY <1>1
    <2>2. PICK m \in Bad : \A k \in Bad : m <= k
        <3>1. Bad \in SUBSET Nat
            BY <1>1
        <3> HIDE DEF Bad
        <3> QED
            BY <2>1, <3>1, LeastNat
    <2>3. m # 1
        BY <1>2, <2>2
    <2>4. m - 1 \in 1 .. n /\ (m - 1) + 1 = m /\ m - 1 \notin Bad
        BY <1>1, <2>2, <2>3
    <2> QED
        BY <1>3, <2>2, <2>4
<1>5. PICK g \in [1 .. n -> Seq(V)] : g = Body(n, g)
    BY <1>4
<1> DEFINE h == CHOOSE f : f = Body(n, f)
<1>6. C!FlattenSeq(S) = h[n]
    <2>1. Len(S) # 0
        BY <1>1
    <2> QED
        BY <2>1 DEF C!FlattenSeq
<1>7. h = Body(n, h)
    <2> HIDE DEF Body
    <2> QED
        BY <1>5, Zenon
<1> HIDE DEF h
<1>8. h[1] = S[1] /\ \A i \in 2 .. n : h[i] = h[i - 1] \o S[i]
    <2>1. ASSUME NEW i \in 1 .. n PROVE h[i] = IF i = 1 THEN S[i] ELSE h[i - 1] \o S[i]
        BY <1>7
    <2>2. 1 \in 1 .. n /\ \A i \in 2 .. n : i \in 1 .. n /\ i # 1
        BY <1>1
    <2> QED
        BY <2>1, <2>2
<1>9. \A i \in 1 .. n : h[i] \in Seq(V)
    <2> DEFINE Bad == {m \in 1 .. n : h[m] \notin Seq(V)}
    <2>1. SUFFICES ASSUME Bad # {} PROVE FALSE
        OBVIOUS
    <2>2. PICK m \in Bad : \A k \in Bad : m <= k
        <3>1. Bad \in SUBSET Nat
            BY <1>1
        <3> HIDE DEF Bad
        <3> QED
            BY <2>1, <3>1, LeastNat
    <2>3. m # 1
        BY <1>1, <1>8, <2>2
    <2>4. m - 1 \in 1 .. n /\ m \in 2 .. n /\ m - 1 \notin Bad
        BY <1>1, <2>2, <2>3
    <2>5. h[m - 1] \in Seq(V) /\ S[m] \in Seq(V) /\ h[m] = h[m - 1] \o S[m]
        BY <1>1, <1>8, <2>4
    <2>6. h[m] \in Seq(V)
        BY <2>5
    <2> QED
        BY <2>2, <2>6
<1>10. h \in [1 .. n -> Seq(V)]
    <2>1. h = [i \in 1 .. n |-> h[i]]
        BY <1>7
    <2> QED
        BY <1>9, <2>1
<1> QED
    BY <1>6, <1>8, <1>10

(* F holds the elements of the first m lists of S in order: its position x *)
(* is position A[x] of list K[x].                                          *)
Places(S, m, F, K, A) ==
    /\ K \in [1 .. Len(F) -> 1 .. m] /\ A \in [1 .. Len(F) -> Nat]
    /\ \A x \in 1 .. Len(F) : A[x] \in 1 .. Len(S[K[x]]) /\ F[x] = S[K[x]][A[x]]
    /\ \A x, y \in 1 .. Len(F) : x < y => K[x] < K[y] \/ (K[x] = K[y] /\ A[x] < A[y])
    /\ \A k \in 1 .. m : \A a \in 1 .. Len(S[k]) : \E x \in 1 .. Len(F) : K[x] = k /\ A[x] = a

\* Appending the next list places its elements after all others.
LEMMA PlacesExtend ==
    ASSUME NEW V, NEW S \in Seq(Seq(V)), NEW m \in Nat, m + 1 <= Len(S), NEW F \in Seq(V), NEW K, NEW A,
           Places(S, m, F, K, A)
    PROVE  \E L, B : Places(S, m + 1, F \o S[m + 1], L, B)
<1> DEFINE T == S[m + 1]
           G == F \o T
           l == Len(F)
           L == [x \in 1 .. Len(G) |-> IF x <= l THEN K[x] ELSE m + 1]
           B == [x \in 1 .. Len(G) |-> IF x <= l THEN A[x] ELSE x - l]
<1>1. T \in Seq(V) /\ l \in Nat /\ Len(T) \in Nat
    OBVIOUS
<1>2. /\ G \in Seq(V) /\ Len(G) = l + Len(T)
      /\ \A x \in 1 .. Len(G) : G[x] = IF x <= l THEN F[x] ELSE T[x - l]
    BY <1>1
<1>3. /\ K \in [1 .. l -> 1 .. m] /\ A \in [1 .. l -> Nat]
      /\ \A x \in 1 .. l : A[x] \in 1 .. Len(S[K[x]]) /\ F[x] = S[K[x]][A[x]]
      /\ \A x, y \in 1 .. l : x < y => K[x] < K[y] \/ (K[x] = K[y] /\ A[x] < A[y])
      /\ \A k \in 1 .. m : \A a \in 1 .. Len(S[k]) : \E x \in 1 .. l : K[x] = k /\ A[x] = a
    BY DEF Places
<1> HIDE DEF G, T, l
<1>4. ASSUME NEW x \in 1 .. Len(G), x <= l
      PROVE  /\ x \in 1 .. l /\ L[x] = K[x] /\ B[x] = A[x] /\ L[x] \in 1 .. m + 1 /\ L[x] <= m
             /\ B[x] \in Nat /\ B[x] \in 1 .. Len(S[L[x]]) /\ G[x] = S[L[x]][B[x]]
    <2>1. x \in 1 .. l /\ L[x] = K[x] /\ B[x] = A[x] /\ G[x] = F[x]
        BY <1>1, <1>2, <1>4
    <2>2. K[x] \in 1 .. m /\ A[x] \in Nat /\ A[x] \in 1 .. Len(S[K[x]]) /\ F[x] = S[K[x]][A[x]]
        BY <1>3, <2>1
    <2>3. K[x] \in 1 .. m + 1 /\ K[x] <= m
        BY <2>2
    <2> HIDE DEF L, B
    <2> QED
        BY <2>1, <2>2, <2>3
<1>5. ASSUME NEW x \in 1 .. Len(G), ~(x <= l)
      PROVE  /\ L[x] = m + 1 /\ B[x] = x - l /\ L[x] \in 1 .. m + 1
             /\ B[x] \in Nat /\ B[x] \in 1 .. Len(S[L[x]]) /\ G[x] = S[L[x]][B[x]]
    BY <1>1, <1>2, <1>5 DEF T
<1>6. L \in [1 .. Len(G) -> 1 .. m + 1] /\ B \in [1 .. Len(G) -> Nat]
    BY <1>4, <1>5
<1>7. ASSUME NEW x \in 1 .. Len(G), NEW y \in 1 .. Len(G), x < y
      PROVE  L[x] < L[y] \/ (L[x] = L[y] /\ B[x] < B[y])
    <2>1. CASE x <= l /\ y <= l
        BY <1>3, <1>4, <1>7, <2>1
    <2>2. CASE x <= l /\ ~(y <= l)
        BY <1>4, <1>5, <2>2
    <2>3. CASE ~(x <= l)
        <3>1. ~(y <= l)
            BY <1>1, <1>2, <1>7, <2>3
        <3>2. L[x] = L[y] /\ B[x] = x - l /\ B[y] = y - l
            BY <1>5, <2>3, <3>1
        <3> QED
            BY <1>1, <1>2, <1>7, <3>2
    <2> QED
        BY <2>1, <2>2, <2>3
<1>8. ASSUME NEW k \in 1 .. m + 1, NEW a \in 1 .. Len(S[k])
      PROVE  \E x \in 1 .. Len(G) : L[x] = k /\ B[x] = a
    <2>1. CASE k = m + 1
        <3> DEFINE x == l + a
        <3>1. a \in 1 .. Len(T)
            BY <2>1 DEF T
        <3>2. x \in 1 .. Len(G) /\ ~(x <= l) /\ x - l = a
            BY <1>1, <1>2, <3>1
        <3>3. L[x] = k /\ B[x] = a
            BY <1>5, <2>1, <3>2
        <3> QED
            BY <3>2, <3>3
    <2>2. CASE k # m + 1
        <3>1. k \in 1 .. m
            BY <2>2
        <3>2. PICK x \in 1 .. l : K[x] = k /\ A[x] = a
            BY <1>3, <3>1
        <3>3. x \in 1 .. Len(G) /\ x <= l
            BY <1>1, <1>2, <3>2
        <3> QED
            BY <1>4, <3>2, <3>3
    <2> QED
        BY <2>1, <2>2
<1> HIDE DEF L, B
<1>9. Places(S, m + 1, G, L, B)
    <2>1. \A x \in 1 .. Len(G) : B[x] \in 1 .. Len(S[L[x]]) /\ G[x] = S[L[x]][B[x]]
        BY <1>4, <1>5
    <2> QED
        BY <1>6, <1>7, <1>8, <2>1 DEF Places
<1> QED
    BY <1>9 DEF G, T

\* FlattenSeq keeps every element of every list, in order, and adds none.
LEMMA FlattenPlaces ==
    ASSUME NEW V, NEW S \in Seq(Seq(V))
    PROVE  /\ C!FlattenSeq(S) \in Seq(V)
           /\ \E K, A : Places(S, Len(S), C!FlattenSeq(S), K, A)
<1> DEFINE n == Len(S)
<1>1. n \in Nat
    OBVIOUS
<1>2. CASE S = <<>>
    <2>1. C!FlattenSeq(S) = <<>> /\ n = 0
        BY <1>2 DEF C!FlattenSeq
    <2> DEFINE e == [x \in 1 .. 0 |-> 0]
    <2>2. Places(S, 0, <<>>, e, e)
        <3>1. Len(<<>>) = 0 /\ 1 .. 0 = {}
            OBVIOUS
        <3>2. e \in [1 .. 0 -> 1 .. 0] /\ e \in [1 .. 0 -> Nat]
            BY <3>1
        <3> HIDE DEF e
        <3> QED
            BY <3>1, <3>2 DEF Places
    <2> QED
        BY <2>1, <2>2
<1>3. CASE S # <<>>
    <2>1. PICK f : /\ f \in [1 .. n -> Seq(V)]
                   /\ f[1] = S[1]
                   /\ \A i \in 2 .. n : f[i] = f[i - 1] \o S[i]
                   /\ C!FlattenSeq(S) = f[n]
        BY <1>3, FlattenUnfolds
    <2>2. n >= 1
        BY <1>3
    <2> DEFINE Good(m) == \E K, A : Places(S, m, f[m], K, A)
    <2>3. Good(1)
        <3> DEFINE T == S[1]
                   K == [x \in 1 .. Len(T) |-> 1]
                   A == [x \in 1 .. Len(T) |-> x]
        <3>1. T \in Seq(V) /\ Len(T) \in Nat /\ f[1] = T
            BY <2>1, <2>2
        <3>2. K \in [1 .. Len(T) -> 1 .. 1] /\ A \in [1 .. Len(T) -> Nat]
            BY <3>1
        <3>3. \A x \in 1 .. Len(T) : K[x] = 1 /\ A[x] = x /\ S[K[x]] = T
            OBVIOUS
        <3> HIDE DEF K, A
        <3>4. Places(S, 1, T, K, A)
            <4>1. \A x \in 1 .. Len(T) : A[x] \in 1 .. Len(S[K[x]]) /\ T[x] = S[K[x]][A[x]]
                BY <3>3
            <4>2. \A x, y \in 1 .. Len(T) : x < y => K[x] < K[y] \/ (K[x] = K[y] /\ A[x] < A[y])
                BY <3>3
            <4>3. \A k \in 1 .. 1 : \A a \in 1 .. Len(S[k]) : \E x \in 1 .. Len(T) : K[x] = k /\ A[x] = a
                BY <3>3
            <4> QED
                BY <3>2, <4>1, <4>2, <4>3 DEF Places
        <3> QED
            BY <3>1, <3>4
    <2> HIDE DEF Good
    <2>4. ASSUME NEW m \in 1 .. n, m - 1 \in 1 .. n, Good(m - 1) PROVE Good(m)
        <3>1. PICK K, A : Places(S, m - 1, f[m - 1], K, A)
            BY <2>4 DEF Good
        <3>2. f[m - 1] \in Seq(V) /\ m - 1 \in Nat /\ (m - 1) + 1 = m /\ m <= Len(S)
            <4>1. m - 1 \in 1 .. n
                BY <2>4
            <4>2. f[m - 1] \in Seq(V)
                BY <2>1, <4>1
            <4>3. m - 1 \in Nat /\ (m - 1) + 1 = m /\ m <= n
                BY <1>1, <4>1
            <4> QED
                BY <4>2, <4>3
        <3>3. \E L, B : Places(S, (m - 1) + 1, f[m - 1] \o S[(m - 1) + 1], L, B)
            BY <3>1, <3>2, PlacesExtend
        <3>4. f[m] = f[m - 1] \o S[m]
            <4>1. m \in 2 .. n
                BY <1>1, <2>4
            <4> QED
                BY <2>1, <4>1
        <3> QED
            BY <3>2, <3>3, <3>4 DEF Good
    <2>5. n \in 1 .. n
        BY <1>1, <2>2
    <2>6. Good(n)
        <3> DEFINE Bad == {m \in 1 .. n : ~Good(m)}
        <3>1. SUFFICES ASSUME Bad # {} PROVE FALSE
            BY <2>5, Zenon
        <3>2. PICK m \in Bad : \A k \in Bad : m <= k
            <4>1. Bad \in SUBSET Nat
                BY <1>1
            <4> HIDE DEF Bad
            <4> QED
                BY <3>1, <4>1, LeastNat
        <3>3. m # 1
            BY <2>3, <3>2
        <3>4. m - 1 \in 1 .. n /\ m - 1 \notin Bad
            BY <1>1, <3>2, <3>3
        <3> QED
            BY <2>4, <3>2, <3>4
    <2> QED
        BY <2>1, <2>5, <2>6 DEF Good
<1> QED
    BY <1>2, <1>3

(* t lists the names of the records s lists. *)
Named(s, t) == Len(t) = Len(s) /\ \A x \in 1 .. Len(s) : t[x] = s[x].name

\* Names of joined lists are the joined names.
LEMMA NamedConcat ==
    ASSUME NEW V, NEW W, NEW s \in Seq(V), NEW u \in Seq(V), NEW t \in Seq(W), NEW v \in Seq(W),
           Named(s, t), Named(u, v)
    PROVE  Named(s \o u, t \o v)
<1>1. Len(s) \in Nat /\ Len(u) \in Nat /\ Len(t) = Len(s) /\ Len(v) = Len(u)
    BY DEF Named
<1>2. Len(s \o u) = Len(s) + Len(u) /\ Len(t \o v) = Len(s) + Len(u)
    BY <1>1
<1>3. ASSUME NEW x \in 1 .. Len(s \o u) PROVE (t \o v)[x] = (s \o u)[x].name
    <2>1. CASE x <= Len(s)
        <3>1. x \in 1 .. Len(s) /\ (s \o u)[x] = s[x] /\ (t \o v)[x] = t[x]
            BY <1>1, <1>2, <2>1
        <3> QED
            BY <3>1 DEF Named
    <2>2. CASE ~(x <= Len(s))
        <3>1. x - Len(s) \in 1 .. Len(u) /\ (s \o u)[x] = u[x - Len(s)] /\ (t \o v)[x] = v[x - Len(s)]
            BY <1>1, <1>2, <2>2
        <3> QED
            BY <3>1 DEF Named
    <2> QED
        BY <2>1, <2>2
<1> QED
    BY <1>2, <1>3 DEF Named

\* Names of flattened lists are the flattened names.
LEMMA NamedFlatten ==
    ASSUME NEW V, NEW W, NEW S \in Seq(Seq(V)), NEW T \in Seq(Seq(W)), Len(T) = Len(S),
           \A k \in 1 .. Len(S) : Named(S[k], T[k])
    PROVE  Named(C!FlattenSeq(S), C!FlattenSeq(T))
<1> DEFINE n == Len(S)
<1>1. n \in Nat /\ \A k \in 1 .. n : S[k] \in Seq(V) /\ T[k] \in Seq(W)
    OBVIOUS
<1>2. CASE n = 0
    <2>1. S = <<>> /\ T = <<>>
        BY <1>2
    <2>2. C!FlattenSeq(S) = <<>> /\ C!FlattenSeq(T) = <<>>
        BY <2>1 DEF C!FlattenSeq
    <2> QED
        BY <2>2 DEF Named
<1>3. CASE n # 0
    <2>1. S # <<>> /\ T # <<>> /\ n >= 1 /\ n \in 1 .. n
        BY <1>1, <1>3
    <2>2. PICK f : /\ f \in [1 .. n -> Seq(V)]
                   /\ f[1] = S[1]
                   /\ \A i \in 2 .. n : f[i] = f[i - 1] \o S[i]
                   /\ C!FlattenSeq(S) = f[n]
        BY <2>1, FlattenUnfolds
    <2>3. PICK g : /\ g \in [1 .. n -> Seq(W)]
                   /\ g[1] = T[1]
                   /\ \A i \in 2 .. n : g[i] = g[i - 1] \o T[i]
                   /\ C!FlattenSeq(T) = g[n]
        <3>1. PICK m : m = Len(T)
            OBVIOUS
        <3>2. \E g : /\ g \in [1 .. m -> Seq(W)]
                     /\ g[1] = T[1]
                     /\ \A i \in 2 .. m : g[i] = g[i - 1] \o T[i]
                     /\ C!FlattenSeq(T) = g[m]
            BY <2>1, <3>1, FlattenUnfolds
        <3>3. m = n
            BY <3>1
        <3> QED
            BY <3>2, <3>3, Zenon
    <2> DEFINE Bad == {m \in 1 .. n : ~Named(f[m], g[m])}
    <2>4. ASSUME Bad # {} PROVE FALSE
        <3>1. PICK m \in Bad : \A k \in Bad : m <= k
            <4>1. Bad \in SUBSET Nat
                BY <1>1
            <4> HIDE DEF Bad
            <4> QED
                BY <2>4, <4>1, LeastNat
        <3>2. m \in 1 .. n
            BY <3>1
        <3>3. m # 1
            BY <2>1, <2>2, <2>3, <3>1
        <3>4. m \in 2 .. n /\ m - 1 \in 1 .. n /\ ~(m <= m - 1)
            BY <1>1, <3>2, <3>3
        <3>5. Named(f[m - 1], g[m - 1])
            BY <3>1, <3>4
        <3>6. /\ f[m] = f[m - 1] \o S[m] /\ g[m] = g[m - 1] \o T[m]
              /\ f[m - 1] \in Seq(V) /\ S[m] \in Seq(V) /\ g[m - 1] \in Seq(W) /\ T[m] \in Seq(W)
            BY <1>1, <2>2, <2>3, <3>2, <3>4
        <3>7. Named(S[m], T[m])
            BY <3>2
        <3>8. Named(f[m], g[m])
            BY <3>5, <3>6, <3>7, NamedConcat
        <3> QED
            BY <3>1, <3>8
    <2> QED
        BY <2>1, <2>2, <2>3, <2>4
<1> QED
    BY <1>2, <1>3

(* t is s at the positions kept, in order: its position x is s's p[x]. *)
Keeps(s, kept, t, p) ==
    /\ p \in [DOMAIN t -> DOMAIN s]
    /\ \A x \in DOMAIN t : p[x] \in kept /\ t[x] = s[p[x]]
    /\ \A x, y \in DOMAIN t : x < y => p[x] < p[y]
    /\ \A i \in kept \cap DOMAIN s : \E x \in DOMAIN t : p[x] = i

\* AtPositions keeps the elements at the positions given, once each and in
\* order, and no others.
LEMMA PositionsKept ==
    ASSUME NEW V, NEW s \in Seq(V), NEW kept
    PROVE  /\ C!AtPositions(s, kept) \in Seq(V)
           /\ \E p : Keeps(s, kept, C!AtPositions(s, kept), p)
<1> DEFINE S == [i \in 1 .. Len(s) |-> IF i \in kept THEN <<s[i]>> ELSE <<>>]
           F == C!FlattenSeq(S)
<1>1. Len(s) \in Nat /\ DOMAIN s = 1 .. Len(s)
    OBVIOUS
<1>2. C!AtPositions(s, kept) = F
    BY <1>1 DEF C!AtPositions
<1>3. S \in Seq(Seq(V)) /\ Len(S) = Len(s)
    <2>1. \A i \in 1 .. Len(s) : <<s[i]>> \in Seq(V) /\ <<>> \in Seq(V)
        OBVIOUS
    <2>2. S \in [1 .. Len(s) -> Seq(V)]
        BY <2>1
    <2> HIDE DEF S
    <2> QED
        BY <1>1, <2>2
<1>4. \A i \in 1 .. Len(s) : /\ i \in kept => S[i] = <<s[i]>> /\ Len(S[i]) = 1 /\ S[i][1] = s[i]
                             /\ i \notin kept => S[i] = <<>> /\ Len(S[i]) = 0
    OBVIOUS
<1> HIDE DEF S, F
<1>5. F \in Seq(V) /\ \E K, A : Places(S, Len(S), F, K, A)
    BY <1>3, FlattenPlaces DEF F
<1>6. PICK K, A : Places(S, Len(s), F, K, A)
    BY <1>3, <1>5
<1>7. /\ K \in [1 .. Len(F) -> 1 .. Len(s)] /\ A \in [1 .. Len(F) -> Nat]
      /\ \A x \in 1 .. Len(F) : A[x] \in 1 .. Len(S[K[x]]) /\ F[x] = S[K[x]][A[x]]
      /\ \A x, y \in 1 .. Len(F) : x < y => K[x] < K[y] \/ (K[x] = K[y] /\ A[x] < A[y])
      /\ \A k \in 1 .. Len(s) : \A a \in 1 .. Len(S[k]) : \E x \in 1 .. Len(F) : K[x] = k /\ A[x] = a
    BY <1>6 DEF Places
<1>8. ASSUME NEW x \in 1 .. Len(F) PROVE K[x] \in 1 .. Len(s) /\ K[x] \in kept /\ A[x] = 1 /\ F[x] = s[K[x]]
    <2>1. K[x] \in 1 .. Len(s) /\ A[x] \in 1 .. Len(S[K[x]]) /\ F[x] = S[K[x]][A[x]]
        BY <1>7
    <2>2. K[x] \in kept
        BY <1>4, <2>1
    <2>3. Len(S[K[x]]) = 1 /\ S[K[x]][1] = s[K[x]]
        BY <1>4, <2>1, <2>2
    <2>4. A[x] = 1
        BY <2>1, <2>3
    <2> QED
        BY <2>1, <2>2, <2>3, <2>4
<1>9. ASSUME NEW x \in 1 .. Len(F), NEW y \in 1 .. Len(F), x < y PROVE K[x] < K[y]
    <2>1. A[x] = 1 /\ A[y] = 1
        BY <1>8
    <2>2. K[x] < K[y] \/ (K[x] = K[y] /\ A[x] < A[y])
        BY <1>7, <1>9
    <2> QED
        BY <2>1, <2>2
<1>10. ASSUME NEW i \in kept \cap (1 .. Len(s)) PROVE \E x \in 1 .. Len(F) : K[x] = i
    <2>1. 1 \in 1 .. Len(S[i]) /\ i \in 1 .. Len(s)
        BY <1>4
    <2> QED
        BY <1>7, <2>1
<1>11. DOMAIN F = 1 .. Len(F) /\ DOMAIN s = 1 .. Len(s)
    BY <1>1, <1>5
<1>12. Keeps(s, kept, F, K)
    BY <1>7, <1>8, <1>9, <1>10, <1>11 DEF Keeps
<1> QED
    BY <1>2, <1>5, <1>12

\* The names of what is kept are what is kept of the names.
LEMMA NamedPositions ==
    ASSUME NEW V, NEW W, NEW s \in Seq(V), NEW t \in Seq(W), Named(s, t), NEW kept
    PROVE  Named(C!AtPositions(s, kept), C!AtPositions(t, kept))
<1> DEFINE S == [i \in 1 .. Len(s) |-> IF i \in kept THEN <<s[i]>> ELSE <<>>]
           T == [i \in 1 .. Len(s) |-> IF i \in kept THEN <<t[i]>> ELSE <<>>]
<1>1. Len(s) \in Nat /\ DOMAIN s = 1 .. Len(s) /\ DOMAIN t = 1 .. Len(s)
    BY DEF Named
<1>2. C!AtPositions(s, kept) = C!FlattenSeq(S) /\ C!AtPositions(t, kept) = C!FlattenSeq(T)
    BY <1>1 DEF C!AtPositions
<1>3. S \in Seq(Seq(V)) /\ Len(S) = Len(s)
    <2>1. \A i \in 1 .. Len(s) : <<s[i]>> \in Seq(V) /\ <<>> \in Seq(V)
        OBVIOUS
    <2>2. S \in [1 .. Len(s) -> Seq(V)]
        BY <2>1
    <2> HIDE DEF S
    <2> QED
        BY <1>1, <2>2
<1>4. T \in Seq(Seq(W)) /\ Len(T) = Len(s)
    <2>1. \A i \in 1 .. Len(s) : <<t[i]>> \in Seq(W) /\ <<>> \in Seq(W)
        BY <1>1
    <2>2. T \in [1 .. Len(s) -> Seq(W)]
        BY <2>1
    <2> HIDE DEF T
    <2> QED
        BY <1>1, <2>2
<1>5. ASSUME NEW i \in 1 .. Len(s) PROVE Named(S[i], T[i])
    <2>1. t[i] = s[i].name
        BY DEF Named
    <2>2. CASE i \in kept
        <3>1. S[i] = <<s[i]>> /\ T[i] = <<t[i]>>
            BY <2>2
        <3> HIDE DEF S, T
        <3> QED
            BY <2>1, <3>1 DEF Named
    <2>3. CASE i \notin kept
        <3>1. S[i] = <<>> /\ T[i] = <<>>
            BY <2>3
        <3> HIDE DEF S, T
        <3> QED
            BY <3>1 DEF Named
    <2> QED
        BY <2>2, <2>3
<1> HIDE DEF S, T
<1>6. Named(C!FlattenSeq(S), C!FlattenSeq(T))
    BY <1>3, <1>4, <1>5, NamedFlatten
<1> QED
    BY <1>2, <1>6

-----------------------------------------------------------------------------
(* The layers of an accepted document.                                     *)

\* What a document that parse_config accepts becomes.
LEMMA ParsedDocument ==
    ASSUME NEW doc, C!ParseConfig(doc) # <<>>, NEW cfg, cfg = C!ParseConfig(doc)[1]
    PROVE  /\ ~C!RejectRenamedIdentityKey(doc) /\ C!ValidateConfig(cfg)
           /\ cfg.routing_enabled = doc.routing_enabled
           /\ cfg.global.identity = C!DeserializeRouteIdentity(doc.global.identity)
           /\ cfg.global.defaults = [t \in DOMAIN doc.global.defaults |-> C!PolicyGroup(doc.global.defaults[t])]
           /\ cfg.global.policies =
                 [g \in DOMAIN doc.global.policies \cup DOMAIN doc.groups |->
                     IF g \in DOMAIN doc.groups THEN C!PolicyGroup(doc.groups[g])
                                                ELSE C!PolicyGroup(doc.global.policies[g])]
<1> DEFINE raw == C!PolicyConfig(doc)
           merged == C!MergeGroupsIntoPolicies(raw)
<1>1. ~C!RejectRenamedIdentityKey(doc) /\ C!ValidateConfig(merged) /\ C!ParseConfig(doc) = <<merged>>
    BY Zenon DEF C!ParseConfig
<1>2. cfg = merged
    BY <1>1
<1>3. /\ merged.routing_enabled = raw.routing_enabled
      /\ merged.global.identity = raw.global.identity
      /\ merged.global.defaults = raw.global.defaults
      /\ merged.global.policies = [g \in DOMAIN raw.global.policies \cup DOMAIN raw.groups |->
                                      IF g \in DOMAIN raw.groups THEN raw.groups[g] ELSE raw.global.policies[g]]
    BY DEF C!MergeGroupsIntoPolicies, C!PolicyConfig, C!GlobalConfig
<1>4. /\ raw.routing_enabled = doc.routing_enabled
      /\ raw.global.identity = C!DeserializeRouteIdentity(doc.global.identity)
      /\ raw.global.defaults = [t \in DOMAIN doc.global.defaults |-> C!PolicyGroup(doc.global.defaults[t])]
      /\ raw.global.policies = [g \in DOMAIN doc.global.policies |-> C!PolicyGroup(doc.global.policies[g])]
      /\ raw.groups = [g \in DOMAIN doc.groups |-> C!PolicyGroup(doc.groups[g])]
    BY DEF C!PolicyConfig, C!GlobalConfig
<1> HIDE DEF raw, merged
<1>5. merged.global.policies =
         [g \in DOMAIN doc.global.policies \cup DOMAIN doc.groups |->
             IF g \in DOMAIN doc.groups THEN C!PolicyGroup(doc.groups[g])
                                        ELSE C!PolicyGroup(doc.global.policies[g])]
    BY <1>3, <1>4
<1> QED
    BY <1>1, <1>2, <1>3, <1>4, <1>5

\* The policies of a configuration are the bundles of its document.
LEMMA ParsedBundles ==
    ASSUME NEW doc, C!ParseConfig(doc) # <<>>, NEW cfg, cfg = C!ParseConfig(doc)[1], NEW g
    PROVE  /\ g \in DOMAIN cfg.global.policies <=> BundleOf(doc, g) # <<>>
           /\ BundleOf(doc, g) # <<>> => /\ cfg.global.policies[g] = C!PolicyGroup(BundleOf(doc, g)[1])
                                         /\ BundleOf(doc, g)[1] \in Layers(doc)
<1>1. cfg.global.policies =
         [h \in DOMAIN doc.global.policies \cup DOMAIN doc.groups |->
             IF h \in DOMAIN doc.groups THEN C!PolicyGroup(doc.groups[h])
                                        ELSE C!PolicyGroup(doc.global.policies[h])]
    BY ParsedDocument
<1>2. CASE g \in DOMAIN doc.groups
    <2>1. BundleOf(doc, g) = <<doc.groups[g]>>
        BY <1>2 DEF BundleOf
    <2>2. doc.groups[g] \in Layers(doc)
        BY <1>2 DEF Layers, C!Range
    <2> QED
        BY <1>1, <1>2, <2>1, <2>2
<1>3. CASE g \notin DOMAIN doc.groups /\ g \in DOMAIN doc.global.policies
    <2>1. BundleOf(doc, g) = <<doc.global.policies[g]>>
        BY <1>3 DEF BundleOf
    <2>2. doc.global.policies[g] \in Layers(doc)
        BY <1>3 DEF Layers, C!Range
    <2> QED
        BY <1>1, <1>3, <2>1, <2>2
<1>4. CASE g \notin DOMAIN doc.groups /\ g \notin DOMAIN doc.global.policies
    <2>1. BundleOf(doc, g) = <<>>
        BY <1>4 DEF BundleOf
    <2> QED
        BY <1>1, <1>4, <2>1
<1> QED
    BY <1>2, <1>3, <1>4

(* The steps of a layer as the typed parse reads them. *)
IdentityStep == [name : STRING, overrides : Option(STRING)]
LayerSteps(layer) ==
    LET parsed == C!DeserializeRouteIdentity(layer.identity)
    IN IF parsed = <<>> THEN <<>> ELSE parsed[1].steps

\* The typed parse keeps the steps of a layer and their names.
LEMMA LayerStepsNamed ==
    ASSUME NEW layer, IsAuthentication(layer.identity)
    PROVE  /\ LayerSteps(layer) \in Seq(IdentityStep) /\ StepNames(layer) \in Seq(STRING)
           /\ Named(LayerSteps(layer), StepNames(layer))
           /\ (C!DeserializeRouteIdentity(layer.identity) # <<>>
                 /\ C!DeserializeRouteIdentity(layer.identity)[1].replace_inherited) <=> Replaces(layer)
<1> DEFINE raw == layer.identity
           steps == [i \in DOMAIN raw.steps |-> C!ParseIdentityStep(raw.steps[i])]
<1>1. raw.steps \in Seq(RawStep) /\ DOMAIN raw.steps = 1 .. Len(raw.steps) /\ Len(raw.steps) \in Nat
      /\ (raw.shape = "absent" => raw.steps = <<>>)
    BY DEF IsAuthentication
<1>2. LayerSteps(layer) = steps
    <2>1. CASE raw.shape = "absent"
        <3>1. steps = <<>>
            BY <1>1, <2>1
        <3> QED
            BY <2>1, <3>1 DEF LayerSteps, C!DeserializeRouteIdentity
    <2>2. CASE raw.shape # "absent"
        <3> DEFINE parsed == [steps |-> steps, replace_inherited |-> raw.shape = "map" /\ raw.replace = "true"]
        <3>1. C!DeserializeRouteIdentity(raw) = <<parsed>>
            BY <2>2 DEF C!DeserializeRouteIdentity
        <3>2. parsed.steps = steps
            OBVIOUS
        <3> HIDE DEF parsed, steps
        <3> QED
            BY <3>1, <3>2 DEF LayerSteps
    <2> QED
        BY <2>1, <2>2
<1>3. ASSUME NEW i \in 1 .. Len(raw.steps)
      PROVE  steps[i] \in IdentityStep /\ steps[i].name = raw.steps[i].name /\ raw.steps[i].name \in STRING
    <2>1. raw.steps[i] \in RawStep
        BY <1>1
    <2>2. steps[i] = C!ParseIdentityStep(raw.steps[i])
        BY <1>1
    <2>3. <<>> \in Option(STRING)
        BY DEF Option
    <2> HIDE DEF steps
    <2> QED
        BY <2>1, <2>2, <2>3 DEF RawStep, IdentityStep, C!ParseIdentityStep
<1>4. steps \in Seq(IdentityStep) /\ Len(steps) = Len(raw.steps)
    <2>1. steps \in [1 .. Len(raw.steps) -> IdentityStep]
        BY <1>1, <1>3
    <2> HIDE DEF steps
    <2> QED
        BY <1>1, <2>1
<1>5. /\ StepNames(layer) \in Seq(STRING) /\ Len(StepNames(layer)) = Len(raw.steps)
      /\ \A i \in 1 .. Len(raw.steps) : StepNames(layer)[i] = raw.steps[i].name
    <2>1. StepNames(layer) = [i \in 1 .. Len(raw.steps) |-> raw.steps[i].name]
        BY <1>1 DEF StepNames
    <2>2. StepNames(layer) \in [1 .. Len(raw.steps) -> STRING]
        BY <1>3, <2>1
    <2> QED
        BY <1>1, <2>1, <2>2
<1>6. Named(steps, StepNames(layer))
    <2> HIDE DEF steps
    <2> QED
        BY <1>3, <1>4, <1>5 DEF Named
<1>7. (C!DeserializeRouteIdentity(raw) # <<>> /\ C!DeserializeRouteIdentity(raw)[1].replace_inherited)
         <=> Replaces(layer)
    BY DEF C!DeserializeRouteIdentity, Replaces
<1> HIDE DEF steps
<1> QED
    BY <1>2, <1>4, <1>5, <1>6, <1>7

\* A route joins a sequence of bundles, by tag and by name.
LEMMA JoinedNames ==
    ASSUME NEW raw, IsRoute(raw)
    PROVE  /\ Joined(raw) \in Seq(STRING) /\ GroupNames(raw) \in Seq(STRING)
           /\ C!RouteStaticTags(C!RouteEntry(raw)) = Joined(raw)
<1>1. GroupNames(raw) \in Seq(STRING)
    <2>1. CASE raw.groups = <<>>
        BY <2>1 DEF GroupNames
    <2>2. CASE raw.groups # <<>>
        <3>1. raw.groups[1] \in Matcher
            BY <2>2 DEF IsRoute, Option
        <3> DEFINE m == raw.groups[1]
        <3> HIDE DEF m
        <3>2. C!AsNames(m) \in Seq(STRING)
            <4>1. m \in Matcher
                BY <3>1 DEF m
            <4>2. CASE m.list
                <5>1. m.names \in Seq(STRING)
                    BY <4>1, <4>2 DEF Matcher
                <5> QED
                    BY <4>2, <5>1 DEF C!AsNames
            <4>3. CASE ~m.list
                <5>1. m.pattern \in STRING
                    BY <4>1, <4>3 DEF Matcher
                <5>2. <<m.pattern>> \in Seq(STRING)
                    BY <5>1
                <5> QED
                    BY <4>3, <5>2 DEF C!AsNames
            <4> QED
                BY <4>2, <4>3
        <3> QED
            BY <2>2, <3>2 DEF GroupNames, m
    <2> QED
        BY <2>1, <2>2
<1>2. C!RouteEntry(raw).tags = raw.tags /\ C!RouteEntry(raw).groups = raw.groups
    BY DEF C!RouteEntry
<1>3. C!RouteStaticTags(C!RouteEntry(raw)) = Joined(raw)
    BY <1>2, Zenon DEF C!RouteStaticTags, Joined, GroupNames, C!Some
<1>4. Joined(raw) \in Seq(STRING)
    BY <1>1 DEF Joined, IsRoute
<1> QED
    BY <1>1, <1>3, <1>4

\* The steps of a bundle the route joins, as the code and as the document
\* list them.
LEMMA BundleStepsNamed ==
    ASSUME NEW case, IsCase(case), C!ParseConfig(case.doc) # <<>>, NEW cfg, cfg = C!ParseConfig(case.doc)[1],
           NEW g
    PROVE  LET bundle == BundleOf(case.doc, g)
               written == IF bundle = <<>> THEN <<>> ELSE StepNames(bundle[1])
           IN /\ C!GroupSteps(cfg, g) \in Seq(IdentityStep) /\ written \in Seq(STRING)
              /\ Named(C!GroupSteps(cfg, g), written)
<1> DEFINE bundle == BundleOf(case.doc, g)
<1>1. /\ g \in DOMAIN cfg.global.policies <=> bundle # <<>>
      /\ bundle # <<>> => /\ cfg.global.policies[g] = C!PolicyGroup(bundle[1])
                          /\ bundle[1] \in Layers(case.doc)
    BY ParsedBundles
<1> HIDE DEF bundle
<1>2. CASE bundle = <<>>
    <2>1. C!GroupSteps(cfg, g) = <<>>
        BY <1>1, <1>2 DEF C!GroupSteps
    <2> QED
        BY <1>2, <2>1 DEF Named, bundle
<1>3. CASE bundle # <<>>
    <2>1. IsAuthentication(bundle[1].identity)
        BY <1>1, <1>3 DEF IsCase
    <2>2. cfg.global.policies[g].identity = C!DeserializeRouteIdentity(bundle[1].identity)
        BY <1>1, <1>3 DEF C!PolicyGroup
    <2>3. C!GroupSteps(cfg, g) = LayerSteps(bundle[1])
        BY <1>1, <1>3, <2>2, Zenon DEF C!GroupSteps, LayerSteps, C!Some
    <2>4. /\ LayerSteps(bundle[1]) \in Seq(IdentityStep) /\ StepNames(bundle[1]) \in Seq(STRING)
          /\ Named(LayerSteps(bundle[1]), StepNames(bundle[1]))
        BY <2>1, LayerStepsNamed
    <2> QED
        BY <1>3, <2>3, <2>4 DEF bundle
<1> QED
    BY <1>2, <1>3

(* The names of a lineup. *)
NamesOf(run) == [i \in DOMAIN run |-> run[i].name]

\* The plugins of identity.resolve are the registered ones of the
\* authentication steps written for the request, in their order.
LEMMA IdentityLayers ==
    ASSUME NEW case, IsCase(case), C!ParseConfig(case.doc) # <<>>, NEW cfg, cfg = C!ParseConfig(case.doc)[1],
           NEW route,
           \/ /\ route = <<>>
              /\ C!FindMatchingRoute(cfg, case.ext.entity_type[1], case.ext.entity_name[1], case.ext.scope) = <<>>
           \/ \E i \in DOMAIN case.doc.routes :
                 /\ route = <<case.doc.routes[i]>>
                 /\ C!FindMatchingRoute(cfg, case.ext.entity_type[1], case.ext.entity_name[1], case.ext.scope)
                       = <<C!RouteEntry(case.doc.routes[i])>>,
           NEW ran, 
           ran = C!EntriesFor(C!ResolveIdentityPluginsForRoute(cfg, case.ext.entity_type[1], case.ext.entity_name[1],
                                                               case.ext.scope), Entries)
    PROVE  NamesOf(ran) = Registered(WrittenSteps(case.doc, route))
<1> DEFINE doc == case.doc
           type == case.ext.entity_type[1]
           name == case.ext.entity_name[1]
           scope == case.ext.scope
           found == C!FindMatchingRoute(cfg, type, name, scope)
           own == IF C!Some(found) THEN found[1].identity ELSE <<>>
           replaces == C!Some(own) /\ own[1].replace_inherited
           outer == IF C!Some(cfg.global.identity) THEN cfg.global.identity[1].steps ELSE <<>>
           tags == IF C!Some(found) THEN C!RouteStaticTags(found[1]) ELSE <<>>
           lists == [k \in DOMAIN tags |-> C!GroupSteps(cfg, tags[k])]
           bundles == C!FlattenSeq(lists)
           inner == IF C!Some(own) THEN own[1].steps ELSE <<>>
           steps == (IF replaces THEN <<>> ELSE outer \o bundles) \o inner
           written == WrittenSteps(doc, route)
           resolved == [i \in DOMAIN steps |-> C!ResolvedPlugin(steps[i], <<>>)]
<1>1. C!ResolveIdentityPluginsForRoute(cfg, type, name, scope) = resolved
    BY Zenon DEF C!ResolveIdentityPluginsForRoute
<1>2. outer \in Seq(IdentityStep) /\ StepNames(doc.global) \in Seq(STRING) /\ Named(outer, StepNames(doc.global))
    <2>1. cfg.global.identity = C!DeserializeRouteIdentity(doc.global.identity)
        BY ParsedDocument
    <2>2. outer = LayerSteps(doc.global)
        BY <2>1, Zenon DEF LayerSteps, C!Some
    <2>3. IsAuthentication(doc.global.identity)
        BY DEF IsCase
    <2> QED
        BY <2>2, <2>3, LayerStepsNamed
<1> HIDE DEF outer
<1>3. steps \in Seq(IdentityStep) /\ written \in Seq(STRING) /\ Named(steps, written)
    <2>1. CASE route = <<>> /\ found = <<>>
        <3>1. own = <<>> /\ tags = <<>> /\ ~replaces /\ inner = <<>>
            BY <2>1 DEF C!Some
        <3>2. lists = <<>>
            <4> HIDE DEF tags
            <4> QED
                BY <3>1
        <3>3. bundles = <<>>
            BY <3>2 DEF C!FlattenSeq
        <3> HIDE DEF own, tags, replaces, inner, lists, bundles
        <3>4. steps = outer
            BY <1>2, <3>1, <3>3
        <3>5. written = StepNames(doc.global)
            BY <2>1 DEF WrittenSteps
        <3> QED
            BY <1>2, <3>4, <3>5
    <2>2. ASSUME NEW i \in DOMAIN doc.routes, route = <<doc.routes[i]>>, found = <<C!RouteEntry(doc.routes[i])>>
          PROVE  steps \in Seq(IdentityStep) /\ written \in Seq(STRING) /\ Named(steps, written)
        <3> DEFINE raw == doc.routes[i]
                   joined == Joined(raw)
                   bundle(k) == BundleOf(doc, joined[k])
                   names == [k \in DOMAIN joined |-> IF bundle(k) = <<>> THEN <<>> ELSE StepNames(bundle(k)[1])]
        <3>1. IsRoute(raw) /\ raw \in Layers(doc)
            BY DEF IsCase, Layers, C!Range
        <3>2. IsAuthentication(raw.identity)
            BY <3>1 DEF IsCase
        <3>3. found # <<>> /\ found[1] = C!RouteEntry(raw)
            BY <2>2
        <3>4. own = C!DeserializeRouteIdentity(raw.identity)
            BY <3>3 DEF C!Some, C!RouteEntry
        <3>5. tags = joined /\ joined \in Seq(STRING)
            BY <3>1, <3>3, JoinedNames DEF C!Some
        <3>6. inner = LayerSteps(raw)
            BY <3>4, Zenon DEF LayerSteps, C!Some
        <3>7. replaces <=> Replaces(raw)
            BY <3>2, <3>4, LayerStepsNamed DEF C!Some
        <3>8. inner \in Seq(IdentityStep) /\ StepNames(raw) \in Seq(STRING) /\ Named(inner, StepNames(raw))
            BY <3>2, <3>6, LayerStepsNamed
        <3>9. lists = [k \in 1 .. Len(joined) |-> C!GroupSteps(cfg, joined[k])]
            BY <3>5
        <3>10. \A k \in 1 .. Len(joined) : /\ C!GroupSteps(cfg, joined[k]) \in Seq(IdentityStep)
                                           /\ names[k] \in Seq(STRING)
                                           /\ Named(C!GroupSteps(cfg, joined[k]), names[k])
            <4> SUFFICES ASSUME NEW k \in 1 .. Len(joined)
                         PROVE  /\ C!GroupSteps(cfg, joined[k]) \in Seq(IdentityStep)
                                /\ names[k] \in Seq(STRING)
                                /\ Named(C!GroupSteps(cfg, joined[k]), names[k])
                OBVIOUS
            <4>1. names[k] = IF bundle(k) = <<>> THEN <<>> ELSE StepNames(bundle(k)[1])
                BY <3>5
            <4> HIDE DEF names
            <4> QED
                BY <4>1, BundleStepsNamed
        <3>11. lists \in Seq(Seq(IdentityStep)) /\ Len(lists) = Len(joined)
            <4>1. lists \in [1 .. Len(joined) -> Seq(IdentityStep)]
                BY <3>9, <3>10
            <4> HIDE DEF lists, joined
            <4> QED
                BY <3>5, <4>1
        <3>12. names \in Seq(Seq(STRING)) /\ Len(names) = Len(joined)
            <4>1. names = [k \in 1 .. Len(joined) |-> names[k]]
                BY <3>5
            <4> HIDE DEF names, joined
            <4>2. names \in [1 .. Len(joined) -> Seq(STRING)]
                BY <3>10, <4>1
            <4> QED
                BY <3>5, <4>2
        <3>13. \A k \in 1 .. Len(lists) : Named(lists[k], names[k])
            BY <3>9, <3>10, <3>11
        <3>14. written = (IF Replaces(raw) THEN <<>> ELSE StepNames(doc.global) \o C!FlattenSeq(names)) \o StepNames(raw)
            <4>1. route # <<>> /\ route[1] = raw
                BY <2>2
            <4> QED
                BY <4>1, Zenon DEF WrittenSteps
        <3> HIDE DEF lists, names, joined, own, tags, inner, raw, written, replaces
        <3>15. Named(bundles, C!FlattenSeq(names))
            BY <3>11, <3>12, <3>13, NamedFlatten
        <3>16. bundles \in Seq(IdentityStep) /\ C!FlattenSeq(names) \in Seq(STRING)
            BY <3>11, <3>12, FlattenPlaces
        <3> HIDE DEF bundles
        <3>17. Named(outer \o bundles, StepNames(doc.global) \o C!FlattenSeq(names))
            BY <1>2, <3>15, <3>16, NamedConcat
        <3>18. outer \o bundles \in Seq(IdentityStep) /\ StepNames(doc.global) \o C!FlattenSeq(names) \in Seq(STRING)
            BY <1>2, <3>16
        <3>19. Named(<<>>, <<>>)
            BY DEF Named
        <3> DEFINE front == IF replaces THEN <<>> ELSE outer \o bundles
                   before == IF Replaces(raw) THEN <<>> ELSE StepNames(doc.global) \o C!FlattenSeq(names)
        <3>20. front \in Seq(IdentityStep) /\ before \in Seq(STRING) /\ Named(front, before)
            <4>1. CASE replaces
                <5>1. front = <<>> /\ before = <<>>
                    BY <3>7, <4>1
                <5> HIDE DEF front, before
                <5> QED
                    BY <3>19, <5>1
            <4>2. CASE ~replaces
                <5>1. /\ front = outer \o bundles
                      /\ before = StepNames(doc.global) \o C!FlattenSeq(names)
                    BY <3>7, <4>2
                <5> HIDE DEF front, before
                <5> QED
                    BY <3>17, <3>18, <5>1, Zenon
            <4> QED
                BY <4>1, <4>2
        <3>21. steps = front \o inner /\ written = before \o StepNames(raw)
            BY <3>14
        <3> HIDE DEF front, before, steps
        <3>22. Named(front \o inner, before \o StepNames(raw))
            BY <3>8, <3>20, NamedConcat
        <3>23. front \o inner \in Seq(IdentityStep) /\ before \o StepNames(raw) \in Seq(STRING)
            BY <3>8, <3>20
        <3> QED
            BY <3>21, <3>22, <3>23
    <2> QED
        BY <2>1, <2>2
<1> HIDE DEF steps, written
<1>4. resolved \in Seq([name : STRING, overrides : Option(STRING), when : {<<>>}]) /\ Named(resolved, written)
    <2>1. DOMAIN steps = 1 .. Len(steps) /\ Len(steps) \in Nat
        BY <1>3
    <2>2. ASSUME NEW i \in 1 .. Len(steps)
          PROVE  /\ resolved[i] \in [name : STRING, overrides : Option(STRING), when : {<<>>}]
                 /\ resolved[i].name = steps[i].name
        <3>1. steps[i] \in IdentityStep
            BY <1>3
        <3>2. resolved[i] = C!ResolvedPlugin(steps[i], <<>>)
            BY <2>1
        <3> QED
            BY <3>1, <3>2 DEF C!ResolvedPlugin, IdentityStep
    <2>3. resolved \in [1 .. Len(steps) -> [name : STRING, overrides : Option(STRING), when : {<<>>}]]
        BY <2>1, <2>2
    <2> HIDE DEF resolved
    <2>4. resolved \in Seq([name : STRING, overrides : Option(STRING), when : {<<>>}]) /\ Len(resolved) = Len(steps)
        <3> DEFINE R == [name : STRING, overrides : Option(STRING), when : {<<>>}]
        <3>1. resolved \in [1 .. Len(steps) -> R]
            BY <2>3
        <3> HIDE DEF R
        <3>2. resolved \in Seq(R) /\ Len(resolved) = Len(steps)
            BY <2>1, <3>1
        <3> QED
            BY <3>2 DEF R
    <2> QED
        BY <1>3, <2>2, <2>4 DEF Named
<1> HIDE DEF resolved
<1> DEFINE kept == {i \in DOMAIN resolved : \E j \in DOMAIN Entries : Entries[j].name = resolved[i].name}
           run == C!EntriesFound(resolved, Entries)
           expected == Registered(written)
<1>5. run = C!AtPositions(resolved, kept)
    BY DEF C!EntriesFound
<1>6. expected = C!AtPositions(written, kept)
    <2>1. DOMAIN resolved = DOMAIN written /\ \A i \in DOMAIN resolved : written[i] = resolved[i].name
        BY <1>3, <1>4 DEF Named
    <2>2. {i \in DOMAIN written : IsRegistered(written[i])} = kept
        BY <2>1, Zenon DEF IsRegistered
    <2> HIDE DEF kept
    <2> QED
        BY <2>2 DEF Registered
<1> HIDE DEF kept, run, expected
<1>7. Named(run, expected)
    BY <1>3, <1>4, <1>5, <1>6, NamedPositions
<1>8. run \in Seq([name : STRING, overrides : Option(STRING), when : {<<>>}]) /\ expected \in Seq(STRING)
    BY <1>3, <1>4, <1>5, <1>6, PositionsKept
<1>9. [i \in DOMAIN run |-> run[i].name] = expected
    <2>1. DOMAIN run = DOMAIN expected /\ \A i \in DOMAIN run : expected[i] = run[i].name
        BY <1>7, <1>8 DEF Named
    <2> QED
        BY <1>8, <2>1
<1>10. ran = [i \in DOMAIN run |-> C!InstanceFor(run[i], Entries)]
    BY <1>1 DEF run, C!EntriesFor
<1>11. \A i \in DOMAIN run : C!InstanceFor(run[i], Entries).name = run[i].name
    <2>1. \A i \in DOMAIN run : run[i] \in [name : STRING, overrides : Option(STRING), when : {<<>>}]
        <3> DEFINE V == [name : STRING, overrides : Option(STRING), when : {<<>>}]
        <3>1. run \in Seq(V)
            BY <1>8
        <3> HIDE DEF V
        <3>2. \A i \in DOMAIN run : run[i] \in V
            BY <3>1
        <3> QED
            BY <3>2 DEF V
    <2> QED
        BY <2>1 DEF C!InstanceFor
<1>12. [i \in DOMAIN ran |-> ran[i].name] = [i \in DOMAIN run |-> run[i].name]
    BY <1>10, <1>11
<1> QED
    BY <1>9, <1>12 DEF NamesOf, expected, written

-----------------------------------------------------------------------------
(* Plugins that several layers name.                                       *)

(* The references X come from the lists of a layer, those of one list in   *)
(* order and all guarded by w.                                             *)
Resolved(X) == X \in Seq([name : STRING, overrides : Option(STRING), when : Option(STRING)])
From(X, x, refs) ==
    \E m \in DOMAIN refs :
        /\ X[x].name = refs[m].name /\ X[x].overrides = refs[m].overrides
        /\ \A n \in DOMAIN refs :
              (n > m /\ refs[n].name = X[x].name) => \E y \in DOMAIN X : y > x /\ X[y].name = X[x].name
Carries(X, layer, w) ==
    /\ Resolved(X)
    /\ \A x \in DOMAIN X : X[x].when = w /\ \E refs \in layer : From(X, x, refs)
    /\ \A refs \in layer : \A m \in DOMAIN refs : \E x \in DOMAIN X : X[x].name = refs[m].name

(* R is made of the references of the first n layers, outermost first:     *)
(* seg tells for each position its layer, guard the condition of a layer.  *)
Layered(R, seg, layers, guard, n) ==
    /\ Resolved(R)
    /\ seg \in [DOMAIN R -> 1 .. n]
    /\ \A x \in DOMAIN R : R[x].when = guard[seg[x]] /\ \E refs \in layers[seg[x]] : From(R, x, refs)
    /\ \A k \in 1 .. n : \A refs \in layers[k] : \A m \in DOMAIN refs :
          \E x \in DOMAIN R : seg[x] = k /\ R[x].name = refs[m].name
    /\ \A x, y \in DOMAIN R : x < y => seg[x] <= seg[y]

\* Appending the references of the next layer keeps the layers in order.
LEMMA LayerAppended ==
    ASSUME NEW R, NEW seg, NEW layers, NEW guard, NEW n \in Nat, NEW X,
           Layered(R, seg, layers, guard, n), Carries(X, layers[n + 1], guard[n + 1])
    PROVE  \E s : Layered(R \o X, s, layers, guard, n + 1)
<1> DEFINE V == [name : STRING, overrides : Option(STRING), when : Option(STRING)]
           Q == R \o X
           l == Len(R)
           s == [x \in DOMAIN Q |-> IF x <= l THEN seg[x] ELSE n + 1]
<1>1. R \in Seq(V) /\ X \in Seq(V)
    BY DEF Layered, Carries, Resolved
<1> HIDE DEF V
<1>2. /\ Q \in Seq(V) /\ l \in Nat /\ Len(X) \in Nat /\ DOMAIN R = 1 .. l /\ DOMAIN X = 1 .. Len(X)
      /\ DOMAIN Q = 1 .. l + Len(X)
      /\ \A x \in DOMAIN Q : Q[x] = IF x <= l THEN R[x] ELSE X[x - l]
    BY <1>1
<1>3. \A x \in 1 .. l : x \in DOMAIN Q /\ Q[x] = R[x] /\ s[x] = seg[x]
    BY <1>2
<1>4. \A x \in 1 .. Len(X) : l + x \in DOMAIN Q /\ l + x > l /\ Q[l + x] = X[x] /\ s[l + x] = n + 1
    BY <1>2
<1>5. ASSUME NEW x \in DOMAIN Q
      PROVE  x \in 1 .. l \/ \E y \in 1 .. Len(X) : x = l + y
    <2>1. CASE x <= l
        BY <1>2, <2>1
    <2>2. CASE ~(x <= l)
        <3>1. x - l \in 1 .. Len(X) /\ x = l + (x - l)
            BY <1>2, <2>2
        <3> QED
            BY <3>1
    <2> QED
        BY <2>1, <2>2
<1> HIDE DEF Q, l, s
<1>6. ASSUME NEW x \in 1 .. l
      PROVE  /\ s[x] \in 1 .. n + 1 /\ Q[x].when = guard[s[x]]
             /\ \E refs \in layers[s[x]] : From(Q, x, refs)
    <2>1. seg[x] \in 1 .. n /\ R[x].when = guard[seg[x]]
        BY <1>2 DEF Layered
    <2>2. PICK refs \in layers[seg[x]] : From(R, x, refs)
        BY <1>2 DEF Layered
    <2>3. Q[x] = R[x] /\ s[x] = seg[x]
        BY <1>3
    <2>4. PICK m \in DOMAIN refs :
             /\ R[x].name = refs[m].name /\ R[x].overrides = refs[m].overrides
             /\ \A k \in DOMAIN refs :
                   (k > m /\ refs[k].name = R[x].name) => \E y \in DOMAIN R : y > x /\ R[y].name = R[x].name
        BY <2>2 DEF From
    <2>5. ASSUME NEW k \in DOMAIN refs, k > m, refs[k].name = Q[x].name
          PROVE  \E y \in DOMAIN Q : y > x /\ Q[y].name = Q[x].name
        <3>1. PICK y \in DOMAIN R : y > x /\ R[y].name = R[x].name
            BY <2>3, <2>4, <2>5
        <3>2. y \in DOMAIN Q /\ Q[y] = R[y]
            BY <1>2, <1>3, <3>1
        <3> QED
            BY <2>3, <3>1, <3>2
    <2>6. From(Q, x, refs)
        BY <2>3, <2>4, <2>5 DEF From
    <2>7. s[x] \in 1 .. n + 1
        BY <2>1, <2>3
    <2> QED
        BY <2>1, <2>2, <2>3, <2>6, <2>7
<1>7. ASSUME NEW z \in 1 .. Len(X)
      PROVE  /\ s[l + z] \in 1 .. n + 1 /\ Q[l + z].when = guard[s[l + z]]
             /\ \E refs \in layers[s[l + z]] : From(Q, l + z, refs)
    <2> DEFINE x == l + z
    <2>1. X[z].when = guard[n + 1]
        BY <1>2 DEF Carries
    <2>2. PICK refs \in layers[n + 1] : From(X, z, refs)
        BY <1>2 DEF Carries
    <2>3. Q[x] = X[z] /\ s[x] = n + 1 /\ x \in Nat
        BY <1>2, <1>4
    <2>4. PICK m \in DOMAIN refs :
             /\ X[z].name = refs[m].name /\ X[z].overrides = refs[m].overrides
             /\ \A k \in DOMAIN refs :
                   (k > m /\ refs[k].name = X[z].name) => \E y \in DOMAIN X : y > z /\ X[y].name = X[z].name
        BY <2>2 DEF From
    <2>5. ASSUME NEW k \in DOMAIN refs, k > m, refs[k].name = Q[x].name
          PROVE  \E y \in DOMAIN Q : y > x /\ Q[y].name = Q[x].name
        <3>1. PICK y \in DOMAIN X : y > z /\ X[y].name = X[z].name
            BY <2>3, <2>4, <2>5
        <3>2. l + y \in DOMAIN Q /\ Q[l + y] = X[y]
            BY <1>2, <1>4, <3>1
        <3>3. l + y > x
            BY <1>2, <3>1
        <3> QED
            BY <2>3, <3>1, <3>2, <3>3
    <2> HIDE DEF x
    <2>6. From(Q, x, refs)
        BY <2>3, <2>4, <2>5 DEF From
    <2>7. s[x] \in 1 .. n + 1
        BY <2>3
    <2>8. s[x] \in 1 .. n + 1 /\ Q[x].when = guard[s[x]] /\ \E r \in layers[s[x]] : From(Q, x, r)
        BY <2>1, <2>2, <2>3, <2>6, <2>7
    <2> QED
        BY <2>8 DEF x
<1>8. ASSUME NEW x \in DOMAIN Q
      PROVE  /\ s[x] \in 1 .. n + 1 /\ Q[x].when = guard[s[x]]
             /\ \E refs \in layers[s[x]] : From(Q, x, refs)
    BY <1>5, <1>6, <1>7
<1>9. s \in [DOMAIN Q -> 1 .. n + 1]
    BY <1>8 DEF s
<1>10. ASSUME NEW k \in 1 .. n + 1, NEW refs \in layers[k], NEW m \in DOMAIN refs
       PROVE  \E x \in DOMAIN Q : s[x] = k /\ Q[x].name = refs[m].name
    <2>1. CASE k = n + 1
        <3>1. PICK x \in DOMAIN X : X[x].name = refs[m].name
            BY <2>1 DEF Carries
        <3> QED
            BY <1>2, <1>4, <2>1, <3>1
    <2>2. CASE k # n + 1
        <3>1. k \in 1 .. n
            BY <2>2
        <3>2. PICK x \in DOMAIN R : seg[x] = k /\ R[x].name = refs[m].name
            BY <3>1 DEF Layered
        <3> QED
            BY <1>2, <1>3, <3>2
    <2> QED
        BY <2>1, <2>2
<1>11. ASSUME NEW x \in DOMAIN Q, NEW y \in DOMAIN Q, x < y PROVE s[x] <= s[y]
    <2>1. CASE y <= l
        <3>1. x \in 1 .. l /\ y \in 1 .. l
            BY <1>2, <1>11, <2>1
        <3>2. seg[x] <= seg[y]
            BY <1>2, <1>11, <3>1 DEF Layered
        <3> QED
            BY <1>3, <3>1, <3>2
    <2>2. CASE ~(y <= l)
        <3>1. s[y] = n + 1
            BY <2>2 DEF s
        <3>2. s[x] \in 1 .. n + 1
            BY <1>8
        <3> QED
            BY <3>1, <3>2
    <2> QED
        BY <2>1, <2>2
<1>12. Layered(Q, s, layers, guard, n + 1)
    <2>1. Resolved(Q)
        BY <1>2 DEF V, Resolved
    <2> QED
        BY <1>8, <1>9, <1>10, <1>11, <2>1 DEF Layered
<1> QED
    BY <1>12 DEF Q

\* Of the references to a plugin one is the last.
LEMMA LastReference ==
    ASSUME NEW R, Resolved(R), NEW x \in DOMAIN R
    PROVE  \E z \in DOMAIN R : R[z].name = R[x].name /\ \A y \in z + 1 .. Len(R) : R[y].name # R[z].name
<1> DEFINE n == Len(R)
           gap == {n - y : y \in {y \in 1 .. n : R[y].name = R[x].name}}
<1>1. n \in Nat /\ DOMAIN R = 1 .. n
    BY DEF Resolved
<1> HIDE DEF n
<1>2. gap \in SUBSET Nat /\ gap # {}
    <2>1. gap \in SUBSET Nat
        BY <1>1
    <2>2. n - x \in gap
        BY <1>1
    <2> QED
        BY <2>1, <2>2
<1>3. PICK g \in gap : \A h \in gap : g <= h
    <2> HIDE DEF gap
    <2> QED
        BY <1>2, LeastNat
<1>4. PICK z \in 1 .. n : R[z].name = R[x].name /\ g = n - z
    OBVIOUS
<1>5. ASSUME NEW y \in z + 1 .. n, R[y].name = R[z].name PROVE FALSE
    <2>1. y \in 1 .. n
        BY <1>1, <1>4
    <2>2. n - y \in gap
        BY <1>4, <1>5, <2>1
    <2>3. n - z <= n - y
        BY <1>3, <1>4, <2>2
    <2> QED
        BY <1>1, <1>4, <2>1, <2>3
<1> QED
    BY <1>1, <1>4, <1>5 DEF n

(* run is the last references of R to registered plugins, in order. *)
LastOnes(R, run, at) ==
    /\ at \in [DOMAIN run -> DOMAIN R]
    /\ \A i \in DOMAIN run : /\ run[i] = R[at[i]] /\ IsRegistered(run[i].name)
                             /\ \A y \in at[i] + 1 .. Len(R) : R[y].name # run[i].name
    /\ \A i, j \in DOMAIN run : i < j => at[i] < at[j]
    /\ \A x \in DOMAIN R :
          (IsRegistered(R[x].name) /\ \A y \in x + 1 .. Len(R) : R[y].name # R[x].name)
             => \E i \in DOMAIN run : at[i] = x

\* What deduplication and the registry leave of a list: the last reference
\* to each registered plugin, in its own place.
LEMMA LineupPlaces ==
    ASSUME NEW R, Resolved(R), NEW run, run = C!EntriesFound(C!Dedup(R), Entries)
    PROVE  /\ Resolved(run)
           /\ \E at : LastOnes(R, run, at)
<1> DEFINE V == [name : STRING, overrides : Option(STRING), when : Option(STRING)]
           last == {i \in DOMAIN R : \A j \in i + 1 .. Len(R) : R[j].name # R[i].name}
           D == C!AtPositions(R, last)
           known == {i \in DOMAIN D : \E j \in DOMAIN Entries : Entries[j].name = D[i].name}
<1>1. run = C!AtPositions(D, known)
    BY DEF C!EntriesFound, C!Dedup
<1>2. R \in Seq(V) /\ DOMAIN R = 1 .. Len(R) /\ Len(R) \in Nat
    BY DEF Resolved
<1> HIDE DEF V
<1>3. last \subseteq DOMAIN R /\ \A x \in last : \A j \in x + 1 .. Len(R) : R[j].name # R[x].name
    OBVIOUS
<1>4. \A x \in DOMAIN R : (\A y \in x + 1 .. Len(R) : R[y].name # R[x].name) => x \in last
    OBVIOUS
<1> HIDE DEF last
<1>5. D \in Seq(V) /\ \E p : Keeps(R, last, D, p)
    BY <1>2, PositionsKept
<1>6. \A x \in DOMAIN D : x \in known <=> IsRegistered(D[x].name)
    BY DEF IsRegistered
<1> HIDE DEF D, known
<1>7. PICK p : Keeps(R, last, D, p)
    BY <1>5
<1>8. run \in Seq(V) /\ \E q : Keeps(D, known, run, q)
    <2>1. D \in Seq(V)
        BY <1>5
    <2>2. C!AtPositions(D, known) \in Seq(V) /\ \E q : Keeps(D, known, C!AtPositions(D, known), q)
        BY <2>1, PositionsKept
    <2> QED
        BY <1>1, <2>2
<1>9. PICK q : Keeps(D, known, run, q)
    BY <1>8
<1> DEFINE at == [i \in DOMAIN run |-> p[q[i]]]
<1>11. ASSUME NEW i \in DOMAIN run
       PROVE  /\ at[i] \in DOMAIN R /\ at[i] = p[q[i]] /\ run[i] = R[at[i]] /\ IsRegistered(run[i].name)
              /\ \A y \in at[i] + 1 .. Len(R) : R[y].name # run[i].name
    <2>1. q[i] \in DOMAIN D /\ q[i] \in known /\ run[i] = D[q[i]]
        BY <1>9 DEF Keeps
    <2>2. p[q[i]] \in DOMAIN R /\ p[q[i]] \in last /\ D[q[i]] = R[p[q[i]]]
        BY <1>7, <2>1 DEF Keeps
    <2>3. at[i] = p[q[i]]
        OBVIOUS
    <2>4. IsRegistered(run[i].name)
        BY <1>6, <2>1
    <2> HIDE DEF at
    <2> QED
        BY <1>2, <1>3, <2>1, <2>2, <2>3, <2>4
<1>12. at \in [DOMAIN run -> DOMAIN R]
    BY <1>11
<1> HIDE DEF at
<1>13. ASSUME NEW i \in DOMAIN run, NEW j \in DOMAIN run, i < j PROVE at[i] < at[j]
    <2>1. q[i] < q[j] /\ q[i] \in DOMAIN D /\ q[j] \in DOMAIN D
        BY <1>9, <1>13 DEF Keeps
    <2>2. p[q[i]] < p[q[j]]
        BY <1>7, <2>1 DEF Keeps
    <2> QED
        BY <1>11, <2>2
<1>14. ASSUME NEW x \in DOMAIN R, IsRegistered(R[x].name), \A y \in x + 1 .. Len(R) : R[y].name # R[x].name
       PROVE  \E i \in DOMAIN run : at[i] = x
    <2>1. x \in last \cap DOMAIN R
        BY <1>4, <1>14
    <2>2. PICK d \in DOMAIN D : p[d] = x
        BY <1>7, <2>1 DEF Keeps
    <2>3. D[d] = R[x]
        BY <1>7, <2>2 DEF Keeps
    <2>4. d \in known \cap DOMAIN D
        BY <1>6, <1>14, <2>3
    <2>5. PICK i \in DOMAIN run : q[i] = d
        BY <1>9, <2>4 DEF Keeps
    <2> QED
        BY <1>11, <2>2, <2>5
<1>15. Resolved(run)
    BY <1>8 DEF Resolved, V
<1>16. LastOnes(R, run, at)
    BY <1>11, <1>12, <1>13, <1>14, Zenon DEF LastOnes
<1> QED
    BY <1>15, <1>16

\* The innermost layer that names a plugin.
LEMMA InnermostIs ==
    ASSUME NEW layers, NEW name, NEW k \in 1 .. 4, Names(layers[k], name),
           \A j \in k + 1 .. 4 : ~Names(layers[j], name)
    PROVE  Innermost(layers, name) = k
<1> DEFINE In(i) == Names(layers[i], name) /\ \A j \in i + 1 .. 4 : ~Names(layers[j], name)
<1>1. ASSUME NEW i \in 1 .. 4, In(i) PROVE i = k
    <2>1. ~(i < k)
        <3>1. i < k => k \in i + 1 .. 4
            OBVIOUS
        <3> QED
            BY <1>1, <3>1
    <2>2. ~(k < i)
        <3>1. k < i => i \in k + 1 .. 4
            OBVIOUS
        <3> QED
            BY <1>1, <3>1
    <2> QED
        BY <2>1, <2>2
<1>2. In(k)
    OBVIOUS
<1>3. Innermost(layers, name) = CHOOSE i \in 1 .. 4 : In(i)
    BY Zenon DEF Innermost
<1> HIDE DEF In
<1> QED
    BY <1>1, <1>2, <1>3

\* The last mention of a plugin in a list.
LEMMA LastMentionIs ==
    ASSUME NEW refs \in Seq(PluginRef), NEW name, NEW m \in DOMAIN refs, refs[m].name = name,
           \A n \in DOMAIN refs : n > m => refs[n].name # name
    PROVE  Mentions(refs, name) /\ LastMention(refs, name) = refs[m]
<1> DEFINE Last(i) == refs[i].name = name /\ \A j \in i + 1 .. Len(refs) : refs[j].name # name
<1>1. DOMAIN refs = 1 .. Len(refs) /\ Len(refs) \in Nat
    OBVIOUS
<1>2. Last(m)
    BY <1>1
<1>3. ASSUME NEW i \in DOMAIN refs, Last(i) PROVE i = m
    <2>1. ~(i > m)
        BY <1>1, <1>3
    <2>2. ~(i < m)
        <3>1. i < m => m \in i + 1 .. Len(refs)
            BY <1>1
        <3> QED
            BY <1>3, <3>1
    <2> QED
        BY <1>1, <2>1, <2>2
<1>4. LastMention(refs, name) = refs[CHOOSE i \in DOMAIN refs : Last(i)]
    BY Zenon DEF LastMention
<1> HIDE DEF Last
<1>5. (CHOOSE i \in DOMAIN refs : Last(i)) = m
    BY <1>2, <1>3
<1> QED
    BY <1>4, <1>5 DEF Mentions

(* EachOnceAsSaid before the overrides are turned into instances. *)
EachOnceAsWritten(lineup, layers, route) ==
    /\ \A i, j \in DOMAIN lineup : lineup[i].name = lineup[j].name => i = j
    /\ \A k \in 1..4 : \A refs \in layers[k] : \A m \in DOMAIN refs :
          IsRegistered(refs[m].name) => Mentions(lineup, refs[m].name)
    /\ \A i \in DOMAIN lineup :
          LET name == lineup[i].name
              k == Innermost(layers, name)
          IN /\ IsRegistered(name) /\ \E l \in 1..4 : Names(layers[l], name)
             /\ \E refs \in layers[k] :
                   Mentions(refs, name) /\ lineup[i].overrides = LastMention(refs, name).overrides
             /\ lineup[i].when = IF k = 4 THEN route[1].when ELSE <<>>
             /\ \A j \in DOMAIN lineup : i < j => k <= Innermost(layers, lineup[j].name)

\* Layers in order, deduplicated: each plugin some layer names runs once, as
\* its innermost layer says, those of outer layers first.
LEMMA OnceAsWritten ==
    ASSUME NEW R, NEW seg, NEW layers, NEW guard, NEW route, Layered(R, seg, layers, guard, 4),
           \A k \in 1 .. 4 : layers[k] \subseteq Seq(PluginRef),
           \A k \in 1 .. 4 : layers[k] # {} => guard[k] = IF k = 4 THEN route[1].when ELSE <<>>,
           NEW run, run = C!EntriesFound(C!Dedup(R), Entries)
    PROVE  Resolved(run) /\ EachOnceAsWritten(run, layers, route)
<1>1. Resolved(R) /\ DOMAIN R = 1 .. Len(R) /\ Len(R) \in Nat
    BY DEF Layered, Resolved
<1>2. Resolved(run) /\ \E at : LastOnes(R, run, at)
    BY <1>1, LineupPlaces
<1>3. DOMAIN run = 1 .. Len(run) /\ Len(run) \in Nat
    BY <1>2 DEF Resolved
<1>4. PICK at : LastOnes(R, run, at)
    BY <1>2
<1>5. \A i \in DOMAIN run : /\ at[i] \in DOMAIN R /\ run[i] = R[at[i]] /\ IsRegistered(run[i].name)
                            /\ \A y \in at[i] + 1 .. Len(R) : R[y].name # run[i].name
    BY <1>4 DEF LastOnes
<1>6. ASSUME NEW i \in DOMAIN run
      PROVE  /\ seg[at[i]] \in 1 .. 4 /\ Names(layers[seg[at[i]]], run[i].name)
             /\ Innermost(layers, run[i].name) = seg[at[i]]
             /\ run[i].when = IF seg[at[i]] = 4 THEN route[1].when ELSE <<>>
             /\ \E refs \in layers[seg[at[i]]] :
                   Mentions(refs, run[i].name) /\ run[i].overrides = LastMention(refs, run[i].name).overrides
    <2> DEFINE x == at[i]
               k == seg[x]
               name == run[i].name
    <2>1. x \in DOMAIN R /\ run[i] = R[x] /\ \A y \in x + 1 .. Len(R) : R[y].name # name
        BY <1>5
    <2>2. k \in 1 .. 4 /\ R[x].when = guard[k] /\ \E refs \in layers[k] : From(R, x, refs)
        BY <2>1 DEF Layered
    <2>3. PICK refs \in layers[k] : From(R, x, refs)
        BY <2>2
    <2>4. PICK m \in DOMAIN refs :
             /\ R[x].name = refs[m].name /\ R[x].overrides = refs[m].overrides
             /\ \A n \in DOMAIN refs :
                   (n > m /\ refs[n].name = R[x].name) => \E y \in DOMAIN R : y > x /\ R[y].name = R[x].name
        BY <2>3 DEF From
    <2>5. \A n \in DOMAIN refs : n > m => refs[n].name # name
        <3>1. ASSUME NEW y \in DOMAIN R, y > x PROVE R[y].name # name
            BY <1>1, <2>1, <3>1
        <3> QED
            BY <2>1, <2>4, <3>1
    <2>6. refs \in Seq(PluginRef) /\ refs[m].name = name
        BY <2>1, <2>2, <2>3, <2>4
    <2> HIDE DEF x, k, name
    <2>7. Mentions(refs, name) /\ LastMention(refs, name) = refs[m]
        BY <2>4, <2>5, <2>6, LastMentionIs
    <2>8. Names(layers[k], name)
        BY <2>3, <2>7 DEF Names
    <2>9. ASSUME NEW j \in k + 1 .. 4, Names(layers[j], name) PROVE FALSE
        <3>1. PICK r \in layers[j] : Mentions(r, name)
            BY <2>9 DEF Names
        <3>2. PICK n \in DOMAIN r : r[n].name = name
            BY <3>1 DEF Mentions
        <3>3. j \in 1 .. 4 /\ k < j
            BY <2>2, <2>9
        <3>4. PICK y \in DOMAIN R : seg[y] = j /\ R[y].name = r[n].name
            BY <3>3 DEF Layered
        <3>5. ~(y < x)
            <4>1. y < x => seg[y] <= seg[x]
                BY <2>1, <3>4 DEF Layered
            <4> QED
                BY <2>2, <3>3, <3>4, <4>1 DEF k
        <3>6. y # x
            BY <2>2, <3>3, <3>4 DEF k
        <3>7. y \in x + 1 .. Len(R)
            BY <1>1, <2>1, <3>4, <3>5, <3>6
        <3> QED
            BY <2>1, <3>2, <3>4, <3>7
    <2>10. Innermost(layers, name) = k
        BY <2>2, <2>8, <2>9, InnermostIs
    <2>11. run[i].when = IF k = 4 THEN route[1].when ELSE <<>>
        <3>1. layers[k] # {}
            BY <2>3
        <3> QED
            BY <2>1, <2>2, <3>1
    <2>12. run[i].overrides = LastMention(refs, name).overrides
        BY <2>1, <2>4, <2>7
    <2> QED
        BY <2>2, <2>3, <2>7, <2>8, <2>10, <2>11, <2>12 DEF x, k, name
<1>7. ASSUME NEW i \in DOMAIN run, NEW j \in DOMAIN run, run[i].name = run[j].name, i < j PROVE FALSE
    <2>1. at[i] < at[j]
        BY <1>4, <1>7 DEF LastOnes
    <2>2. at[j] \in at[i] + 1 .. Len(R)
        BY <1>1, <1>5, <2>1
    <2>3. R[at[j]].name # run[i].name
        BY <1>5, <2>2
    <2> QED
        BY <1>5, <1>7, <2>3
<1>8. \A i, j \in DOMAIN run : run[i].name = run[j].name => i = j
    <2> SUFFICES ASSUME NEW i \in DOMAIN run, NEW j \in DOMAIN run, run[i].name = run[j].name, i # j PROVE FALSE
        OBVIOUS
    <2>1. i < j \/ j < i
        BY <1>3
    <2> QED
        BY <1>7, <2>1
<1>9. ASSUME NEW k \in 1 .. 4, NEW refs \in layers[k], NEW m \in DOMAIN refs, IsRegistered(refs[m].name)
      PROVE  Mentions(run, refs[m].name)
    <2>1. PICK x \in DOMAIN R : R[x].name = refs[m].name
        BY DEF Layered
    <2>2. PICK z \in DOMAIN R : R[z].name = R[x].name /\ \A y \in z + 1 .. Len(R) : R[y].name # R[z].name
        BY <1>1, LastReference
    <2>3. IsRegistered(R[z].name)
        BY <1>9, <2>1, <2>2
    <2>4. PICK i \in DOMAIN run : at[i] = z
        BY <1>4, <2>2, <2>3 DEF LastOnes
    <2>5. run[i].name = refs[m].name
        BY <1>5, <2>1, <2>2, <2>4
    <2> QED
        BY <2>5 DEF Mentions
<1>10. ASSUME NEW i \in DOMAIN run, NEW j \in DOMAIN run, i < j
       PROVE  Innermost(layers, run[i].name) <= Innermost(layers, run[j].name)
    <2>1. at[i] < at[j] /\ at[i] \in DOMAIN R /\ at[j] \in DOMAIN R
        BY <1>4, <1>5, <1>10 DEF LastOnes
    <2>2. seg[at[i]] <= seg[at[j]]
        BY <2>1 DEF Layered
    <2> QED
        BY <1>6, <2>2
<1>11. \A i \in DOMAIN run : /\ IsRegistered(run[i].name) /\ \E l \in 1 .. 4 : Names(layers[l], run[i].name)
                             /\ \E refs \in layers[Innermost(layers, run[i].name)] :
                                   /\ Mentions(refs, run[i].name)
                                   /\ run[i].overrides = LastMention(refs, run[i].name).overrides
                             /\ run[i].when = IF Innermost(layers, run[i].name) = 4 THEN route[1].when ELSE <<>>
    <2> SUFFICES ASSUME NEW i \in DOMAIN run
                 PROVE  /\ IsRegistered(run[i].name) /\ \E l \in 1 .. 4 : Names(layers[l], run[i].name)
                        /\ \E refs \in layers[Innermost(layers, run[i].name)] :
                              /\ Mentions(refs, run[i].name)
                              /\ run[i].overrides = LastMention(refs, run[i].name).overrides
                        /\ run[i].when = IF Innermost(layers, run[i].name) = 4 THEN route[1].when ELSE <<>>
        BY Zenon
    <2>1. IsRegistered(run[i].name)
        BY <1>5
    <2> QED
        BY <1>6, <2>1
<1>12. EachOnceAsWritten(run, layers, route)
    BY <1>8, <1>9, <1>10, <1>11, Zenon DEF EachOnceAsWritten
<1> QED
    BY <1>2, <1>12

\* An instance is its reference, but for overrides no instance can be created with.
LEMMA InstanceIs ==
    ASSUME NEW ref \in [name : STRING, overrides : Option(STRING), when : Option(STRING)]
    PROVE  /\ C!InstanceFor(ref, Entries).name = ref.name
           /\ C!InstanceFor(ref, Entries).when = ref.when
           /\ C!InstanceFor(ref, Entries).overrides = RunsUnder(ref.name, ref.overrides)
BY DEF C!InstanceFor, RunsUnder

\* And so the instances run as the innermost layers say.
LEMMA OnceAsSaid ==
    ASSUME NEW R, NEW seg, NEW layers, NEW guard, NEW route, Layered(R, seg, layers, guard, 4),
           \A k \in 1 .. 4 : layers[k] \subseteq Seq(PluginRef),
           \A k \in 1 .. 4 : layers[k] # {} => guard[k] = IF k = 4 THEN route[1].when ELSE <<>>,
           NEW run, run = C!EntriesFor(C!Dedup(R), Entries)
    PROVE  EachOnceAsSaid(run, layers, route)
<1> DEFINE found == C!EntriesFound(C!Dedup(R), Entries)
<1>1. Resolved(found) /\ EachOnceAsWritten(found, layers, route)
    BY OnceAsWritten
<1>2. run = [i \in DOMAIN found |-> C!InstanceFor(found[i], Entries)]
    BY DEF C!EntriesFor
<1> HIDE DEF found
<1>3. \A i \in DOMAIN found : found[i] \in [name : STRING, overrides : Option(STRING), when : Option(STRING)]
    <2> DEFINE V == [name : STRING, overrides : Option(STRING), when : Option(STRING)]
    <2>1. found \in Seq(V)
        BY <1>1 DEF Resolved
    <2> HIDE DEF V
    <2>2. \A i \in DOMAIN found : found[i] \in V
        BY <2>1
    <2> QED
        BY <2>2 DEF V
<1>4. DOMAIN run = DOMAIN found
    BY <1>2
<1>5. \A i \in DOMAIN run : /\ run[i].name = found[i].name /\ run[i].when = found[i].when
                            /\ run[i].overrides = RunsUnder(found[i].name, found[i].overrides)
    BY <1>2, <1>3, InstanceIs
<1> HIDE <1>2
<1>6. \A i, j \in DOMAIN run : run[i].name = run[j].name => i = j
    BY <1>1, <1>4, <1>5 DEF EachOnceAsWritten
<1>7. \A name : Mentions(found, name) => Mentions(run, name)
    BY <1>4, <1>5 DEF Mentions
<1>8. \A k \in 1..4 : \A refs \in layers[k] : \A m \in DOMAIN refs :
          IsRegistered(refs[m].name) => Mentions(run, refs[m].name)
    BY <1>1, <1>7, Zenon DEF EachOnceAsWritten
<1>9. ASSUME NEW i \in DOMAIN run
      PROVE  /\ IsRegistered(run[i].name) /\ \E l \in 1..4 : Names(layers[l], run[i].name)
             /\ \E refs \in layers[Innermost(layers, run[i].name)] :
                   /\ Mentions(refs, run[i].name)
                   /\ run[i].overrides = RunsUnder(run[i].name, LastMention(refs, run[i].name).overrides)
             /\ run[i].when = IF Innermost(layers, run[i].name) = 4 THEN route[1].when ELSE <<>>
             /\ \A j \in DOMAIN run : i < j => Innermost(layers, run[i].name) <= Innermost(layers, run[j].name)
    <2> DEFINE name == found[i].name
    <2>1. /\ IsRegistered(name) /\ \E l \in 1..4 : Names(layers[l], name)
          /\ \E refs \in layers[Innermost(layers, name)] :
                Mentions(refs, name) /\ found[i].overrides = LastMention(refs, name).overrides
          /\ found[i].when = IF Innermost(layers, name) = 4 THEN route[1].when ELSE <<>>
          /\ \A j \in DOMAIN found : i < j => Innermost(layers, name) <= Innermost(layers, found[j].name)
        BY <1>1, <1>4, Zenon DEF EachOnceAsWritten
    <2>2. run[i].name = name /\ run[i].when = found[i].when /\ run[i].overrides = RunsUnder(name, found[i].overrides)
        BY <1>5
    <2>3. \A j \in DOMAIN run : run[j].name = found[j].name
        BY <1>5
    <2> HIDE DEF name
    <2> QED
        BY <1>4, <2>1, <2>2, <2>3
<1> QED
    BY <1>6, <1>8, <1>9, Zenon DEF EachOnceAsSaid

\* The references of one list, collected.
LEMMA CollectedCarried ==
    ASSUME NEW refs \in Seq(PluginRef), NEW w \in Option(STRING)
    PROVE  Carries(C!CollectPluginRefs(refs, w), {refs}, w)
<1> DEFINE V == [name : STRING, overrides : Option(STRING), when : Option(STRING)]
           X == C!CollectPluginRefs(refs, w)
<1>1. X = [i \in 1 .. Len(refs) |-> C!ResolvedPlugin(refs[i], w)] /\ Len(refs) \in Nat /\ DOMAIN refs = 1 .. Len(refs)
    BY DEF C!CollectPluginRefs
<1>2. ASSUME NEW i \in 1 .. Len(refs)
      PROVE  X[i] \in V /\ X[i].name = refs[i].name /\ X[i].overrides = refs[i].overrides /\ X[i].when = w
    <2>1. refs[i] \in PluginRef
        OBVIOUS
    <2>2. X[i] = [name |-> refs[i].name, overrides |-> refs[i].overrides, when |-> w]
        BY <1>1 DEF C!ResolvedPlugin
    <2> QED
        BY <2>1, <2>2 DEF PluginRef
<1> HIDE DEF X, V
<1>3. X \in Seq(V) /\ DOMAIN X = 1 .. Len(refs)
    <2>1. X \in [1 .. Len(refs) -> V]
        BY <1>1, <1>2
    <2> QED
        BY <1>1, <2>1
<1>4. Resolved(X)
    BY <1>3 DEF Resolved, V
<1>5. ASSUME NEW x \in DOMAIN X PROVE From(X, x, refs)
    BY <1>1, <1>2, <1>3 DEF From
<1>6. Carries(X, {refs}, w)
    BY <1>1, <1>2, <1>3, <1>4, <1>5 DEF Carries
<1> QED
    BY <1>6 DEF X

\* A layer without lists carries nothing.
LEMMA NothingCarried ==
    ASSUME NEW w
    PROVE  Carries(<<>>, {}, w)
BY DEF Carries, Resolved

\* An order of a finite set reaches each of its elements.
LEMMA OrderReaches ==
    ASSUME NEW S, IsFiniteSet(S), NEW order \in C!SetToSeqs(S)
    PROVE  order \in Seq(S) /\ \A g \in S : \E k \in 1 .. Len(order) : order[k] = g
<1> DEFINE n == Cardinality(S)
<1>1. n \in Nat
    BY FS_CardinalityType
<1>2. order \in [1 .. n -> S] /\ \A i, j \in 1 .. n : i # j => order[i] # order[j]
    <2>1. C!Cardinality(S) = Cardinality(S)
        BY Zenon DEF C!Cardinality, Cardinality
    <2> QED
        BY <2>1 DEF C!SetToSeqs
<1> HIDE DEF n
<1>3. order \in Seq(S) /\ Len(order) = n
    BY <1>1, <1>2
<1>4. order \in Injection(1 .. n, S)
    BY <1>2 DEF Injection, IsInjective
<1>5. IsFiniteSet(1 .. n) /\ Cardinality(1 .. n) = n
    BY <1>1, FS_Interval
<1>6. order \in Surjection(1 .. n, S)
    BY <1>4, <1>5, FS_Injection DEF n
<1> QED
    BY <1>3, <1>6 DEF Surjection

\* The lists of the bundles, collected in any order.
LEMMA BundlesCarried ==
    ASSUME NEW S, IsFiniteSet(S), NEW order \in C!SetToSeqs(S), NEW G \in [S -> Seq(PluginRef)]
    PROVE  Carries(C!FlattenSeq([k \in DOMAIN order |-> C!CollectPluginRefs(G[order[k]], <<>>)]),
                   {G[g] : g \in S}, <<>>)
<1> DEFINE V == [name : STRING, overrides : Option(STRING), when : Option(STRING)]
           L == [k \in 1 .. Len(order) |-> C!CollectPluginRefs(G[order[k]], <<>>)]
           F == C!FlattenSeq(L)
<1>1. order \in Seq(S) /\ \A g \in S : \E k \in 1 .. Len(order) : order[k] = g
    BY OrderReaches
<1>2. DOMAIN order = 1 .. Len(order) /\ Len(order) \in Nat /\ \A k \in 1 .. Len(order) : order[k] \in S
    BY <1>1
<1>3. ASSUME NEW k \in 1 .. Len(order)
      PROVE  /\ L[k] \in Seq(V) /\ G[order[k]] \in Seq(PluginRef) /\ Len(L[k]) = Len(G[order[k]])
             /\ \A i \in 1 .. Len(L[k]) : /\ L[k][i].name = G[order[k]][i].name /\ L[k][i].when = <<>>
                                          /\ L[k][i].overrides = G[order[k]][i].overrides
    <2>1. G[order[k]] \in Seq(PluginRef)
        BY <1>2
    <2>2. PICK refs : refs = G[order[k]]
        OBVIOUS
    <2>3. refs \in Seq(PluginRef) /\ DOMAIN refs = 1 .. Len(refs) /\ Len(refs) \in Nat
        BY <2>1, <2>2
    <2>4. L[k] = [i \in 1 .. Len(refs) |-> C!ResolvedPlugin(refs[i], <<>>)]
        BY <2>2, <2>3 DEF C!CollectPluginRefs
    <2> HIDE DEF L
    <2>5. ASSUME NEW i \in 1 .. Len(refs)
          PROVE  L[k][i] \in V /\ L[k][i].name = refs[i].name /\ L[k][i].when = <<>> /\ L[k][i].overrides = refs[i].overrides
        <3>1. refs[i] \in PluginRef
            BY <2>3
        <3>2. L[k][i] = [name |-> refs[i].name, overrides |-> refs[i].overrides, when |-> <<>>]
            BY <2>4 DEF C!ResolvedPlugin
        <3>3. <<>> \in Option(STRING)
            BY DEF Option
        <3> QED
            BY <3>1, <3>2, <3>3 DEF PluginRef
    <2> HIDE DEF V
    <2>6. L[k] \in Seq(V) /\ Len(L[k]) = Len(refs)
        <3>1. PICK l : l = L[k]
            OBVIOUS
        <3>2. l \in [1 .. Len(refs) -> V]
            BY <2>4, <2>5, <3>1
        <3>3. l \in Seq(V) /\ Len(l) = Len(refs)
            BY <2>3, <3>2
        <3> QED
            BY <3>1, <3>3
    <2> QED
        BY <2>1, <2>2, <2>5, <2>6
<1> HIDE DEF V
<1>4. L \in Seq(Seq(V)) /\ Len(L) = Len(order)
    <2>1. L \in [1 .. Len(order) -> Seq(V)]
        BY <1>3
    <2> HIDE DEF L
    <2> QED
        BY <1>2, <2>1
<1> HIDE DEF L, F
<1>5. F \in Seq(V) /\ \E K, A : Places(L, Len(L), F, K, A)
    BY <1>4, FlattenPlaces DEF F
<1>6. PICK K, A : Places(L, Len(order), F, K, A)
    BY <1>4, <1>5
<1>7. /\ DOMAIN F = 1 .. Len(F) /\ Len(F) \in Nat
      /\ K \in [1 .. Len(F) -> 1 .. Len(order)] /\ A \in [1 .. Len(F) -> Nat]
      /\ \A x \in 1 .. Len(F) : A[x] \in 1 .. Len(L[K[x]]) /\ F[x] = L[K[x]][A[x]]
      /\ \A x, y \in 1 .. Len(F) : x < y => K[x] < K[y] \/ (K[x] = K[y] /\ A[x] < A[y])
      /\ \A k \in 1 .. Len(order) : \A a \in 1 .. Len(L[k]) : \E x \in 1 .. Len(F) : K[x] = k /\ A[x] = a
    BY <1>5, <1>6 DEF Places
<1>8. ASSUME NEW x \in DOMAIN F PROVE F[x].when = <<>> /\ From(F, x, G[order[K[x]]])
    <2> DEFINE refs == G[order[K[x]]]
    <2>1. K[x] \in 1 .. Len(order) /\ A[x] \in 1 .. Len(L[K[x]]) /\ F[x] = L[K[x]][A[x]]
        BY <1>7
    <2>2. refs \in Seq(PluginRef) /\ Len(L[K[x]]) = Len(refs)
        BY <1>3, <2>1
    <2>3. F[x].name = refs[A[x]].name /\ F[x].when = <<>> /\ F[x].overrides = refs[A[x]].overrides
        BY <1>3, <2>1
    <2>4. DOMAIN refs = 1 .. Len(refs) /\ A[x] \in DOMAIN refs
        BY <2>1, <2>2
    <2> HIDE DEF refs
    <2>5. ASSUME NEW n \in DOMAIN refs, n > A[x], refs[n].name = F[x].name
          PROVE  \E y \in DOMAIN F : y > x /\ F[y].name = F[x].name
        <3>1. n \in 1 .. Len(L[K[x]])
            BY <2>2, <2>4
        <3>2. PICK y \in 1 .. Len(F) : K[y] = K[x] /\ A[y] = n
            BY <1>7, <2>1, <3>1
        <3>3. F[y] = L[K[x]][n]
            BY <1>7, <3>2
        <3>4. F[y].name = refs[n].name
            BY <1>3, <2>1, <3>1, <3>3 DEF refs
        <3>5. y # x
            <4>1. A[x] \in Nat /\ A[y] > A[x]
                BY <1>7, <2>5, <3>2
            <4> QED
                BY <4>1
        <3>6. ~(y < x)
            <4>1. y < x => K[y] < K[x] \/ (K[y] = K[x] /\ A[y] < A[x])
                BY <1>7, <3>2
            <4>2. A[x] \in Nat /\ n \in Nat /\ K[x] \in Nat
                BY <1>2, <2>1, <2>4
            <4> QED
                BY <2>5, <3>2, <4>1, <4>2
        <3>7. y > x
            BY <1>7, <3>2, <3>5, <3>6
        <3> QED
            BY <1>7, <2>5, <3>2, <3>4, <3>7
    <2> QED
        BY <2>3, <2>4, <2>5 DEF From, refs
<1>9. ASSUME NEW g \in S, NEW m \in DOMAIN G[g] PROVE \E x \in DOMAIN F : F[x].name = G[g][m].name
    <2>1. PICK k \in 1 .. Len(order) : order[k] = g
        BY <1>1
    <2>2. m \in 1 .. Len(L[k])
        BY <1>3, <2>1
    <2>3. PICK x \in 1 .. Len(F) : K[x] = k /\ A[x] = m
        BY <1>7, <2>2
    <2>4. F[x] = L[k][m]
        BY <1>7, <2>3
    <2>5. F[x].name = G[g][m].name
        BY <1>3, <2>1, <2>2, <2>4
    <2> QED
        BY <1>7, <2>5
<1>10. Resolved(F)
    BY <1>5 DEF Resolved, V
<1>11. \A x \in DOMAIN F : \E refs \in {G[g] : g \in S} : From(F, x, refs)
    <2> SUFFICES ASSUME NEW x \in DOMAIN F PROVE \E refs \in {G[g] : g \in S} : From(F, x, refs)
        OBVIOUS
    <2>1. order[K[x]] \in S
        BY <1>2, <1>7
    <2> QED
        BY <1>8, <2>1
<1>12. Carries(F, {G[g] : g \in S}, <<>>)
    BY <1>8, <1>9, <1>10, <1>11 DEF Carries
<1> QED
    BY <1>2, <1>12 DEF F, L

\* Four layers appended, outermost first.
LEMMA FourLayers ==
    ASSUME NEW A1, NEW A2, NEW A3, NEW A4, NEW layers, NEW guard,
           Carries(A1, layers[1], guard[1]), Carries(A2, layers[2], guard[2]),
           Carries(A3, layers[3], guard[3]), Carries(A4, layers[4], guard[4])
    PROVE  \E seg : Layered(A1 \o A2 \o A3 \o A4, seg, layers, guard, 4)
<1>1. Layered(<<>>, <<>>, layers, guard, 0)
    BY DEF Layered, Resolved
<1>2. PICK s1 : Layered(<<>> \o A1, s1, layers, guard, 1)
    <2>1. 0 + 1 = 1
        OBVIOUS
    <2>2. \E s : Layered(<<>> \o A1, s, layers, guard, 0 + 1)
        BY <1>1, <2>1, LayerAppended
    <2> QED
        BY <2>1, <2>2
<1>3. <<>> \o A1 = A1
    <2> DEFINE V == [name : STRING, overrides : Option(STRING), when : Option(STRING)]
    <2>1. A1 \in Seq(V)
        BY DEF Carries, Resolved
    <2> HIDE DEF V
    <2> QED
        BY <2>1
<1>4. PICK s2 : Layered(A1 \o A2, s2, layers, guard, 2)
    <2>1. 1 + 1 = 2
        OBVIOUS
    <2>2. \E s : Layered(A1 \o A2, s, layers, guard, 1 + 1)
        BY <1>2, <1>3, <2>1, LayerAppended
    <2> QED
        BY <2>1, <2>2
<1>5. PICK s3 : Layered(A1 \o A2 \o A3, s3, layers, guard, 3)
    <2>1. 2 + 1 = 3
        OBVIOUS
    <2>2. \E s : Layered((A1 \o A2) \o A3, s, layers, guard, 2 + 1)
        BY <1>4, <2>1, LayerAppended
    <2> QED
        BY <2>1, <2>2
<1>6. PICK s4 : Layered(A1 \o A2 \o A3 \o A4, s4, layers, guard, 4)
    <2>1. 3 + 1 = 4
        OBVIOUS
    <2>2. \E s : Layered((A1 \o A2 \o A3) \o A4, s, layers, guard, 3 + 1)
        BY <1>5, <2>1, LayerAppended
    <2> QED
        BY <2>1, <2>2
<1> QED
    BY <1>6

\* The list of references of a layer is well formed.
LEMMA LayerRefs ==
    ASSUME NEW case, IsCase(case), NEW layer \in Layers(case.doc)
    PROVE  C!PluginRefs(layer.plugins) \in Seq(PluginRef)
<1>1. layer.plugins.refs \in Seq(PluginRef)
    BY DEF IsCase
<1>2. <<>> \in Seq(PluginRef)
    OBVIOUS
<1> QED
    BY <1>1, <1>2 DEF C!PluginRefs

\* The plugins of a bundle, as the code collects them.
LEMMA BundlePlugins ==
    ASSUME NEW case, IsCase(case), C!ParseConfig(case.doc) # <<>>, NEW cfg, cfg = C!ParseConfig(case.doc)[1],
           NEW g
    PROVE  /\ BundleOf(case.doc, g) = <<>> => C!GroupPlugins(cfg.global.policies, g) = <<>>
           /\ BundleOf(case.doc, g) # <<>> =>
                 /\ C!PluginRefs(BundleOf(case.doc, g)[1].plugins) \in Seq(PluginRef)
                 /\ C!GroupPlugins(cfg.global.policies, g) =
                       C!CollectPluginRefs(C!PluginRefs(BundleOf(case.doc, g)[1].plugins), <<>>)
<1> DEFINE bundle == BundleOf(case.doc, g)
<1>1. /\ g \in DOMAIN cfg.global.policies <=> bundle # <<>>
      /\ bundle # <<>> => /\ cfg.global.policies[g] = C!PolicyGroup(bundle[1])
                          /\ bundle[1] \in Layers(case.doc)
    BY ParsedBundles
<1> HIDE DEF bundle
<1>2. CASE bundle = <<>>
    BY <1>1, <1>2, Zenon DEF C!GroupPlugins, bundle
<1>3. CASE bundle # <<>>
    <2>1. C!PluginRefs(bundle[1].plugins) \in Seq(PluginRef)
        BY <1>1, <1>3, LayerRefs
    <2>2. cfg.global.policies[g].plugins = C!PluginRefs(bundle[1].plugins)
        BY <1>1, <1>3 DEF C!PolicyGroup
    <2>3. C!GroupPlugins(cfg.global.policies, g) = C!CollectPluginRefs(C!PluginRefs(bundle[1].plugins), <<>>)
        BY <1>1, <1>3, <2>2, Zenon DEF C!GroupPlugins
    <2> QED
        BY <1>3, <2>1, <2>3 DEF bundle
<1> QED
    BY <1>2, <1>3

(* A lineup carries one layer: the list of an optional layer. *)
Listed(option) == {C!PluginRefs(l[1].plugins) : l \in {option} \ {<<>>}}

\* The references of an optional layer.
LEMMA OptionCarried ==
    ASSUME NEW option, NEW X, NEW w \in Option(STRING),
           option = <<>> => X = <<>>,
           option # <<>> => /\ C!PluginRefs(option[1].plugins) \in Seq(PluginRef)
                            /\ X = C!CollectPluginRefs(C!PluginRefs(option[1].plugins), w)
    PROVE  Carries(X, Listed(option), w) /\ Listed(option) \subseteq Seq(PluginRef)
<1>1. CASE option = <<>>
    <2>1. Listed(option) = {}
        BY <1>1 DEF Listed
    <2> QED
        BY <1>1, <2>1, NothingCarried
<1>2. CASE option # <<>>
    <2> DEFINE refs == C!PluginRefs(option[1].plugins)
    <2>1. Listed(option) = {refs}
        BY <1>2 DEF Listed
    <2>2. refs \in Seq(PluginRef) /\ X = C!CollectPluginRefs(refs, w)
        BY <1>2
    <2> HIDE DEF refs
    <2> QED
        BY <2>1, <2>2, CollectedCarried
<1> QED
    BY <1>1, <1>2

\* The base layers: the bundle `all`, then the defaults of the entity's type.
LEMMA BaseCarried ==
    ASSUME NEW case, IsCase(case), C!ParseConfig(case.doc) # <<>>, NEW cfg, cfg = C!ParseConfig(case.doc)[1],
           NEW type
    PROVE  LET default == IF type \in DOMAIN case.doc.global.defaults
                          THEN <<case.doc.global.defaults[type]>> ELSE <<>>
           IN /\ Carries(C!GroupPlugins(cfg.global.policies, "all"), Listed(BundleOf(case.doc, "all")), <<>>)
              /\ Listed(BundleOf(case.doc, "all")) \subseteq Seq(PluginRef)
              /\ Carries(C!GroupPlugins(cfg.global.defaults, type), Listed(default), <<>>)
              /\ Listed(default) \subseteq Seq(PluginRef)
<1> DEFINE doc == case.doc
           default == IF type \in DOMAIN doc.global.defaults THEN <<doc.global.defaults[type]>> ELSE <<>>
           X == C!GroupPlugins(cfg.global.defaults, type)
<1>1. <<>> \in Option(STRING)
    BY DEF Option
<1>2. /\ Carries(C!GroupPlugins(cfg.global.policies, "all"), Listed(BundleOf(doc, "all")), <<>>)
      /\ Listed(BundleOf(doc, "all")) \subseteq Seq(PluginRef)
    <2> DEFINE b == BundleOf(doc, "all")
               Y == C!GroupPlugins(cfg.global.policies, "all")
    <2>1. /\ b = <<>> => Y = <<>>
          /\ b # <<>> => /\ C!PluginRefs(b[1].plugins) \in Seq(PluginRef)
                         /\ Y = C!CollectPluginRefs(C!PluginRefs(b[1].plugins), <<>>)
        BY BundlePlugins
    <2> HIDE DEF b, Y
    <2>2. Carries(Y, Listed(b), <<>>) /\ Listed(b) \subseteq Seq(PluginRef)
        BY <1>1, <2>1, OptionCarried
    <2> QED
        BY <2>2 DEF b, Y
<1>3. cfg.global.defaults = [t \in DOMAIN doc.global.defaults |-> C!PolicyGroup(doc.global.defaults[t])]
    BY ParsedDocument
<1>4. /\ default = <<>> => X = <<>>
      /\ default # <<>> => /\ C!PluginRefs(default[1].plugins) \in Seq(PluginRef)
                           /\ X = C!CollectPluginRefs(C!PluginRefs(default[1].plugins), <<>>)
    <2>1. CASE type \in DOMAIN doc.global.defaults
        <3>1. doc.global.defaults[type] \in Layers(doc)
            BY <2>1 DEF Layers, C!Range
        <3>2. default = <<doc.global.defaults[type]>> /\ default # <<>> /\ default[1] = doc.global.defaults[type]
            BY <2>1
        <3>3. C!PluginRefs(default[1].plugins) \in Seq(PluginRef)
            BY <3>1, <3>2, LayerRefs
        <3>4. /\ type \in DOMAIN cfg.global.defaults
              /\ cfg.global.defaults[type].plugins = C!PluginRefs(default[1].plugins)
            BY <1>3, <2>1, <3>2 DEF C!PolicyGroup
        <3> HIDE DEF default
        <3>5. X = C!CollectPluginRefs(C!PluginRefs(default[1].plugins), <<>>)
            BY <3>4, Zenon DEF C!GroupPlugins
        <3> QED
            BY <3>2, <3>3, <3>5
    <2>2. CASE type \notin DOMAIN doc.global.defaults
        <3>1. type \notin DOMAIN cfg.global.defaults /\ default = <<>>
            BY <1>3, <2>2
        <3>2. X = <<>>
            BY <3>1, Zenon DEF C!GroupPlugins
        <3> QED
            BY <3>1, <3>2
    <2> QED
        BY <2>1, <2>2
<1> HIDE DEF X, default
<1>5. Carries(X, Listed(default), <<>>) /\ Listed(default) \subseteq Seq(PluginRef)
    BY <1>1, <1>4, OptionCarried
<1> QED
    BY <1>2, <1>5 DEF X, default

(* The lists of the bundles that a request and its route join. *)
JoinedLists(doc, names) ==
    {C!PluginRefs(l[1].plugins) : l \in {BundleOf(doc, g) : g \in names \ {"all"}} \ {<<>>}}

\* The bundles joined by tag, by name or by the request, in any order.
LEMMA GroupsCarried ==
    ASSUME NEW case, IsCase(case), C!ParseConfig(case.doc) # <<>>, NEW cfg, cfg = C!ParseConfig(case.doc)[1],
           NEW names, IsFiniteSet(names),
           NEW order \in C!SetToSeqs((names \cap DOMAIN cfg.global.policies) \ {"all"})
    PROVE  /\ Carries(C!FlattenSeq([k \in DOMAIN order |-> C!GroupPlugins(cfg.global.policies, order[k])]),
                      JoinedLists(case.doc, names), <<>>)
           /\ JoinedLists(case.doc, names) \subseteq Seq(PluginRef)
<1> DEFINE doc == case.doc
           S == (names \cap DOMAIN cfg.global.policies) \ {"all"}
           G == [g \in S |-> C!PluginRefs(BundleOf(doc, g)[1].plugins)]
           lists == [k \in DOMAIN order |-> C!CollectPluginRefs(G[order[k]], <<>>)]
<1>1. IsFiniteSet(S)
    <2>1. S \in SUBSET names
        OBVIOUS
    <2> HIDE DEF S
    <2> QED
        BY <2>1, FS_Subset
<1>2. \A g : g \in DOMAIN cfg.global.policies <=> BundleOf(doc, g) # <<>>
    BY ParsedBundles
<1>3. ASSUME NEW g \in S
      PROVE  /\ C!PluginRefs(BundleOf(doc, g)[1].plugins) \in Seq(PluginRef)
             /\ C!GroupPlugins(cfg.global.policies, g) = C!CollectPluginRefs(G[g], <<>>)
    <2>1. BundleOf(doc, g) # <<>>
        BY <1>2
    <2> QED
        BY <2>1, BundlePlugins
<1>4. G \in [S -> Seq(PluginRef)]
    BY <1>3
<1>5. order \in Seq(S) /\ \A k \in DOMAIN order : order[k] \in S
    <2>1. order \in Seq(S)
        BY <1>1, OrderReaches
    <2> QED
        BY <2>1
<1>6. [k \in DOMAIN order |-> C!GroupPlugins(cfg.global.policies, order[k])] = lists
    <2> HIDE DEF G, S
    <2> QED
        BY <1>3, <1>5
<1>7. {G[g] : g \in S} = JoinedLists(doc, names)
    <2>1. ASSUME NEW g \in S PROVE G[g] \in JoinedLists(doc, names)
        <3>1. BundleOf(doc, g) # <<>> /\ g \in names \ {"all"}
            BY <1>2
        <3> QED
            BY <3>1 DEF JoinedLists
    <2>2. ASSUME NEW l \in JoinedLists(doc, names) PROVE l \in {G[g] : g \in S}
        <3>1. PICK g \in names \ {"all"} : BundleOf(doc, g) # <<>> /\ l = C!PluginRefs(BundleOf(doc, g)[1].plugins)
            BY DEF JoinedLists
        <3>2. g \in S
            BY <1>2, <3>1
        <3> QED
            BY <3>1, <3>2
    <2> HIDE DEF G, S
    <2> QED
        BY <2>1, <2>2
<1> HIDE DEF G, S
<1>8. Carries(C!FlattenSeq(lists), {G[g] : g \in S}, <<>>)
    BY <1>1, <1>4, BundlesCarried DEF S
<1> HIDE DEF lists
<1>9. \A g \in S : G[g] \in Seq(PluginRef)
    BY <1>4
<1>10. JoinedLists(doc, names) \subseteq Seq(PluginRef)
    BY <1>7, <1>9
<1> QED
    BY <1>6, <1>7, <1>8, <1>10

\* The tags of a route are finitely many.
LEMMA TagsFinite ==
    ASSUME NEW s \in Seq(STRING), NEW T, IsFiniteSet(T)
    PROVE  IsFiniteSet(T \cup C!Range(s))
<1>1. s \in Surjection(1 .. Len(s), C!Range(s))
    BY DEF Surjection, C!Range
<1>2. IsFiniteSet(1 .. Len(s))
    BY FS_Interval
<1>3. IsFiniteSet(C!Range(s))
    BY <1>1, <1>2, FS_Surjection
<1> QED
    BY <1>3, FS_Union

\* The other hooks: each plugin some layer names runs once, as its innermost
\* layer says.
LEMMA PluginsOnce ==
    ASSUME NEW case, IsCase(case), C!ParseConfig(case.doc) # <<>>, NEW cfg, cfg = C!ParseConfig(case.doc)[1],
           case.doc.routing_enabled, NEW name, NEW scope, NEW route,
           \/ route = <<>> /\ C!FindMatchingRoute(cfg, case.ext.entity_type[1], name, scope) = <<>>
           \/ \E i \in DOMAIN case.doc.routes :
                 /\ route = <<case.doc.routes[i]>>
                 /\ C!FindMatchingRoute(cfg, case.ext.entity_type[1], name, scope) = <<C!RouteEntry(case.doc.routes[i])>>,
           NEW refs \in C!ResolvePluginsForEntity(cfg, case.ext.entity_type[1], name, scope, case.ext.tags)
    PROVE  EachOnceAsSaid(C!EntriesFor(refs, Entries), PluginLayers(case.doc, case.ext, route), route)
<1> DEFINE doc == case.doc
           ext == case.ext
           type == ext.entity_type[1]
           found == C!FindMatchingRoute(cfg, type, name, scope)
           policies == cfg.global.policies
           A1 == C!GroupPlugins(policies, "all")
           A2 == C!GroupPlugins(cfg.global.defaults, type)
           tags == ((ext.tags \cup C!Range(C!RouteStaticTags(found[1]))) \cap DOMAIN policies) \ {"all"}
           A3(order) == C!FlattenSeq([k \in DOMAIN order |-> C!GroupPlugins(policies, order[k])])
           A4 == C!CollectPluginRefs(found[1].plugins, found[1].when)
           default == IF type \in DOMAIN doc.global.defaults THEN <<doc.global.defaults[type]>> ELSE <<>>
           layers == PluginLayers(doc, ext, route)
<1>1. cfg.routing_enabled
    <2>1. cfg.routing_enabled = doc.routing_enabled
        BY ParsedDocument
    <2> QED
        BY <2>1, Zenon
<1>2. C!ResolvePluginsForEntity(cfg, type, name, scope, ext.tags) =
         IF ~C!Some(found) THEN {C!Dedup(A1 \o A2)}
         ELSE {C!Dedup(A1 \o A2 \o A3(order) \o A4) : order \in C!SetToSeqs(tags)}
    BY <1>1, Zenon DEF C!ResolvePluginsForEntity
<1>3. layers = <<Listed(BundleOf(doc, "all")), Listed(default),
                 IF route = <<>> THEN {} ELSE JoinedLists(doc, ext.tags \cup C!Range(Joined(route[1]))),
                 Listed(route)>>
    BY Zenon DEF PluginLayers, Listed, JoinedLists
<1>4. /\ Carries(A1, Listed(BundleOf(doc, "all")), <<>>) /\ Listed(BundleOf(doc, "all")) \subseteq Seq(PluginRef)
      /\ Carries(A2, Listed(default), <<>>) /\ Listed(default) \subseteq Seq(PluginRef)
    BY BaseCarried
<1> HIDE DEF layers, default, A1, A2, A3, A4, tags
<1>5. /\ layers[1] = Listed(BundleOf(doc, "all")) /\ layers[2] = Listed(default)
      /\ layers[3] = IF route = <<>> THEN {} ELSE JoinedLists(doc, ext.tags \cup C!Range(Joined(route[1])))
      /\ layers[4] = Listed(route)
    BY <1>3
<1>6. CASE route = <<>> /\ found = <<>>
    <2> DEFINE guard == <<<<>>, <<>>, <<>>, <<>>>>
    <2>1. layers[3] = {} /\ layers[4] = {}
        BY <1>5, <1>6 DEF Listed
    <2>2. refs = C!Dedup(A1 \o A2)
        BY <1>2, <1>6 DEF C!Some
    <2>3. \A k \in 1 .. 4 : guard[k] = <<>>
        OBVIOUS
    <2> HIDE DEF guard
    <2>4. Carries(A1, layers[1], guard[1]) /\ Carries(A2, layers[2], guard[2])
        BY <1>4, <1>5, <2>3
    <2>5. Carries(<<>>, layers[3], guard[3]) /\ Carries(<<>>, layers[4], guard[4])
        BY <2>1, NothingCarried
    <2>6. PICK seg : Layered(A1 \o A2 \o <<>> \o <<>>, seg, layers, guard, 4)
        BY <2>4, <2>5, FourLayers
    <2>7. A1 \o A2 \o <<>> \o <<>> = A1 \o A2
        <3> DEFINE V == [name : STRING, overrides : Option(STRING), when : Option(STRING)]
        <3>1. A1 \in Seq(V) /\ A2 \in Seq(V)
            BY <1>4 DEF Carries, Resolved
        <3> HIDE DEF V
        <3> QED
            BY <3>1
    <2>8. \A k \in 1 .. 4 : layers[k] \subseteq Seq(PluginRef)
        <3>1. \A k \in 1 .. 4 : k = 1 \/ k = 2 \/ k = 3 \/ k = 4
            OBVIOUS
        <3> QED
            BY <1>4, <1>5, <2>1, <3>1
    <2>9. \A k \in 1 .. 4 : layers[k] # {} => guard[k] = IF k = 4 THEN route[1].when ELSE <<>>
        BY <2>1, <2>3
    <2>10. Layered(A1 \o A2, seg, layers, guard, 4)
        BY <2>6, <2>7
    <2>11. EachOnceAsSaid(C!EntriesFor(C!Dedup(A1 \o A2), Entries), layers, route)
        BY <2>8, <2>9, <2>10, OnceAsSaid
    <2> QED
        BY <2>2, <2>11 DEF layers
<1>7. ASSUME NEW i \in DOMAIN doc.routes, route = <<doc.routes[i]>>, found = <<C!RouteEntry(doc.routes[i])>>
      PROVE  EachOnceAsSaid(C!EntriesFor(refs, Entries), layers, route)
    <2> DEFINE raw == doc.routes[i]
               names == ext.tags \cup C!Range(Joined(raw))
               guard == <<<<>>, <<>>, <<>>, raw.when>>
    <2>1. route # <<>> /\ route[1] = raw /\ found # <<>> /\ found[1] = C!RouteEntry(raw)
        BY <1>7
    <2>2. IsRoute(raw) /\ raw \in Layers(doc) /\ IsFiniteSet(ext.tags)
        BY DEF IsCase, Layers, C!Range
    <2>3. Joined(raw) \in Seq(STRING) /\ C!RouteStaticTags(found[1]) = Joined(raw)
        BY <2>1, <2>2, JoinedNames
    <2>4. IsFiniteSet(names)
        BY <2>2, <2>3, TagsFinite
    <2>5. tags = (names \cap DOMAIN policies) \ {"all"}
        BY <2>3 DEF tags
    <2>6. PICK order \in C!SetToSeqs(tags) : refs = C!Dedup(A1 \o A2 \o A3(order) \o A4)
        BY <1>2, <2>1 DEF C!Some
    <2>7. layers[3] = JoinedLists(doc, names)
        BY <1>5, <2>1
    <2>8. Carries(A3(order), layers[3], <<>>) /\ layers[3] \subseteq Seq(PluginRef)
        <3>1. order \in C!SetToSeqs((names \cap DOMAIN policies) \ {"all"})
            BY <2>5, <2>6
        <3> HIDE DEF names
        <3> QED
            BY <2>4, <2>7, <3>1, GroupsCarried DEF A3
    <2>9. raw.when \in Option(STRING)
        BY <2>2 DEF IsRoute
    <2>10. A4 = C!CollectPluginRefs(C!PluginRefs(raw.plugins), raw.when)
        <3>1. found[1].plugins = C!PluginRefs(raw.plugins) /\ found[1].when = raw.when
            BY <2>1 DEF C!RouteEntry
        <3> QED
            BY <3>1 DEF A4
    <2>11. Carries(A4, layers[4], raw.when) /\ layers[4] \subseteq Seq(PluginRef)
        <3>1. C!PluginRefs(raw.plugins) \in Seq(PluginRef)
            BY <2>2, LayerRefs
        <3>2. Carries(A4, Listed(route), raw.when) /\ Listed(route) \subseteq Seq(PluginRef)
            BY <2>1, <2>9, <2>10, <3>1, OptionCarried
        <3> QED
            BY <1>5, <3>2
    <2>12. guard[1] = <<>> /\ guard[2] = <<>> /\ guard[3] = <<>> /\ guard[4] = raw.when
        OBVIOUS
    <2> HIDE DEF guard, names, raw
    <2>13. PICK seg : Layered(A1 \o A2 \o A3(order) \o A4, seg, layers, guard, 4)
        BY <1>4, <1>5, <2>8, <2>11, <2>12, FourLayers
    <2>14. \A k \in 1 .. 4 : k = 1 \/ k = 2 \/ k = 3 \/ k = 4
        OBVIOUS
    <2>15. \A k \in 1 .. 4 : layers[k] \subseteq Seq(PluginRef)
        BY <1>4, <1>5, <2>8, <2>11, <2>14
    <2>16. \A k \in 1 .. 4 : layers[k] # {} => guard[k] = IF k = 4 THEN route[1].when ELSE <<>>
        BY <2>1, <2>12, <2>14
    <2>17. EachOnceAsSaid(C!EntriesFor(C!Dedup(A1 \o A2 \o A3(order) \o A4), Entries), layers, route)
        BY <2>13, <2>15, <2>16, OnceAsSaid
    <2> QED
        BY <2>6, <2>17
<1> QED
    BY <1>6, <1>7 DEF layers

\* With routing on and an entity named, a hook runs what the layers resolve to.
LEMMA RoutedLineup ==
    ASSUME NEW case, IsCase(case), C!ParseConfig(case.doc) # <<>>, NEW cfg, cfg = C!ParseConfig(case.doc)[1],
           case.doc.routing_enabled, NEW hook
    PROVE  C!Lineup(C!ParseConfig(case.doc), {}, Entries, case.ext, hook) =
              {C!EntriesFor(resolved, Entries) : resolved \in
                  IF hook = "identity.resolve"
                  THEN {C!ResolveIdentityPluginsForRoute(cfg, case.ext.entity_type[1], case.ext.entity_name[1],
                                                         case.ext.scope)}
                  ELSE C!ResolvePluginsForEntity(cfg, case.ext.entity_type[1], case.ext.entity_name[1],
                                                 case.ext.scope, case.ext.tags)}
<1> DEFINE config == C!ParseConfig(case.doc)
           ext == case.ext
<1>1. C!Some(config) /\ config[1] = cfg /\ cfg.routing_enabled = case.doc.routing_enabled
    BY ParsedDocument DEF C!Some
<1>2. C!Some(ext.entity_type) /\ C!Some(ext.entity_name)
    <2>1. /\ ext.entity_type \in Seq(STRING) /\ Len(ext.entity_type) = 1
          /\ ext.entity_name \in Seq(STRING) /\ Len(ext.entity_name) = 1
        BY Zenon DEF IsCase
    <2>2. \A o \in Seq(STRING) : Len(o) = 1 => C!Some(o)
        <3> SUFFICES ASSUME NEW o \in Seq(STRING), Len(o) = 1, o = <<>> PROVE FALSE
            BY DEF C!Some
        <3>1. Len(<<>>) = 0
            OBVIOUS
        <3> QED
            BY <3>1
    <2> QED
        BY <2>1, <2>2, Zenon
<1>3. C!AnnotationFor({}, ext, hook) = {}
    BY DEF C!AnnotationFor
<1> HIDE DEF config, ext
<1>4. C!Lineup(config, {}, Entries, ext, hook) =
         {C!EntriesFor(resolved, Entries) : resolved \in
             IF hook = "identity.resolve"
             THEN {C!ResolveIdentityPluginsForRoute(config[1], ext.entity_type[1], ext.entity_name[1], ext.scope)}
             ELSE C!ResolvePluginsForEntity(config[1], ext.entity_type[1], ext.entity_name[1], ext.scope, ext.tags)}
    BY <1>1, <1>2, <1>3 DEF C!Lineup
<1> QED
    BY <1>1, <1>4 DEF config, ext

\* No accepted document loses a layer.
LEMMA LayersKept ==
    ASSUME NEW case, IsCase(case), C!ParseConfig(case.doc) # <<>>, case.doc.routing_enabled
    PROVE  /\ \A layer \in {case.doc.global} \cup Layers(case.doc) : ~layer.legacy
           /\ \A i \in DOMAIN case.doc.routes : \A g \in C!Range(GroupNames(case.doc.routes[i])) :
                 BundleOf(case.doc, g) # <<>>
<1> DEFINE doc == case.doc
<1>1. PICK cfg : cfg = C!ParseConfig(doc)[1]
    OBVIOUS
<1>2. /\ ~C!RejectRenamedIdentityKey(doc) /\ C!ValidateConfig(cfg)
      /\ cfg.routing_enabled = doc.routing_enabled
    BY <1>1, ParsedDocument
<1>3. cfg.routing_enabled
    BY <1>2, Zenon
<1>4. \A layer \in {doc.global} \cup Layers(doc) : ~layer.legacy
    BY <1>2, Zenon DEF C!RejectRenamedIdentityKey, Layers
<1>5. ASSUME NEW i \in DOMAIN doc.routes, NEW g \in C!Range(GroupNames(doc.routes[i]))
      PROVE  BundleOf(doc, g) # <<>>
    <2>1. cfg.routes = [k \in DOMAIN doc.routes |-> C!RouteEntry(doc.routes[k])]
        BY <1>1, RoutesParsed
    <2>2. i \in DOMAIN cfg.routes /\ cfg.routes[i] = C!RouteEntry(doc.routes[i])
        BY <2>1
    <2>3. C!RouteValid(cfg.routes[i], cfg)
        BY <1>2, <1>3, <2>2, Zenon DEF C!ValidateConfig
    <2>4. C!RouteEntry(doc.routes[i]).groups = doc.routes[i].groups
        BY DEF C!RouteEntry
    <2>5. doc.routes[i].groups # <<>>
        <3>1. ASSUME doc.routes[i].groups = <<>> PROVE FALSE
            <4>1. GroupNames(doc.routes[i]) = <<>>
                BY <3>1, Zenon DEF GroupNames
            <4> QED
                BY <4>1 DEF C!Range
        <3> QED
            BY <3>1
    <2>6. g \in C!Range(C!AsNames(doc.routes[i].groups[1]))
        BY <2>5, Zenon DEF GroupNames
    <2>7. g \in DOMAIN cfg.global.policies
        BY <2>2, <2>3, <2>4, <2>5, <2>6 DEF C!RouteValid, C!Some
    <2> QED
        BY <1>1, <2>7, ParsedBundles
<1> QED
    BY <1>4, <1>5

\* Whatever the document and the request, no layer is lost: the plugins of
\* identity.resolve are the authentication steps written in the global block,
\* in the bundles the route joins and on the route, in that order; of the
\* plugins of the other hooks each runs once, with its innermost settings, or
\* its base entry's where no instance can be created with those; and the
\* keys and groups that would silently drop a layer are refused (parse_config,
\* resolve_identity_plugins_for_route, resolve_plugins_for_entity,
\* filter_entries_by_route).
THEOREM RoutingNoLayerLost == RoutingSpec => []NoLayerLost
<1> DEFINE Inv == input \in RequestCase /\ NoLayerLost
<1>1. RoutingInit => Inv
    BY DEF RoutingInit, NoLayerLost, Accepted
<1>2. Inv /\ [ResolveRequest]_routingVars => Inv'
    <2> SUFFICES ASSUME Inv, [ResolveRequest]_routingVars PROVE Inv'
        OBVIOUS
    <2>1. CASE UNCHANGED routingVars
        BY <2>1 DEF routingVars, NoLayerLost, Accepted
    <2>2. CASE ResolveRequest
        <3>1. input' = input /\ input' \in RequestCase /\ IsCase(input')
            BY <2>2, RoutingAssumption DEF ResolveRequest, Pending
        <3>2. CASE C!ParseConfig(input'.doc) = <<>>
            <4>1. answer' = <<[accepted |-> FALSE]>>
                BY <2>2, <3>1, <3>2 DEF ResolveRequest
            <4> QED
                BY <3>1, <4>1 DEF NoLayerLost, Accepted
        <3>3. CASE C!ParseConfig(input'.doc) # <<>> /\ ~input'.doc.routing_enabled
            BY <3>1, <3>3 DEF NoLayerLost
        <3>4. CASE C!ParseConfig(input'.doc) # <<>> /\ input'.doc.routing_enabled
            <4> DEFINE doc == input'.doc
                       ext == input'.ext
                       type == ext.entity_type[1]
                       name == ext.entity_name[1]
                       lineup(hook) == C!Lineup(C!ParseConfig(doc), {}, Entries, ext, hook)
                       a == answer'[1]
                       serving == IF a.route = <<>> THEN {<<>>}
                                  ELSE {<<doc.routes[i]>> : i \in {i \in DOMAIN doc.routes :
                                                                     a.route = <<C!RouteEntry(doc.routes[i])>>}}
            <4>1. PICK cfg : cfg = C!ParseConfig(doc)[1]
                OBVIOUS
            <4>2. answer' = <<[accepted |-> TRUE,
                               route |-> C!FindMatchingRoute(cfg, type, name, ext.scope),
                               identity |-> CHOOSE l \in lineup("identity.resolve") : TRUE,
                               plugins |-> lineup("tool_pre_invoke")]>>
                <5> DEFINE was(hook) == C!Lineup(C!ParseConfig(input.doc), {}, Entries, input.ext, hook)
                           old == C!ParseConfig(input.doc)
                <5>1. answer' = IF old = <<>> THEN <<[accepted |-> FALSE]>>
                                ELSE <<[accepted |-> TRUE,
                                        route |-> C!FindMatchingRoute(old[1], input.ext.entity_type[1],
                                                                      input.ext.entity_name[1], input.ext.scope),
                                        identity |-> CHOOSE l \in was("identity.resolve") : TRUE,
                                        plugins |-> was("tool_pre_invoke")]>>
                    BY <2>2, Zenon DEF ResolveRequest
                <5>2. was("identity.resolve") = lineup("identity.resolve") /\ was("tool_pre_invoke") = lineup("tool_pre_invoke")
                    BY <3>1
                <5>3. old = C!ParseConfig(doc) /\ input.ext = ext
                    BY <3>1
                <5> HIDE DEF was, lineup, old
                <5> QED
                    BY <3>4, <4>1, <5>1, <5>2, <5>3
            <4> HIDE DEF lineup
            <4>3. /\ a.route = C!FindMatchingRoute(cfg, type, name, ext.scope)
                  /\ a.identity = CHOOSE l \in lineup("identity.resolve") : TRUE
                  /\ a.plugins = lineup("tool_pre_invoke")
                BY <4>2
            <4> DEFINE steps == C!EntriesFor(C!ResolveIdentityPluginsForRoute(cfg, type, name, ext.scope), Entries)
                       others == C!ResolvePluginsForEntity(cfg, type, name, ext.scope, ext.tags)
            <4>4. lineup("identity.resolve") = {steps}
                <5> DEFINE resolved == C!ResolveIdentityPluginsForRoute(cfg, type, name, ext.scope)
                <5>1. lineup("identity.resolve") =
                         {C!EntriesFor(r, Entries) : r \in IF "identity.resolve" = "identity.resolve"
                                                           THEN {resolved} ELSE others}
                    BY <3>1, <3>4, <4>1, RoutedLineup DEF lineup
                <5> HIDE DEF resolved, others
                <5>2. lineup("identity.resolve") = {C!EntriesFor(r, Entries) : r \in {resolved}}
                    BY <5>1
                <5> QED
                    BY <5>2 DEF resolved
            <4>5. lineup("tool_pre_invoke") = {C!EntriesFor(r, Entries) : r \in others}
                BY <3>1, <3>4, <4>1, RoutedLineup DEF lineup
            <4>6. a.identity = steps
                BY <4>3, <4>4
            <4>7. serving # {}
                <5>1. CASE Fitting(doc, ext) = {}
                    <6>1. a.route = <<>>
                        BY <3>1, <3>4, <4>1, <4>3, <5>1, MatchIsMostSpecific
                    <6> QED
                        BY <6>1
                <5>2. CASE Fitting(doc, ext) # {}
                    <6>1. PICK i \in Fitting(doc, ext) : a.route = <<C!RouteEntry(doc.routes[i])>>
                        BY <3>1, <3>4, <4>1, <4>3, <5>2, MatchIsMostSpecific
                    <6>2. i \in DOMAIN doc.routes
                        BY Zenon DEF Fitting
                    <6>3. a.route # <<>>
                        BY <6>1
                    <6>4. <<doc.routes[i]>> \in serving
                        BY <6>1, <6>2, <6>3
                    <6> QED
                        BY <6>4
                <5> QED
                    BY <5>1, <5>2
            <4>8. ASSUME NEW route \in serving
                  PROVE  \/ route = <<>> /\ C!FindMatchingRoute(cfg, type, name, ext.scope) = <<>>
                         \/ \E i \in DOMAIN doc.routes :
                               /\ route = <<doc.routes[i]>>
                               /\ C!FindMatchingRoute(cfg, type, name, ext.scope) = <<C!RouteEntry(doc.routes[i])>>
                BY <4>3
            <4> HIDE DEF serving, a, steps, others
            <4>9. ASSUME NEW route \in serving
                  PROVE  /\ [i \in DOMAIN a.identity |-> a.identity[i].name] = Registered(WrittenSteps(doc, route))
                         /\ \A l \in a.plugins : EachOnceAsSaid(l, PluginLayers(doc, ext, route), route)
                <5>1. [i \in DOMAIN steps |-> steps[i].name] = Registered(WrittenSteps(doc, route))
                    <6>1. PICK ran : ran = C!EntriesFor(C!ResolveIdentityPluginsForRoute(cfg, type, name, ext.scope), Entries)
                        OBVIOUS
                    <6>2. NamesOf(ran) = Registered(WrittenSteps(doc, route))
                        BY <3>1, <3>4, <4>1, <4>8, <6>1, IdentityLayers
                    <6> QED
                        BY <6>1, <6>2 DEF NamesOf, steps
                <5>2. ASSUME NEW r \in others
                      PROVE  EachOnceAsSaid(C!EntriesFor(r, Entries), PluginLayers(doc, ext, route), route)
                    BY <3>1, <3>4, <4>1, <4>8, PluginsOnce DEF others
                <5>3. [i \in DOMAIN a.identity |-> a.identity[i].name] = Registered(WrittenSteps(doc, route))
                    <6>1. PICK run : run = a.identity /\ run = steps
                        BY <4>6
                    <6>2. [i \in DOMAIN run |-> run[i].name] = Registered(WrittenSteps(doc, route))
                        BY <5>1, <6>1
                    <6> QED
                        BY <6>1, <6>2
                <5>4. a.plugins = {C!EntriesFor(r, Entries) : r \in others}
                    BY <4>3, <4>5
                <5>5. \A l \in a.plugins : EachOnceAsSaid(l, PluginLayers(doc, ext, route), route)
                    BY <5>2, <5>4
                <5> QED
                    BY <5>3, <5>5
            <4>10. /\ \A layer \in {doc.global} \cup Layers(doc) : ~layer.legacy
                   /\ \A i \in DOMAIN doc.routes : \A g \in C!Range(GroupNames(doc.routes[i])) : BundleOf(doc, g) # <<>>
                BY <3>1, <3>4, LayersKept
            <4>11. NoLayerLost'
                <5>1. \A route \in serving :
                         /\ [i \in DOMAIN a.identity |-> a.identity[i].name] = Registered(WrittenSteps(doc, route))
                         /\ \A l \in a.plugins : EachOnceAsSaid(l, PluginLayers(doc, ext, route), route)
                    BY <4>9
                <5> QED
                    BY <3>1, <4>7, <4>10, <5>1, Zenon DEF NoLayerLost, serving, a
            <4> QED
                BY <3>1, <4>11
        <3> QED
            BY <3>2, <3>3, <3>4
    <2> QED
        BY <2>1, <2>2
<1> QED
    BY <1>1, <1>2, PTL DEF RoutingSpec
=============================================================================
