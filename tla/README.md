# A verification project for praxis-policy

praxis-policy is a policy engine that a gateway or an agent host embeds: it
intercepts tool calls, prompts and model traffic, runs plugins over them, and
evaluates routes written in the APL policy language. This directory holds TLA+
models of it, the TLC runs that check them on small instances, and TLAPS proofs
of the properties that matter most. Paths below are relative to the repository
root; line numbers are in `PROJECT.json` ("map").

## 1. Inventory

How a request travels: the host calls `PolicyEngine::invoke_*`, which loads the
current snapshot, selects the entries for the request's entity (a route
annotation, or the routing cache, or a fresh resolution) and hands them to
`Executor::execute`. An APL route is one synthetic plugin, `AplRouteHandler`:
it loads the session's labels, takes a dispatch plan from `DispatchCache`,
fills an attribute bag, evaluates the route (`evaluate_pre`, `evaluate_post`),
dispatches plugins, delegations and elicitations back into the engine through
its invokers, writes the edits of its pipelines back into the message and
persists the labels the request has gained. `parallel:` blocks of a route and
the concurrent phase of the executor both run on `run_branches`. Before any of
this, a configuration document has been parsed, its policy text compiled, and
its layers stacked into installed handlers.

| component | state | operations | interacts with | what is hard | what makes it correct |
|---|---|---|---|---|---|
| branch orchestration (`ppe-orchestration`) | JoinSet, id and outcome maps, abort flag | `run_branches` | tasks of the runtime, two callers | tasks end in any order and while being aborted; panics carry a task id only | one outcome per branch in input order, no deny lost, aborted only after a deny, always returns |
| hook executor (`ppe-core/executor.rs`, `context.rs`, `registry.rs`) | breaker of each plugin, context table, current payload and extensions, errors, background tasks | `execute` and its five phases | plugins, other requests (breaker), `run_branches` | failures, timeouts and panics per phase and `on_error`; breaker read once and set by others | an allow hides no block, a deny names the first blocker, errors are exact, a tripped breaker holds |
| extensions and tiers (`ppe-core/extensions`) | the slots of a request | `filter_extensions`, `merge_owned`, acceptance checks | executor | whole values come back from filtered views | a slot changes only as the tier and the plugin's capabilities allow |
| policy engine (`ppe-core/engine.rs`) | snapshot (registry, config, annotations, cap), generation, routing cache, task tracker, initialized flag | register, unregister, load, annotate, invoke, initialize, shutdown | everyone | mutators and requests interleave; cache filled from an old snapshot; initialize and shutdown await between reading and setting a flag | no entry outlives its mutation but by the races the code has; bounded cache; initialize is all or nothing; drain before teardown |
| dispatch plans (`dispatch_plan.rs`) | plan per route with its generation | `get_or_build` | engine generation and snapshot | build awaits; snapshot and generation are two writes | no plan older than the completed mutations, no torn plan kept |
| APL evaluator (`ppe-apl-core`) | bag, payload, taints, constraints, decision | `evaluate_pre`, `evaluate_post`, `dispatch_effect`, `dispatch_parallel` | invokers, PDPs, `run_branches` | nested reactions, branches with their own copies, suspension | forwarded only if nothing refused; denies explained; nothing emitted is lost |
| route handler and session labels (`route_handler.rs`, `cmf_invoker.rs`, `session_*.rs`, valkey) | payload and extensions behind locks, label set per session with a TTL | hydrate, invoke, write back, persist | other requests, the store | overlapping calls that write whole values; replies lost after the store acted; expiry between load and append | edits and labels are not lost, a forwarded request's labels are stored, sessions are bound to their subject |
| elicitation (`elicitation_invoker.rs`, `elicitation-ciba`) | correlation store, bag keys, retry header | dispatch, check, validate | a provider, the agent's retries | retries, one-time tokens, restarts, several steps in a route | nothing runs without the approval of the human who was asked |
| delegation (`delegation_invoker.rs`, `delegator-oauth`) | minted tokens by key, append-only chain | token exchange | an identity provider | a second exchange of the request; replies that grant something else | a token is minted for, bounded by and filed under whom the step names |
| identity (`identity-jwt`) | key store per issuer, refresh tasks | verify, initialize, refresh, drop | an identity provider | refresh failing between verifications | a token is accepted only under a key its issuer last published |
| configuration (`config.rs`, `parser.rs`, `visitor.rs`, layers of `rules.rs`) | the visitor's layers | parse, match, stack, compile, install | engine | keys that are ignored, renamed or in two places; quoted text; ties; nesting | most specific route wins, no layer or rule is dropped, text is read as written |
| decision points (Cedar, CEL, OPA), predicates, field pipelines, constraints, attribute bag, message projection and views, reference plugins | compile caches | evaluate, fold, project, scan | evaluator, external engines | absent and mistyped attributes, full caches, name collisions, two editors of one message | absence never grants, hidden stays hidden, a restriction is never widened |
| facade, tools | none | | | | |

`PROJECT.json` lists all of them under "components", with what is left out and
why, and under "hazards" the places in the code that are hard to test, each
with the properties that watch over it or the reason why none does.

## 2. Modules

| module | models | composed with |
|---|---|---|
| `BranchOutcomes` | what a vector of outcomes of `run_branches` can be | |
| `BranchFates` | abstract specification of `run_branches`: fates, without tasks or joins | |
| `Branches` | `run_branches`: spawn loop, tasks, abort, join, collection | implements `BranchFates` |
| `Extensions` | slots, capability filter, merge and acceptance | |
| `Executor` | the executor, several requests over shared breakers | `Extensions`, `BranchOutcomes` |
| `PolicyEngine` | snapshot, mutators, routing cache, requests | |
| `Lifecycle` | registration under hooks, initialize, shutdown, background tasks, override instances | |
| `DispatchCache` | plan cache against the generation | |
| `Evaluator` | APL routes: walk, reactions, parallel blocks, phases | |
| `RouteHandler` | a request around the walk: session id, hydration, overlapping plugin calls, write-back, persistence, final code; the store | |
| `Elicitation` | attempts at a route with approval steps, the CIBA plugin and its store, the provider | |
| `ConfigResolution` | document to matched route to lineup | |
| `RouteResolution` | a request against any document: accepted or not, the route that serves it, the plugins that run | `ConfigResolution` |
| `PolicyText`, `PolicyBlocks`, `AplLayers` | policy text, policy blocks and compiled layers, the config visitor; each extends the one before | |
| `Attributes` | bag, conditions, rule lists, field pipelines | |
| `Pdp`, `Constraints` | the three decision points; routing restrictions | extend `Attributes` |
| `AttributeBag` | extraction of the bag, capability table, attribute files | |
| `MessageProjection`, `MessageViews`, `ReferencePlugins` | write-back of pipeline edits; view of a message; PII scanner and audit logger | |
| `Identity`, `Delegation`, `StoreConfig` | JWT resolver; token exchange; configuration of the valkey store | |
| `Credentials` | a resolver through its life, two delegations of one request, the building of a store, for any configuration | `Identity`, `Delegation`, `StoreConfig` |
| `BranchesProofs`, `ExecutorProofs`, `PolicyEngineProofs`, `LifecycleProofs`, `DispatchCacheProofs`, `EvaluatorProofs`, `RouteHandlerProofs`, `ElicitationProofs` | theorems about the module of the name; `PolicyEngineProofs` also holds those about `RouteResolution`, `ElicitationProofs` those about `Credentials` | |
| `MC*` | instances for TLC; `MCConfiguration` and `MCDecisions` compose the operator modules | |

**Branches.** `task[b]` is the spawned future, `joined`, `done` and `aborted`
the JoinSet's progress, the `done` map and whether `abort_all` was called.
Tasks complete, time out or panic at any time after their spawn, also after the
abort mark; `Cancel` is the runtime dropping a marked task. The executor uses
`Deliverable` (module `BranchOutcomes`) for the result of its concurrent phase,
which is what `ReturnsDeliverable` shows of `Branches`.

**Executor.** One action per handler call (`Serial...`, `Audit...`), one for the
concurrent phase as a whole, one for the end of the hook and for background
tasks. `fate` and `barred` are history. A handler's reply is chosen from its
types: allow, deny with and without a violation, error, timeout, panic (where
the code catches one), with or without a payload and extensions. Not modelled:
a panic of a serial handler, which unwinds into the host, and a host that drops
the `execute` future half way.

**Extensions.** Each slot by its tier: immutable, monotonic labels, guarded
headers, append-only delegation chain, credentials. A value is a model value; a
hop of the chain has the part `chain_extends` compares (`grant`) and the part it
does not (`detail`). A handler hands back the credentials it was shown, or those
with tokens minted for the request (`HandsBack`), which is what the framework's
own handlers do; the merge then takes the slot whole. `TierStep` is stated slot
by slot and uses none of the merge's own checks.

**PolicyEngine.** A mutator loads the snapshot, mutates a clone, stores it and,
if the operation says so, clears the cache, each in a step of its own; loading a
config goes on with the visitor's annotations, route by route, and may fail
there. An `Entity` stands for the cache key (entity type and name, hook, scope).
A request loads the snapshot, looks up, resolves and inserts in separate steps:
the code awaits override instances between lookup and insert. The capacity is
that of the snapshot a request loaded; `late` and `overfull` record the entries
and the excess that a race has left behind since the last clear.

**Lifecycle.** `index[h]` is the sorted list of a hook's entries: a registration
inserts behind the entries of the same priority, which is what the push and the
stable sort amount to, and a removal closes the gap. `life[p]` says whether an
instance is up. `initialize` and `shutdown` are one step per await;
two host tasks may call them at any time and overlap. `hist` records what the
properties speak of: which plugins a boot saw, whether calls overlapped. Two
things are simpler than the code: a registration is one step (the load, clone and
store of `try_mutate_runtime` are steps of `PolicyEngine`, where one of two that
race is lost), and the hooks a plugin serves are a set (`register_multi_handler`
would list a plugin twice under a hook that its handler list repeats).

**DispatchCache.** A plan is the version of the snapshot that each entry was
resolved on, because what a plan contains is a function of that snapshot. The
acquire/release pair on the generation is modelled as sequentially consistent.

**Evaluator.** A route is a table of effects; nested lists are walked in place,
each branch of a parallel block has a frame of its own. What plugins, decision
points, delegations, elicitations and field pipelines answer is the
environment's choice. The effects of a route are owned by the lists they sit in,
so a route is a tree (`Tree`), and its effects are numbered in the order of the
text; TLC evaluates this on every route of the run. Left out: wording of rule
sources, a panic in the walk itself.

**RouteHandler.** A plugin call is two steps, the copy taken before the plugin
runs and the write-back after it, because the lock is released in between; calls
of a parallel block overlap. A message maps paths to who wrote them last. The
store may apply an append although the caller has given up on it, and a key may
lapse at any moment; time is not modelled. The load-time check that keeps
payload-editing plugins out of parallel blocks is part of `Init` for the routes
that `visit_route` made (`visited`); the global catch-all for requests without an
entity is not checked, and `hist[r].racing` records where that matters. A session
id is `ShortHash` of the subject and the session value, any function: the code
hashes `subject:value`, where the colon may stand in either part, and keeps 64
bits.

**Elicitation.** An attempt names an approval id or none and walks the steps of
its own route (`Calls` gives each attempt one), so that an id asked for at one
step or route comes back at another; every call to the provider is sent, acted upon and answered in
separate steps, and the answer may be lost. `op` is the provider, which hands
the token of an approval out once; `store` is the plugin's memory, which
`Restart` empties.

**Configuration modules.** Documents are records, options are sequences of at
most one element, errors are `<<>>`. Policy text is a sequence of symbols, so
that what a scanner does with a bracket inside quotes is visible. The visitor is
a function from its state and a section to a state or an error. `RouteResolution`
is a specification of its own: its constant `RequestCase` is any set of documents
and requests that the document types allow, `MCConfiguration` gives it a bounded
one and adds the questions about text, blocks and layers.

**Decision modules.** Values carry what the code tells apart: a bag value its
type (a float also whether it is NaN and whether it is beyond 2^53), a field
value how many of its trailing characters can still be read, a JSON value which
patterns match it. External engines (CEL, Rego, Cedar, jsonwebtoken, the
identity provider) are inputs of a call. `Credentials` takes any resolver, step and
store configuration, any answer of a key endpoint and any request; a resolver is
built, initialized, refreshed task by task, asked and dropped in any order that
its handles allow. A workload's grant has two legs, and the form of each is
compared. A lifetime beyond what `chrono` can hold ends in a panic. An endpoint of
the store has, besides the host that is dialled, what follows the last '@' of its
text (`later`), which is what the loopback check reads. `MCDecisions` bounds all
this and adds the other decisions. Operators with RECURSIVE are confined to modules
without theorems.

## 3. Runs

| run | checks | bounds, and why they are enough |
|---|---|---|
| `branches` | `NoDenyLost`, `ReturnsDeliverable`, `Implements`, `Returns` | 3 branches: one denies, one is caught by the abort and one ends by itself meanwhile; timeouts and short circuit on |
| `executor_phases` | `AllowedMeansAllPassed`, `DeniedByFirstBlocker`, `ErrorsExact`, `TierDiscipline`, `HookAnswered` | 6 plugins, one per phase and two concurrent, all three `on_error` values, registered out of phase order; the serial ones have different capabilities and return edits of every slot, denies come with and without a violation |
| `executor_shared` | `BreakerHolds` | 2 requests over 3 plugins that a failure disables, in three phases |
| `engine_caches` | `OutdatedOnlyByRace`, `CacheWithinCapacity` | 2 mutators, 2 requests, 2 configs of capacity 2 and 1, 1 plugin, 2 entities, 1 tag, `usize::MAX` scaled down to 2, 2 publications: enough for a lost update, a late insert, inserts under snapshots of different capacity and a reload with its visitor; mutators and requests are symmetric |
| `lifecycle` | `IndexExact`, `AllOrNothing`, `DrainedBeforeTeardown` | 3 plugins with equal and different priorities under 2 hooks, 2 host tasks (symmetric), 1 background task at a time, one override of each kind |
| `dispatch_plans` | `PlanIsFresh`, `CachedPlanIsWhole` | 2 mutators, 2 planners, 2 plugins, 4 publications; everything symmetric |
| `evaluator` | `ForwardedMeansNoRefusal`, `DenyIsExplained`, `DecisionIsWhole`, `Evaluated` | every route of 3 effects over 10 kinds, all nestings, orders and sections, and four routes of 7 effects: a decision point with a reaction in a branch, nested blocks with constraints, all four sections, two delegations |
| `route_handler` | `EditsDelivered`, `ForwardedLabelsStored`, `SessionSeesHistory`, `LabelsStayWithSubject`, `RedactionKept`, `Answered` | 2 requests of one or two subjects or of nobody, six routes and a catch-all with a racing block, two session ids of which one belongs to two subjects, 4 plugins of three modes, 2 fields, 2 labels: enough for two writers to overlap, for a late append and for a key that lapses between load and append |
| `elicitation` | `ForwardedIsApproved`, `NoMeansNo`, `ReplayHonoured`, `AttemptAnswered` | 3 overlapping attempts over one approval: peek, confirm and a retry; routes with two strict steps of different humans, lenient ones and ones that cannot ask, and attempts at different routes; a restart at any time |
| `configuration` | `MostSpecificRoute`, `NoLayerLost`, `ReadsAsWritten`, `NothingDropped`, `EveryLayerEnforced` | two routes over every mix of pattern, scope and condition; bundles in either or both places with and without renamed keys; all expressions of depth two with minimal and full brackets, quoted texts of up to three marks; blocks nested up to the depth at which every check recurses, in all four sections; override instances that can and cannot be created; every pairing of global and route sections, bundles joined by tag and by group |
| `configuration_groups` | `GroupsStackLikeTags`, which fails | the documents of `configuration`; see section 5 |
| `decisions` | `DecisionsFailClosed`, `EditsReachTheMessage`, `RestrictionsHold`, `CredentialsAuthentic` | every type of value against every operator; three calls on a decision point so that its cache fills and is hit; two stages of a pipeline; messages of two parts; two restrictions on one request; a resolver of two fetched issuers through refreshes that succeed, fail and rotate; two delegations of one request in either order, with each party as subject and actor; a part that a plugin replaced by text; every configuration of the store over four hosts, with and without an '@' behind the host |

`configuration` and `decisions` pose a question and answer it in the next step, so their state
space is the set of inputs (and, for identity, the states of a resolver over its
refreshes); the property compares the answer with a definition of what it should
be that does not share the code's structure. The constants that stand for widths
(2^53, `i64::MAX`) are scaled down to 8 or 9.

Each stateful module has a type invariant `TypeOK`; for the eight modules with
proofs it is a theorem.

`CHECK_DEADLOCK FALSE` is set where the system really stops: a call has
returned, a request is over, or the bound on publications is reached.

**Fairness.** `Returns` assumes that the runtime polls its tasks and, with a
timeout configured, that the timer fires: every branch ends. `HookAnswered`
assumes the same of handlers, which the executor wraps in a timeout in every
phase it waits for. `Evaluated` assumes that every call of the route is answered
(plugins by the executor's timeout; decision points and the like by their own).
`Answered` assumes weak fairness of a request's own steps, which include the
timeouts of both store calls, and nothing of the store. `AttemptAnswered`
assumes weak fairness of the gateway, which includes its HTTP timeout, and
nothing of the provider, of the human or of the agent. No fairness is assumed
for aborts, panics, denials, restarts or expiry.

**Mutants.** Every property of every passing run has a mutant: an operator next to the
definition it would replace, marked `mutant`, with which the property fails. No
specification uses them.

## 4. What is proved

For every value of the constants that satisfies the named assumptions:

- `BranchesProofs`, from `BranchesAssumption`: `TypeCorrect`, `DenyReported`
  (`NoDenyLost`), `OutcomesDeliverable`, and `ImplementsFates`: `Branches`
  implements `BranchFates`. The inductive invariant says that a slot of `done` is
  the end of its task, that an abort has a deny behind it in `done`, that a
  timeout needs a configured one, and that the returned vector is the fates.
- `ExecutorProofs`, from `ExecutorAssumption`: `TypeCorrect`, `AllowedIsSound`,
  `DeniedIsExplained`, `ErrorsAreExact`, `BreakerIsSound`, and the action property
  `TiersHold`. None of the invariants is inductive alone: that an allow means that
  every entry passed needs to know which entries are still queued and that what
  left the queue has a fate; `PhaseInv` says so, phase by phase. `TiersHold` rests
  on `AcceptWithinTiers`, a lemma about the merge for any returned value whose
  credentials are handed back as `HandsBack` says.
- `DispatchCacheProofs`, from `CacheAssumption`: `TypeCorrect`, `PlansAreFresh`,
  `CachedPlansAreWhole`. The argument: a bump is the only step that completes a
  mutation, so as long as the generation is the one a planner read, nothing has
  completed since; and if moreover no mutator is between its store and its bump,
  nothing was published since either, so all entries come from one snapshot.

- `PolicyEngineProofs`, from `EngineAssumption`: `TypeCorrect`, `CacheBounded`
  (`CacheWithinCapacity`), `OutdatedByRaceOnly` (`OutdatedOnlyByRace`). An insert
  compares the size with its own snapshot's capacity under the lock; as long as
  that snapshot is the published one the cache stays within it, and a publication
  that lowers the capacity is followed by a clear, unless the mutator had not seen
  the config it replaced. For the second, versions tell whether a
  mutator has seen every publication: if it has and is not going to clear the
  cache, what it will publish resolves every request as the current snapshot does
  (`KeepsLineups`), so its store makes no entry outdated; if it has not, its store
  is the race that the property excuses.
  The module also proves, from `RoutingAssumption`, `RoutingMostSpecific`
  (`MostSpecificRoute`) and `RoutingNoLayerLost` (`NoLayerLost`), for documents of
  any number of routes, bundles and steps and for any request. For the first, the
  score of a route that matches is a sum of a base and bonuses, and the lemmas show
  that it orders routes as their ranks do; the loop keeps the first of the highest.
  For the second, the identity lineup is followed from the written steps through
  the flattening of layers, the filter on registered names and the replacement by
  the route; for plugins, every entry runs under the settings it was given or,
  where no instance can be created for them, under its own (`RunsUnder`); the last reference of a name and its layer decide
  position, settings and condition, and a later layer moves a name behind the
  earlier ones. Positions in flattened and filtered sequences are lemmas.
- `LifecycleProofs`, from `LifecycleAssumption`: `TypeCorrect`, `IndexStaysExact`
  (`IndexExact`), `NeverHalfStarted` (`AllOrNothing`), `TasksDrainedFirst`
  (`DrainedBeforeTeardown`). `IndexExact` is inductive once no plugin is registered
  twice; the work is in lemmas on insertion into and removal from a sequence.
  `AllOrNothing` speaks of idle moments only: the invariant adds that without
  overlap at most one call is in progress, and that every plugin that is up is on
  the list this call will still roll back or tear down.
- `RouteHandlerProofs`, from `HandlerAssumption`: `TypeCorrect`,
  `EveryEditDelivered` (`EditsDelivered`), `LabelsStoredBeforeForward`
  (`ForwardedLabelsStored`), `HistorySeen` (`SessionSeesHistory`),
  `SubjectsIsolated` (`LabelsStayWithSubject`) and the action property
  `RedactionStays` (`RedactionKept`). The heart is `CallsInv`: calls overlap only in
  a parallel block, where the load-time check lets nobody modify, so what a running
  call copied is still what it would copy now and its write-back loses nothing. In
  a block that was not checked (`racing`) messages may differ, but the labels that
  two overlapping calls do not both have are among the taints that a finished one
  has reported (`Told`), so no label is lost there either. `LabelsInv` follows a
  label from its emission over the append to the store, whether or not the reply
  arrives, and `SubjectInv` says that a session holds only labels of requests with
  its id (`EmittedIn`), for any hash.
- `ElicitationProofs`, from `ElicitationAssumption`: `TypeCorrect`,
  `ApprovalRequired` (`ForwardedIsApproved`), `DenialStands` (`NoMeansNo`),
  `ApprovalReplayed` (`ReplayHonoured`). The store agrees with the provider about
  who was asked, and holds a resolution only of an approval that the provider has
  handed out; such an approval never changes again (`OpStable`), so what an
  attempt has learnt stays true whatever the others do. An id whose reply is on
  its way is known to nobody else (`MintedInv`). `AskedInv` ties an approval to the
  step that asked for it: the first of its route that is not lenient, or a lenient
  one before it, whence the bound on what a strict step can be given.
  The module also proves, from `CredentialsAssumption`, `CredentialsKept`
  (`CredentialsAuthentic`). For identity the invariant (`ResolverInv`) says that
  decoders and what their issuers last published stay in step, that a refresh task
  polls the endpoint of the issuer it writes to, and that the issuers still to be
  fetched are those of the configuration; a verification then accepts a token only
  under a key that was published. For delegation, a step that is prepared carries
  the credentials of the parties it names (`StepPrepared`), is answered with a token
  within the bound or refused (`HandledOrRefused`), and is filed (`StepCompleted`)
  under a key that two different mintings cannot share unless they differ in the
  acting user alone (`KeysTellApart`). The store is by cases on what the
  configuration block says.
- `EvaluatorProofs`, from `EvaluatorAssumption`: `TypeCorrect`,
  `NoRefusalForwarded` (`ForwardedMeansNoRefusal`), `DenyExplained`
  (`DenyIsExplained`), `DecisionWhole` (`DecisionIsWhole`), for routes of any size
  and any depth of nesting. Because a route is a tree, there is a set of effects
  dispatched so far such that whatever a walk has before it is new and has one
  place (`OnceInv`); hence a branch is spawned once, and its frame is nobody
  else's. A walk that goes on after a refusal has the decision point's deny still
  before it (`RefusedInv`). A branch that halted or was aborted is waited for by a
  walk that will halt too, and hands its accumulators up when it is joined
  (`BranchInv`); an aborted branch that is waited for has a halting sibling. A halt
  comes with the chain of halted walks that leads to the effect that refused
  (`CauseInv`). The theorems follow by descent: a branch has a larger number than
  the walk that spawned it, so what passes from branches to their owners passes to
  the route. The two recursive definitions that the properties and the load-time
  check use are unfolded by giving each a solution that is not recursive, a set
  closed under the recursion (`MutationUnfolds`, `ReportedUnfolds`).

The assumptions bind the tables of a model to their types (which plugins serve
which hooks, which routes exist), the bounds to the naturals, and the values that
stand for an absent option or an untouched field (`None`, `"original"`) to be
different from real ones; `Evaluator`'s says that a route is a tree, which the
ownership of `Effect` values in Rust guarantees, and those of `RouteResolution` and
`Credentials` give documents, requests and replies their types and say that no real
key is the one that stands for none. None restricts what the code would
accept. Every inductive invariant was checked by TLC on the instance of its run
before it was proved.

Only model-checked:

- liveness (`Returns`, `HookAnswered`, `Evaluated`, `Answered`, `AttemptAnswered`),
  which is out of the prover's reach;
- `ReadsAsWritten`, `NothingDropped` and `EveryLayerEnforced`, about text, blocks and
  layers, whose parsers and compilers are RECURSIVE operators over nested data: the
  claims need induction over that data, which the prover cannot do;
- `DecisionsFailClosed`, `EditsReachTheMessage` and `RestrictionsHold`, for the same
  reason: conditions, JSON values, messages and patterns are recursive.

## 5. Where code and documentation disagree

The models follow the code. One disagreement has a run of its own, a finding:
`configuration_groups` refutes `GroupsStackLikeTags`. The comment on
`RouteEntry::groups` (`config.rs:322-324`) says that `groups: [hr-tools]` and
`meta: { tags: [hr-tools] }` "resolve identically"; `visit_route`
(`visitor.rs:638-642`) stacks the bundles of `meta.tags` alone, so the policy steps
of a bundle joined by `groups:` are on no handler.

No run is spent on the others; each is visible in the module named, and a property
that said what the documentation says would be refuted. Where a property would
otherwise say more than the code gives, it names the exception:

| property | exception it names | where |
|---|---|---|
| `AllowedMeansAllPassed` | a sequential plugin that says no without a violation is let through | `executor.rs:489` |
| `TierDiscipline` | credentials that a plugin was not shown go when a handler hands back its view with a minted token; `detail` of a hop is not compared | `container.rs:300`, `418-444` |
| `OutdatedOnlyByRace`, `CacheWithinCapacity` | a late insert, a mutator that publishes over what it has not seen, a clear that is pending | `engine.rs:394`, `1512` |
| `AllOrNothing` | overlapping calls of `initialize` and `shutdown` | `engine.rs:875` |
| `ForwardedMeansNoRefusal` | a branch that panicked | `evaluator.rs:1135` |
| `EditsDelivered` | plugins that modify side by side under the global catch-all: one may undo the other | `visitor.rs:526` |
| `ForwardedLabelsStored`, `SessionSeesHistory` | a key that lapsed | `store.rs:138` |
| `LabelsStayWithSubject` | subjects whose `subject:value` have one short hash | `session_resolver.rs:81-98` |
| `ForwardedIsApproved` | the approval of an earlier step of the route, or of a step of another route, stands for a strict step | `evaluator.rs:857` |
| `NoMeansNo` | a lost reply | `approver.rs:320` |
| `NoLayerLost` | base settings where no override instance can be created; no authentication steps from runtime tags | `engine.rs:1477-1486`, `config.rs:928` |
| `EditsReachTheMessage` | where a plugin left several text parts and a pipeline wrote an equal value, the first part receives the whole text | `message_projection.rs:35` |
| `CredentialsAuthentic` | tokens that differ only in the acting user share a key; an '@' behind the host of the endpoint decides whether it counts as loopback | `payload.rs:641`, `config.rs:266` of the valkey store |

Executor, orchestration and extensions:

- `continue_processing = false` without a violation does not halt a sequential
  phase (`executor.rs:489`, against `hooks/trait_def.rs:171`).
- A sequential plugin that blocks loses its local state (`executor.rs:494`,
  against `context.rs:110-112`).
- Failures of fire-and-forget plugins are logged only: they neither trip the
  breaker (against `executor.rs:717-719`) nor reach `wait_for_background_tasks`
  (against `executor.rs:393-395`).
- A plugin with `append_labels` but not `read_labels` cannot append once a label
  is set (against `executor.rs:546-550`).
- `chain_extends` does not compare every field of an existing hop (against
  `container.rs:373-375`); raw credentials are replaced without a write token
  (`container.rs:300`, against `container.rs:270-272`).
- A framework handler that cannot read delegated tokens and hands back a minted
  one wipes those it was not shown (against `container.rs:270-272`).
- A branch that fails does not short-circuit the others (against
  `executor.rs:768-774`).

Engine (`PolicyEngine`, `Lifecycle`, `DispatchCache`):

- The routing cache is keyed without the request's tags although the lineup
  depends on them; the first request decides for the later ones
  (`engine.rs:1494`, against `extensions/meta.rs:30-31`).
- Two concurrent mutations of the snapshot: the one stored first is lost
  (`engine.rs:390-400`); a request may be given a lineup cached from another
  snapshot than its own (against `engine.rs:145-146`).
- `load_config_yaml` publishes before its visitors have run (`engine.rs:598`).
  The visitor's layers are not cleared on a reload: layers that were removed
  stay, and a changed PDP configuration is ignored.
- `shutdown` walks a hash map, not "reverse registration order"
  (`engine.rs:930`). Overlapping calls of `initialize` may roll back plugins of
  an engine that is up; override instances are never shut down; a plugin
  registered after `initialize` is never initialized. An override instance whose
  `initialize` fails is left out of a plan that is then cached
  (`dispatch_plan.rs:190`).

Evaluator and invokers:

- A parallel branch that panics is dropped with the deny of its decision point
  (`evaluator.rs:1135`, against `rules.rs:257`); taints of aborted branches are
  lost (against `rules.rs:258`).
- `delegation.granted` survives a later delegation that is denied under
  `on_error: continue` (`evaluator.rs:528`, against `step.rs:970-972`).
- The steps of a route share `elicitation.id`: the second of two strict steps takes
  the approval of the first for its own, although the responder is said to be
  cross-checked against the step's `from` (`evaluator.rs:857`, against
  `step.rs:241-243`).
- A `parallel:` block of the global policy is checked where routes stack it and not
  in the catch-all for requests without an entity, so plugins that modify may lose
  each other's edits there (`visitor.rs:526-562`, against
  `parallel_safety.rs`).
- A token that a user obtains as the actor for a client or workload is stored under
  the same key as one without (`payload.rs:641-648`); a provider's `expires_in`
  beyond what `chrono` holds panics (`delegator.rs:540`).
- `auth_enforced_by: both` is read as caller (`delegation_invoker.rs:381-388`);
  `delegation.scope_too_broad` is raised for a grant that is narrower than asked,
  and a broader one is accepted; the doc of `role_from_cfg` says that an
  unrecognized actor is left out, the code refuses it.

Configuration (`ConfigResolution`, `PolicyBlocks`, `AplLayers`):

- Runtime tags add the plugins of their bundles and none of their authentication
  steps (against `config.rs:928-931`); a plugin whose override instance cannot be
  created runs with its base settings.
- A `?` pattern scores as an exact name. Plugins of `global.defaults` are not
  validated, and `authentication` there is parsed and never used.
- `restrict:` with a list as its body becomes a rule whose predicate is
  `restrict`; a map with one unknown key and a map body becomes a call of a
  custom decision point.
- The docs of `RouteYaml` (`parser.rs:2705-2718`) say that nested and flat
  entries are merged; writing both is refused. `CompiledRoute.response` is said
  to be layered (`rules.rs`, "Most-specific layer wins") and never is.
- An `apl:` wrapper, even null, drops the flat keys beside it without a word;
  `attribute_files` is missing from `FLAT_APL_KEYS`.
- A glob route is annotated under its literal pattern and looked up by exact
  name, so its APL policy never fires. Of two routes of the same entity and
  scope the last annotation wins while `find_matching_route` takes the first.

Decisions, identity and messages:

- CEL with `on_error: allow` also allows when the compile cache is full, where
  OPA denies. An operator's `context` replaces whole namespaces in Cedar.
- Allow lists that hold patterns are intersected literally, so `v*` and `va`
  have nothing in common; `glob_match` prefers a literal `*` in the text.
- The capability table lacks `team.*`, `this_workload.*` and `security.labels`;
  a dotted key and a nested one, or header names that differ in case, collide on
  one bag key and the last iterated wins; `merge_attribute_docs` does not see
  that collision as a conflict.
- The identity resolver falls back to the raw token whenever the configured
  header is missing (against `resolver.rs:422-428`). Of two entries for one
  issuer only the first is consulted; a second `initialize` duplicates issuers
  and tasks; with `refresh_secs: 0` the refresh task ends at once.
- The text of a message with several text parts is written back into the first
  one, joined.
- `ttl_seconds: 0` is accepted although the comment at `config.rs:150-156` of the
  valkey store says that a non-positive lifetime deletes the key; an unbracketed
  `::1` is not recognised as local. The loopback check reads what follows the last
  '@' of the whole endpoint, and the URL's own host is dialled, so TLS may be
  waived for a host that is not loopback (`config.rs:261-274`, `205`, `219`).
- The PII scanner documents that the pattern's name becomes the violation code
  (`scanner.rs:61-66`); the code is always `pii.detected`. It does not look into
  nested values, thinking, tool results or resources.
- `is_pre` and `is_post` of a message view test for a substring; arguments are
  part of a serialised view even when content is not asked for.

## 6. Not modelled

The facade and the tools; error and log wording; factories and hook metadata
(glue); the engines behind the decision points, the JWT library, the valkey
client and the identity provider, which are inputs; file and YAML reading;
memory ordering weaker than sequential consistency; poisoned locks; a panic of a
serial handler; real time (a timeout may fire and a key may lapse at any moment).
`IdentityPayload::merge` and `DelegationPayload::merge` are called by tests only.

## 7. Plan

Every safety property that a run checks of a component with state of its own, of
routing and of credentials is proved. What stays with TLC is liveness and the six
properties over recursive data (section 4).
