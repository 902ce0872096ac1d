----------------------------- MODULE Lifecycle -----------------------------
(***************************************************************************)
(* What happens to plugin instances over the life of a PolicyEngine: their *)
(* registration under hooks (registry.rs), initialize and shutdown with    *)
(* their awaits (engine.rs), background tasks, and the extra instances     *)
(* that routes with overrides create.                                      *)
(*                                                                         *)
(* A plugin here is one instance; each is registered at most once. Host    *)
(* tasks call initialize and shutdown whenever they like.                  *)
(***************************************************************************)
EXTENDS Integers, SequencesExt

CONSTANTS
    Plugin, Hook, Caller,
    Serves,         \* Serves[p]: the hooks p has handlers for
    Priority,       \* Priority[p]
    Overriding,     \* the routes that override the config of a plugin
    Target,         \* Target[r]: the plugin that route r overrides
    Planned,        \* the routes whose override is built for a dispatch plan
    MaxTasks        \* bound: background tasks running at once

ASSUME LifecycleAssumption ==
    /\ Serves \in [Plugin -> SUBSET Hook]
    /\ Priority \in [Plugin -> Int]
    /\ Target \in [Overriding -> Plugin]
    /\ Planned \subseteq Overriding
    /\ MaxTasks \in Nat

VARIABLES
    names,      \* the registered plugins, in the order of registration
    index,      \* index[h]: hook_index, the entries of hook h
    life,       \* life[p]: what initialize and shutdown have done to p
    initialized,
    closed,     \* the task tracker
    tasks,      \* background tasks running; `late`: since the last drain
    call,       \* call[c]: initialize or shutdown in progress
    override,   \* override[r]: the entry held for overriding route r
    hist        \* history: past registrations, overlapping calls, instances booted

vars == <<names, index, life, initialized, closed, tasks, call, override, hist>>

NoCall == [pc |-> "idle", todo |-> {}, done |-> << >>]

CallRecord == [pc : {"idle", "init", "rollback", "drain", "teardown"},
               todo : SUBSET Plugin, done : Seq(Plugin)]

TypeOK ==
    /\ names \in Seq(Plugin)
    /\ index \in [Hook -> Seq(Plugin)]
    /\ life \in [Plugin -> {"new", "up", "down"}]
    /\ initialized \in BOOLEAN /\ closed \in BOOLEAN
    /\ tasks \in [running : 0 .. MaxTasks, late : 0 .. MaxTasks]
    /\ call \in [Caller -> CallRecord]
    /\ override \in [Overriding -> {"none", "own", "base", "absent"}]
    /\ hist \in [past : SUBSET Plugin, overlap : BOOLEAN, booted : SUBSET Plugin]

Init ==
    /\ names = << >>
    /\ index = [h \in Hook |-> << >>]
    /\ life = [p \in Plugin |-> "new"]
    /\ initialized = FALSE /\ closed = FALSE
    /\ tasks = [running |-> 0, late |-> 0]
    /\ call = [c \in Caller |-> NoCall]
    /\ override = [r \in Overriding |-> "none"]
    /\ hist = [past |-> {}, overlap |-> FALSE, booted |-> {}]

-----------------------------------------------------------------------------
(* The registry.                                                           *)

PushedOnly(entries, p) == Append(entries, p)        \* mutant: no sort

\* Push, then the stable sort by priority: the new entry ends up before the
\* first one of a higher priority number.
Pushed(entries, p) ==
    LET later == {i \in DOMAIN entries : Priority[entries[i]] > Priority[p]}
    IN  InsertAt(entries, Min(later \cup {Len(entries) + 1}), p)

\* retain: a plugin has at most one entry in a list.
Without(entries, p) ==
    IF p \in Range(entries)
    THEN RemoveAt(entries, CHOOSE i \in DOMAIN entries : entries[i] = p) ELSE entries

\* register, register_for_names, register_multi_handler: all of p's hooks, or
\* an error and nothing. clear_routing_cache forgets the override entries.
Register(p) ==
    /\ p \notin hist.past
    /\ names' = Append(names, p)
    /\ index' = [h \in Hook |-> IF h \in Serves[p] THEN Pushed(index[h], p) ELSE index[h]]
    /\ override' = [r \in Overriding |-> "none"]
    /\ hist' = [hist EXCEPT !.past = @ \cup {p}]
    /\ UNCHANGED <<life, initialized, closed, tasks, call>>

Unregister(p) ==
    /\ p \in Range(names)
    /\ names' = Without(names, p)
    /\ index' = [h \in Hook |-> Without(index[h], p)]
    /\ override' = [r \in Overriding |-> "none"]
    /\ hist' = [hist EXCEPT !.booted = @ \ {p}]
    /\ UNCHANGED <<life, initialized, closed, tasks, call>>

-----------------------------------------------------------------------------
(* initialize.                                                             *)

Busy == {c \in Caller : call[c].pc # "idle"}

\* The flag is read once; the snapshot is loaded once.
InitializeBegins(c) ==
    /\ call[c].pc = "idle" /\ ~initialized
    /\ call' = [call EXCEPT ![c] = [pc |-> "init", todo |-> Range(names), done |-> << >>]]
    /\ hist' = [hist EXCEPT !.overlap = @ \/ Busy # {}]
    /\ UNCHANGED <<names, index, life, initialized, closed, tasks, override>>

InitializePlugin(c, p) ==
    /\ call[c].pc = "init" /\ p \in call[c].todo
    /\ life' = [life EXCEPT ![p] = "up"]
    /\ call' = [call EXCEPT ![c].todo = @ \ {p}, ![c].done = Append(@, p)]
    /\ UNCHANGED <<names, index, initialized, closed, tasks, override, hist>>

AbandonPlugin(c) ==                     \* mutant: the plugins that are up stay up
    /\ call[c].pc = "init" /\ call[c].todo # {}
    /\ call' = [call EXCEPT ![c] = [pc |-> "rollback", todo |-> {}, done |-> << >>]]
    /\ UNCHANGED <<names, index, life, initialized, closed, tasks, override, hist>>

\* One plugin's initialize fails; the ones this call has initialized are shut
\* down, last first.
PluginFails(c) ==
    /\ call[c].pc = "init" /\ call[c].todo # {}
    /\ call' = [call EXCEPT ![c].pc = "rollback", ![c].todo = {}]
    /\ UNCHANGED <<names, index, life, initialized, closed, tasks, override, hist>>

RollBack(c) ==
    LET done == call[c].done
    IN  /\ call[c].pc = "rollback"
        /\ IF done = << >> THEN call' = [call EXCEPT ![c] = NoCall] /\ UNCHANGED life
           ELSE /\ life' = [life EXCEPT ![done[Len(done)]] = "down"]
                /\ call' = [call EXCEPT ![c].done = SubSeq(done, 1, Len(done) - 1)]
        /\ UNCHANGED <<names, index, initialized, closed, tasks, override, hist>>

InitializeEnds(c) ==
    /\ call[c].pc = "init" /\ call[c].todo = {}
    /\ initialized' = TRUE
    /\ hist' = [hist EXCEPT !.booted = Range(call[c].done) \cap Range(names)]
    /\ call' = [call EXCEPT ![c] = NoCall]
    /\ UNCHANGED <<names, index, life, closed, tasks, override>>

-----------------------------------------------------------------------------
(* shutdown and the task tracker.                                          *)

\* A hook spawns a fire-and-forget task; nothing asks whether the engine is
\* initialized, or shut down.
Spawn ==
    /\ names # << >> /\ tasks.running < MaxTasks
    /\ tasks' = [running |-> tasks.running + 1,
                 late |-> IF \E c \in Caller : call[c].pc = "teardown"
                          THEN tasks.late + 1 ELSE tasks.late]
    /\ UNCHANGED <<names, index, life, initialized, closed, call, override, hist>>

TaskEnds ==
    /\ tasks.running > 0
    /\ \/ tasks.late > 0 /\ tasks' = [running |-> tasks.running - 1, late |-> tasks.late - 1]
       \/ tasks.late < tasks.running /\ tasks' = [tasks EXCEPT !.running = @ - 1]
    /\ UNCHANGED <<names, index, life, initialized, closed, call, override, hist>>

ShutdownBegins(c) ==
    /\ call[c].pc = "idle" /\ initialized
    /\ closed' = TRUE
    /\ call' = [call EXCEPT ![c] = [pc |-> "drain", todo |-> {}, done |-> << >>]]
    /\ hist' = [hist EXCEPT !.overlap = @ \/ Busy # {}]
    /\ UNCHANGED <<names, index, life, initialized, tasks, override>>

NeverWaits == closed                    \* mutant: close() without wait()

\* TaskTracker::wait: closed and empty at some moment.
TrackerEmpty == closed /\ tasks.running = 0

Drained(c) ==
    /\ call[c].pc = "drain" /\ TrackerEmpty
    /\ call' = [call EXCEPT ![c].pc = "teardown", ![c].todo = Range(names)]
    /\ UNCHANGED <<names, index, life, initialized, closed, tasks, override, hist>>

\* An error of the plugin is logged; the next one is torn down all the same.
TearDown(c, p) ==
    /\ call[c].pc = "teardown" /\ p \in call[c].todo
    /\ life' = [life EXCEPT ![p] = "down"]
    /\ call' = [call EXCEPT ![c].todo = @ \ {p}]
    /\ UNCHANGED <<names, index, initialized, closed, tasks, override, hist>>

ShutdownEnds(c) ==
    /\ call[c].pc = "teardown" /\ call[c].todo = {}
    /\ initialized' = FALSE
    /\ call' = [call EXCEPT ![c] = NoCall]
    /\ hist' = [hist EXCEPT !.booted = {}]
    /\ tasks' = [tasks EXCEPT !.late = IF \E d \in Caller \ {c} : call[d].pc = "teardown" THEN @ ELSE 0]
    /\ UNCHANGED <<names, index, life, closed, override>>

-----------------------------------------------------------------------------
(* create_override_instance (routing) and build_override_entries (plans).  *)

\* The factory creates an instance with the merged config and initialize
\* succeeds: it serves the route, with a breaker of its own. Nothing ever
\* shuts it down.
OverrideBuilt(r) ==
    /\ override[r] = "none" /\ Target[r] \in Range(names)
    /\ override' = [override EXCEPT ![r] = "own"]
    /\ UNCHANGED <<names, index, life, initialized, closed, tasks, call, hist>>

\* No factory, create or initialize fails, no handler for the hook: a lineup
\* falls back to the base entry, a plan leaves the plugin out.
OverrideFails(r) ==
    /\ override[r] = "none" /\ Target[r] \in Range(names)
    /\ override' = [override EXCEPT ![r] = IF r \in Planned THEN "absent" ELSE "base"]
    /\ UNCHANGED <<names, index, life, initialized, closed, tasks, call, hist>>

-----------------------------------------------------------------------------
Next ==
    \/ \E p \in Plugin : Register(p) \/ Unregister(p)
    \/ \E c \in Caller :
          \/ InitializeBegins(c) \/ PluginFails(c) \/ RollBack(c) \/ InitializeEnds(c)
          \/ ShutdownBegins(c) \/ Drained(c) \/ ShutdownEnds(c)
          \/ \E p \in Plugin : InitializePlugin(c, p) \/ TearDown(c, p)
    \/ Spawn \/ TaskEnds
    \/ \E r \in Overriding : OverrideBuilt(r) \/ OverrideFails(r)

Spec == Init /\ [][Next]_vars

-----------------------------------------------------------------------------
\* Through any sequence of registrations, the entries of a hook are exactly
\* the registered plugins that serve it, each once, by priority and then by
\* order of registration (the executor's phases rely on that order).
IndexExact ==
    \A h \in Hook :
        LET At(p) == CHOOSE i \in DOMAIN names : names[i] = p
        IN  /\ Range(index[h]) = {p \in Range(names) : h \in Serves[p]}
            /\ \A i, j \in DOMAIN index[h] : i < j =>
                  LET former == index[h][i]
                      latter == index[h][j]
                  IN  \/ Priority[former] < Priority[latter]
                      \/ Priority[former] = Priority[latter] /\ At(former) < At(latter)

\* initialize brings up every plugin of the registry it saw, or none: unless
\* calls of initialize or shutdown overlapped, whenever none is in progress an
\* initialized engine has all of those up that are still registered, and an
\* engine that is not has no registered plugin up ("so the engine does not
\* come up half-started", engine.rs:873). An instance that was unregistered
\* while up is forgotten, not shut down.
AllOrNothing ==
    ~hist.overlap /\ Busy = {} =>
        IF initialized THEN \A p \in hist.booted : life[p] = "up"
        ELSE \A p \in Range(names) : life[p] # "up"

\* A plugin is torn down by shutdown only when every background task spawned
\* before the drain has ended; tasks of hooks invoked during the teardown
\* itself run against plugins that are going down.
DrainedBeforeTeardown ==
    (\E c \in Caller : call[c].pc = "teardown") => tasks.running = tasks.late
=============================================================================
