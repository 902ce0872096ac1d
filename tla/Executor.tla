------------------------------ MODULE Executor ------------------------------
(***************************************************************************)
(* The five-phase hook executor of crates/ppe-core/src/executor.rs, run by *)
(* several requests at once over the same registered plugins.              *)
(*                                                                         *)
(* A hook invocation groups its entries by mode once (group_by_mode,       *)
(* registry.rs), runs the SEQUENTIAL and TRANSFORM plugins one at a time,  *)
(* then the AUDIT plugins, then all CONCURRENT plugins through             *)
(* run_branches, and at last spawns the FIRE_AND_FORGET plugins. Requests  *)
(* interleave between handler calls; what they share is the circuit        *)
(* breaker of each plugin. The context table and the extensions of one     *)
(* hook invocation are the host's input to the next.                       *)
(***************************************************************************)
EXTENDS Extensions, BranchOutcomes

CONSTANTS
    NumEntries,     \* the hook's entries, numbered in priority order
    Mode,           \* PluginConfig::mode of each
    OnError,        \* PluginConfig::on_error of each
    Caps,           \* PluginConfig::capabilities of each
    Requests,
    MaxHooks,       \* bound: hook invocations per request
    ShortCircuit,   \* ExecutorConfig::short_circuit_on_deny
    HostExtensions, \* the extensions the host may start a request with
    Proposals(_, _) \* Proposals(p, view): the extensions plugin p may return

Plugin == 1 .. NumEntries

Modes == {"Sequential", "Transform", "Audit", "Concurrent", "FireAndForget", "Disabled"}
SerialPhases == {"Sequential", "Transform"}

ASSUME ExecutorAssumption ==
    /\ NumEntries \in Nat
    /\ Mode \in [Plugin -> Modes]
    /\ OnError \in [Plugin -> {"Fail", "Ignore", "Disable"}]
    /\ Caps \in [Plugin -> SUBSET Capability]
    /\ MaxHooks \in Nat
    /\ ShortCircuit \in BOOLEAN
    /\ HostExtensions \subseteq ExtensionsType
    /\ None \notin Plugin
    /\ None \notin ExtensionsType

VARIABLES
    tripped,    \* the plugins whose circuit breaker is set (PluginRef::disabled)
    hook,       \* hook[r]: hook invocations request r has started
    queue,      \* queue[r][m]: entries of mode m still to run in this hook
    payload,    \* payload[r]: the plugin that wrote the current payload, or None
    modified,   \* modified[r]: payload_modified
    ext,        \* ext[r]: the canonical extensions
    locals,     \* locals[r]: the plugins with an entry in context_table.local_states
    global,     \* global[r]: the plugins whose write context_table.global_state holds
    errors,     \* errors[r][p]: records of p in PipelineResult.errors
    verdict,    \* verdict[r]: "Idle", "Running", "Allowed" or "Denied"
    violator,   \* violator[r]: plugin_name of the violation, or None
    background, \* background[r][h][p]: the fire-and-forget task hook h spawned for p
    awaited,    \* awaited[r][h]: what wait_for_background_tasks reported, or None
    \* history, read by the properties only:
    fate,       \* fate[r][p]: how p's handler ended in this hook, or "None"
    barred      \* barred[r]: the plugins tripped when this hook was started

pipeline == <<queue, payload, modified, ext, locals, global, errors, verdict, violator, fate>>
vars == <<tripped, hook, pipeline, background, awaited, barred>>

Hooks == 1 .. MaxHooks
Failures == {"Error", "TimedOut", "Panicked"}
Ends == {"None", "Allow", "Deny", "DenyBare", "Aborted"} \cup Failures

TypeOK ==
    /\ tripped \subseteq Plugin
    /\ hook \in [Requests -> 0 .. MaxHooks]
    /\ queue \in [Requests -> [Modes -> SUBSET Plugin]]
    /\ payload \in [Requests -> Maybe(Plugin)]
    /\ modified \in [Requests -> BOOLEAN]
    /\ ext \in [Requests -> ExtensionsType]
    /\ locals \in [Requests -> SUBSET Plugin]
    /\ global \in [Requests -> SUBSET Plugin]
    /\ errors \in [Requests -> [Plugin -> Nat]]
    /\ verdict \in [Requests -> {"Idle", "Running", "Allowed", "Denied"}]
    /\ violator \in [Requests -> Maybe(Plugin)]
    /\ background \in [Requests -> [Hooks -> [Plugin -> {"None", "Running", "Ok"} \cup Failures]]]
    /\ awaited \in [Requests -> [Hooks -> Maybe(SUBSET Plugin)]]
    /\ fate \in [Requests -> [Plugin -> Ends]]
    /\ barred \in [Requests -> SUBSET Plugin]

EmptyQueue == [m \in Modes |-> {}]
NoErrors == [p \in Plugin |-> 0]
NoFates == [p \in Plugin |-> "None"]
NoTasks == [p \in Plugin |-> "None"]

Init ==
    /\ tripped = {}
    /\ hook = [r \in Requests |-> 0]
    /\ queue = [r \in Requests |-> EmptyQueue]
    /\ payload = [r \in Requests |-> None]
    /\ modified = [r \in Requests |-> FALSE]
    /\ ext \in [Requests -> HostExtensions]
    /\ locals = [r \in Requests |-> {}]
    /\ global = [r \in Requests |-> {}]
    /\ errors = [r \in Requests |-> NoErrors]
    /\ verdict = [r \in Requests |-> "Idle"]
    /\ violator = [r \in Requests |-> None]
    /\ background = [r \in Requests |-> [h \in Hooks |-> NoTasks]]
    /\ awaited = [r \in Requests |-> [h \in Hooks |-> None]]
    /\ fate = [r \in Requests |-> NoFates]
    /\ barred = [r \in Requests |-> {}]

-----------------------------------------------------------------------------
EffectiveModeConfigured(p) == Mode[p]       \* mutant: the breaker is not consulted

EffectiveMode(p) == IF p \in tripped THEN "Disabled" ELSE Mode[p]

GroupByMode ==
    [m \in Modes |-> {p \in Plugin : m # "Disabled" /\ EffectiveMode(p) = m}]

\* execute, up to the first phase: the breakers are read once, here.
Execute(r) ==
    /\ verdict[r] # "Running"
    /\ hook[r] < MaxHooks
    /\ hook' = [hook EXCEPT ![r] = @ + 1]
    /\ queue' = [queue EXCEPT ![r] = GroupByMode]
    /\ payload' = [payload EXCEPT ![r] = None]
    /\ modified' = [modified EXCEPT ![r] = FALSE]
    /\ errors' = [errors EXCEPT ![r] = NoErrors]
    /\ verdict' = [verdict EXCEPT ![r] = "Running"]
    /\ violator' = [violator EXCEPT ![r] = None]
    /\ fate' = [fate EXCEPT ![r] = NoFates]
    /\ barred' = [barred EXCEPT ![r] = tripped]
    /\ UNCHANGED <<tripped, ext, locals, global, background, awaited>>

\* The phases that have to be over before phase m.
Before(m) ==
    CASE m = "Sequential" -> {}
      [] m = "Transform" -> {"Sequential"}
      [] m = "Audit" -> {"Sequential", "Transform"}
      [] m = "Concurrent" -> {"Sequential", "Transform", "Audit"}
      [] m = "FireAndForget" -> {"Sequential", "Transform", "Audit", "Concurrent"}

Reached(r, m) ==
    /\ verdict[r] = "Running"
    /\ \A earlier \in Before(m) : queue[r][earlier] = {}

\* It is p's turn in a phase that runs its entries one at a time.
Turn(r, m, p) ==
    /\ Reached(r, m)
    /\ p \in queue[r][m]
    /\ \A q \in queue[r][m] : p <= q

Pop(r, m, p) == queue' = [queue EXCEPT ![r][m] = @ \ {p}]

Record(r, p, end) == fate' = [fate EXCEPT ![r][p] = end]

LogError(r, p) == errors' = [errors EXCEPT ![r][p] = @ + 1]

Disable(p) == tripped' = IF OnError[p] = "Disable" THEN tripped \cup {p} ELSE tripped

\* PipelineResult::denied: the pipeline is halted with a violation of p.
Deny(r, p) ==
    /\ verdict' = [verdict EXCEPT ![r] = "Denied"]
    /\ violator' = [violator EXCEPT ![r] = p]
    /\ queue' = [queue EXCEPT ![r] = EmptyQueue]
    /\ payload' = [payload EXCEPT ![r] = None]
    /\ modified' = [modified EXCEPT ![r] = FALSE]

-----------------------------------------------------------------------------
(* run_serial_phase, one plugin. Only SEQUENTIAL can block.                *)

Replies(p, view) ==
    [continue : BOOLEAN, violation : BOOLEAN, payload : BOOLEAN,
     extensions : Maybe({owned \in Proposals(p, view) \cap ExtensionsType : HandsBack(view, owned)})]

ReplyEnd(reply) ==
    IF reply.continue THEN "Allow" ELSE IF reply.violation THEN "Deny" ELSE "DenyBare"

\* An early return: take_context has removed the plugin's local_state, and
\* nothing puts it back.
SerialDeny(r, p, end) ==
    /\ Deny(r, p)
    /\ Record(r, p, end)
    /\ locals' = [locals EXCEPT ![r] = @ \ {p}]
    /\ UNCHANGED <<tripped, hook, ext, global, errors, background, awaited, barred>>

\* store_context: local_state goes back, global_state is what the plugin left.
StoreContext(r, p) ==
    /\ locals' = [locals EXCEPT ![r] = @ \cup {p}]
    /\ \E written \in {{}, {p}} : global' = [global EXCEPT ![r] = @ \cup written]

SerialAccept(r, m, p, reply) ==
    /\ payload' = IF reply.payload THEN [payload EXCEPT ![r] = p] ELSE payload
    /\ modified' = [modified EXCEPT ![r] = @ \/ reply.payload]
    /\ ext' = IF reply.extensions = None
              THEN ext
              ELSE [ext EXCEPT ![r] = AcceptExtensions(@, reply.extensions, Caps[p])]
    /\ StoreContext(r, p)
    /\ Record(r, p, ReplyEnd(reply))
    /\ Pop(r, m, p)
    /\ UNCHANGED <<tripped, hook, errors, verdict, violator, background, awaited, barred>>

SerialReply(r, m, p) ==
    /\ Turn(r, m, p)
    /\ \E reply \in Replies(p, FilterExtensions(ext[r], Caps[p])) :
            IF m = "Sequential" /\ ~reply.continue /\ reply.violation
            THEN SerialDeny(r, p, ReplyEnd(reply))
            ELSE SerialAccept(r, m, p, reply)

SerialSwallow(r, m, p, end) ==
    /\ LogError(r, p)
    /\ Disable(p)
    /\ StoreContext(r, p)
    /\ Record(r, p, end)
    /\ Pop(r, m, p)
    /\ UNCHANGED <<hook, payload, modified, ext, verdict, violator, background, awaited, barred>>

SerialNeverBlocks(r, m, p) ==       \* mutant: on_error Fail is not consulted
    Turn(r, m, p) /\ \E end \in {"Error", "TimedOut"} : SerialSwallow(r, m, p, end)

SerialFailure(r, m, p) ==
    /\ Turn(r, m, p)
    /\ \E end \in {"Error", "TimedOut"} :
            IF m = "Sequential" /\ OnError[p] = "Fail"
            THEN SerialDeny(r, p, end)
            ELSE SerialSwallow(r, m, p, end)

-----------------------------------------------------------------------------
(* run_ref_phase, one plugin: whatever the handler returns is discarded.   *)

AuditReply(r, p) ==
    /\ Turn(r, "Audit", p)
    /\ \E end \in {"Allow", "Deny", "DenyBare"} : Record(r, p, end)
    /\ Pop(r, "Audit", p)
    /\ UNCHANGED <<tripped, hook, payload, modified, ext, locals, global, errors, verdict,
                   violator, background, awaited, barred>>

AuditFailureSilent(r, p) ==         \* mutant: the failure is only logged
    /\ Turn(r, "Audit", p)
    /\ \E end \in {"Error", "TimedOut"} : Record(r, p, end)
    /\ Pop(r, "Audit", p)
    /\ UNCHANGED <<tripped, errors, hook, payload, modified, ext, locals, global, verdict,
                   violator, background, awaited, barred>>

AuditFailure(r, p) ==
    /\ Turn(r, "Audit", p)
    /\ \E end \in {"Error", "TimedOut"} : Record(r, p, end)
    /\ LogError(r, p)
    /\ Disable(p)
    /\ Pop(r, "Audit", p)
    /\ UNCHANGED <<hook, payload, modified, ext, locals, global, verdict, violator, background,
                   awaited, barred>>

-----------------------------------------------------------------------------
(* run_concurrent_phase: all plugins through run_branches, then the        *)
(* post-loop over the outcomes, where the first halting one in input order *)
(* becomes the violation and the failures of Ignore and Disable plugins    *)
(* are recorded.                                                           *)

BranchData == {"Allow", "Deny", "DenyBare", "Error"}
BranchDenies == {"Deny", "DenyBare"}

HaltsOnDenyOnly(p, outcome) == outcome \in BranchDenies     \* mutant

Halts(p, outcome) ==
    outcome \in BranchDenies \/ (outcome \in Failures /\ OnError[p] = "Fail")

FirstHaltingLast(halting) == CHOOSE p \in halting : \A q \in halting : q <= p  \* mutant

FirstHalting(halting) == CHOOSE p \in halting : \A q \in halting : p <= q

ConcurrentResult(r, outcome) ==
    LET ps == queue[r]["Concurrent"]
        halting == {p \in ps : Halts(p, outcome[p])}
        swallowed == {p \in ps : outcome[p] \in Failures /\ OnError[p] # "Fail"}
    IN  /\ fate' = [fate EXCEPT ![r] = [p \in Plugin |-> IF p \in ps THEN outcome[p] ELSE @[p]]]
        /\ errors' = [errors EXCEPT ![r] =
                        [p \in Plugin |-> IF p \in swallowed THEN @[p] + 1 ELSE @[p]]]
        /\ tripped' = tripped \cup {p \in swallowed : OnError[p] = "Disable"}
        /\ \/ /\ halting = {}
              /\ queue' = [queue EXCEPT ![r]["Concurrent"] = {}]
              /\ UNCHANGED <<payload, modified, verdict, violator>>
           \/ halting # {} /\ Deny(r, FirstHalting(halting))

ConcurrentPhase(r) ==
    /\ Reached(r, "Concurrent")
    /\ queue[r]["Concurrent"] # {}
    /\ \E outcome \in Deliverable(queue[r]["Concurrent"], BranchData, BranchDenies, TRUE,
                                  ShortCircuit) : ConcurrentResult(r, outcome)
    /\ UNCHANGED <<hook, ext, locals, global, background, awaited, barred>>

-----------------------------------------------------------------------------
(* spawn_fire_and_forget and the allowed result.                           *)

FinishEarly(r) ==                   \* mutant: the concurrent phase is not awaited
    /\ Reached(r, "Concurrent")
    /\ queue' = [queue EXCEPT ![r] = EmptyQueue]
    /\ verdict' = [verdict EXCEPT ![r] = "Allowed"]
    /\ UNCHANGED <<tripped, hook, payload, modified, ext, locals, global, errors, violator, fate,
                   background, awaited, barred>>

FinishUnanswered(r) ==              \* mutant: waits for the background tasks it spawned
    /\ Reached(r, "FireAndForget")
    /\ \A p \in Plugin : background[r][hook[r]][p] # "Running"
    /\ background' = [background EXCEPT ![r][hook[r]] = [p \in Plugin |->
            IF p \in queue[r]["FireAndForget"] THEN "Running" ELSE "None"]]
    /\ queue' = queue
    /\ verdict' = IF queue[r]["FireAndForget"] = {}
                  THEN [verdict EXCEPT ![r] = "Allowed"] ELSE verdict
    /\ UNCHANGED <<tripped, hook, payload, modified, ext, locals, global, errors, violator, fate,
                   awaited, barred>>

Finish(r) ==
    /\ Reached(r, "FireAndForget")
    /\ background' = [background EXCEPT ![r][hook[r]] = [p \in Plugin |->
            IF p \in queue[r]["FireAndForget"] THEN "Running" ELSE "None"]]
    /\ queue' = [queue EXCEPT ![r]["FireAndForget"] = {}]
    /\ verdict' = [verdict EXCEPT ![r] = "Allowed"]
    /\ UNCHANGED <<tripped, hook, payload, modified, ext, locals, global, errors, violator, fate,
                   awaited, barred>>

\* A background task ends; an error or a timeout is logged, nothing else.
BackgroundEnds(r, h, p) ==
    /\ background[r][h][p] = "Running"
    /\ \E end \in {"Ok"} \cup Failures : background' = [background EXCEPT ![r][h][p] = end]
    /\ UNCHANGED <<tripped, hook, pipeline, awaited, barred>>

\* The host awaits the handles it was given: only a panic surfaces.
WaitForBackgroundTasks(r, h) ==
    /\ awaited[r][h] = None
    /\ \E p \in Plugin : background[r][h][p] # "None"
    /\ \A p \in Plugin : background[r][h][p] # "Running"
    /\ awaited' = [awaited EXCEPT ![r][h] = {p \in Plugin : background[r][h][p] = "Panicked"}]
    /\ UNCHANGED <<tripped, hook, pipeline, background, barred>>

-----------------------------------------------------------------------------
HookStep(r) ==
    \/ \E m \in SerialPhases, p \in Plugin : SerialReply(r, m, p) \/ SerialFailure(r, m, p)
    \/ \E p \in Plugin : AuditReply(r, p) \/ AuditFailure(r, p)
    \/ ConcurrentPhase(r)
    \/ Finish(r)

Next ==
    \E r \in Requests :
        \/ Execute(r)
        \/ HookStep(r)
        \/ \E h \in Hooks : WaitForBackgroundTasks(r, h)
        \/ \E h \in Hooks, p \in Plugin : BackgroundEnds(r, h, p)

Spec == Init /\ [][Next]_vars

(* Every handler call is bounded by a timeout and the runtime polls the    *)
(* request's future, so a started hook keeps taking steps. The host is     *)
(* under no obligation to start one.                                       *)
FairSpec == Spec /\ \A r \in Requests : WF_vars(HookStep(r))

-----------------------------------------------------------------------------
(* What blocks by the contract of PluginResult (hooks/trait_def.rs:171): a *)
(* sequential or concurrent plugin that says continue_processing = false,  *)
(* with or without a violation, or that fails while its on_error is Fail.  *)
Blocks(p, end) ==
    /\ Mode[p] \in {"Sequential", "Concurrent"}
    /\ end \in {"Deny", "DenyBare"} \/ (end \in Failures /\ OnError[p] = "Fail")

(* Where the executor departs from the contract: a sequential plugin that  *)
(* says no and attaches no violation does not halt (executor.rs:489).      *)
LetThrough(p, end) == Mode[p] = "Sequential" /\ end = "DenyBare"

Stops(p, end) == Blocks(p, end) /\ ~LetThrough(p, end)

Awaited(p) == Mode[p] \in {"Sequential", "Transform", "Audit", "Concurrent"}

(* An allowed hook means what it says: every awaited entry whose breaker   *)
(* was closed ran to its end (none skipped, none aborted) and none of them *)
(* blocked, but for the one case the executor lets through: a sequential   *)
(* plugin that said no without a violation.                                *)
AllowedMeansAllPassed ==
    \A r \in Requests, p \in Plugin : verdict[r] = "Allowed" =>
        /\ Blocks(p, fate[r][p]) => LetThrough(p, fate[r][p])
        /\ Awaited(p) /\ p \notin barred[r] => fate[r][p] \notin {"None", "Aborted"}

DeniedRightly(r) ==
    LET v == violator[r]
    IN  /\ v # None
        /\ Stops(v, fate[r][v])
        /\ \A p \in Plugin : p < v /\ Mode[p] = Mode[v] => ~Stops(p, fate[r][p])
        /\ \A p \in Plugin :
                Mode[v] = "Sequential" /\ Mode[p] # "Sequential" => fate[r][p] = "None"

(* A denied hook names a plugin that really blocked, and the first one     *)
(* that the executor does not let through: no other entry of its phase     *)
(* with a better priority, and after a sequential deny no later phase ran. *)
DeniedByFirstBlocker == \A r \in Requests : verdict[r] = "Denied" => DeniedRightly(r)

(* PipelineResult.errors holds exactly the failures that did not halt the  *)
(* pipeline, each once, on allowed and on denied results alike.            *)
ErrorsExact ==
    \A r \in Requests, p \in Plugin :
        errors[r][p] = IF fate[r][p] \in Failures /\ ~Stops(p, fate[r][p]) THEN 1 ELSE 0

(* The breaker: an awaited plugin with on_error Disable that fails is      *)
(* tripped, and a hook started by any request after that runs it no more.  *)
BreakerHolds ==
    \A r \in Requests, p \in Plugin :
        /\ fate[r][p] \in Failures /\ OnError[p] = "Disable" => p \in tripped
        /\ p \in barred[r] => fate[r][p] = "None"

(* Extensions change only in the serial phases, by one plugin at a time,   *)
(* and by no plugin beyond its tiers, whatever the handler returns of the  *)
(* slots it may write: immutable slots stand, labels grow, the delegation  *)
(* chain grows with every hop's grant kept, headers, labels, chain and     *)
(* routing constraint take their capability.  Raw credentials, which no    *)
(* token guards, are kept as far as the plugin was shown them.             *)
TierDiscipline ==
    [][\A r \in Requests : ext'[r] # ext[r] =>
        \E p \in Plugin :
            /\ Mode[p] \in SerialPhases
            /\ fate[r][p] = "None" /\ fate'[r][p] # "None"
            /\ TierStep(ext[r], ext'[r], Caps[p])]_vars

(* A hook that was started is answered.                                    *)
HookAnswered == \A r \in Requests : verdict[r] = "Running" ~> verdict[r] # "Running"
=============================================================================
