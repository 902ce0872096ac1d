---------------------------- MODULE RouteHandler ----------------------------
(***************************************************************************)
(* AplRouteHandler::invoke and what it drives for one request: the session *)
(* id (session_resolver.rs), hydration and persistence of session labels   *)
(* (session_store.rs, the Valkey store), the plugin calls of the route     *)
(* (cmf_invoker.rs) and the final decision (route_handler.rs).             *)
(*                                                                         *)
(* A request's payload and extensions live behind locks that a plugin call *)
(* takes twice: to copy them before the plugin runs, and to write back     *)
(* what came out. Calls of a `parallel:` block overlap. Requests of one    *)
(* session meet in the store only.                                         *)
(*                                                                         *)
(* The store is asked over the network: an append may be applied although  *)
(* the caller has given up on it, and a key with a time to live may lapse  *)
(* at any moment (time itself is not modelled).                            *)
(***************************************************************************)
EXTENDS Integers, FiniteSets, Sequences

CONSTANTS
    Request,
    Subject, Raw,       \* subject ids; session values an agent or a token names
    Session,            \* session ids
    ShortHash,          \* ShortHash[<<s, x>>]: the id of the text `s:x`, not always another one for another text
    Label, Path, Plugin,
    Mode,               \* Mode[p]: the PluginMode p is registered with
    EditOf,             \* EditOf[p]: the field p rewrites when it rewrites one
    LabelOf,            \* LabelOf[p]: the label p adds when it adds one
    Traffic,            \* what may arrive: for each a request, its route and whether visit_route made that
    TTL,                \* whether the store is configured with a time to live
    None

PluginMode == {"sequential", "transform", "audit", "concurrent", "fire_and_forget", "disabled"}

\* What one effect of a route works on: a plugin, the plugins of a block, a
\* label, a field, a field and the plugin of a pipeline stage, or a custom label
\* of a `restrict`.
Effect ==
    [op : {"plugin"}, on : {{p} : p \in Plugin}]
        \cup [op : {"parallel"}, on : SUBSET Plugin]
        \cup [op : {"taint"}, on : Label]
        \cup [op : {"mask"}, on : Path]
        \cup [op : {"stage"}, on : Path \X Plugin]
        \cup [op : {"restrict"}, on : Raw]
        \cup [op : {"elicit"}, on : {None}]

\* The extensions a request arrives with, as far as the handler reads them.
Input ==
    [subject : Subject \cup {None}, agent : Raw \cup {None}, claim : Raw \cup {None},
     labels : SUBSET Label, peek : BOOLEAN]

\* What invoke answers with.
Code == {"forwarded", "error", "policy.deny", "elicitation.pending", "elicitation.approved",
         "session.load_failed", "session.persist_failed", "policy.restrict_conflict"}

Workloads == "-:-"       \* neither workload attested

ASSUME HandlerAssumption ==
    /\ Mode \in [Plugin -> PluginMode]
    /\ EditOf \in [Plugin -> Path]
    /\ LabelOf \in [Plugin -> Label]
    /\ \A t \in Traffic : \A r \in Request :
          t[r].in \in Input /\ t[r].route \in Seq(Effect) /\ t[r].visited \in BOOLEAN
    /\ ShortHash \in [Subject \X (Raw \cup {Workloads}) -> Session]
    /\ TTL \in BOOLEAN
    /\ None \notin Subject \cup Raw \cup Session \cup Label \cup Path \cup Plugin \cup Code
    /\ "original" \notin Plugin

-----------------------------------------------------------------------------
(* parallel_safety.rs: which plugins a `parallel:` block may call. Only    *)
(* visit_route asks; the catch-all that visit_global installs for HTTP     *)
(* requests without an entity is not checked.                              *)

IsSafeUnlessTransform(mode) == mode # "transform"      \* mutant: sequential slips through

IsSafeInParallel(mode) == mode \in {"audit", "concurrent", "fire_and_forget", "disabled"}

ValidateParallelPluginModes(route) ==
    \A i \in DOMAIN route :
        route[i].op = "parallel" => \A p \in route[i].on : IsSafeInParallel(Mode[p])

-----------------------------------------------------------------------------
(* session_resolver.rs. A session id is the short hash of `subject:value`, *)
(* the value being the agent's, the token's, or the pair of workloads. Two *)
(* texts may share an id: the colon may stand in either part, and 64 bits  *)
(* of the digest are kept.                                                 *)

RawSession(subject, raw) == ShortHash[<<CHOOSE s \in Subject : TRUE, raw>>]    \* mutant: unbound

SubjectScoped(subject, raw) == ShortHash[<<subject, raw>>]

SessionValue(in) == IF in.agent # None THEN in.agent ELSE IF in.claim # None THEN in.claim ELSE Workloads

ResolveSession(in) == IF in.subject = None THEN None ELSE SubjectScoped(in.subject, SessionValue(in))

-----------------------------------------------------------------------------
VARIABLES
    store,      \* store[s]: the label set of session s
    append,     \* append[r]: the SADD of request r: its labels and how far it got
    pc,         \* pc[r]: where invoke stands
    input,      \* input[r]: the request
    todo,       \* todo[r]: the effects still to evaluate
    ext,        \* ext[r]: security.labels of the shared extensions
    initial,    \* initial[r]: initial_labels, the snapshot after hydration
    payload,    \* payload[r]: the shared message, each field with its last editor
    pipe,       \* pipe[r]: the projection the field pipelines work on
    modified,   \* modified[r]: payload_was_modified
    call,       \* call[r][p]: the plugin call of p in flight or done
    taints,     \* taints[r]: session-scoped taints of the evaluation
    restricts,  \* restricts[r]: the custom labels `restrict` requires
    decision,   \* decision[r]: what the evaluation came to
    answer,     \* answer[r]: what invoke returned
    hist        \* history: what the properties refer to

vars == <<store, append, pc, input, todo, ext, initial, payload, pipe, modified,
          call, taints, restricts, decision, answer, hist>>

\* "original", "mask" (a stage of a pipeline) or the plugin that rewrote it.
Value == {"original", "mask"} \cup Plugin
Message == [Path -> Value]
Untouched == [f \in Path |-> "original"]

Idle == [at |-> "idle", payload |-> Untouched, labels |-> {}, taints |-> {}]
Call == [at : {"idle", "running", "done"}, payload : Message, labels : SUBSET Label,
         taints : SUBSET Label]

Sadd == [at : {"none", "sent", "applied"}, labels : SUBSET Label]
Decision == [verdict : {"allow", "deny"}, pending : BOOLEAN, approved : BOOLEAN, persisted : BOOLEAN]
Answer == [code : Code \cup {None}, payload : Message]
History == [emitted : SUBSET Label, owed : SUBSET Label, edited : SUBSET Path,
            lapsed : BOOLEAN, racing : BOOLEAN]

TypeOK ==
    /\ store \in [Session -> SUBSET Label]
    /\ append \in [Request -> Sadd]
    /\ pc \in [Request -> {"new", "load", "walk", "settle", "persist", "finish", "done"}]
    /\ input \in [Request -> Input]
    /\ todo \in [Request -> Seq(Effect)]
    /\ ext \in [Request -> SUBSET Label]
    /\ initial \in [Request -> SUBSET Label]
    /\ payload \in [Request -> Message]
    /\ pipe \in [Request -> Message]
    /\ modified \in [Request -> BOOLEAN]
    /\ call \in [Request -> [Plugin -> Call]]
    /\ taints \in [Request -> SUBSET Label]
    /\ restricts \in [Request -> SUBSET Raw]
    /\ decision \in [Request -> Decision]
    /\ answer \in [Request -> Answer]
    /\ hist \in [Request -> History]

Init ==
    /\ store = [s \in Session |-> {}]
    /\ append = [r \in Request |-> [at |-> "none", labels |-> {}]]
    /\ pc = [r \in Request |-> "new"]
    /\ \E t \in Traffic :
          /\ \A r \in Request : t[r].visited => ValidateParallelPluginModes(t[r].route)
          /\ input = [r \in Request |-> t[r].in]
          /\ todo = [r \in Request |-> t[r].route]
          /\ hist = [r \in Request |-> [emitted |-> {}, owed |-> {}, edited |-> {}, lapsed |-> FALSE,
                                        racing |-> ~ValidateParallelPluginModes(t[r].route)]]
    /\ ext = [r \in Request |-> input[r].labels]
    /\ initial = [r \in Request |-> {}]
    /\ payload = [r \in Request |-> Untouched]
    /\ pipe = [r \in Request |-> Untouched]
    /\ modified = [r \in Request |-> FALSE]
    /\ call = [r \in Request |-> [p \in Plugin |-> Idle]]
    /\ taints = [r \in Request |-> {}]
    /\ restricts = [r \in Request |-> {}]
    /\ decision = [r \in Request |-> [verdict |-> "allow", pending |-> FALSE,
                                      approved |-> FALSE, persisted |-> TRUE]]
    /\ answer = [r \in Request |-> [code |-> None, payload |-> Untouched]]

Sid(r) == ResolveSession(input[r])
Shared == <<payload, pipe, modified, call, taints, restricts, decision>>

-----------------------------------------------------------------------------
(* for_request: the plan, the session id and the hydration.                *)

Returns(r, code, message) ==
    /\ pc' = [pc EXCEPT ![r] = "done"]
    /\ answer' = [answer EXCEPT ![r] = [code |-> code, payload |-> message]]

\* The payload is no MessagePayload, or the engine is gone.
Refuse(r) ==
    /\ pc[r] = "new"
    /\ Returns(r, "error", Untouched)
    /\ UNCHANGED <<store, append, input, todo, ext, initial, Shared, hist>>

Begin(r) ==
    /\ pc[r] = "new"
    /\ pc' = [pc EXCEPT ![r] = IF Sid(r) = None THEN "walk" ELSE "load"]
    /\ initial' = [initial EXCEPT ![r] = IF Sid(r) = None THEN ext[r] ELSE {}]
    /\ UNCHANGED <<store, append, input, todo, ext, Shared, answer, hist>>

HydrateNothing(labels, stored) == labels    \* mutant: the stored labels are not merged in

HydrateLabels(labels, stored) == labels \cup stored

\* What requests of session s have been told is stored, and has not lapsed.
Acknowledged(s) ==
    UNION {append[q].labels : q \in {q \in Request :
              /\ Sid(q) = s /\ ~hist[q].lapsed
              /\ pc[q] \in {"finish", "done"} /\ decision[q].persisted}}

Load(r) ==
    LET labels == HydrateLabels(ext[r], store[Sid(r)])
    IN  /\ pc[r] = "load"
        /\ ext' = [ext EXCEPT ![r] = labels]
        /\ initial' = [initial EXCEPT ![r] = labels]
        /\ pc' = [pc EXCEPT ![r] = "walk"]
        /\ hist' = [hist EXCEPT ![r].owed = Acknowledged(Sid(r))]
        /\ UNCHANGED <<store, append, input, todo, Shared, answer>>

\* No connection, an error or a timeout of SMEMBERS.
LoadFails(r) ==
    /\ pc[r] = "load"
    /\ Returns(r, "session.load_failed", Untouched)
    /\ UNCHANGED <<store, append, input, todo, ext, initial, Shared, hist>>

-----------------------------------------------------------------------------
(* CmfPluginInvoker::invoke, and the evaluation that calls it.             *)

At(r, op) == pc[r] = "walk" /\ todo[r] # << >> /\ Head(todo[r]).op = op

Called(r) ==
    IF At(r, "plugin") \/ At(r, "parallel") THEN Head(todo[r]).on
    ELSE IF At(r, "stage") THEN {Head(todo[r]).on[2]} ELSE {}

CanModify(mode) == mode \in {"sequential", "transform"}
CanBlock(mode) == mode \in {"sequential", "concurrent"}

\* Copy the payload and the extensions.
CallBegins(r, p) ==
    /\ p \in Called(r) /\ call[r][p].at = "idle"
    /\ call' = [call EXCEPT ![r][p] = [at |-> "running", payload |-> payload[r],
                                       labels |-> ext[r], taints |-> {}]]
    /\ UNCHANGED <<store, append, pc, input, todo, ext, initial, payload, pipe, modified,
                   taints, restricts, decision, answer, hist>>

Collected(calls) == UNION {calls[p].taints : p \in {q \in Plugin : calls[q].at = "done"}}

\* The evaluation ends: the taints of finished branches are kept, the calls
\* still running are dropped with their branches.
Ends(r, verdict, calls) ==
    /\ pc' = [pc EXCEPT ![r] = "settle"]
    /\ taints' = [taints EXCEPT ![r] = @ \cup Collected(calls)]
    /\ call' = [call EXCEPT ![r] = [p \in Plugin |-> Idle]]
    /\ decision' = [decision EXCEPT ![r].verdict = verdict]

\* The value a pipeline stage hands back: the field, if this call rewrote it.
ReadBackAgainstPipeline(before, after, current) ==   \* mutant: compares with the wrong value
    IF after # current THEN after ELSE current

ReadBack(before, after, current) == IF after # before THEN after ELSE current

WriteBack(r, p, edits, adds) ==
    LET c == call[r][p]
        message == IF edits THEN [c.payload EXCEPT ![EditOf[p]] = p] ELSE c.payload
        field == Head(todo[r]).on[1]
    IN  /\ payload' = [payload EXCEPT ![r] = IF edits THEN message ELSE @]
        /\ modified' = [modified EXCEPT ![r] = @ \/ edits]
        /\ ext' = [ext EXCEPT ![r] = c.labels \cup (IF adds THEN {LabelOf[p]} ELSE {})]
        /\ pipe' = IF edits /\ At(r, "stage")
                   THEN [pipe EXCEPT ![r][field] = ReadBack(c.payload[field], message[field], @)]
                   ELSE pipe
        /\ hist' = [hist EXCEPT ![r].emitted = @ \cup (IF adds THEN {LabelOf[p]} ELSE {}),
                                ![r].edited = @ \cup (IF edits THEN {EditOf[p]} ELSE {})]

\* The plugin answers. Only a mode that may modify hands anything back, and a
\* deny comes without a payload; the extensions are written back in any case.
CallReturns(r, p) ==
    \E edits, adds, denies \in BOOLEAN :
        LET new == (IF adds THEN {LabelOf[p]} ELSE {}) \ call[r][p].labels
            calls == [call[r] EXCEPT ![p].at = "done", ![p].taints = new]
        IN  /\ p \in Called(r) /\ call[r][p].at = "running"
            /\ edits \/ adds => CanModify(Mode[p])
            /\ denies => CanBlock(Mode[p]) /\ ~edits
            /\ WriteBack(r, p, edits, adds)
            /\ IF denies THEN Ends(r, "deny", calls)
               ELSE /\ call' = [call EXCEPT ![r] = calls]
                    /\ UNCHANGED <<pc, taints, decision>>
            /\ UNCHANGED <<store, append, input, todo, initial, restricts, answer>>

\* The plugin is not in the plan, or has no hook for this phase.
CallFails(r, p) ==
    /\ p \in Called(r) /\ call[r][p].at = "idle"
    /\ Ends(r, "deny", call[r])
    /\ UNCHANGED <<store, append, input, todo, ext, initial, payload, pipe, modified,
                   restricts, answer, hist>>

CallsDone(r) ==
    /\ Called(r) # {} /\ \A p \in Called(r) : call[r][p].at = "done"
    /\ taints' = [taints EXCEPT ![r] = @ \cup Collected(call[r])]
    /\ call' = [call EXCEPT ![r] = [p \in Plugin |-> Idle]]
    /\ todo' = [todo EXCEPT ![r] = Tail(@)]
    /\ UNCHANGED <<store, append, pc, input, ext, initial, payload, pipe, modified,
                   restricts, decision, answer, hist>>

\* The effects that call no plugin.
Apply(r) ==
    LET on == Head(todo[r]).on
    IN  /\ \/ /\ At(r, "taint")
              /\ taints' = [taints EXCEPT ![r] = @ \cup {on}]
              /\ hist' = [hist EXCEPT ![r].emitted = @ \cup {on}]
              /\ UNCHANGED <<pipe, restricts, decision>>
           \/ /\ At(r, "mask")
              /\ pipe' = [pipe EXCEPT ![r][on] = "mask"]
              /\ UNCHANGED <<taints, restricts, decision, hist>>
           \/ /\ At(r, "restrict")
              /\ restricts' = [restricts EXCEPT ![r] = @ \cup {on}]
              /\ UNCHANGED <<pipe, taints, decision, hist>>
           \/ /\ At(r, "elicit")
              /\ decision' = [decision EXCEPT ![r].approved = TRUE]
              /\ UNCHANGED <<pipe, taints, restricts, hist>>
        /\ todo' = [todo EXCEPT ![r] = Tail(@)]
        /\ UNCHANGED <<store, append, pc, input, ext, initial, payload, modified, call, answer>>

\* A validating stage or the approver refuses, or the approval is awaited.
Refused(r) ==
    /\ At(r, "mask") \/ At(r, "elicit")
    /\ Ends(r, "deny", call[r])
    /\ UNCHANGED <<store, append, input, todo, ext, initial, payload, pipe, modified,
                   restricts, answer, hist>>

Suspended(r) ==
    /\ At(r, "elicit")
    /\ pc' = [pc EXCEPT ![r] = "settle"]
    /\ decision' = [decision EXCEPT ![r].pending = TRUE]
    /\ UNCHANGED <<store, append, input, todo, ext, initial, payload, pipe, modified, call,
                   taints, restricts, answer, hist>>

Evaluated(r) ==
    /\ pc[r] = "walk" /\ todo[r] = << >>
    /\ Ends(r, "allow", call[r])
    /\ UNCHANGED <<store, append, input, todo, ext, initial, payload, pipe, modified,
                   restricts, answer, hist>>

-----------------------------------------------------------------------------
(* apply_session_taints and persist_session over the store.                *)

Settle(r) ==
    LET labels == ext[r] \cup taints[r]
        new == labels \ initial[r]
    IN  /\ pc[r] = "settle"
        /\ ext' = [ext EXCEPT ![r] = labels]
        /\ IF Sid(r) = None \/ new = {}
           THEN pc' = [pc EXCEPT ![r] = "finish"] /\ UNCHANGED append
           ELSE /\ pc' = [pc EXCEPT ![r] = "persist"]
                /\ append' = [append EXCEPT ![r] = [at |-> "sent", labels |-> new]]
        /\ UNCHANGED <<store, input, todo, initial, Shared, answer, hist>>

\* The server executes SADD and EXPIRE, whether or not anyone still waits.
Applied(r) ==
    /\ append[r].at = "sent"
    /\ store' = [store EXCEPT ![Sid(r)] = @ \cup append[r].labels]
    /\ append' = [append EXCEPT ![r].at = "applied"]
    /\ UNCHANGED <<pc, input, todo, ext, initial, Shared, answer, hist>>

PersistOk(r) ==
    /\ pc[r] = "persist" /\ append[r].at = "applied"
    /\ pc' = [pc EXCEPT ![r] = "finish"]
    /\ UNCHANGED <<store, append, input, todo, ext, initial, Shared, answer, hist>>

PersistFailsAnswered(r) ==          \* mutant: no timeout, an error is an answer of the server
    /\ pc[r] = "persist" /\ append[r].at = "applied"
    /\ pc' = [pc EXCEPT ![r] = "finish"]
    /\ decision' = [decision EXCEPT ![r].persisted = FALSE]
    /\ UNCHANGED <<store, append, input, todo, ext, initial, payload, pipe, modified, call,
                   taints, restricts, answer, hist>>

\* No connection, an error or a timeout: the append may still be applied.
PersistFails(r) ==
    /\ pc[r] = "persist"
    /\ pc' = [pc EXCEPT ![r] = "finish"]
    /\ decision' = [decision EXCEPT ![r].persisted = FALSE]
    /\ UNCHANGED <<store, append, input, todo, ext, initial, payload, pipe, modified, call,
                   taints, restricts, answer, hist>>

\* The time to live of a session's key runs out.
Lapse(s) ==
    /\ TTL /\ store[s] # {}
    /\ store' = [store EXCEPT ![s] = {}]
    /\ hist' = [r \in Request |->
                  IF Sid(r) = s /\ pc[r] \notin {"new", "load"}
                  THEN [hist[r] EXCEPT !.lapsed = TRUE] ELSE hist[r]]
    /\ UNCHANGED <<append, pc, input, todo, ext, initial, Shared, answer>>

-----------------------------------------------------------------------------
(* The answer.                                                             *)

\* apply_changed_paths, on the fields of one projection.
ApplyChangedPaths(base, pre, post) ==
    [f \in Path |-> IF pre[f] # post[f] THEN post[f] ELSE base[f]]

ModifiedPayload(r) ==
    IF pipe[r] # Untouched THEN ApplyChangedPaths(payload[r], Untouched, pipe[r])
    ELSE IF modified[r] THEN payload[r] ELSE Untouched

Conflicting(labels) == Cardinality(labels) > 1

FinalCodeUnlessDenied(r) ==             \* mutant: a failed append is only logged
    IF decision[r].pending THEN "elicitation.pending"
    ELSE IF decision[r].verdict = "deny" THEN "policy.deny"
    ELSE IF input[r].peek /\ decision[r].approved THEN "elicitation.approved"
    ELSE IF Conflicting(restricts[r]) THEN "policy.restrict_conflict"
    ELSE "forwarded"

FinalCode(r) ==
    IF decision[r].pending THEN "elicitation.pending"
    ELSE IF decision[r].verdict = "deny" THEN "policy.deny"
    ELSE IF input[r].peek /\ decision[r].approved THEN "elicitation.approved"
    ELSE IF ~decision[r].persisted THEN "session.persist_failed"
    ELSE IF Conflicting(restricts[r]) THEN "policy.restrict_conflict"
    ELSE "forwarded"

Finish(r) ==
    /\ pc[r] = "finish"
    /\ Returns(r, FinalCode(r), ModifiedPayload(r))
    /\ UNCHANGED <<store, append, input, todo, ext, initial, Shared, hist>>

-----------------------------------------------------------------------------
Step(r) ==
    \/ Refuse(r) \/ Begin(r) \/ Load(r) \/ LoadFails(r)
    \/ \E p \in Plugin : CallBegins(r, p) \/ CallReturns(r, p) \/ CallFails(r, p)
    \/ CallsDone(r) \/ Apply(r) \/ Refused(r) \/ Suspended(r) \/ Evaluated(r)
    \/ Settle(r) \/ PersistOk(r) \/ PersistFails(r) \/ Finish(r)

Next ==
    \/ \E r \in Request : Step(r) \/ Applied(r)
    \/ \E s \in Session : Lapse(s)

Spec == Init /\ [][Next]_vars

FairSpec == Spec /\ \A r \in Request : WF_vars(Step(r))

-----------------------------------------------------------------------------
Forwarded(r) == answer[r].code = "forwarded"

\* A request that is forwarded carries every edit that was accepted for it: no
\* field that a pipeline or a plugin rewrote goes out in its original form,
\* however the calls of its parallel blocks overlapped (cmf_invoker.rs writes
\* whole messages back).  One exception: the global catch-all, whose blocks
\* nobody checks, may call plugins that modify side by side, and then one of
\* them may undo another; what its pipelines rewrote is delivered even so.
EditsDelivered ==
    \A r \in Request : Forwarded(r) =>
        \A f \in Path : pipe[r][f] # "original" \/ (f \in hist[r].edited /\ ~hist[r].racing)
                            => answer[r].payload[f] # "original"

\* A request is forwarded only when the labels it gave rise to are in the
\* store: those that were not on the message already, and unless the key has
\* lapsed since the request read it (persist_session, SADD and its timeout).
ForwardedLabelsStored ==
    \A r \in Request : Forwarded(r) /\ Sid(r) # None /\ ~hist[r].lapsed =>
        hist[r].emitted \ input[r].labels \subseteq store[Sid(r)]

\* While a request is evaluated, its view holds every label that earlier
\* requests of its session had been told is stored when it loaded; no plugin
\* call that writes extensions back may lose one.
SessionSeesHistory ==
    \A r \in Request : pc[r] \in {"walk", "settle", "persist", "finish"} =>
        hist[r].owed \subseteq ext[r]

\* Requests of authenticated subjects whose texts `subject:value` have one id.
SameId(q, r) ==
    /\ input[q].subject # None /\ input[r].subject # None
    /\ ShortHash[<<input[q].subject, SessionValue(input[q])>>]
          = ShortHash[<<input[r].subject, SessionValue(input[r])>>]

\* The labels a request sees are its own or were emitted by requests of the
\* same subject and session value.  Whatever value an agent or a token names,
\* nothing but a collision of the short hash brings two subjects together, and
\* a request without a subject shares with nobody.
LabelsStayWithSubject ==
    \A r \in Request : ext[r] \subseteq
        UNION {input[q].labels \cup hist[q].emitted : q \in {q \in Request : q = r \/ SameId(q, r)}}

\* Once a pipeline has rewritten a field, a later plugin stage never brings the
\* original back, although the plugin itself still reads it from the message
\* (the field baseline of CmfPluginInvoker::invoke).
RedactionKept ==
    [][\A r \in Request, f \in Path : pipe[r][f] # "original" => pipe'[r][f] # "original"]_vars

\* A request that has begun is answered, also when the store never answers.
Answered == \A r \in Request : pc[r] # "new" ~> pc[r] = "done"
=============================================================================
