------------------------- MODULE RouteHandlerProofs -------------------------
(* What a request is answered with, sees and leaves in the session store,  *)
(* for any number of requests, subjects, plugins, routes and labels.       *)
EXTENDS RouteHandler, SequenceTheorems, TLAPS

-----------------------------------------------------------------------------
(* The inductive invariant. Calls overlap only in a `parallel:` block. In  *)
(* one that was checked nobody may modify, so what a running call copied   *)
(* is still what it would copy now, and writing it back loses nothing. In  *)
(* any block, the labels two calls do not both have are among the taints   *)
(* that a finished call has reported.                                      *)

\* The labels the evaluation has been told of.
Told(r) == taints[r] \cup Collected(call[r])

CallsInv(r) ==
    /\ ~hist[r].racing => ValidateParallelPluginModes(todo[r])
    /\ \A p \in Plugin :
          /\ call[r][p].at # "idle" => p \in Called(r)
          /\ call[r][p].at = "running" =>
                /\ ~hist[r].racing => call[r][p].payload = payload[r]
                /\ call[r][p].labels \cup Told(r) = ext[r] \cup Told(r)
                /\ hist[r].owed \subseteq call[r][p].labels
          /\ call[r][p].taints \subseteq hist[r].emitted

\* Every edit is on the message, and what is forwarded is the message.
EditsInv(r) ==
    /\ ~hist[r].racing => \A f \in hist[r].edited : payload[r][f] # "original" /\ modified[r]
    /\ answer[r].code # None => pc[r] = "done"
    /\ Forwarded(r) => answer[r].payload = ModifiedPayload(r)

\* Every emitted label is on its way to the store, and what the store has been
\* asked or known to hold is there unless it has lapsed.
LabelsInv(r) ==
    /\ pc[r] \in {"new", "load"} => ext[r] = input[r].labels /\ initial[r] = {} /\ hist[r].owed = {}
    /\ pc[r] = "load" => Sid(r) # None
    /\ pc[r] \in {"new", "load", "walk", "settle"} => append[r].at = "none"
    /\ append[r].at = "none" => append[r].labels = {}
    /\ append[r].at # "none" => Sid(r) # None
    /\ pc[r] \in {"new", "load"} => hist[r].emitted = {}
    /\ pc[r] = "walk" => hist[r].emitted \subseteq ext[r] \cup Told(r)
    /\ pc[r] = "settle" => hist[r].emitted \subseteq ext[r] \cup taints[r]
    /\ pc[r] \in {"persist", "finish"} \/ Forwarded(r) =>
            /\ hist[r].emitted \subseteq ext[r]
            /\ Sid(r) # None => ext[r] \ initial[r] \subseteq append[r].labels
    /\ pc[r] \in {"finish", "done"} /\ decision[r].persisted => append[r].at # "sent"
    /\ Forwarded(r) => decision[r].persisted
    /\ append[r].at = "applied" /\ ~hist[r].lapsed => append[r].labels \subseteq store[Sid(r)]
    /\ Sid(r) # None /\ ~hist[r].lapsed => initial[r] \ input[r].labels \subseteq store[Sid(r)]
    /\ pc[r] \in {"walk", "settle", "persist", "finish"} => hist[r].owed \subseteq ext[r]

RequestInv(r) == CallsInv(r) /\ EditsInv(r) /\ LabelsInv(r)

\* The labels that requests of session s have given rise to, and those request r
\* may see.
EmittedIn(s) == {l \in Label : \E q \in Request :
                     Sid(q) = s /\ l \in input[q].labels \cup hist[q].emitted}
MaySee(r) == input[r].labels \cup hist[r].emitted \cup (IF Sid(r) = None THEN {} ELSE EmittedIn(Sid(r)))

SubjectInv ==
    /\ \A r \in Request : /\ ext[r] \subseteq MaySee(r)
                          /\ taints[r] \subseteq hist[r].emitted
                          /\ append[r].labels \subseteq MaySee(r)
                          /\ \A p \in Plugin : call[r][p].at = "running" => call[r][p].labels \subseteq MaySee(r)
    /\ \A s \in Session : store[s] \subseteq EmittedIn(s)

IInv ==
    /\ TypeOK
    /\ \A r \in Request : RequestInv(r)
    /\ SubjectInv

-----------------------------------------------------------------------------
(* Types.                                                                  *)

\* A session id is one the hash can give.
LEMMA SidType ==
    ASSUME TypeOK, NEW r \in Request
    PROVE  Sid(r) \in Session \cup {None}
<1>1. input[r] \in Input
    BY DEF TypeOK
<1>2. input[r].subject # None => <<input[r].subject, SessionValue(input[r])>> \in Subject \X (Raw \cup {Workloads})
    BY <1>1 DEF Input, SessionValue
<1> QED
    BY <1>2, HandlerAssumption DEF Sid, ResolveSession, SubjectScoped

\* An effect still to evaluate is one the parser can have produced.
LEMMA HeadType ==
    ASSUME TypeOK, NEW r \in Request, todo[r] # << >>
    PROVE  /\ Head(todo[r]) \in Effect
           /\ Tail(todo[r]) \in Seq(Effect)
<1>1. todo[r] \in Seq(Effect)
    BY DEF TypeOK
<1> QED
    BY <1>1

LEMMA OnType ==
    ASSUME NEW e \in Effect
    PROVE  /\ e.op = "plugin" => \E p \in Plugin : e.on = {p}
           /\ e.op = "parallel" => e.on \subseteq Plugin
           /\ e.op = "taint" => e.on \in Label
           /\ e.op = "mask" => e.on \in Path
           /\ e.op = "stage" => e.on[1] \in Path /\ e.on[2] \in Plugin
           /\ e.op = "restrict" => e.on \in Raw
BY DEF Effect

LEMMA CalledType ==
    ASSUME TypeOK, NEW r \in Request
    PROVE  /\ Called(r) \subseteq Plugin
           /\ Called(r) # {} => todo[r] # << >> /\ pc[r] = "walk"
<1>1. CASE todo[r] = << >>
    BY <1>1 DEF Called, At
<1>2. CASE todo[r] # << >>
    <2>1. Head(todo[r]) \in Effect
        BY <1>2, HeadType
    <2>2. Called(r) \subseteq Plugin
        BY <2>1, OnType DEF Called, At
    <2> QED
        BY <1>2, <2>2 DEF Called, At
<1> QED
    BY <1>1, <1>2

\* The answers that end a request early or late.
LEMMA ReturnsType ==
    ASSUME TypeOK, NEW r \in Request, NEW code \in Code, NEW message \in Message,
           Returns(r, code, message)
    PROVE  /\ pc' \in [Request -> {"new", "load", "walk", "settle", "persist", "finish", "done"}]
           /\ answer' \in [Request -> Answer]
<1>1. [code |-> code, payload |-> message] \in Answer
    BY DEF Answer
<1> QED
    BY <1>1 DEF Returns, TypeOK

LEMMA IdleType == Idle \in Call /\ Untouched \in Message
BY DEF Idle, Call, Untouched, Message, Value

LEMMA EndsType ==
    ASSUME TypeOK, NEW r \in Request, NEW verdict \in {"allow", "deny"}, NEW calls \in [Plugin -> Call],
           Ends(r, verdict, calls)
    PROVE  /\ pc' \in [Request -> {"new", "load", "walk", "settle", "persist", "finish", "done"}]
           /\ taints' \in [Request -> SUBSET Label]
           /\ call' \in [Request -> [Plugin -> Call]]
           /\ decision' \in [Request -> Decision]
<1>1. Collected(calls) \subseteq Label
    BY DEF Collected, Call
<1>2. [p \in Plugin |-> Idle] \in [Plugin -> Call]
    BY IdleType
<1>3. [decision[r] EXCEPT !.verdict = verdict] \in Decision
    <2>1. decision[r] \in Decision
        BY DEF TypeOK
    <2> QED
        BY <2>1 DEF Decision
<1> QED
    BY <1>1, <1>2, <1>3 DEF Ends, TypeOK

\* Every component of the state keeps its type.
LEMMA StartType ==
    ASSUME TypeOK, NEW r \in Request, Refuse(r) \/ Begin(r) \/ Load(r) \/ LoadFails(r),
           pc[r] = "load" => Sid(r) # None
    PROVE  TypeOK'
<1> USE DEF Shared
<1>1. CASE Refuse(r)
    BY <1>1, ReturnsType, IdleType DEF Refuse, TypeOK, Code
<1>2. CASE Begin(r)
    BY <1>2 DEF Begin, TypeOK
<1>3. CASE Load(r)
    <2>1. Sid(r) \in Session /\ Acknowledged(Sid(r)) \subseteq Label
        BY <1>3, SidType DEF Load, Acknowledged, TypeOK, Sadd
    <2>2. [hist[r] EXCEPT !.owed = Acknowledged(Sid(r))] \in History
        BY <2>1 DEF TypeOK, History
    <2> QED
        BY <1>3, <2>1, <2>2 DEF Load, HydrateLabels, TypeOK
<1>4. CASE LoadFails(r)
    BY <1>4, ReturnsType, IdleType DEF LoadFails, TypeOK, Code
<1> QED
    BY <1>1, <1>2, <1>3, <1>4

LEMMA CallType ==
    ASSUME TypeOK, NEW r \in Request, NEW p \in Plugin, NEW edits \in BOOLEAN, NEW adds \in BOOLEAN,
           p \in Called(r), WriteBack(r, p, edits, adds)
    PROVE  /\ payload' \in [Request -> Message]
           /\ modified' \in [Request -> BOOLEAN]
           /\ ext' \in [Request -> SUBSET Label]
           /\ pipe' \in [Request -> Message]
           /\ hist' \in [Request -> History]
<1> DEFINE c == call[r][p]
           message == IF edits THEN [c.payload EXCEPT ![EditOf[p]] = p] ELSE c.payload
           field == Head(todo[r]).on[1]
           new == IF adds THEN {LabelOf[p]} ELSE {}
           edit == IF edits THEN {EditOf[p]} ELSE {}
<1>1. c \in Call /\ c.labels \subseteq Label /\ c.payload \in Message
    BY DEF TypeOK, Call
<1>2. message \in Message
    BY <1>1, HandlerAssumption DEF Message, Value
<1>3. new \subseteq Label /\ edit \subseteq Path
    BY HandlerAssumption
<1>4. At(r, "stage") => field \in Path
    BY HeadType, OnType DEF At
<1>5. payload' = [payload EXCEPT ![r] = IF edits THEN message ELSE @]
    BY DEF WriteBack
<1>6. /\ modified' = [modified EXCEPT ![r] = @ \/ edits]
      /\ ext' = [ext EXCEPT ![r] = c.labels \cup new]
    BY DEF WriteBack
<1>7. pipe' = IF edits /\ At(r, "stage")
              THEN [pipe EXCEPT ![r][field] = ReadBack(c.payload[field], message[field], @)]
              ELSE pipe
    BY DEF WriteBack
<1>8. hist' = [hist EXCEPT ![r].emitted = @ \cup new, ![r].edited = @ \cup edit]
    BY DEF WriteBack
<1>9. [hist[r] EXCEPT !.emitted = @ \cup new, !.edited = @ \cup edit] \in History
    BY <1>3 DEF TypeOK, History
<1> HIDE DEF c, message, field, new, edit
<1>10. At(r, "stage") => ReadBack(c.payload[field], message[field], pipe[r][field]) \in Value
    BY <1>1, <1>2, <1>4 DEF ReadBack, TypeOK, Message
<1>11. pipe' \in [Request -> Message]
    BY <1>4, <1>7, <1>10 DEF TypeOK, Message
<1>12. hist' \in [Request -> History]
    BY <1>8, <1>9 DEF TypeOK
<1>13. payload' \in [Request -> Message]
    BY <1>2, <1>5 DEF TypeOK
<1> QED
    BY <1>1, <1>3, <1>6, <1>11, <1>12, <1>13 DEF TypeOK

LEMMA CallsType ==
    ASSUME TypeOK, NEW r \in Request, NEW p \in Plugin,
           CallBegins(r, p) \/ CallReturns(r, p) \/ CallFails(r, p)
    PROVE  TypeOK'
<1>1. CASE CallBegins(r, p)
    <2>1. [at |-> "running", payload |-> payload[r], labels |-> ext[r], taints |-> {}] \in Call
        BY DEF TypeOK, Call
    <2> QED
        BY <1>1, <2>1 DEF CallBegins, TypeOK
<1>2. CASE CallReturns(r, p)
    <2>1. PICK edits, adds, denies \in BOOLEAN :
              LET new == (IF adds THEN {LabelOf[p]} ELSE {}) \ call[r][p].labels
                  calls == [call[r] EXCEPT ![p].at = "done", ![p].taints = new]
              IN  /\ p \in Called(r) /\ WriteBack(r, p, edits, adds)
                  /\ IF denies THEN Ends(r, "deny", calls)
                     ELSE call' = [call EXCEPT ![r] = calls] /\ UNCHANGED <<pc, taints, decision>>
                  /\ UNCHANGED <<store, append, input, todo, initial, restricts, answer>>
        BY <1>2 DEF CallReturns
    <2> DEFINE new == (IF adds THEN {LabelOf[p]} ELSE {}) \ call[r][p].labels
               calls == [call[r] EXCEPT ![p].at = "done", ![p].taints = new]
    <2>2. calls \in [Plugin -> Call]
        <3>1. new \subseteq Label
            BY HandlerAssumption
        <3>2. call[r] \in [Plugin -> Call] /\ call[r][p] \in Call
            BY DEF TypeOK
        <3> HIDE DEF new
        <3>3. [call[r][p] EXCEPT !.at = "done", !.taints = new] \in Call
            BY <3>1, <3>2 DEF Call
        <3> QED
            BY <3>2, <3>3
    <2>3. /\ p \in Called(r) /\ WriteBack(r, p, edits, adds)
          /\ IF denies THEN Ends(r, "deny", calls)
             ELSE call' = [call EXCEPT ![r] = calls] /\ UNCHANGED <<pc, taints, decision>>
          /\ UNCHANGED <<store, append, input, todo, initial, restricts, answer>>
        BY <2>1
    <2> HIDE DEF calls
    <2>4. /\ payload' \in [Request -> Message] /\ modified' \in [Request -> BOOLEAN]
          /\ ext' \in [Request -> SUBSET Label] /\ pipe' \in [Request -> Message]
          /\ hist' \in [Request -> History]
        BY <2>3, CallType
    <2>5. /\ pc' \in [Request -> {"new", "load", "walk", "settle", "persist", "finish", "done"}]
          /\ taints' \in [Request -> SUBSET Label] /\ call' \in [Request -> [Plugin -> Call]]
          /\ decision' \in [Request -> Decision]
        <3>1. CASE denies
            BY <2>2, <2>3, <3>1, EndsType
        <3>2. CASE ~denies
            BY <2>2, <2>3, <3>2 DEF TypeOK
        <3> QED
            BY <3>1, <3>2
    <2> QED
        BY <2>3, <2>4, <2>5 DEF TypeOK
<1>3. CASE CallFails(r, p)
    BY <1>3, EndsType DEF CallFails, TypeOK
<1> QED
    BY <1>1, <1>2, <1>3

LEMMA ApplyType ==
    ASSUME TypeOK, NEW r \in Request, Apply(r)
    PROVE  TypeOK'
<1> DEFINE on == Head(todo[r]).on
<1>1. Head(todo[r]) \in Effect /\ Tail(todo[r]) \in Seq(Effect) /\ todo' \in [Request -> Seq(Effect)]
    BY HeadType DEF Apply, At, TypeOK
<1>2. UNCHANGED <<store, append, pc, input, ext, initial, payload, modified, call, answer>>
    BY DEF Apply
<1>3. CASE /\ At(r, "taint")
           /\ taints' = [taints EXCEPT ![r] = @ \cup {on}]
           /\ hist' = [hist EXCEPT ![r].emitted = @ \cup {on}]
           /\ UNCHANGED <<pipe, restricts, decision>>
    <2>1. on \in Label
        BY <1>1, <1>3, OnType DEF At
    <2>2. [hist[r] EXCEPT !.emitted = @ \cup {on}] \in History
        BY <2>1 DEF TypeOK, History
    <2> QED
        BY <1>1, <1>2, <1>3, <2>1, <2>2 DEF TypeOK
<1>4. CASE /\ At(r, "mask")
           /\ pipe' = [pipe EXCEPT ![r][on] = "mask"]
           /\ UNCHANGED <<taints, restricts, decision, hist>>
    <2>1. on \in Path
        BY <1>1, <1>4, OnType DEF At
    <2>2. pipe' \in [Request -> Message]
        BY <1>4, <2>1 DEF TypeOK, Message, Value
    <2> QED
        BY <1>1, <1>2, <1>4, <2>2 DEF TypeOK
<1>5. CASE /\ At(r, "restrict")
           /\ restricts' = [restricts EXCEPT ![r] = @ \cup {on}]
           /\ UNCHANGED <<pipe, taints, decision, hist>>
    <2>1. on \in Raw
        BY <1>1, <1>5, OnType DEF At
    <2> QED
        BY <1>1, <1>2, <1>5, <2>1 DEF TypeOK
<1>6. CASE /\ At(r, "elicit")
           /\ decision' = [decision EXCEPT ![r].approved = TRUE]
           /\ UNCHANGED <<pipe, taints, restricts, hist>>
    <2>1. decision[r] \in Decision
        BY DEF TypeOK
    <2>2. [decision[r] EXCEPT !.approved = TRUE] \in Decision
        BY <2>1 DEF Decision
    <2> QED
        BY <1>1, <1>2, <1>6, <2>2 DEF TypeOK
<1> QED
    BY <1>3, <1>4, <1>5, <1>6 DEF Apply

LEMMA EvaluationType ==
    ASSUME TypeOK, NEW r \in Request, CallsDone(r) \/ Refused(r) \/ Suspended(r) \/ Evaluated(r)
    PROVE  TypeOK'
<1>1. CASE CallsDone(r)
    <2>1. Collected(call[r]) \subseteq Label
        BY DEF Collected, TypeOK, Call
    <2>2. [p \in Plugin |-> Idle] \in [Plugin -> Call]
        BY IdleType
    <2>3. Tail(todo[r]) \in Seq(Effect)
        BY <1>1, CalledType, HeadType DEF CallsDone
    <2> QED
        BY <1>1, <2>1, <2>2, <2>3 DEF CallsDone, TypeOK
<1>2. CASE Refused(r)
    BY <1>2, EndsType DEF Refused, TypeOK
<1>3. CASE Suspended(r)
    <2>1. decision[r] \in Decision
        BY DEF TypeOK
    <2>2. [decision[r] EXCEPT !.pending = TRUE] \in Decision
        BY <2>1 DEF Decision
    <2> QED
        BY <1>3, <2>2 DEF Suspended, TypeOK
<1>4. CASE Evaluated(r)
    BY <1>4, EndsType DEF Evaluated, TypeOK
<1> QED
    BY <1>1, <1>2, <1>3, <1>4

LEMMA ModifiedPayloadType ==
    ASSUME TypeOK, NEW r \in Request
    PROVE  ModifiedPayload(r) \in Message
BY IdleType DEF ModifiedPayload, ApplyChangedPaths, TypeOK, Message

LEMMA PersistType ==
    ASSUME TypeOK, NEW r \in Request,
           Settle(r) \/ Applied(r) \/ PersistOk(r) \/ PersistFails(r) \/ Finish(r)
    PROVE  TypeOK'
<1> USE DEF Shared
<1>1. CASE Settle(r)
    <2>1. [at |-> "sent", labels |-> (ext[r] \cup taints[r]) \ initial[r]] \in Sadd
        BY DEF TypeOK, Sadd
    <2>2. append' \in [Request -> Sadd]
        BY <1>1, <2>1 DEF Settle, TypeOK
    <2>3. pc' \in [Request -> {"new", "load", "walk", "settle", "persist", "finish", "done"}]
        BY <1>1 DEF Settle, TypeOK
    <2> QED
        BY <1>1, <2>2, <2>3 DEF Settle, TypeOK
<1>2. CASE Applied(r)
    <2>1. append[r].labels \subseteq Label /\ [append[r] EXCEPT !.at = "applied"] \in Sadd
        BY DEF TypeOK, Sadd
    <2> QED
        BY <1>2, <2>1 DEF Applied, TypeOK
<1>3. CASE PersistOk(r)
    BY <1>3 DEF PersistOk, TypeOK
<1>4. CASE PersistFails(r)
    <2>1. decision[r] \in Decision
        BY DEF TypeOK
    <2>2. [decision[r] EXCEPT !.persisted = FALSE] \in Decision
        BY <2>1 DEF Decision
    <2> QED
        BY <1>4, <2>2 DEF PersistFails, TypeOK
<1>5. CASE Finish(r)
    <2>1. FinalCode(r) \in Code
        BY DEF FinalCode, Code
    <2> QED
        BY <1>5, <2>1, ReturnsType, ModifiedPayloadType DEF Finish, TypeOK
<1> QED
    BY <1>1, <1>2, <1>3, <1>4, <1>5

LEMMA LapseType ==
    ASSUME TypeOK, NEW s \in Session, Lapse(s)
    PROVE  TypeOK'
<1>1. \A r \in Request : [hist[r] EXCEPT !.lapsed = TRUE] \in History
    <2> SUFFICES ASSUME NEW r \in Request PROVE [hist[r] EXCEPT !.lapsed = TRUE] \in History
        OBVIOUS
    <2>1. hist[r] \in History
        BY DEF TypeOK
    <2> QED
        BY <2>1 DEF History
<1> QED
    BY <1>1 DEF Lapse, TypeOK, Shared

-----------------------------------------------------------------------------
(* A step of one request leaves the others' locals alone.                  *)

Same(q) ==
    /\ append'[q] = append[q] /\ pc'[q] = pc[q] /\ todo'[q] = todo[q] /\ ext'[q] = ext[q]
    /\ initial'[q] = initial[q] /\ payload'[q] = payload[q] /\ pipe'[q] = pipe[q]
    /\ modified'[q] = modified[q] /\ call'[q] = call[q] /\ taints'[q] = taints[q]
    /\ decision'[q] = decision[q] /\ answer'[q] = answer[q] /\ hist'[q] = hist[q]

LEMMA OthersStand ==
    ASSUME NEW q, RequestInv(q), Same(q), input' = input,
           Sid(q) # None => store[Sid(q)] \subseteq store'[Sid(q)]
    PROVE  RequestInv(q)'
<1>1. (Sid(q))' = Sid(q) /\ (Called(q))' = Called(q) /\ (Forwarded(q))' = Forwarded(q)
    BY DEF Sid, Called, At, Forwarded, Same
<1>2. CallsInv(q)'
    BY <1>1 DEF RequestInv, CallsInv, Same, Told, Collected
<1>3. EditsInv(q)'
    BY <1>1 DEF RequestInv, EditsInv, Same, ModifiedPayload
<1>4. LabelsInv(q)'
    BY <1>1 DEF RequestInv, LabelsInv, Same, Told, Collected
<1> QED
    BY <1>2, <1>3, <1>4 DEF RequestInv

LEMMA StepIsLocal ==
    ASSUME TypeOK, NEW r \in Request, Step(r) \/ Applied(r), NEW q \in Request \ {r}
    PROVE  Same(q)
<1> USE DEF TypeOK, Same, Shared
<1>1. CASE Refuse(r) \/ LoadFails(r) \/ Finish(r)
    BY <1>1 DEF Refuse, LoadFails, Finish, Returns
<1>2. CASE Begin(r) \/ Load(r)
    BY <1>2 DEF Begin, Load
<1>3. ASSUME NEW p \in Plugin, CallBegins(r, p) PROVE Same(q)
    BY <1>3 DEF CallBegins
<1>4. ASSUME NEW p \in Plugin, CallReturns(r, p) PROVE Same(q)
    BY <1>4 DEF CallReturns, WriteBack, Ends
<1>5. ASSUME NEW p \in Plugin, CallFails(r, p) PROVE Same(q)
    BY <1>5 DEF CallFails, Ends
<1>6. CASE CallsDone(r)
    BY <1>6 DEF CallsDone
<1>7. CASE Apply(r)
    BY <1>7 DEF Apply
<1>8. CASE Refused(r) \/ Evaluated(r)
    BY <1>8 DEF Refused, Evaluated, Ends
<1>9. CASE Suspended(r) \/ PersistFails(r)
    BY <1>9 DEF Suspended, PersistFails
<1>10. CASE Settle(r)
    BY <1>10 DEF Settle
<1>11. CASE PersistOk(r) \/ Applied(r)
    BY <1>11 DEF PersistOk, Applied
<1> QED
    BY <1>1, <1>2, <1>3, <1>4, <1>5, <1>6, <1>7, <1>8, <1>9, <1>10, <1>11 DEF Step

\* What a session holds was given rise to in it.
LEMMA StoreSeen ==
    ASSUME TypeOK, SubjectInv, NEW r \in Request, Sid(r) # None
    PROVE  /\ store[Sid(r)] \subseteq MaySee(r)
           /\ MaySee(r) \subseteq EmittedIn(Sid(r))
<1>1. Sid(r) \in Session
    BY SidType
<1>2. input[r].labels \cup hist[r].emitted \subseteq Label
    BY DEF TypeOK, Input, History
<1>3. input[r].labels \cup hist[r].emitted \subseteq EmittedIn(Sid(r))
    BY <1>2 DEF EmittedIn
<1> QED
    BY <1>1, <1>3 DEF SubjectInv, MaySee

\* What a session has given rise to only grows.
LEMMA SubjectStands ==
    ASSUME IInv, TypeOK', NEW r \in Request, input' = input,
           \A q \in Request \ {r} : Same(q),
           hist[r].emitted \subseteq hist'[r].emitted,
           ext'[r] \subseteq MaySee(r) \cup hist'[r].emitted,
           taints'[r] \subseteq hist'[r].emitted,
           append'[r].labels \subseteq append[r].labels \cup ext'[r],
           \A p \in Plugin : call'[r][p].at = "running" => call'[r][p].labels \subseteq MaySee(r),
           \A s \in Session : store'[s] \subseteq store[s] \/
                (Sid(r) # None /\ s = Sid(r) /\ store'[s] \subseteq store[s] \cup append[r].labels)
    PROVE  SubjectInv'
<1>1. TypeOK /\ SubjectInv
    BY DEF IInv
<1>2. \A q \in Request : (Sid(q))' = Sid(q)
    BY DEF Sid
<1>3. \A q \in Request : hist[q].emitted \subseteq hist'[q].emitted
    BY DEF Same
<1>4. \A x : EmittedIn(x) \subseteq EmittedIn(x)'
    BY <1>2, <1>3 DEF EmittedIn
<1>5. \A q \in Request : MaySee(q) \subseteq MaySee(q)'
    BY <1>2, <1>3, <1>4 DEF MaySee
<1>6. ext'[r] \subseteq MaySee(r)'
    <2>1. hist'[r].emitted \subseteq MaySee(r)'
        BY DEF MaySee
    <2> QED
        BY <1>5, <2>1
<1>7. append'[r].labels \subseteq MaySee(r)'
    BY <1>1, <1>5, <1>6 DEF SubjectInv
<1>8. \A q \in Request \ {r} :
          /\ ext'[q] \subseteq MaySee(q)' /\ taints'[q] \subseteq hist'[q].emitted
          /\ append'[q].labels \subseteq MaySee(q)'
          /\ \A p \in Plugin : call'[q][p].at = "running" => call'[q][p].labels \subseteq MaySee(q)'
    BY <1>1, <1>5 DEF SubjectInv, Same
<1>9. \A s \in Session : store'[s] \subseteq EmittedIn(s)'
    <2> SUFFICES ASSUME NEW s \in Session PROVE store'[s] \subseteq EmittedIn(s)'
        OBVIOUS
    <2>1. store[s] \subseteq EmittedIn(s)'
        BY <1>1, <1>4 DEF SubjectInv
    <2>2. CASE Sid(r) # None /\ s = Sid(r) /\ store'[s] \subseteq store[s] \cup append[r].labels
        <3>1. append[r].labels \subseteq EmittedIn(s)
            BY <1>1, <2>2, StoreSeen DEF SubjectInv
        <3> QED
            BY <1>4, <2>1, <2>2, <3>1
    <2> QED
        BY <2>1, <2>2
<1> QED
    BY <1>5, <1>6, <1>7, <1>8, <1>9 DEF SubjectInv

\* A plugin that may modify is never called beside another, where it is checked.
LEMMA ModifiesAlone ==
    ASSUME TypeOK, NEW r \in Request, CallsInv(r), ~hist[r].racing, NEW p \in Called(r), CanModify(Mode[p])
    PROVE  Called(r) = {p}
<1>1. todo[r] # << >> /\ todo[r] \in Seq(Effect)
    BY CalledType DEF TypeOK
<1>2. Head(todo[r]) \in Effect /\ Head(todo[r]) = todo[r][1] /\ 1 \in DOMAIN todo[r]
    BY <1>1
<1>3. CASE At(r, "plugin")
    BY <1>2, <1>3, OnType DEF Called, At
<1>4. CASE At(r, "parallel")
    <2>1. p \in todo[r][1].on /\ todo[r][1].op = "parallel"
        BY <1>2, <1>4 DEF Called, At
    <2>2. IsSafeInParallel(Mode[p])
        BY <1>2, <2>1 DEF CallsInv, ValidateParallelPluginModes
    <2> QED
        BY <2>2 DEF IsSafeInParallel, CanModify
<1>5. CASE At(r, "stage")
    BY <1>5 DEF Called, At
<1> QED
    BY <1>3, <1>4, <1>5 DEF Called

LEMMA TailValid ==
    ASSUME TypeOK, NEW r \in Request, CallsInv(r), todo[r] # << >>
    PROVE  ~hist[r].racing => ValidateParallelPluginModes(Tail(todo[r]))
<1>1. todo[r] \in Seq(Effect)
    BY DEF TypeOK
<1>2. \A i \in DOMAIN Tail(todo[r]) : i + 1 \in DOMAIN todo[r] /\ Tail(todo[r])[i] = todo[r][i + 1]
    BY <1>1
<1> QED
    BY <1>2 DEF CallsInv, ValidateParallelPluginModes

\* Outside the walk no call is open, so the shared state is nobody's copy.
LEMMA NoneOpen ==
    ASSUME TypeOK, NEW r \in Request, CallsInv(r), Called(r) = {}
    PROVE  (\A p \in Plugin : call[r][p].at = "idle") /\ Collected(call[r]) = {}
BY DEF CallsInv, Collected

LEMMA CallsStand ==
    ASSUME NEW r \in Request, ~hist'[r].racing => ValidateParallelPluginModes(todo'[r]),
           \A p \in Plugin : call'[r][p].at = "idle" /\ call'[r][p].taints \subseteq hist'[r].emitted
    PROVE  CallsInv(r)'
BY DEF CallsInv

-----------------------------------------------------------------------------
(* The walk over the effects: the labels, edits and calls of one request.  *)

LEMMA WalkStep ==
    ASSUME IInv, TypeOK', NEW r \in Request, Step(r), pc[r] = "walk", pc'[r] \in {"walk", "settle"},
           UNCHANGED <<input, store, append, initial, answer>>,
           hist'[r].owed = hist[r].owed, hist'[r].lapsed = hist[r].lapsed,
           hist[r].emitted \subseteq hist'[r].emitted,
           pc'[r] = "walk" => hist'[r].emitted \subseteq ext'[r] \cup Told(r)',
           pc'[r] = "settle" => hist'[r].emitted \subseteq ext'[r] \cup taints'[r],
           hist'[r].owed \subseteq ext'[r], ext'[r] \subseteq MaySee(r) \cup hist'[r].emitted,
           taints'[r] \subseteq hist'[r].emitted,
           \A p \in Plugin : call'[r][p].at = "running" => call'[r][p].labels \subseteq MaySee(r),
           ~hist'[r].racing => \A f \in hist'[r].edited : payload'[r][f] # "original" /\ modified'[r],
           CallsInv(r)'
    PROVE  IInv'
<1>1. TypeOK /\ RequestInv(r) /\ \A q \in Request : RequestInv(q)
    BY DEF IInv
<1>2. \A q \in Request \ {r} : Same(q)
    BY <1>1, StepIsLocal
<1>3. \A q \in Request \ {r} : RequestInv(q)'
    BY <1>1, <1>2, OthersStand
<1>4. answer'[r].code = None /\ answer[r].code = None
    BY <1>1 DEF RequestInv, EditsInv
<1>5. ~Forwarded(r)' /\ ~Forwarded(r)
    BY <1>4, HandlerAssumption DEF Forwarded, Code
<1>6. EditsInv(r)'
    BY <1>4, <1>5 DEF EditsInv
<1>7. LabelsInv(r)'
    <2>1. (Sid(r))' = Sid(r)
        BY DEF Sid
    <2> QED
        BY <1>1, <1>5, <2>1 DEF RequestInv, LabelsInv
<1>8. SubjectInv'
    BY <1>2, SubjectStands
<1> QED
    BY <1>3, <1>6, <1>7, <1>8 DEF IInv, RequestInv

\* A call starts from what the request holds at that moment.
LEMMA CallBeginsStep ==
    ASSUME IInv, NEW r \in Request, NEW p \in Plugin, CallBegins(r, p)
    PROVE  IInv'
<1>1. TypeOK /\ TypeOK' /\ RequestInv(r) /\ Step(r) /\ SubjectInv
    BY CallsType DEF IInv, Step
<1>2. pc[r] = "walk"
    BY <1>1, CalledType DEF CallBegins
<1>3. UNCHANGED <<input, store, append, initial, answer, pc, todo, ext, payload, modified, hist, taints>>
    BY DEF CallBegins
<1>5. /\ call'[r][p] = [at |-> "running", payload |-> payload[r], labels |-> ext[r], taints |-> {}]
      /\ \A q \in Plugin \ {p} : call'[r][q] = call[r][q]
      /\ p \in Called(r) /\ Told(r)' = Told(r)
    <2>1. /\ call'[r][p] = [at |-> "running", payload |-> payload[r], labels |-> ext[r], taints |-> {}]
          /\ \A q \in Plugin \ {p} : call'[r][q] = call[r][q]
          /\ p \in Called(r) /\ call[r][p].at = "idle"
        BY <1>1 DEF CallBegins, TypeOK
    <2>2. {q \in Plugin : call'[r][q].at = "done"} = {q \in Plugin : call[r][q].at = "done"}
        BY <2>1
    <2>3. Collected(call'[r]) = Collected(call[r])
        BY <2>1, <2>2 DEF Collected
    <2> QED
        BY <1>3, <2>1, <2>3 DEF Told
<1>4. CallsInv(r)'
    <2>1. (Called(r))' = Called(r)
        BY <1>3 DEF Called, At
    <2> QED
        BY <1>1, <1>2, <1>3, <1>5, <2>1 DEF RequestInv, CallsInv, LabelsInv
<1>6. /\ hist[r].emitted \subseteq ext[r] \cup Told(r) /\ taints[r] \subseteq hist[r].emitted
      /\ hist[r].owed \subseteq ext[r] /\ ext[r] \subseteq MaySee(r)
      /\ ~hist[r].racing => \A f \in hist[r].edited : payload[r][f] # "original" /\ modified[r]
      /\ \A q \in Plugin : call'[r][q].at = "running" => call'[r][q].labels \subseteq MaySee(r)
    BY <1>1, <1>2, <1>5 DEF RequestInv, LabelsInv, EditsInv, SubjectInv
<1> QED
    BY <1>1, <1>2, <1>3, <1>4, <1>5, <1>6, WalkStep

\* What a call writes back is what it found, and what its own plugin changed.
LEMMA CallReturnsStep ==
    ASSUME IInv, NEW r \in Request, NEW p \in Plugin, CallReturns(r, p)
    PROVE  IInv'
<1>1. TypeOK /\ TypeOK' /\ RequestInv(r) /\ Step(r) /\ SubjectInv
    BY CallsType DEF IInv, Step
<1>2. PICK edits, adds, denies \in BOOLEAN :
          LET new == (IF adds THEN {LabelOf[p]} ELSE {}) \ call[r][p].labels
              calls == [call[r] EXCEPT ![p].at = "done", ![p].taints = new]
          IN  /\ p \in Called(r) /\ call[r][p].at = "running"
              /\ edits \/ adds => CanModify(Mode[p])
              /\ WriteBack(r, p, edits, adds)
              /\ IF denies THEN Ends(r, "deny", calls)
                 ELSE call' = [call EXCEPT ![r] = calls] /\ UNCHANGED <<pc, taints, decision>>
              /\ UNCHANGED <<store, append, input, todo, initial, restricts, answer>>
    BY DEF CallReturns
<1> DEFINE added == IF adds THEN {LabelOf[p]} ELSE {}
           edited == IF edits THEN {EditOf[p]} ELSE {}
           new == added \ call[r][p].labels
           calls == [call[r] EXCEPT ![p].at = "done", ![p].taints = new]
           c == call[r][p]
<1>3. /\ pc[r] = "walk" /\ p \in Called(r) /\ call[r][p].at = "running"
      /\ c.labels \cup Told(r) = ext[r] \cup Told(r) /\ hist[r].owed \subseteq c.labels
      /\ ~hist[r].racing => c.payload = payload[r]
    BY <1>1, <1>2, CalledType DEF RequestInv, CallsInv
<1>4. UNCHANGED <<input, store, append, initial, answer, todo>>
    BY <1>2
<1>5. /\ ext'[r] = c.labels \cup added
      /\ payload'[r] = IF edits THEN [c.payload EXCEPT ![EditOf[p]] = p] ELSE payload[r]
      /\ modified'[r] = (modified[r] \/ edits)
    BY <1>1, <1>2, <1>3 DEF WriteBack, TypeOK
<1>6. /\ hist'[r].racing = hist[r].racing
      /\ hist'[r].emitted = hist[r].emitted \cup added /\ hist'[r].edited = hist[r].edited \cup edited
      /\ hist'[r].owed = hist[r].owed /\ hist'[r].lapsed = hist[r].lapsed
    <2>1. hist' = [hist EXCEPT ![r].emitted = @ \cup added, ![r].edited = @ \cup edited]
        BY <1>2 DEF WriteBack
    <2>2. hist[r] \in History /\ hist \in [Request -> History]
        BY <1>1 DEF TypeOK
    <2> QED
        BY <2>1, <2>2 DEF History
<1>7. ~hist'[r].racing => \A f \in hist'[r].edited : payload'[r][f] # "original" /\ modified'[r]
    <2> SUFFICES ASSUME ~hist[r].racing
                 PROVE  \A f \in hist'[r].edited : payload'[r][f] # "original" /\ modified'[r]
        BY <1>6
    <2>5. c.payload = payload[r]
        BY <1>3
    <2>1. payload[r] \in [Path -> Value] /\ hist[r].edited \subseteq Path
        BY <1>1 DEF TypeOK, Message, History
    <2>2. ASSUME NEW f \in hist[r].edited PROVE payload'[r][f] # "original"
        <3>1. payload[r][f] # "original" /\ f \in Path
            BY <1>1, <2>1 DEF RequestInv, EditsInv
        <3> QED
            BY <1>5, <2>1, <2>5, <3>1, HandlerAssumption
    <2>3. ASSUME edits PROVE payload'[r][EditOf[p]] # "original"
        BY <1>5, <2>1, <2>3, <2>5, HandlerAssumption
    <2>4. hist[r].edited # {} \/ edits => modified'[r]
        BY <1>1, <1>5 DEF RequestInv, EditsInv
    <2> QED
        BY <1>6, <2>2, <2>3, <2>4
<1>8. /\ call[r] \in [Plugin -> Call] /\ calls[p].at = "done" /\ calls[p].taints = new
      /\ \A q \in Plugin \ {p} : calls[q] = call[r][q]
    BY <1>1 DEF TypeOK, Call
<1>9. \A q \in Plugin : calls[q].taints \subseteq hist'[r].emitted
    BY <1>1, <1>6, <1>8 DEF RequestInv, CallsInv
<1>10. /\ taints[r] \subseteq hist[r].emitted
       /\ hist[r].emitted \subseteq ext[r] \cup Told(r)
       /\ Collected(calls) = Collected(call[r]) \cup new
    <2>1. {q \in Plugin : calls[q].at = "done"} = {q \in Plugin : call[r][q].at = "done"} \cup {p}
        BY <1>3, <1>8
    <2>2. Collected(calls) = Collected(call[r]) \cup new
        BY <1>3, <1>8, <2>1 DEF Collected
    <2> QED
        BY <1>1, <1>3, <2>2 DEF RequestInv, LabelsInv, SubjectInv
<1>11. IF denies THEN Ends(r, "deny", calls)
       ELSE call' = [call EXCEPT ![r] = calls] /\ UNCHANGED <<pc, taints, decision>>
    BY <1>2
<1>15. new \subseteq added /\ added \subseteq c.labels \cup new
    OBVIOUS
<1> HIDE DEF calls, new, added, edited, c
<1>16. hist'[r].emitted \subseteq ext'[r] \cup taints[r] \cup Collected(calls)
    BY <1>3, <1>5, <1>6, <1>10 DEF Told
<1>12. /\ pc'[r] \in {"walk", "settle"} /\ taints'[r] \subseteq hist'[r].emitted
       /\ pc'[r] = "walk" => hist'[r].emitted \subseteq ext'[r] \cup Told(r)'
       /\ pc'[r] = "settle" => hist'[r].emitted \subseteq ext'[r] \cup taints'[r]
    <2>1. CASE denies
        <3>1. pc'[r] = "settle" /\ taints'[r] = taints[r] \cup Collected(calls)
            BY <1>1, <1>11, <2>1 DEF Ends, TypeOK
        <3>2. Collected(calls) \subseteq hist'[r].emitted
            BY <1>9 DEF Collected
        <3> QED
            BY <1>6, <1>10, <1>16, <3>1, <3>2
    <2>2. CASE ~denies
        <3>1. pc'[r] = "walk" /\ taints'[r] = taints[r] /\ call'[r] = calls
            BY <1>1, <1>3, <1>11, <2>2 DEF TypeOK
        <3> QED
            BY <1>6, <1>10, <1>16, <3>1 DEF Told
    <2> QED
        BY <2>1, <2>2
<1>13. CallsInv(r)'
    <2>1. ~hist'[r].racing => ValidateParallelPluginModes(todo'[r])
        BY <1>1, <1>4, <1>6 DEF RequestInv, CallsInv
    <2>2. CASE denies
        <3>1. call'[r] = [q \in Plugin |-> Idle]
            BY <1>1, <1>11, <2>2 DEF Ends, TypeOK
        <3> QED
            BY <2>1, <3>1, CallsStand DEF Idle
    <2>3. CASE ~denies
        <3>1. call'[r] = calls /\ (Called(r))' = Called(r)
            BY <1>1, <1>4, <1>11, <2>3 DEF TypeOK, Called, At
        <3>2. ASSUME NEW q \in Plugin, calls[q].at = "running"
              PROVE  /\ ~hist'[r].racing => calls[q].payload = payload'[r]
                     /\ calls[q].labels \cup Told(r)' = ext'[r] \cup Told(r)'
                     /\ hist'[r].owed \subseteq calls[q].labels
            <4>1. q # p /\ calls[q] = call[r][q] /\ q \in Called(r)
                BY <1>1, <1>8, <3>2 DEF RequestInv, CallsInv
            <4>2. ~hist[r].racing => ~edits
                BY <1>1, <1>2, <1>3, <4>1, ModifiesAlone DEF RequestInv
            <4>3. ~hist[r].racing => payload'[r] = payload[r]
                BY <1>5, <4>2
            <4>4. /\ ~hist[r].racing => calls[q].payload = payload[r]
                  /\ calls[q].labels \cup Told(r) = ext[r] \cup Told(r)
                  /\ hist[r].owed \subseteq calls[q].labels
                BY <1>1, <3>2, <4>1 DEF RequestInv, CallsInv
            <4>5. Told(r)' = Told(r) \cup new
                BY <1>10, <1>11, <2>3, <3>1 DEF Told
            <4> QED
                BY <1>3, <1>5, <1>6, <1>15, <4>3, <4>4, <4>5
        <3>3. \A q \in Plugin : calls[q].at # "idle" => q \in Called(r)
            BY <1>1, <1>3, <1>8 DEF RequestInv, CallsInv
        <3> QED
            BY <1>9, <2>1, <3>1, <3>2, <3>3 DEF CallsInv
    <2> QED
        BY <2>2, <2>3
<1>14. /\ hist[r].emitted \subseteq hist'[r].emitted /\ hist'[r].owed \subseteq ext'[r]
       /\ ext'[r] \subseteq MaySee(r) \cup hist'[r].emitted
       /\ \A q \in Plugin : call'[r][q].at = "running" => call'[r][q].labels \subseteq MaySee(r)
    <2>1. c.labels \subseteq MaySee(r)
        BY <1>1, <1>3 DEF SubjectInv, c
    <2>2. CASE denies
        <3>1. call'[r] = [q \in Plugin |-> Idle]
            BY <1>1, <1>11, <2>2 DEF Ends, TypeOK
        <3> QED
            BY <1>3, <1>5, <1>6, <2>1, <3>1 DEF Idle
    <2>3. CASE ~denies
        <3>1. call'[r] = calls
            BY <1>1, <1>11, <2>3 DEF TypeOK
        <3> QED
            BY <1>1, <1>3, <1>5, <1>6, <1>8, <2>1, <3>1 DEF SubjectInv
    <2> QED
        BY <2>2, <2>3
<1> QED
    BY <1>1, <1>3, <1>4, <1>6, <1>7, <1>12, <1>13, <1>14, WalkStep

\* The evaluation ends with the taints of the calls that came back.
LEMMA EndStep ==
    ASSUME IInv, TypeOK', NEW r \in Request, Step(r), pc[r] = "walk", NEW verdict,
           Ends(r, verdict, call[r]),
           UNCHANGED <<store, append, input, todo, ext, initial, payload, modified, answer, hist>>
    PROVE  IInv'
<1>1. TypeOK /\ RequestInv(r) /\ SubjectInv
    BY DEF IInv
<1>2. /\ pc'[r] = "settle" /\ taints'[r] = taints[r] \cup Collected(call[r])
      /\ call'[r] = [p \in Plugin |-> Idle]
    BY <1>1 DEF Ends, TypeOK
<1>3. Collected(call[r]) \subseteq hist[r].emitted
    BY <1>1 DEF Collected, RequestInv, CallsInv
<1>4. CallsInv(r)'
    BY <1>1, <1>2, CallsStand DEF RequestInv, CallsInv, Idle
<1>5. /\ hist[r].emitted \subseteq ext[r] \cup Told(r) /\ taints[r] \subseteq hist[r].emitted
      /\ hist[r].owed \subseteq ext[r] /\ ext[r] \subseteq MaySee(r)
      /\ ~hist[r].racing => \A f \in hist[r].edited : payload[r][f] # "original" /\ modified[r]
    BY <1>1 DEF RequestInv, LabelsInv, EditsInv, SubjectInv
<1>6. hist[r].emitted \subseteq ext[r] \cup taints'[r]
    BY <1>2, <1>5 DEF Told
<1>7. \A p \in Plugin : call'[r][p].at # "running"
    BY <1>2 DEF Idle
<1> QED
    BY <1>1, <1>2, <1>3, <1>4, <1>5, <1>6, <1>7, WalkStep

LEMMA EvaluationStep ==
    ASSUME IInv, NEW r \in Request,
           CallsDone(r) \/ Refused(r) \/ Suspended(r) \/ Evaluated(r)
                \/ \E p \in Plugin : CallFails(r, p)
    PROVE  IInv'
<1>1. TypeOK /\ RequestInv(r) /\ CallsInv(r) /\ SubjectInv
    BY DEF IInv, RequestInv
<1>2. ASSUME NEW p \in Plugin, CallFails(r, p) PROVE IInv'
    <2>1. TypeOK' /\ Step(r) /\ pc[r] = "walk"
        BY <1>1, <1>2, CallsType, CalledType DEF Step, CallFails
    <2> QED
        BY <1>2, <2>1, EndStep DEF CallFails
<1>3. CASE Refused(r)
    <2>1. TypeOK' /\ Step(r) /\ pc[r] = "walk"
        BY <1>1, <1>3, EvaluationType DEF Step, Refused, At
    <2> QED
        BY <1>3, <2>1, EndStep DEF Refused
<1>4. CASE Evaluated(r)
    <2>1. TypeOK' /\ Step(r) /\ pc[r] = "walk"
        BY <1>1, <1>4, EvaluationType DEF Step, Evaluated
    <2> QED
        BY <1>4, <2>1, EndStep DEF Evaluated
<1>5. /\ pc[r] = "walk" => hist[r].emitted \subseteq ext[r] \cup Told(r) /\ hist[r].owed \subseteq ext[r]
      /\ taints[r] \subseteq hist[r].emitted /\ ext[r] \subseteq MaySee(r)
      /\ ~hist[r].racing => \A f \in hist[r].edited : payload[r][f] # "original" /\ modified[r]
    BY <1>1 DEF RequestInv, LabelsInv, EditsInv, SubjectInv
<1>6. CASE Suspended(r)
    <2>1. TypeOK' /\ Step(r) /\ pc[r] = "walk" /\ pc'[r] = "settle" /\ Called(r) = {}
        BY <1>1, <1>6, EvaluationType DEF Step, Suspended, At, TypeOK, Called
    <2>2. UNCHANGED <<input, store, append, initial, answer, todo, call, ext, taints, hist, payload, modified>>
        BY <1>6 DEF Suspended
    <2>3. CallsInv(r)'
        BY <1>1, <2>1, <2>2, NoneOpen, CallsStand DEF CallsInv
    <2>4. Told(r) = taints[r] /\ \A p \in Plugin : call[r][p].at # "running"
        BY <1>1, <2>1, NoneOpen DEF Told
    <2> QED
        BY <1>5, <2>1, <2>2, <2>3, <2>4, WalkStep
<1>7. CASE CallsDone(r)
    <2>1. TypeOK' /\ Step(r) /\ pc[r] = "walk" /\ todo[r] # << >>
        BY <1>1, <1>7, EvaluationType, CalledType DEF Step, CallsDone
    <2>2. UNCHANGED <<input, store, append, initial, answer, pc, ext, hist, payload, modified>>
        BY <1>7 DEF CallsDone
    <2>3. /\ taints'[r] = taints[r] \cup Collected(call[r]) /\ todo'[r] = Tail(todo[r])
          /\ call'[r] = [p \in Plugin |-> Idle]
        BY <1>1, <1>7 DEF CallsDone, TypeOK
    <2>4. Collected(call[r]) \subseteq hist[r].emitted
        BY <1>1 DEF Collected, CallsInv
    <2>5. CallsInv(r)'
        BY <1>1, <2>1, <2>2, <2>3, TailValid, CallsStand DEF Idle
    <2>6. hist[r].emitted \subseteq ext[r] \cup taints'[r] /\ taints'[r] \subseteq Told(r)'
        BY <1>5, <2>1, <2>3 DEF Told
    <2>7. \A p \in Plugin : call'[r][p].at # "running"
        BY <2>3 DEF Idle
    <2> QED
        BY <1>5, <2>1, <2>2, <2>3, <2>4, <2>5, <2>6, <2>7, WalkStep
<1> QED
    BY <1>2, <1>3, <1>4, <1>6, <1>7

\* An effect that calls no plugin is evaluated while no call is open.
LEMMA ApplyStep ==
    ASSUME IInv, NEW r \in Request, Apply(r)
    PROVE  IInv'
<1>1. TypeOK /\ TypeOK' /\ RequestInv(r) /\ CallsInv(r) /\ SubjectInv /\ Step(r)
    BY ApplyType DEF IInv, RequestInv, Step
<1>2. pc[r] = "walk" /\ todo[r] # << >> /\ Called(r) = {}
    BY DEF Apply, At, Called
<1>3. UNCHANGED <<store, append, pc, input, ext, initial, payload, modified, call, answer>>
    BY DEF Apply
<1>4. todo'[r] = Tail(todo[r])
    BY <1>1 DEF Apply, TypeOK
<1>5. /\ hist[r].emitted \subseteq ext[r] \cup taints[r] /\ taints[r] \subseteq hist[r].emitted
      /\ hist[r].owed \subseteq ext[r] /\ ext[r] \subseteq MaySee(r)
      /\ ~hist[r].racing => \A f \in hist[r].edited : payload[r][f] # "original" /\ modified[r]
      /\ \A p \in Plugin : call[r][p].at # "running"
    <2>1. Told(r) = taints[r] /\ \A p \in Plugin : call[r][p].at # "running"
        BY <1>1, <1>2, NoneOpen DEF Told
    <2> QED
        BY <1>1, <1>2, <2>1 DEF RequestInv, LabelsInv, EditsInv, SubjectInv
<1>6. \/ hist' = hist /\ taints' = taints
      \/ \E l : /\ hist' = [hist EXCEPT ![r].emitted = @ \cup {l}]
                /\ taints' = [taints EXCEPT ![r] = @ \cup {l}]
    BY DEF Apply
<1>7. PICK new : /\ hist'[r].emitted = hist[r].emitted \cup new
                 /\ taints'[r] = taints[r] \cup new
                 /\ hist'[r].owed = hist[r].owed /\ hist'[r].lapsed = hist[r].lapsed
                 /\ hist'[r].edited = hist[r].edited /\ hist'[r].racing = hist[r].racing
    <2>1. CASE hist' = hist /\ taints' = taints
        <3>1. /\ hist'[r].emitted = hist[r].emitted \cup {} /\ taints'[r] = taints[r] \cup {}
              /\ hist'[r] = hist[r]
            BY <2>1
        <3> QED
            BY <3>1
    <2>2. ASSUME NEW l, hist' = [hist EXCEPT ![r].emitted = @ \cup {l}],
                 taints' = [taints EXCEPT ![r] = @ \cup {l}]
          PROVE  /\ hist'[r].emitted = hist[r].emitted \cup {l}
                 /\ taints'[r] = taints[r] \cup {l}
                 /\ hist'[r].owed = hist[r].owed /\ hist'[r].lapsed = hist[r].lapsed
                 /\ hist'[r].edited = hist[r].edited /\ hist'[r].racing = hist[r].racing
        BY <1>1, <2>2 DEF TypeOK, History
    <2> QED
        BY <1>6, <2>1, <2>2
<1>8. CallsInv(r)'
    <2>1. \A p \in Plugin : call'[r][p].at = "idle" /\ call'[r][p].taints \subseteq hist'[r].emitted
        BY <1>1, <1>2, <1>3, <1>7, NoneOpen DEF CallsInv
    <2> QED
        BY <1>1, <1>2, <1>4, <1>7, <2>1, TailValid, CallsStand
<1>9. taints'[r] \subseteq Told(r)'
    BY DEF Told
<1> QED
    BY <1>1, <1>2, <1>3, <1>5, <1>7, <1>8, <1>9, WalkStep

-----------------------------------------------------------------------------
(* Before and after the walk no call is open.                              *)

LEMMA QuietStep ==
    ASSUME IInv, TypeOK', NEW r \in Request, Step(r), pc[r] # "walk",
           UNCHANGED <<store, input, todo, payload, pipe, modified, call, taints>>,
           hist'[r].emitted = hist[r].emitted, hist'[r].racing = hist[r].racing,
           EditsInv(r)', LabelsInv(r)',
           ext'[r] \subseteq ext[r] \cup taints[r] \cup (IF Sid(r) = None THEN {} ELSE store[Sid(r)]),
           append'[r].labels \subseteq append[r].labels \cup ext'[r]
    PROVE  IInv'
<1>1. TypeOK /\ RequestInv(r) /\ CallsInv(r) /\ SubjectInv /\ \A q \in Request : RequestInv(q)
    BY DEF IInv, RequestInv
<1>2. \A q \in Request \ {r} : Same(q)
    BY <1>1, StepIsLocal
<1>3. \A q \in Request \ {r} : RequestInv(q)'
    BY <1>1, <1>2, OthersStand
<1>4. CallsInv(r)'
    <2>1. \A p \in Plugin : call[r][p].at = "idle"
        BY <1>1, CalledType, NoneOpen
    <2> QED
        BY <1>1, <2>1, CallsStand DEF CallsInv
<1>5. /\ taints[r] \subseteq hist'[r].emitted /\ ext'[r] \subseteq MaySee(r) \cup hist'[r].emitted
      /\ \A p \in Plugin : call[r][p].at = "running" => call[r][p].labels \subseteq MaySee(r)
    BY <1>1, StoreSeen DEF SubjectInv
<1>6. SubjectInv'
    BY <1>2, <1>5, SubjectStands
<1> QED
    BY <1>3, <1>4, <1>6 DEF IInv, RequestInv

\* What the store is known to hold: it was acknowledged and has not lapsed.
LEMMA AcknowledgedIsStored ==
    ASSUME IInv, NEW s \in Session
    PROVE  Acknowledged(s) \subseteq store[s]
<1> SUFFICES ASSUME NEW q \in Request, Sid(q) = s, ~hist[q].lapsed, pc[q] \in {"finish", "done"},
                    decision[q].persisted
             PROVE  append[q].labels \subseteq store[s]
    BY DEF Acknowledged
<1>1. LabelsInv(q) /\ append[q].at \in {"none", "sent", "applied"}
    BY DEF IInv, RequestInv, TypeOK, Sadd
<1> QED
    BY <1>1 DEF LabelsInv

\* A request that is not yet answered.
LEMMA Unanswered ==
    ASSUME IInv, NEW r \in Request, pc[r] # "done", answer'[r] = answer[r],
           payload'[r] = payload[r], modified'[r] = modified[r], hist'[r].edited = hist[r].edited,
           hist'[r].racing = hist[r].racing
    PROVE  EditsInv(r)' /\ ~Forwarded(r) /\ ~Forwarded(r)'
<1>1. EditsInv(r)
    BY DEF IInv, RequestInv
<1>2. answer[r].code = None
    BY <1>1 DEF EditsInv
<1>3. ~Forwarded(r) /\ ~Forwarded(r)'
    BY <1>2, HandlerAssumption DEF Forwarded, Code
<1> QED
    BY <1>1, <1>2, <1>3 DEF EditsInv

LEMMA BeginStep ==
    ASSUME IInv, NEW r \in Request, Begin(r)
    PROVE  IInv'
<1>1. TypeOK /\ TypeOK' /\ LabelsInv(r) /\ Step(r)
    BY StartType DEF IInv, RequestInv, Step, Begin
<1>2. /\ pc[r] = "new" /\ pc'[r] = IF Sid(r) = None THEN "walk" ELSE "load"
      /\ initial'[r] = IF Sid(r) = None THEN ext[r] ELSE {}
      /\ UNCHANGED <<store, append, input, todo, ext, payload, pipe, modified, call, taints, decision,
                     answer, hist>>
    BY <1>1 DEF Begin, TypeOK, Shared
<1>3. EditsInv(r)' /\ ~Forwarded(r)'
    BY <1>2, Unanswered
<1>4. hist[r].owed = {}
    BY <1>1, <1>2 DEF LabelsInv
<1>5. LabelsInv(r)'
    BY <1>1, <1>2, <1>3, <1>4 DEF LabelsInv, Sid
<1> QED
    BY <1>1, <1>2, <1>3, <1>5, QuietStep

\* Hydration brings in whatever earlier requests were told is stored.
LEMMA LoadStep ==
    ASSUME IInv, NEW r \in Request, Load(r)
    PROVE  IInv'
<1>1. TypeOK /\ LabelsInv(r) /\ Step(r) /\ pc[r] = "load" /\ Sid(r) # None
    BY DEF IInv, RequestInv, Step, Load, LabelsInv
<1>2. TypeOK' /\ Sid(r) \in Session
    BY <1>1, StartType, SidType
<1>3. /\ pc'[r] = "walk"
      /\ ext'[r] = ext[r] \cup store[Sid(r)] /\ initial'[r] = ext[r] \cup store[Sid(r)]
      /\ UNCHANGED <<store, append, input, todo, payload, pipe, modified, call, taints, decision, answer>>
    BY <1>1 DEF Load, HydrateLabels, TypeOK, Shared
<1>4. /\ hist'[r].owed = Acknowledged(Sid(r)) /\ hist'[r].emitted = hist[r].emitted
      /\ hist'[r].edited = hist[r].edited /\ hist'[r].lapsed = hist[r].lapsed
      /\ hist'[r].racing = hist[r].racing
    <2>1. hist' = [hist EXCEPT ![r].owed = Acknowledged(Sid(r))]
        BY DEF Load
    <2> QED
        BY <1>1, <2>1 DEF TypeOK, History
<1>5. EditsInv(r)' /\ ~Forwarded(r)'
    BY <1>1, <1>3, <1>4, Unanswered
<1>6. hist'[r].owed \subseteq ext'[r]
    BY <1>2, <1>3, <1>4, AcknowledgedIsStored
<1>7. LabelsInv(r)'
    BY <1>1, <1>3, <1>4, <1>5, <1>6 DEF LabelsInv, Sid
<1> QED
    BY <1>1, <1>2, <1>3, <1>4, <1>5, <1>7, QuietStep

\* A request that is refused or cannot load its session is not forwarded.
LEMMA EarlyReturnStep ==
    ASSUME IInv, NEW r \in Request, Refuse(r) \/ LoadFails(r)
    PROVE  IInv'
<1>1. TypeOK /\ LabelsInv(r) /\ EditsInv(r) /\ Step(r)
    BY DEF IInv, RequestInv, Step
<1>2. TypeOK'
    BY <1>1, StartType DEF LabelsInv
<1>3. /\ pc[r] \in {"new", "load"} /\ pc'[r] = "done"
      /\ answer'[r].code \in {"error", "session.load_failed"}
      /\ UNCHANGED <<store, append, input, todo, ext, initial, payload, pipe, modified, call, taints,
                     decision, hist>>
    BY <1>1 DEF Refuse, LoadFails, Returns, TypeOK, Shared
<1>4. EditsInv(r)' /\ ~Forwarded(r)'
    BY <1>1, <1>3 DEF EditsInv, Forwarded
<1>5. LabelsInv(r)'
    BY <1>1, <1>3, <1>4 DEF LabelsInv, Sid
<1> QED
    BY <1>1, <1>2, <1>3, <1>4, <1>5, QuietStep

\* Every label that is not known to be stored goes into the append.
LEMMA SettleStep ==
    ASSUME IInv, NEW r \in Request, Settle(r)
    PROVE  IInv'
<1>1. TypeOK /\ TypeOK' /\ LabelsInv(r) /\ Step(r) /\ pc[r] = "settle"
    BY PersistType DEF IInv, RequestInv, Step, Settle
<1> DEFINE labels == ext[r] \cup taints[r]
           new == labels \ initial[r]
<1>2. /\ ext'[r] = labels
      /\ UNCHANGED <<store, input, todo, initial, payload, pipe, modified, call, taints, decision,
                     answer, hist>>
    BY <1>1 DEF Settle, TypeOK, Shared
<1>3. EditsInv(r)' /\ ~Forwarded(r)'
    BY <1>1, <1>2, Unanswered
<1>4. CASE Sid(r) = None \/ new = {}
    <2>1. pc'[r] = "finish" /\ append' = append
        BY <1>1, <1>4 DEF Settle, TypeOK
    <2>2. LabelsInv(r)'
        BY <1>1, <1>2, <1>3, <1>4, <2>1 DEF LabelsInv, Sid
    <2> QED
        BY <1>1, <1>2, <1>3, <2>1, <2>2, QuietStep
<1>5. CASE Sid(r) # None /\ new # {}
    <2>1. pc'[r] = "persist" /\ append'[r] = [at |-> "sent", labels |-> new]
        BY <1>1, <1>5 DEF Settle, TypeOK
    <2>2. LabelsInv(r)'
        BY <1>1, <1>2, <1>3, <1>5, <2>1 DEF LabelsInv, Sid
    <2> QED
        BY <1>1, <1>2, <1>3, <2>1, <2>2, QuietStep
<1> QED
    BY <1>4, <1>5

\* An acknowledgement comes after the server has applied the append; whoever
\* gave up on it is not forwarded.
LEMMA PersistStep ==
    ASSUME IInv, NEW r \in Request, PersistOk(r) \/ PersistFails(r)
    PROVE  IInv'
<1>1. TypeOK /\ TypeOK' /\ LabelsInv(r) /\ Step(r) /\ pc[r] = "persist"
    BY PersistType DEF IInv, RequestInv, Step, PersistOk, PersistFails
<1>2. /\ pc'[r] = "finish"
      /\ UNCHANGED <<store, append, input, todo, ext, initial, payload, pipe, modified, call, taints,
                     answer, hist>>
    BY <1>1 DEF PersistOk, PersistFails, TypeOK, Shared
<1>3. append[r].at = "applied" \/ ~decision'[r].persisted
    BY <1>1 DEF PersistOk, PersistFails, TypeOK, Decision
<1>4. EditsInv(r)' /\ ~Forwarded(r)'
    BY <1>1, <1>2, Unanswered
<1>5. LabelsInv(r)'
    BY <1>1, <1>2, <1>3, <1>4 DEF LabelsInv, Sid
<1> QED
    BY <1>1, <1>2, <1>4, <1>5, QuietStep

\* What goes out is the message with every edit, and only once it is persisted.
LEMMA FinishStep ==
    ASSUME IInv, NEW r \in Request, Finish(r)
    PROVE  IInv'
<1>1. TypeOK /\ TypeOK' /\ LabelsInv(r) /\ EditsInv(r) /\ Step(r) /\ pc[r] = "finish"
    BY PersistType DEF IInv, RequestInv, Step, Finish
<1>2. /\ pc'[r] = "done" /\ answer'[r] = [code |-> FinalCode(r), payload |-> ModifiedPayload(r)]
      /\ UNCHANGED <<store, append, input, todo, ext, initial, payload, pipe, modified, call, taints,
                     decision, hist>>
    BY <1>1 DEF Finish, Returns, TypeOK, Shared
<1>3. EditsInv(r)'
    BY <1>1, <1>2 DEF EditsInv, ModifiedPayload
<1>4. Forwarded(r)' => decision[r].persisted
    BY <1>2 DEF Forwarded, FinalCode
<1>5. LabelsInv(r)'
    BY <1>1, <1>2, <1>4 DEF LabelsInv, Sid
<1> QED
    BY <1>1, <1>2, <1>3, <1>5, QuietStep

\* The server may apply an append that nobody waits for any more.
LEMMA AppliedStep ==
    ASSUME IInv, NEW r \in Request, Applied(r)
    PROVE  IInv'
<1>1. TypeOK /\ TypeOK' /\ LabelsInv(r) /\ EditsInv(r) /\ CallsInv(r) /\ SubjectInv
      /\ \A q \in Request : RequestInv(q)
    BY PersistType DEF IInv, RequestInv
<1>2. append[r].at = "sent" /\ Sid(r) # None /\ Sid(r) \in Session
    BY <1>1, SidType DEF Applied, LabelsInv
<1>3. /\ UNCHANGED <<pc, input, todo, ext, initial, payload, pipe, modified, call, taints, decision,
                     answer, hist>>
      /\ append'[r].at = "applied" /\ append'[r].labels = append[r].labels
      /\ store'[Sid(r)] = store[Sid(r)] \cup append[r].labels
      /\ \A s \in Session \ {Sid(r)} : store'[s] = store[s]
    BY <1>1, <1>2 DEF Applied, TypeOK, Shared, Sadd
<1>4. \A q \in Request \ {r} : Same(q)
    BY <1>1, StepIsLocal
<1>5. \A q \in Request \ {r} : RequestInv(q)'
    <2> SUFFICES ASSUME NEW q \in Request \ {r} PROVE RequestInv(q)'
        OBVIOUS
    <2>1. Sid(q) # None => store[Sid(q)] \subseteq store'[Sid(q)]
        BY <1>1, <1>3, SidType
    <2> QED
        BY <1>1, <1>3, <1>4, <2>1, OthersStand
<1>6. (Sid(r))' = Sid(r) /\ (Called(r))' = Called(r) /\ (Forwarded(r))' = Forwarded(r)
    BY <1>3 DEF Sid, Called, At, Forwarded
<1>7. CallsInv(r)' /\ EditsInv(r)'
    BY <1>1, <1>3, <1>6 DEF CallsInv, EditsInv, ModifiedPayload, Told, Collected
<1>8. LabelsInv(r)'
    BY <1>1, <1>2, <1>3, <1>6 DEF LabelsInv, Told, Collected
<1>9. SubjectInv'
    <2>1. /\ taints[r] \subseteq hist[r].emitted /\ ext[r] \subseteq MaySee(r)
          /\ \A p \in Plugin : call[r][p].at = "running" => call[r][p].labels \subseteq MaySee(r)
        BY <1>1 DEF SubjectInv
    <2> QED
        BY <1>1, <1>2, <1>3, <1>4, <2>1, SubjectStands
<1> QED
    BY <1>1, <1>5, <1>7, <1>8, <1>9 DEF IInv, RequestInv

\* A lapse takes nothing from a request that has yet to load.
LEMMA LapseStep ==
    ASSUME IInv, NEW s \in Session, Lapse(s)
    PROVE  IInv'
<1>1. TypeOK /\ TypeOK' /\ SubjectInv /\ \A q \in Request : RequestInv(q)
    BY LapseType DEF IInv
<1>2. UNCHANGED <<append, pc, input, todo, ext, initial, payload, pipe, modified, call, taints,
                  decision, answer>>
    BY DEF Lapse, Shared
<1>3. store'[s] = {} /\ \A t \in Session \ {s} : store'[t] = store[t]
    BY <1>1 DEF Lapse, TypeOK
<1>4. \A q \in Request :
          /\ hist'[q].emitted = hist[q].emitted /\ hist'[q].edited = hist[q].edited
          /\ hist'[q].owed = hist[q].owed /\ hist'[q].racing = hist[q].racing
          /\ hist'[q].lapsed = IF Sid(q) = s /\ pc[q] \notin {"new", "load"} THEN TRUE ELSE hist[q].lapsed
    BY <1>1 DEF Lapse, TypeOK, History
<1>5. ASSUME NEW q \in Request PROVE RequestInv(q)'
    <2>1. (Sid(q))' = Sid(q) /\ (Called(q))' = Called(q) /\ (Forwarded(q))' = Forwarded(q)
        BY <1>2 DEF Sid, Called, At, Forwarded
    <2>2. RequestInv(q) /\ Sid(q) \in Session \cup {None}
        BY <1>1, SidType
    <2>5. Told(q)' = Told(q)
        BY <1>2 DEF Told
    <2>3. CallsInv(q)' /\ EditsInv(q)'
        BY <1>2, <1>4, <2>1, <2>2, <2>5 DEF RequestInv, CallsInv, EditsInv, ModifiedPayload
    <2>4. LabelsInv(q)'
        <3>1. CASE Sid(q) = s /\ pc[q] \notin {"new", "load"}
            BY <1>2, <1>4, <2>1, <2>2, <2>5, <3>1 DEF RequestInv, LabelsInv
        <3>2. CASE pc[q] \in {"new", "load"}
            BY <1>2, <1>4, <2>1, <2>2, <2>5, <3>2 DEF RequestInv, LabelsInv
        <3>3. CASE Sid(q) # s
            <4>1. Sid(q) # None => store'[Sid(q)] = store[Sid(q)]
                BY <1>3, <2>2, <3>3
            <4>2. hist'[q].lapsed = hist[q].lapsed
                BY <1>4, <3>3
            <4> QED
                BY <1>2, <1>4, <2>1, <2>2, <2>5, <4>1, <4>2 DEF RequestInv, LabelsInv
        <3> QED
            BY <3>1, <3>2, <3>3
    <2> QED
        BY <2>3, <2>4 DEF RequestInv
<1>6. SubjectInv'
    <2>5. \A q \in Request : (Sid(q))' = Sid(q)
        BY <1>2 DEF Sid
    <2>1. \A x : EmittedIn(x)' = EmittedIn(x)
        BY <1>2, <1>4, <2>5 DEF EmittedIn
    <2>2. \A q \in Request : MaySee(q)' = MaySee(q)
        BY <1>2, <1>4, <2>1, <2>5 DEF MaySee
    <2>3. \A t \in Session : store'[t] \subseteq store[t]
        BY <1>3
    <2>4. \A t \in Session : store'[t] \subseteq EmittedIn(t)'
        BY <1>1, <2>1, <2>3 DEF SubjectInv
    <2> QED
        BY <1>1, <1>2, <1>4, <2>2, <2>4 DEF SubjectInv
<1> QED
    BY <1>1, <1>5, <1>6 DEF IInv

-----------------------------------------------------------------------------

\* Any configuration that is installed establishes the invariant.
LEMMA Initially == Init => IInv
<1> SUFFICES ASSUME Init PROVE IInv
    OBVIOUS
<1>1. PICK t \in Traffic :
          /\ input = [r \in Request |-> t[r].in]
          /\ todo = [r \in Request |-> t[r].route]
          /\ hist = [r \in Request |-> [emitted |-> {}, owed |-> {}, edited |-> {}, lapsed |-> FALSE,
                                        racing |-> ~ValidateParallelPluginModes(t[r].route)]]
    BY DEF Init
<1>2. /\ input \in [Request -> Input] /\ todo \in [Request -> Seq(Effect)]
      /\ hist \in [Request -> History]
      /\ \A r \in Request : /\ ~hist[r].racing => ValidateParallelPluginModes(todo[r])
                            /\ hist[r].emitted = {} /\ hist[r].owed = {} /\ hist[r].edited = {}
                            /\ ~hist[r].lapsed
    BY <1>1, HandlerAssumption DEF History, ValidateParallelPluginModes
<1>3. \A r \in Request : input[r].labels \subseteq Label
    BY <1>2 DEF Input
<1>4. TypeOK
    <2>1. /\ [at |-> "none", labels |-> {}] \in Sadd
          /\ [verdict |-> "allow", pending |-> FALSE, approved |-> FALSE, persisted |-> TRUE] \in Decision
          /\ [code |-> None, payload |-> Untouched] \in Answer
        BY IdleType DEF Sadd, Decision, Answer
    <2>2. [p \in Plugin |-> Idle] \in [Plugin -> Call]
        BY IdleType
    <2> QED
        BY <1>2, <1>3, <2>1, <2>2, IdleType DEF Init, TypeOK
<1>5. ASSUME NEW r \in Request PROVE RequestInv(r)
    <2>1. CallsInv(r)
        BY <1>2 DEF Init, CallsInv, Idle
    <2>2. EditsInv(r)
        BY <1>2, HandlerAssumption DEF Init, EditsInv, Forwarded, Code
    <2>3. LabelsInv(r)
        BY <1>2, HandlerAssumption DEF Init, LabelsInv, Forwarded, Code
    <2> QED
        BY <2>1, <2>2, <2>3 DEF RequestInv
<1>6. SubjectInv
    BY DEF Init, SubjectInv, MaySee, Idle
<1> QED
    BY <1>4, <1>5, <1>6 DEF IInv

\* One case per action.
LEMMA Inductive == IInv /\ [Next]_vars => IInv'
<1> SUFFICES ASSUME IInv, [Next]_vars PROVE IInv'
    OBVIOUS
<1>1. ASSUME NEW r \in Request, Step(r) PROVE IInv'
    BY <1>1, EarlyReturnStep, BeginStep, LoadStep, CallBeginsStep, CallReturnsStep, EvaluationStep,
       ApplyStep, SettleStep, PersistStep, FinishStep DEF Step
<1>2. ASSUME NEW r \in Request, Applied(r) PROVE IInv'
    BY <1>2, AppliedStep
<1>3. ASSUME NEW s \in Session, Lapse(s) PROVE IInv'
    BY <1>3, LapseStep
<1>4. CASE UNCHANGED vars
    <2>1. \A r \in Request : Same(r)
        BY <1>4 DEF vars, Same
    <2>2. \A r \in Request : RequestInv(r)'
        BY <1>4, <2>1, OthersStand DEF vars, IInv
    <2>3. TypeOK' /\ SubjectInv'
        BY <1>4 DEF vars, IInv, TypeOK, SubjectInv, MaySee, EmittedIn, Sid
    <2> QED
        BY <2>2, <2>3 DEF IInv
<1> QED
    BY <1>1, <1>2, <1>3, <1>4 DEF Next

LEMMA Invariant == Spec => []IInv
BY Initially, Inductive, PTL DEF Spec

\* The state of every request, and of the store, keeps its type.
THEOREM TypeCorrect == Spec => []TypeOK
<1>1. IInv => TypeOK
    BY DEF IInv
<1> QED
    BY <1>1, Invariant, PTL

\* No overlap of plugin calls loses an edit: whole-message write-back is safe
\* because parallel_safety.rs admits no plugin that modifies to a block, and
\* where it is not asked, in the global catch-all, what a pipeline rewrote is
\* delivered even so.
THEOREM EveryEditDelivered == Spec => []EditsDelivered
<1>1. IInv => EditsDelivered
    <2> SUFFICES ASSUME IInv, NEW r \in Request, Forwarded(r), NEW f \in Path,
                        pipe[r][f] # "original" \/ (f \in hist[r].edited /\ ~hist[r].racing)
                 PROVE  answer[r].payload[f] # "original"
        BY DEF EditsDelivered
    <2>1. /\ answer[r].payload = ModifiedPayload(r)
          /\ f \in hist[r].edited /\ ~hist[r].racing => payload[r][f] # "original" /\ modified[r]
        BY DEF IInv, RequestInv, EditsInv
    <2>2. pipe[r] \in [Path -> Value]
        BY DEF IInv, TypeOK, Message
    <2>3. CASE pipe[r] # Untouched
        BY <2>1, <2>3 DEF ModifiedPayload, ApplyChangedPaths, Untouched
    <2>4. CASE pipe[r] = Untouched
        <3>1. f \in hist[r].edited /\ ~hist[r].racing
            BY <2>4 DEF Untouched
        <3> QED
            BY <2>1, <2>4, <3>1 DEF ModifiedPayload
    <2> QED
        BY <2>3, <2>4
<1> QED
    BY <1>1, Invariant, PTL

\* Persist before forward: whoever is forwarded has every new label in the
\* store, although the append may time out, be applied late or lapse.
THEOREM LabelsStoredBeforeForward == Spec => []ForwardedLabelsStored
<1>1. IInv => ForwardedLabelsStored
    <2> SUFFICES ASSUME IInv, NEW r \in Request, Forwarded(r), Sid(r) # None, ~hist[r].lapsed
                 PROVE  hist[r].emitted \ input[r].labels \subseteq store[Sid(r)]
        BY DEF ForwardedLabelsStored
    <2>1. LabelsInv(r) /\ EditsInv(r) /\ append[r].at \in {"none", "sent", "applied"}
        BY DEF IInv, RequestInv, TypeOK, Sadd
    <2>2. pc[r] = "done" /\ decision[r].persisted /\ append[r].at # "sent"
        BY <2>1, HandlerAssumption DEF LabelsInv, EditsInv, Forwarded, Code
    <2>3. append[r].labels \subseteq store[Sid(r)] /\ initial[r] \ input[r].labels \subseteq store[Sid(r)]
        BY <2>1, <2>2 DEF LabelsInv
    <2>4. hist[r].emitted \subseteq ext[r] /\ ext[r] \ initial[r] \subseteq append[r].labels
        BY <2>1 DEF LabelsInv
    <2> QED
        BY <2>3, <2>4
<1> QED
    BY <1>1, Invariant, PTL

\* Hydration and write-back lose no label of the session's history.
THEOREM HistorySeen == Spec => []SessionSeesHistory
<1>1. IInv => SessionSeesHistory
    BY DEF IInv, RequestInv, LabelsInv, SessionSeesHistory
<1> QED
    BY <1>1, Invariant, PTL

\* Sessions are bound to the subject: whatever the hash, no label crosses from
\* one session to another unless their texts have one id.
THEOREM SubjectsIsolated == Spec => []LabelsStayWithSubject
<1>1. IInv => LabelsStayWithSubject
    <2> SUFFICES ASSUME IInv, NEW r \in Request, NEW l \in ext[r]
                 PROVE  \E q \in Request : (q = r \/ SameId(q, r)) /\ l \in input[q].labels \cup hist[q].emitted
        BY DEF LabelsStayWithSubject
    <2>1. l \in MaySee(r)
        BY DEF IInv, SubjectInv
    <2>2. CASE l \in input[r].labels \cup hist[r].emitted
        BY <2>2
    <2>3. CASE Sid(r) # None /\ l \in EmittedIn(Sid(r))
        <3>1. PICK q \in Request : Sid(q) = Sid(r) /\ l \in input[q].labels \cup hist[q].emitted
            BY <2>3 DEF EmittedIn
        <3>2. SameId(q, r)
            BY <2>3, <3>1 DEF SameId, Sid, ResolveSession, SubjectScoped
        <3> QED
            BY <3>1, <3>2
    <2> QED
        BY <2>1, <2>2, <2>3 DEF MaySee
<1> QED
    BY <1>1, Invariant, PTL

\* No step takes a redaction of a field pipeline back.
THEOREM RedactionStays == Spec => RedactionKept
<1> DEFINE Kept == \A r \in Request, f \in Path : pipe[r][f] # "original" => pipe'[r][f] # "original"
<1>1. IInv /\ [Next]_vars => [Kept]_vars
    <2> SUFFICES ASSUME TypeOK, Next, NEW q \in Request, NEW f \in Path, pipe[q][f] # "original"
                 PROVE  pipe'[q][f] # "original"
        BY DEF IInv
    <2>1. CASE UNCHANGED pipe
        BY <2>1
    <2> DEFINE Set(r, g, v) == [pipe EXCEPT ![r] = [pipe[r] EXCEPT ![g] = v]]
    <2>2. ASSUME NEW r \in Request, NEW g, NEW v, pipe' = Set(r, g, v), g \in Path => v = pipe[r][g] \/ v # "original"
          PROVE  pipe'[q][f] # "original"
        <3>1. pipe \in [Request -> [Path -> Value]]
            BY DEF TypeOK, Message
        <3>2. CASE q # r
            BY <2>2, <3>1, <3>2
        <3>3. CASE q = r /\ f # g
            BY <2>2, <3>1, <3>3
        <3>4. CASE q = r /\ f = g
            BY <2>2, <3>1, <3>4
        <3> QED
            BY <3>2, <3>3, <3>4
    <2>3. ASSUME NEW r \in Request, Apply(r) PROVE pipe'[q][f] # "original"
        <3>1. pipe' = pipe \/ pipe' = [pipe EXCEPT ![r][Head(todo[r]).on] = "mask"]
            BY <2>3 DEF Apply
        <3>2. pipe' = pipe \/ pipe' = Set(r, Head(todo[r]).on, "mask")
            BY <3>1
        <3> HIDE DEF Set
        <3> QED
            BY <2>2, <3>2
    <2>4. ASSUME NEW r \in Request, NEW p \in Plugin, CallReturns(r, p) PROVE pipe'[q][f] # "original"
        <3> DEFINE c == call[r][p]
                   message == [c.payload EXCEPT ![EditOf[p]] = p]
                   field == Head(todo[r]).on[1]
        <3>1. \/ pipe' = pipe
              \/ pipe' = [pipe EXCEPT ![r][field] = ReadBack(c.payload[field], message[field], @)]
            BY <2>4 DEF CallReturns, WriteBack
        <3>2. c.payload \in [Path -> Value]
            BY DEF TypeOK, Call, Message
        <3>3. field \in Path => message[field] = c.payload[field] \/ message[field] # "original"
            BY <3>2, HandlerAssumption
        <3> HIDE DEF c, message, field
        <3>4. \/ pipe' = pipe
              \/ pipe' = Set(r, field, ReadBack(c.payload[field], message[field], pipe[r][field]))
            BY <3>1
        <3> HIDE DEF Set
        <3> QED
            BY <2>2, <3>3, <3>4 DEF ReadBack
    <2>5. UNCHANGED pipe \/ \E r \in Request : Apply(r) \/ \E p \in Plugin : CallReturns(r, p)
        BY DEF Next, Step, Refuse, Begin, Load, LoadFails, CallBegins, CallFails, CallsDone, Refused,
               Suspended, Evaluated, Settle, Applied, PersistOk, PersistFails, Lapse, Finish, Shared
    <2> QED
        BY <2>1, <2>3, <2>4, <2>5
<1>2. Spec => [][Kept]_vars
    BY <1>1, Invariant, PTL DEF Spec
<1> QED
    BY <1>2 DEF RedactionKept
=============================================================================
