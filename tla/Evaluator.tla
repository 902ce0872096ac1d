----------------------------- MODULE Evaluator -----------------------------
(***************************************************************************)
(* evaluate_route of crates/ppe-apl-core: the `args`, `policy`, `result`   *)
(* and `post_policy` sections of a compiled route, walked by               *)
(* evaluate_effects and dispatch_effect (evaluator.rs, route.rs).          *)
(*                                                                         *)
(* A route is a table of effects. The list a `sequential:`, a `when:` body *)
(* or a PDP reaction holds is walked in place of its effect, so a walk is  *)
(* one stack of effects still to do; each branch of a `parallel:` block is *)
(* a spawned task with a frame of its own: its clone of the bag and the    *)
(* payload, and its own accumulators.                                      *)
(*                                                                         *)
(* What a plugin, a decision point, a delegation, an elicitation or a      *)
(* field pipeline answers is the environment's choice. Every call is       *)
(* assumed to be answered: the evaluator itself sets no timeout.           *)
(***************************************************************************)
EXTENDS Integers, Sequences, FiniteSetsExt, Functions

CONSTANTS
    NumEffects,     \* the effects of a route are numbered 1 .. NumEffects
    ArgsField,      \* the fields a pipeline may address under `args.`
    ResultField,    \* and under `result.`
    Key,            \* the attributes of the bag that conditions test
    Programs        \* the routes to evaluate

Effect == 1 .. NumEffects
Root == 0                       \* the walk of evaluate_effects itself
Thread == {Root} \cup Effect    \* a branch is named by its effect
Field == ArgsField \cup ResultField
Granted == "delegation.granted"

Op == {"allow", "deny", "plugin", "delegate", "elicit", "taint", "restrict",
       "field", "sequential", "parallel", "when", "pdp"}

\* A compiled route. `body` is the list of a sequential, parallel or when and
\* the on_allow list of a pdp, `on_deny` the other list of a pdp; `lenient`
\* holds the steps with `on_error: continue`.
Program ==
    [op : [Effect -> Op], body : [Effect -> Seq(Effect)], on_deny : [Effect -> Seq(Effect)],
     key : [Effect -> Key], field : [Effect -> Field], lenient : SUBSET Effect,
     args : Seq(Effect), policy : Seq(Effect), result : Seq(Effect), post_policy : Seq(Effect)]

\* The lists that evaluate_pre and evaluate_post walk, and the effects that an
\* effect holds.
PreList(p) == p.args \o p.policy
PostList(p) == p.result \o p.post_policy
Holds(p, n) == Range(p.body[n]) \cup Range(p.on_deny[n])

\* A compiled route is a tree: every effect sits in at most one place. The
\* effects are numbered in the order of the text, parents before children.
Tree(p) ==
    /\ \A n \in Effect :
          /\ IsInjective(p.body[n]) /\ IsInjective(p.on_deny[n])
          /\ Range(p.body[n]) \cap Range(p.on_deny[n]) = {}
          /\ \A m \in Holds(p, n) : /\ n < m
                                   /\ m \notin Range(PreList(p)) \cup Range(PostList(p))
                                   /\ \A k \in Effect \ {n} : m \notin Holds(p, k)
    /\ IsInjective(PreList(p)) /\ IsInjective(PostList(p))
    /\ Range(PreList(p)) \cap Range(PostList(p)) = {}

ASSUME EvaluatorAssumption ==
    /\ NumEffects \in Nat
    /\ Granted \in Key
    /\ ArgsField \cap ResultField = {}
    /\ Programs \subseteq Program
    /\ \A p \in Programs : Tree(p)

-----------------------------------------------------------------------------
(* What the parser accepts: no effect under a `parallel:` may mutate.      *)

ContainsMutation(p) ==
    LET mutates[n \in Effect] ==
            \/ p.op[n] \in {"field", "delegate", "elicit"}
            \/ \E m \in Holds(p, n) : mutates[m]
    IN  mutates

ValidateParallelPurity(p) ==
    \A n \in Effect : p.op[n] = "parallel" =>
        /\ p.body[n] # << >>
        /\ \A m \in Range(p.body[n]) : ~ContainsMutation(p)[m]

-----------------------------------------------------------------------------
VARIABLES
    prog,       \* the route
    phase,      \* "pre", "post" or "done"
    frame,      \* frame[t]: the locals of walk t
    parent,     \* parent[b]: the walk whose parallel block spawned branch b
    decision,   \* the RouteDecision returned so far
    refused,    \* refused[t]: the effects that refused the request in walk t
    emitted     \* emitted[t]: the labels and constraints emitted in walk t

vars == <<prog, phase, frame, parent, decision, refused, emitted>>

\* One entry of a walk's stack: an effect, or the deny of decision point n
\* that stands once its on_deny reactions have been walked.
Item == [effect : Effect, stands : BOOLEAN]

FieldState == {"absent", "original", "rewritten", "removed"}

Frame ==
    [status : {"idle", "running", "joining", "continue", "halt", "pending",
               "aborted", "panicked"},
     todo : Seq(Item), bag : SUBSET Key, payload : [Field -> FieldState],
     taints : SUBSET Effect, constraints : SUBSET Effect,
     args_modified : BOOLEAN, result_modified : BOOLEAN, cause : Thread]

RouteDecision ==
    [verdict : {"allow", "deny"}, cause : Thread, pending : BOOLEAN,
     taints : SUBSET Effect, constraints : SUBSET Effect,
     args_modified : BOOLEAN, result_modified : BOOLEAN]

TypeOK ==
    /\ prog \in Program
    /\ phase \in {"pre", "post", "done"}
    /\ frame \in [Thread -> Frame]
    /\ \A t \in Thread : frame[t].status \in {"halt", "pending"} <=> frame[t].cause \in Effect
    /\ parent \in [Effect -> Thread]
    /\ decision \in RouteDecision
    /\ decision.verdict = "deny" \/ decision.pending <=> decision.cause \in Effect
    /\ refused \in [Thread -> SUBSET Effect]
    /\ emitted \in [Thread -> SUBSET Effect]

Items(list) == [i \in DOMAIN list |-> [effect |-> list[i], stands |-> FALSE]]

\* The frame a walk starts with.
Fresh(status, todo, bag, payload) ==
    [status |-> status, todo |-> todo, bag |-> bag, payload |-> payload,
     taints |-> {}, constraints |-> {},
     args_modified |-> FALSE, result_modified |-> FALSE, cause |-> Root]

Init ==
    /\ prog \in {p \in Programs : ValidateParallelPurity(p)}
    /\ phase = "pre"
    /\ \E bag \in SUBSET (Key \ {Granted}), present \in SUBSET Field :
          LET payload == [f \in Field |-> IF f \in present THEN "original" ELSE "absent"]
          IN  frame = [t \in Thread |->
                  IF t = Root
                  THEN Fresh("running", Items(PreList(prog)), bag, payload)
                  ELSE Fresh("idle", << >>, {}, payload)]
    /\ parent = [b \in Effect |-> Root]
    /\ decision = [verdict |-> "allow", cause |-> Root, pending |-> FALSE, taints |-> {},
                   constraints |-> {}, args_modified |-> FALSE, result_modified |-> FALSE]
    /\ refused = [t \in Thread |-> {}]
    /\ emitted = [t \in Thread |-> {}]

-----------------------------------------------------------------------------
(* EffectOutcome: how dispatching the effect on top of the stack ends.     *)

Top(t) == Head(frame[t].todo)
This(t) == Top(t).effect

AtItem(t) == frame[t].status = "running" /\ frame[t].todo # << >>
At(t, op) == AtItem(t) /\ ~Top(t).stands /\ prog.op[This(t)] = op

Continue(f) == [f EXCEPT !.todo = Tail(@)]
Halt(f, n) == [f EXCEPT !.status = "halt", !.cause = n]
Suspend(f, n) == [f EXCEPT !.status = "pending", !.cause = n]
Walk(f, list) == [f EXCEPT !.todo = Items(list) \o Tail(@)]

Tainted(f, n, emits) == IF emits THEN [f EXCEPT !.taints = @ \cup {n}] ELSE f

\* Walk t ends its current effect with frame f; the effect refused the request
\* or not, and emitted a label or a constraint or not.
Becomes(t, f, refuses, emits) ==
    /\ frame' = [frame EXCEPT ![t] = f]
    /\ refused' = [refused EXCEPT ![t] = IF refuses THEN @ \cup {This(t)} ELSE @]
    /\ emitted' = [emitted EXCEPT ![t] = IF emits THEN @ \cup {This(t)} ELSE @]
    /\ UNCHANGED <<prog, phase, parent, decision>>

-----------------------------------------------------------------------------
(* dispatch_effect, one action per kind of effect.                         *)

Allow(t) ==
    /\ At(t, "allow")
    /\ Becomes(t, Continue(frame[t]), FALSE, FALSE)

Deny(t) ==
    /\ At(t, "deny")
    /\ Becomes(t, Halt(frame[t], This(t)), TRUE, FALSE)

\* Labels are collected before the plugin's verdict is looked at.
Plugin(t) ==
    /\ At(t, "plugin")
    /\ \E answer \in {"allow", "deny", "error"}, emits \in BOOLEAN :
          /\ answer = "error" => ~emits
          /\ LET f == Tainted(frame[t], This(t), emits)
             IN  Becomes(t, IF answer = "allow" THEN Continue(f) ELSE Halt(f, This(t)),
                         answer # "allow", emits)

Delegate(t) ==
    /\ At(t, "delegate")
    /\ \E answer \in {"allow", "deny", "error"} :
          LET granted == [frame[t] EXCEPT !.bag = @ \cup {Granted}]
              lenient == This(t) \in prog.lenient
          IN  Becomes(t, IF answer = "allow" THEN Continue(granted)
                         ELSE IF lenient THEN Continue(frame[t])
                         ELSE Halt(frame[t], This(t)),
                      answer # "allow" /\ ~lenient, FALSE)

\* `failed` is every failure of dispatch_elicitation that on_error governs: an
\* unresolved `from`, a channel error, an expired question, an invalid answer
\* and an unsatisfied scope.
Elicit(t) ==
    /\ At(t, "elicit")
    /\ \E answer \in {"approved", "denied", "failed", "pending"} :
          LET lenient == answer = "failed" /\ This(t) \in prog.lenient
          IN  Becomes(t, IF answer = "approved" \/ lenient THEN Continue(frame[t])
                         ELSE IF answer = "pending" THEN Suspend(frame[t], This(t))
                         ELSE Halt(frame[t], This(t)),
                      answer # "approved" /\ ~lenient, FALSE)

Taint(t) ==
    /\ At(t, "taint")
    /\ Becomes(t, Continue(Tainted(frame[t], This(t), TRUE)), FALSE, TRUE)

\* A deny-list that does not resolve refuses the request; a constraint that
\* resolves to nothing is dropped.
RestrictEffect(t) ==
    /\ At(t, "restrict")
    /\ \E resolved \in {"constraint", "empty", "error"} :
          LET f == [frame[t] EXCEPT !.constraints =
                        IF resolved = "constraint" THEN @ \cup {This(t)} ELSE @]
          IN  Becomes(t, IF resolved = "error" THEN Halt(f, This(t)) ELSE Continue(f),
                      resolved = "error", resolved = "constraint")

\* set_dotted and remove_dotted, and the flag of the side they wrote.
Rewrite(frm, f, state) ==
    [frm EXCEPT !.payload[f] = state,
                !.args_modified = @ \/ f \in ArgsField,
                !.result_modified = @ \/ f \in ResultField]

\* What evaluate_pipeline found for the field.
FieldOutcome(t, outcome) ==
    LET f == prog.field[This(t)]
    IN  CASE outcome = "pass" -> Continue(frame[t])
          [] outcome = "replace" -> Continue(Rewrite(frame[t], f, "rewritten"))
          [] outcome = "omit" -> Continue(Rewrite(frame[t], f, "removed"))
          [] outcome = "deny" -> Halt(frame[t], This(t))

InPhase(f) == phase = (IF f \in ArgsField THEN "pre" ELSE "post")

\* A field of the other phase, and a field that is not there, are skipped.
FieldOp(t) ==
    /\ At(t, "field")
    /\ LET f == prog.field[This(t)]
       IN  IF InPhase(f) /\ frame[t].payload[f] \in {"original", "rewritten"}
           THEN \E outcome \in {"pass", "replace", "omit", "deny"}, emits \in BOOLEAN :
                   LET next == FieldOutcome(t, outcome)
                   IN  Becomes(t, Tainted(next, This(t), emits), outcome = "deny", emits)
           ELSE Becomes(t, Continue(frame[t]), FALSE, FALSE)

Sequential(t) ==
    /\ At(t, "sequential")
    /\ Becomes(t, Walk(frame[t], prog.body[This(t)]), FALSE, FALSE)

When(t) ==
    /\ At(t, "when")
    /\ Becomes(t, IF prog.key[This(t)] \in frame[t].bag
                  THEN Walk(frame[t], prog.body[This(t)])
                  ELSE Continue(frame[t]), FALSE, FALSE)

PdpDeniedLifted(f, n) ==             \* mutant: clean reactions lift the deny
    [f EXCEPT !.todo = Items(prog.on_deny[n]) \o Tail(@)]

\* Reactions may override the reason of a deny; they cannot lift it.
PdpDenied(f, n) ==
    [f EXCEPT !.todo = Items(prog.on_deny[n]) \o <<[effect |-> n, stands |-> TRUE]>> \o Tail(@)]

Pdp(t) ==
    /\ At(t, "pdp")
    /\ \E answer \in {"allow", "deny", "error"} :
          Becomes(t, CASE answer = "allow" -> Walk(frame[t], prog.body[This(t)])
                       [] answer = "deny" -> PdpDenied(frame[t], This(t))
                       [] answer = "error" -> Halt(frame[t], This(t)),
                  answer # "allow", FALSE)

\* The reactions walked clean: the decision point's deny stands.
PdpDenyStands(t) ==
    /\ AtItem(t) /\ Top(t).stands
    /\ Becomes(t, Halt(frame[t], This(t)), FALSE, FALSE)

\* The list of walk t is done.
ListEnds(t) ==
    /\ frame[t].status = "running"
    /\ frame[t].todo = << >>
    /\ frame' = [frame EXCEPT ![t].status = "continue"]
    /\ UNCHANGED <<prog, phase, parent, decision, refused, emitted>>

-----------------------------------------------------------------------------
(* dispatch_parallel: one task per effect of the block, run_branches with  *)
(* no timeout and short-circuit on a halt.                                 *)

Parallel(t) ==
    /\ At(t, "parallel")
    /\ LET branches == Range(prog.body[This(t)])
           Branch(b) == Fresh("running", Items(<<b>>), frame[t].bag, frame[t].payload)
       IN  /\ frame' = [x \in Thread |->
                           IF x = t THEN [frame[t] EXCEPT !.status = "joining"]
                           ELSE IF x \in branches THEN Branch(x) ELSE frame[x]]
           /\ parent' = [b \in Effect |-> IF b \in branches THEN t ELSE parent[b]]
    /\ UNCHANGED <<prog, phase, decision, refused, emitted>>

Completed == {"continue", "halt", "pending"}
Ended == Completed \cup {"aborted", "panicked"}

\* External code a branch calls may panic: its task ends without an outcome.
Panic(b) ==
    /\ \E op \in {"plugin", "pdp"} : At(b, op)
    /\ frame' = [frame EXCEPT ![b].status = "panicked"]
    /\ UNCHANGED <<prog, phase, parent, decision, refused, emitted>>

Sibling(b, c) == c # b /\ frame[c].status # "idle" /\ parent[c] = parent[b]

\* abort_all after the halt of a sibling, or the task that owned the branch is
\* itself gone. The branch may also end by itself first.
Abort(b) ==
    /\ frame[b].status \in {"running", "joining"}
    /\ \/ \E c \in Effect : Sibling(b, c) /\ frame[c].status = "halt"
       \/ frame[parent[b]].status = "aborted"
    /\ frame' = [frame EXCEPT ![b].status = "aborted"]
    /\ UNCHANGED <<prog, phase, parent, decision, refused, emitted>>

MergedPassingOnly(t) ==             \* mutant: only branches that passed are merged
    LET passing == {b \in Range(prog.body[This(t)]) : frame[b].status = "continue"}
    IN  [frame[t] EXCEPT !.status = "running",
                         !.taints = @ \cup UNION {frame[b].taints : b \in passing},
                         !.constraints = @ \cup UNION {frame[b].constraints : b \in passing}]

\* The accumulators of the branches that completed are merged, in input order;
\* the halt of the first halting branch is the block's.
Merged(t) ==
    LET completed == {b \in Range(prog.body[This(t)]) : frame[b].status \in Completed}
    IN  [frame[t] EXCEPT !.status = "running",
                         !.taints = @ \cup UNION {frame[b].taints : b \in completed},
                         !.constraints = @ \cup UNION {frame[b].constraints : b \in completed}]

AllJoinedNotAborted(t) ==           \* mutant: an aborted task is waited for
    \A b \in Range(prog.body[This(t)]) : frame[b].status \in Completed \cup {"panicked"}

AllJoined(t) == \A b \in Range(prog.body[This(t)]) : frame[b].status \in Ended

BlockCauseItself(t, halting) == This(t)         \* mutant: the block is blamed

BlockCause(t, halting) == frame[prog.body[This(t)][Min(halting)]].cause

Join(t) ==
    /\ frame[t].status = "joining"
    /\ AllJoined(t)
    /\ LET body == prog.body[This(t)]
           halting == {i \in DOMAIN body : frame[body[i]].status = "halt"}
       IN  frame' = [frame EXCEPT ![t] =
                IF halting # {} THEN Halt(Merged(t), BlockCause(t, halting))
                ELSE Continue(Merged(t))]
    /\ UNCHANGED <<prog, phase, parent, decision, refused, emitted>>

-----------------------------------------------------------------------------
(* evaluate_pre, evaluate_post and evaluate_route.                         *)

Verdict(f) == IF f.status = "halt" THEN "deny" ELSE "allow"

\* A deny or a suspended phase is final; otherwise the result and post_policy
\* sections are walked with the same bag and payload.
EndPre ==
    LET f == frame[Root]
    IN  /\ phase = "pre"
        /\ f.status \in Completed
        /\ decision' = [verdict |-> Verdict(f), cause |-> f.cause,
                        pending |-> f.status = "pending",
                        taints |-> f.taints, constraints |-> f.constraints,
                        args_modified |-> f.args_modified, result_modified |-> FALSE]
        /\ IF f.status = "continue"
           THEN /\ phase' = "post"
                /\ frame' = [frame EXCEPT ![Root] =
                       Fresh("running", Items(PostList(prog)), f.bag, f.payload)]
           ELSE phase' = "done" /\ UNCHANGED frame
        /\ UNCHANGED <<prog, parent, refused, emitted>>

EndPost ==
    LET f == frame[Root]
    IN  /\ phase = "post"
        /\ f.status \in Completed
        /\ phase' = "done"
        /\ decision' = [verdict |-> Verdict(f), cause |-> f.cause,
                        pending |-> f.status = "pending",
                        taints |-> decision.taints \cup f.taints,
                        constraints |-> decision.constraints \cup f.constraints,
                        args_modified |-> decision.args_modified,
                        result_modified |-> f.result_modified]
        /\ UNCHANGED <<prog, frame, parent, refused, emitted>>

Dispatch(t) ==
    \/ Allow(t) \/ Deny(t) \/ Plugin(t) \/ Delegate(t) \/ Elicit(t) \/ Taint(t)
    \/ RestrictEffect(t) \/ FieldOp(t) \/ Sequential(t) \/ When(t) \/ Pdp(t)
    \/ PdpDenyStands(t) \/ ListEnds(t) \/ Parallel(t) \/ Join(t)

Next ==
    \/ \E t \in Thread : Dispatch(t)
    \/ \E b \in Effect : Panic(b) \/ Abort(b)
    \/ EndPre \/ EndPost

Spec == Init /\ [][Next]_vars

\* The runtime polls every task that can make progress.
FairSpec == Spec /\ WF_vars(Next)

-----------------------------------------------------------------------------
Done == phase = "done"

\* The host rule: forward iff the verdict is allow and nothing is pending.
Forwarded == Done /\ decision.verdict = "allow" /\ ~decision.pending

\* The outcome of a walk reached the route: neither it nor the task that waited
\* for it was aborted or panicked.
Reported ==
    LET reported[t \in Thread] ==
            /\ frame[t].status \notin {"aborted", "panicked"}
            /\ t # Root /\ frame[t].status # "idle" => reported[parent[t]]
    IN  reported

(* A request is forwarded only if no effect refused it: no plugin or       *)
(* decision point denied or failed, no strict delegation or elicitation    *)
(* failed, and no question to a human is open, whatever the PDP reactions  *)
(* did and in whatever order the branches of a parallel block ended. Only  *)
(* a branch that panicked may hold a refusal nobody saw.                   *)
ForwardedMeansNoRefusal ==
    Forwarded => \A t \in Thread : refused[t] # {} => frame[t].status = "panicked"

(* A deny names an effect that did refuse, in a walk whose outcome reached *)
(* the route: never an aborted branch, and never a block as such.          *)
DenyIsExplained ==
    Done /\ decision.verdict = "deny" =>
        \E t \in Thread : Reported[t] /\ decision.cause \in refused[t]

(* Labels and constraints are accumulated, not lost: whatever a walk whose *)
(* outcome reached the route emitted is in the RouteDecision, on a deny    *)
(* and on a suspended request as well.                                     *)
EmissionsKept ==
    Done => \A t \in Thread :
        Reported[t] => emitted[t] \subseteq decision.taints \cup decision.constraints

(* The host re-serialises a body only when it is told that it changed: the *)
(* flags agree with the payload, over all sections and nested effects.     *)
ModifiedReported ==
    LET Changed(fields) == \E f \in fields : frame[Root].payload[f] \in {"rewritten", "removed"}
    IN  Done => /\ decision.args_modified = Changed(ArgsField)
                /\ decision.result_modified = Changed(ResultField)

(* The RouteDecision reports what the walk did: nothing emitted is lost,   *)
(* and no change of the payload goes unreported.                           *)
DecisionIsWhole == EmissionsKept /\ ModifiedReported

(* Every evaluation ends once its calls are answered: no branch, aborted   *)
(* or not, keeps a parallel block from being joined.                       *)
Evaluated == <>Done
=============================================================================
