---------------------------- MODULE Elicitation ----------------------------
(***************************************************************************)
(* Human approval of a tool call: dispatch_elicitation (evaluator.rs), the *)
(* three calls it makes through ElicitationPluginInvoker, the CIBA plugin  *)
(* that answers them, and the OpenID provider behind it.                   *)
(*                                                                         *)
(* An attempt is one request of the agent, at some route. It names the     *)
(* approval it wants to use in a header, or none; a pending approval       *)
(* suspends it, and the agent comes back in a later attempt. Attempts      *)
(* overlap. All steps of an attempt share one elicitation.id, and nothing  *)
(* ties an id to the route or step that asked for it. Every reply of       *)
(* the provider may be lost to a timeout after the provider has acted, and *)
(* the provider hands out the token of an approval once. The gateway may   *)
(* restart: its store of correlations is kept in memory.                   *)
(***************************************************************************)
EXTENDS Integers, Sequences

CONSTANTS
    NumAttempts, NumIds,    \* bounds: attempts and approvals, numbered as they come
    Human,
    Calls,          \* what the agent may call: a route for every attempt, each
                    \* the sequence of its elicitation steps
    None

\* `from` after resolution: a human, an attribute that is absent, or "".
Step == [from : Human \cup {"unresolved", "empty"}, lenient : BOOLEAN,
         scoped : BOOLEAN, planned : BOOLEAN]

Attempt == 1 .. NumAttempts
Id == 1 .. NumIds

\* What the store keeps: the human asked, and whoever the provider's token names.
Correlation == [expected : Human, resolved : Human \cup {None}]

\* What an attempt is answered with; "dropped" when the gateway goes down.
Reply == {"forwarded", "denied", "pending", "confirm", "dropped"}

ASSUME ElicitationAssumption ==
    /\ NumAttempts \in Nat /\ NumIds \in Nat
    /\ Calls \subseteq [Attempt -> Seq(Step)]
    /\ None \notin Human \cup Nat /\ None \notin Correlation /\ None \notin Reply \cup {"approved"}

VARIABLES
    route,  \* route[a]: the route of the tool attempt a calls
    op,     \* op[id]: what the provider knows of a request for approval
    store,  \* store[id]: the Correlation kept for it, or None
    att,    \* att[a]: an attempt
    lost    \* history: a reply was lost, or the gateway restarted

vars == <<route, op, store, att, lost>>

OpState == {"free", "pending", "approved", "denied", "expired", "consumed"}
Status == {"pending", "expired", "denied", "approved", "rejected"}

Fresh == [pc |-> "new", peek |-> FALSE, covers |-> FALSE, at |-> 1, id |-> None,
          outcome |-> None, reply |-> None, answer |-> None, replay |-> FALSE]

\* by: history, the attempt that asked.
OpRecord == [state : OpState, asked : Human \cup {None}, claim : Human \cup {None},
             by : Attempt \cup {None}]
OpReply == [id : Id, status : Status, claim : Human \cup {None}]
AttemptRecord ==
    [pc : {"new", "step", "dispatch", "minted", "check", "poll", "polled", "validate", "done"},
     peek : BOOLEAN, covers : BOOLEAN, at : Nat \ {0}, id : Id \cup {None}, outcome : {"approved", None},
     reply : {None} \cup OpReply, answer : {None} \cup Reply, replay : BOOLEAN]

TypeOK ==
    /\ route \in Calls
    /\ op \in [Id -> OpRecord]
    /\ store \in [Id -> {None} \cup Correlation]
    /\ att \in [Attempt -> AttemptRecord] /\ \A a \in Attempt : att[a].at <= Len(route[a]) + 1
    /\ lost \in BOOLEAN

Init ==
    /\ route \in Calls
    /\ op = [id \in Id |-> [state |-> "free", asked |-> None, claim |-> None, by |-> None]]
    /\ store = [id \in Id |-> None]
    /\ att = [a \in Attempt |-> Fresh]
    /\ lost = FALSE

Here(a) == route[a][att[a].at]

Answer(a, what) == att' = [att EXCEPT ![a].pc = "done", ![a].answer = what, ![a].reply = None]

Advance(a) == att' = [att EXCEPT ![a].pc = "step", ![a].at = @ + 1, ![a].reply = None]

\* The closure `fail`: the step's on_error.
Fail(a) == IF Here(a).lenient THEN Advance(a) ELSE Answer(a, "denied")

-----------------------------------------------------------------------------
(* The agent and the route handler.                                        *)

\* The ids an agent has been told.
Told == {att[a].id : a \in {b \in Attempt : att[b].answer \in {"pending", "confirm"}}}

\* The header seeds elicitation.id; the attempt's arguments satisfy the scope
\* of the steps or do not. Bound: only the first NumIds attempts name no id.
Send(a) ==
    /\ att[a].pc = "new" /\ \A b \in 1 .. a - 1 : att[b].pc # "new"
    /\ \E echo \in Told \cup (IF a <= NumIds THEN {None} ELSE {}), peek, covers \in BOOLEAN :
          att' = [att EXCEPT ![a] = [Fresh EXCEPT !.pc = "step", !.id = echo,
                                                  !.peek = peek, !.covers = covers]]
    /\ UNCHANGED <<route, op, store, lost>>

\* After the last step: a peek that found an approval does not forward.
Finish(a) ==
    /\ att[a].pc = "step" /\ att[a].at > Len(route[a])
    /\ Answer(a, IF att[a].peek /\ att[a].outcome = "approved" THEN "confirm" ELSE "forwarded")
    /\ UNCHANGED <<route, op, store, lost>>

-----------------------------------------------------------------------------
(* dispatch_elicitation, first half: `from`, and the id to work with.      *)

Begin(a) ==
    /\ att[a].pc = "step" /\ att[a].at <= Len(route[a])
    /\ IF Here(a).from = "unresolved" THEN Fail(a)
       ELSE att' = [att EXCEPT ![a].pc = IF att[a].id = None THEN "dispatch" ELSE "check"]
    /\ UNCHANGED <<route, op, store, lost>>

\* entry_for: the plugin is not in the route's plan; do_dispatch: no login_hint.
DispatchRefused(a) ==
    /\ att[a].pc = "dispatch"
    /\ ~Here(a).planned \/ Here(a).from = "empty"
    /\ Fail(a)
    /\ UNCHANGED <<route, op, store, lost>>

\* The backchannel request reaches the provider, which asks the human.
Mint(a) ==
    /\ att[a].pc = "dispatch" /\ Here(a).planned /\ Here(a).from # "empty"
    /\ \E id \in Id :
          /\ op[id].state = "free" /\ \A i \in 1 .. id - 1 : op[i].state # "free"
          /\ op' = [op EXCEPT ![id] = [state |-> "pending", asked |-> Here(a).from, claim |-> None,
                                      by |-> a]]
          /\ att' = [att EXCEPT ![a].pc = "minted",
                                ![a].reply = [id |-> id, status |-> "pending", claim |-> None]]
    /\ UNCHANGED <<route, store, lost>>

Dispatched(a) ==
    LET id == att[a].reply.id
    IN  /\ att[a].pc = "minted"
        /\ store' = [store EXCEPT ![id] = [expected |-> Here(a).from, resolved |-> None]]
        /\ att' = [att EXCEPT ![a].pc = "check", ![a].id = id, ![a].reply = None]
        /\ UNCHANGED <<route, op, lost>>

\* The post is refused, never arrives, or its reply is lost.
DispatchFails(a) ==
    /\ att[a].pc \in {"dispatch", "minted"} /\ Here(a).planned /\ Here(a).from # "empty"
    /\ Fail(a)
    /\ lost' = TRUE
    /\ UNCHANGED <<route, op, store>>

-----------------------------------------------------------------------------
(* check: the cached result, or a poll of the token endpoint.              *)

CachedNever(id) == FALSE            \* mutant: every check polls

Cached(id) == store[id] # None /\ store[id].resolved # None

Check(a) ==
    LET id == att[a].id
    IN  /\ att[a].pc = "check"
        /\ IF ~Here(a).planned THEN Fail(a)
           ELSE IF Cached(id) THEN att' = [att EXCEPT ![a].pc = "validate", ![a].replay = TRUE]
           ELSE att' = [att EXCEPT ![a].pc = "poll",
                                   ![a].replay = store[id] # None /\ store[id].resolved # None]
        /\ UNCHANGED <<route, op, store, lost>>

\* The provider answers a poll; the tokens of an approval go out once.
OpAnswers(a) ==
    LET id == att[a].id
        status == [free |-> "rejected", pending |-> "pending", approved |-> "approved",
                   denied |-> "denied", expired |-> "expired", consumed |-> "rejected"]
    IN  /\ att[a].pc = "poll"
        /\ att' = [att EXCEPT ![a].pc = "polled",
                              ![a].reply = [id |-> id, status |-> status[op[id].state],
                                            claim |-> op[id].claim]]
        /\ op' = [op EXCEPT ![id].state = IF @ = "approved" THEN "consumed" ELSE @]
        /\ UNCHANGED <<route, store, lost>>

\* set_resolved_approver: an id that is not in the store stays unknown.
Resolve(id, claim) ==
    store' = IF store[id] # None /\ claim # None
             THEN [store EXCEPT ![id].resolved = claim] ELSE store

DenialMayContinue(a) == Fail(a)     \* mutant: on_error applies to a human's no

Denied(a) == Answer(a, "denied")

\* do_check on a reply, and what dispatch_elicitation does with its status.
Polled(a) ==
    LET reply == att[a].reply
    IN  /\ att[a].pc = "polled"
        /\ \/ /\ reply.status = "pending" /\ Answer(a, "pending") /\ UNCHANGED store
           \/ /\ reply.status = "expired" /\ Fail(a) /\ UNCHANGED store
           \/ /\ reply.status = "denied" /\ Denied(a) /\ UNCHANGED store
           \/ /\ reply.status = "rejected" /\ Fail(a) /\ UNCHANGED store
           \/ /\ reply.status = "approved"
              /\ Resolve(att[a].id, reply.claim)
              /\ att' = [att EXCEPT ![a].pc = "validate", ![a].reply = None]
        /\ UNCHANGED <<route, op, lost>>

PollFailsUnsent(a) ==               \* mutant: no timeout once the request is out
    /\ att[a].pc = "polled"
    /\ Fail(a)
    /\ lost' = TRUE
    /\ UNCHANGED <<route, op, store>>

\* The poll times out or fails: before the provider acted or after it.
PollFails(a) ==
    /\ att[a].pc \in {"poll", "polled"}
    /\ Fail(a)
    /\ lost' = TRUE
    /\ UNCHANGED <<route, op, store>>

\* The executor gives up on the plugin and ignores the error: the payload comes
\* back as it was, without a status, which counts as pending.
CheckSkipped(a) ==
    /\ att[a].pc \in {"poll", "polled"}
    /\ Answer(a, "pending")
    /\ lost' = TRUE
    /\ UNCHANGED <<route, op, store>>

-----------------------------------------------------------------------------
(* validate, and the scope.                                                *)

ResolvedIsEnough(id) == store[id] # None            \* mutant: whoever resolved it

Valid(id) ==
    /\ store[id] # None
    /\ store[id].resolved # None
    /\ store[id].resolved = store[id].expected

Validate(a) ==
    /\ att[a].pc = "validate"
    /\ IF Valid(att[a].id) /\ (Here(a).scoped => att[a].covers)
       THEN att' = [att EXCEPT ![a].pc = "step", ![a].at = @ + 1, ![a].outcome = "approved"]
       ELSE Fail(a)
    /\ UNCHANGED <<route, op, store, lost>>

-----------------------------------------------------------------------------
(* The human, the provider's clock and the gateway's host.                 *)

\* The token names the human who was asked, another account, or nobody (no
\* approver claim).
Approve(id) ==
    /\ op[id].state = "pending"
    /\ \E claim \in Human \cup {None} : op' = [op EXCEPT ![id].state = "approved", ![id].claim = claim]
    /\ UNCHANGED <<route, store, att, lost>>

Deny(id) ==
    /\ op[id].state = "pending"
    /\ op' = [op EXCEPT ![id].state = "denied"]
    /\ UNCHANGED <<route, store, att, lost>>

Expire(id) ==
    /\ op[id].state \in {"pending", "approved"}
    /\ op' = [op EXCEPT ![id].state = "expired"]
    /\ UNCHANGED <<route, store, att, lost>>

Restart ==
    /\ \E id \in Id : store[id] # None
    /\ store' = [id \in Id |-> None]
    /\ att' = [a \in Attempt |->
                 IF att[a].pc \in {"new", "done"} THEN att[a]
                 ELSE [att[a] EXCEPT !.pc = "done", !.answer = "dropped", !.reply = None]]
    /\ lost' = TRUE
    /\ UNCHANGED <<route, op>>

-----------------------------------------------------------------------------
Move(a) ==
    \/ Finish(a) \/ Begin(a)
    \/ DispatchRefused(a) \/ Mint(a) \/ Dispatched(a) \/ DispatchFails(a)
    \/ Check(a) \/ OpAnswers(a) \/ Polled(a) \/ PollFails(a) \/ CheckSkipped(a)
    \/ Validate(a)

Gateway(a) ==
    \/ Finish(a) \/ Begin(a) \/ DispatchRefused(a) \/ Dispatched(a) \/ DispatchFails(a)
    \/ Check(a) \/ Polled(a) \/ PollFails(a) \/ Validate(a)

Next ==
    \/ \E a \in Attempt : Send(a) \/ Move(a)
    \/ \E id \in Id : Approve(id) \/ Deny(id) \/ Expire(id)
    \/ Restart

Spec == Init /\ [][Next]_vars

\* The gateway's own steps, its HTTP timeouts included; nothing is assumed of
\* the provider, the human or the agent.
FairSpec == Spec /\ \A a \in Attempt : WF_vars(Gateway(a))

-----------------------------------------------------------------------------
\* A call is forwarded past a strict approval step only under an approval that
\* the provider granted, that names the very human who was asked, and that a
\* step of some call had asked for, whatever the overlap of attempts, lost
\* replies and restarts (do_validate compares the two ends of the correlation).
\* If that call was at the same route, the human is the step's own `from` or
\* that of a step before it. More than that the code does not give: the steps
\* of a route share one elicitation.id, so that the approval the first of them
\* got stands for the others, and an id asked for at one route is honoured at
\* another, although ElicitStep::from says that the responder is checked
\* against the step's own `from`.
ForwardedIsApproved ==
    \A a \in Attempt : \A i \in DOMAIN route[a] :
        att[a].answer = "forwarded" /\ ~route[a][i].lenient =>
            /\ att[a].id # None
            /\ op[att[a].id].state = "consumed"
            /\ op[att[a].id].claim = op[att[a].id].asked
            /\ LET asking == route[op[att[a].id].by]
               IN  \E j \in DOMAIN asking : /\ op[att[a].id].claim = asking[j].from
                                            /\ asking = route[a] => j <= i

\* The steps at which the approval an attempt names is looked up.
LooksUp(step) == step.planned /\ step.from # "unresolved"

\* A human's no is final: unless a reply was lost on the way, no call goes out
\* past a step that looks an approval up if that approval was denied, also
\* where the steps tolerate failures.
NoMeansNo ==
    \A a \in Attempt :
        /\ att[a].answer = "forwarded" /\ att[a].id # None /\ ~lost
        /\ \E i \in DOMAIN route[a] : LooksUp(route[a][i])
        => op[att[a].id].state # "denied"

\* Once an approval has been redeemed and is held in the store, every later
\* attempt that names it gets past the step (confirm after peek, a retry of a
\* lost answer), although the provider honours the id only once. The causes
\* that remain: arguments outside the scope, another account's approval, an
\* unresolved `from`, a plugin missing from the plan.
ReplayHonoured ==
    \A a \in Attempt :
        att[a].replay /\ att[a].answer = "denied" =>
            \/ \E i \in DOMAIN route[a] : \/ route[a][i].scoped /\ ~att[a].covers
                                          \/ route[a][i].from = "unresolved"
                                          \/ ~route[a][i].planned
            \/ op[att[a].id].claim # op[att[a].id].asked

\* An attempt is answered although the provider and the human may never react.
AttemptAnswered == \A a \in Attempt : att[a].pc # "new" ~> att[a].pc = "done"
=============================================================================
