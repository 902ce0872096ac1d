------------------------- MODULE ElicitationProofs -------------------------
(* What may be done on someone's behalf. What an approval allows, for any  *)
(* number of attempts, approvals, humans and routes, under lost replies,   *)
(* overlapping attempts and restarts; and whose credentials a request      *)
(* carries, for any resolver, key endpoint, request, pair of delegations   *)
(* and session store.                                                      *)
EXTENDS Elicitation, Credentials, SequenceTheorems, WellFoundedInduction, TLAPS

-----------------------------------------------------------------------------
(* The inductive invariant. The store agrees with the provider about who   *)
(* was asked, and holds a resolution only of an approval that is redeemed; *)
(* a redeemed or expired approval never changes again; and whoever was     *)
(* asked was asked at a step behind no strict one.                         *)

Checkable(a, i) == LooksUp(route[a][i])
Looked(a) == \E i \in DOMAIN route[a] : Checkable(a, i)
Settled(id) == op[id].state \in {"consumed", "expired"}
Granted(id) == op[id].state = "consumed" /\ op[id].claim = op[id].asked

\* Whoever an approval was asked of is the `from` of a step of the attempt that
\* asked, and that attempt had passed no strict step yet.
AskedInv(id) ==
    op[id].state # "free" =>
        /\ op[id].by \in Attempt
        /\ \E j \in DOMAIN route[op[id].by] :
              /\ op[id].asked = route[op[id].by][j].from
              /\ \A k \in 1 .. j - 1 : route[op[id].by][k].lenient

StoreInv(id) ==
    /\ op[id].state = "free" => store[id] = None
    /\ store[id] # None =>
          /\ store[id].expected = op[id].asked
          /\ store[id].resolved # None =>
                op[id].state = "consumed" /\ op[id].claim = store[id].resolved

\* Nobody else knows of a request for approval whose reply is on its way.
MintedInv(a) ==
    att[a].pc = "minted" =>
        /\ att[a].reply \in OpReply /\ store[att[a].reply.id] = None
        /\ op[att[a].reply.id].state # "free" /\ op[att[a].reply.id].asked = Here(a).from
        /\ Here(a).planned /\ Here(a).from \in Human
        /\ \A b \in Attempt : /\ att[b].id # att[a].reply.id
                              /\ b # a /\ att[b].pc = "minted" => att[b].reply.id # att[a].reply.id

\* Where an attempt stands, and what it may rely on there.
PcInv(a) ==
    /\ att[a].pc \in {"dispatch", "minted", "check", "poll", "polled", "validate"} => att[a].at <= Len(route[a])
    /\ att[a].pc \in {"dispatch", "minted"} => att[a].id = None /\ Here(a).from # "unresolved"
    /\ att[a].pc \in {"check", "poll", "polled", "validate"} => att[a].id # None
    /\ att[a].pc = "polled" =>
          /\ att[a].reply \in OpReply
          /\ att[a].reply.status = "approved" =>
                op[att[a].id].state = "consumed" /\ op[att[a].id].claim = att[a].reply.claim
          /\ att[a].reply.status \in {"expired", "rejected"} => Settled(att[a].id)
    /\ att[a].pc = "validate" => op[att[a].id].state = "consumed"
    /\ att[a].id # None => op[att[a].id].state # "free"

\* A strict step lies behind an attempt only if its approval was granted.
PassedInv(a) ==
    /\ (\E i \in DOMAIN route[a] : i < att[a].at /\ ~route[a][i].lenient) => att[a].outcome = "approved"
    /\ att[a].outcome = "approved" => att[a].id # None /\ Granted(att[a].id)
    /\ att[a].answer # None => att[a].pc = "done"
    /\ att[a].answer \in {"pending", "confirm"} => att[a].id # None
    /\ att[a].answer = "forwarded" => att[a].at > Len(route[a])

\* An unanswered approval is looked up before the attempt gets through.
LookupInv(a) ==
    ~lost /\ att[a].id # None /\ att[a].answer \in {None, "forwarded"} /\ Looked(a) =>
        \/ Settled(att[a].id)
        \/ att[a].answer = None /\ \E i \in DOMAIN route[a] : i >= att[a].at /\ Checkable(a, i)

Cause(a) ==
    \/ \E i \in DOMAIN route[a] : \/ route[a][i].scoped /\ ~att[a].covers
                               \/ route[a][i].from = "unresolved"
                               \/ ~route[a][i].planned
    \/ op[att[a].id].state = "consumed" /\ op[att[a].id].claim # op[att[a].id].asked

\* A replayed approval is held in the store until the attempt has used it.
ReplayInv(a) ==
    att[a].replay =>
        /\ att[a].id # None
        /\ att[a].pc \notin {"poll", "polled"}
        /\ att[a].pc = "validate" => Cached(att[a].id)
        /\ att[a].answer = "denied" => Cause(a)

AttemptInv(a) == PcInv(a) /\ PassedInv(a) /\ LookupInv(a) /\ ReplayInv(a)

IInv ==
    /\ TypeOK
    /\ \A id \in Id : StoreInv(id) /\ AskedInv(id)
    /\ \A a \in Attempt : MintedInv(a) /\ AttemptInv(a)

-----------------------------------------------------------------------------
(* The ways an attempt moves.                                              *)

\* The fields of an attempt that no step of it but its first changes.
Kept(a) == att'[a].covers = att[a].covers /\ att'[a].peek = att[a].peek

Alone(a) == /\ att' \in [Attempt -> AttemptRecord]
            /\ \A b \in Attempt \ {a} : att'[b] = att[b]

LEMMA RecordType ==
    ASSUME TypeOK, NEW a \in Attempt
    PROVE  /\ att \in [Attempt -> AttemptRecord] /\ att[a] \in AttemptRecord
           /\ att[a].at \in Nat /\ att[a].at >= 1 /\ att[a].at <= Len(route[a]) + 1
           /\ att[a].id \in Id \cup {None}
           /\ route[a] \in Seq(Step) /\ Len(route[a]) \in Nat /\ DOMAIN route[a] = 1 .. Len(route[a])
<1>1. route[a] \in Seq(Step)
    BY ElicitationAssumption, Zenon DEF TypeOK
<1>2. att[a] \in AttemptRecord /\ att \in [Attempt -> AttemptRecord]
    BY DEF TypeOK
<1>3. att[a].at \in Nat \ {0} /\ att[a].id \in Id \cup {None}
    BY <1>2 DEF AttemptRecord
<1> QED
    BY <1>1, <1>2, <1>3 DEF TypeOK

LEMMA AnswerFacts ==
    ASSUME TypeOK, NEW a \in Attempt, NEW what \in Reply, Answer(a, what)
    PROVE  /\ Alone(a) /\ Kept(a)
           /\ att'[a].pc = "done" /\ att'[a].answer = what /\ att'[a].at = att[a].at
           /\ att'[a].id = att[a].id /\ att'[a].outcome = att[a].outcome
           /\ att'[a].replay = att[a].replay
<1>1. att \in [Attempt -> AttemptRecord] /\ att[a] \in AttemptRecord
    BY DEF TypeOK
<1>2. att' = [att EXCEPT ![a] = [att[a] EXCEPT !.pc = "done", !.answer = what, !.reply = None]]
    BY <1>1 DEF Answer
<1>3. [att[a] EXCEPT !.pc = "done", !.answer = what, !.reply = None] \in AttemptRecord
    BY <1>1 DEF AttemptRecord
<1> QED
    BY <1>1, <1>2, <1>3 DEF Alone, Kept, AttemptRecord

LEMMA AdvanceFacts ==
    ASSUME TypeOK, NEW a \in Attempt, Advance(a)
    PROVE  /\ Alone(a) /\ Kept(a)
           /\ att'[a].pc = "step" /\ att'[a].answer = att[a].answer /\ att'[a].at = att[a].at + 1
           /\ att'[a].id = att[a].id /\ att'[a].outcome = att[a].outcome
           /\ att'[a].replay = att[a].replay
<1>1. att \in [Attempt -> AttemptRecord] /\ att[a] \in AttemptRecord
    BY DEF TypeOK
<1>2. att' = [att EXCEPT ![a] = [att[a] EXCEPT !.pc = "step", !.at = @ + 1, !.reply = None]]
    BY <1>1 DEF Advance
<1>3. [att[a] EXCEPT !.pc = "step", !.at = @ + 1, !.reply = None] \in AttemptRecord
    <2>1. att[a].at + 1 \in Nat \ {0}
        BY <1>1 DEF AttemptRecord
    <2> QED
        BY <1>1, <2>1 DEF AttemptRecord
<1> QED
    BY <1>1, <1>2, <1>3 DEF Alone, Kept, AttemptRecord

-----------------------------------------------------------------------------
(* A step of one attempt, or of the provider, leaves the others standing:  *)
(* what they rely on is settled.                                           *)

OpStable ==
    \A id \in Id :
        /\ Settled(id) => op'[id] = op[id]
        /\ op[id].state # "free" => op'[id].state # "free" /\ op'[id].asked = op[id].asked
                                     /\ op'[id].by = op[id].by

StoreStable == \A id \in Id : Cached(id) => Cached(id)'

LEMMA AskedStands ==
    ASSUME NEW id \in Id, AskedInv(id), route' = route, OpStable,
           op[id].state = "free" => op'[id].state = "free"
    PROVE  AskedInv(id)'
BY DEF AskedInv, OpStable

LEMMA OthersStand ==
    ASSUME TypeOK, NEW b \in Attempt, AttemptInv(b), att'[b] = att[b], route' = route,
           OpStable, StoreStable, lost => lost'
    PROVE  AttemptInv(b)'
<1>1. att[b].id \in Id \cup {None}
    BY RecordType
<1>2. att[b].id # None /\ Settled(att[b].id) =>
          Settled(att[b].id)' /\ op'[att[b].id] = op[att[b].id]
    BY <1>1 DEF OpStable, Settled
<1>3. PcInv(b)'
    BY <1>1, <1>2 DEF AttemptInv, PcInv, Here, Checkable, OpStable, Settled
<1>4. PassedInv(b)'
    BY <1>1, <1>2 DEF AttemptInv, PassedInv, Granted, Settled
<1>5. LookupInv(b)'
    BY <1>1, <1>2 DEF AttemptInv, LookupInv, Looked, Checkable
<1>6. ReplayInv(b)'
    BY <1>1, <1>2 DEF AttemptInv, ReplayInv, Cause, StoreStable, Settled
<1> QED
    BY <1>3, <1>4, <1>5, <1>6 DEF AttemptInv

LEMMA MintedStands ==
    ASSUME IInv, NEW a \in Attempt, NEW b \in Attempt \ {a}, Alone(a), route' = route, OpStable,
           att[b].pc = "minted" =>
              /\ store'[att[b].reply.id] = None
              /\ att'[a].id # att[b].reply.id
              /\ att'[a].pc = "minted" => att'[a].reply.id # att[b].reply.id
    PROVE  MintedInv(b)'
<1>1. MintedInv(b) /\ att'[b] = att[b]
    BY DEF IInv, Alone
<1>2. att[b].pc = "minted" => att[b].reply.id \in Id
    BY <1>1 DEF MintedInv, OpReply
<1> QED
    BY <1>1, <1>2 DEF MintedInv, Alone, OpStable, Here

\* The step touches the attempt alone, and gives it no new id.
LEMMA LocalStep ==
    ASSUME IInv, NEW a \in Attempt, Alone(a), UNCHANGED <<route, op, store>>, lost => lost',
           lost' \in BOOLEAN, att'[a].id = att[a].id, att'[a].pc # "minted",
           att'[a].at <= Len(route[a]) + 1, AttemptInv(a)'
    PROVE  IInv'
<1>1. TypeOK /\ \A b \in Attempt : MintedInv(b) /\ AttemptInv(b)
    BY DEF IInv
<1>2. OpStable /\ StoreStable
    BY DEF OpStable, StoreStable, Settled, Cached
<1>3. TypeOK'
    BY <1>1 DEF TypeOK, Alone
<1>4. \A b \in Attempt \ {a} : AttemptInv(b)'
    BY <1>1, <1>2, OthersStand DEF Alone
<1>5. \A b \in Attempt \ {a} : MintedInv(b)'
    <2> SUFFICES ASSUME NEW b \in Attempt \ {a} PROVE MintedInv(b)'
        OBVIOUS
    <2>1. att[b].pc = "minted" => store'[att[b].reply.id] = None /\ att'[a].id # att[b].reply.id
        BY <1>1 DEF MintedInv
    <2> QED
        BY <1>2, <2>1, MintedStands
<1>6. MintedInv(a)'
    BY DEF MintedInv
<1>7. \A id \in Id : StoreInv(id)'
    BY DEF IInv, StoreInv
<1>8. \A id \in Id : AskedInv(id)'
    BY <1>2, AskedStands DEF IInv
<1> QED
    BY <1>3, <1>4, <1>5, <1>6, <1>7, <1>8 DEF IInv

\* The step's on_error: skipping a lenient step needs no approval, and a strict
\* one denies. Either way the id has been looked up, or could not be here.
LEMMA FailStep ==
    ASSUME IInv, NEW a \in Attempt, Fail(a), att[a].pc \notin {"new", "done"}, att[a].at <= Len(route[a]),
           UNCHANGED <<route, op, store>>, lost => lost', lost' \in BOOLEAN,
           att[a].replay => Cause(a),
           ~lost' /\ att[a].id # None => Settled(att[a].id) \/ ~Checkable(a, att[a].at)
    PROVE  IInv'
<1>1. TypeOK /\ AttemptInv(a)
    BY DEF IInv
<1>2. /\ att[a].at \in Nat /\ att[a].at >= 1 /\ att[a].id \in Id \cup {None}
      /\ Len(route[a]) \in Nat /\ DOMAIN route[a] = 1 .. Len(route[a])
    BY <1>1, RecordType
<1>3. att[a].answer = None
    BY <1>1 DEF AttemptInv, PassedInv
<1>4. CASE Here(a).lenient
    <2>1. /\ Alone(a) /\ Kept(a)
          /\ att'[a].pc = "step" /\ att'[a].answer = None /\ att'[a].at = att[a].at + 1
          /\ att'[a].id = att[a].id /\ att'[a].outcome = att[a].outcome
          /\ att'[a].replay = att[a].replay
        BY <1>1, <1>3, <1>4, AdvanceFacts DEF Fail
    <2>2. PcInv(a)'
        BY <1>1, <2>1 DEF AttemptInv, PcInv, Checkable
    <2>3. PassedInv(a)'
        <3>1. \A i \in DOMAIN route[a] : i < att[a].at + 1 /\ ~route[a][i].lenient => i < att[a].at
            BY <1>2, <1>4 DEF Here
        <3> QED
            BY <1>1, <2>1, <3>1, ElicitationAssumption DEF AttemptInv, PassedInv, Granted, Reply
    <2>4. LookupInv(a)'
        <3>1. \A i \in DOMAIN route[a] : i >= att[a].at /\ Checkable(a, i) /\ ~Checkable(a, att[a].at)
                                        => i >= att[a].at + 1
            BY <1>2
        <3> QED
            BY <1>1, <1>3, <2>1, <3>1 DEF AttemptInv, LookupInv, Looked, Checkable, Settled
    <2>5. ReplayInv(a)'
        BY <1>1, <2>1, ElicitationAssumption DEF AttemptInv, ReplayInv, Reply
    <2> QED
        BY <1>2, <2>1, <2>2, <2>3, <2>4, <2>5, LocalStep DEF AttemptInv
<1>5. CASE ~Here(a).lenient
    <2>1. /\ Alone(a) /\ Kept(a)
          /\ att'[a].pc = "done" /\ att'[a].answer = "denied" /\ att'[a].at = att[a].at
          /\ att'[a].id = att[a].id /\ att'[a].outcome = att[a].outcome
          /\ att'[a].replay = att[a].replay
        BY <1>1, <1>5, AnswerFacts DEF Fail, Reply
    <2>2. PcInv(a)' /\ PassedInv(a)' /\ ReplayInv(a)'
        BY <1>1, <2>1 DEF AttemptInv, PcInv, Checkable, PassedInv, Granted, ReplayInv, Cause, Kept
    <2>3. LookupInv(a)'
        BY <2>1, ElicitationAssumption DEF LookupInv, Looked, Reply
    <2> QED
        BY <1>2, <2>1, <2>2, <2>3, LocalStep DEF AttemptInv
<1> QED
    BY <1>4, <1>5

-----------------------------------------------------------------------------
(* The steps of an attempt.                                                *)

\* The routing fields of attempt a after it has moved to `where` at the same
\* step, with nothing settled or answered.
LEMMA GoFacts ==
    ASSUME TypeOK, NEW a \in Attempt,
           NEW where \in {"dispatch", "check", "poll", "validate"}, NEW replay \in BOOLEAN,
           att' = [att EXCEPT ![a].pc = where, ![a].replay = replay]
    PROVE  /\ Alone(a) /\ Kept(a)
           /\ att'[a].pc = where /\ att'[a].answer = att[a].answer /\ att'[a].at = att[a].at
           /\ att'[a].id = att[a].id /\ att'[a].outcome = att[a].outcome /\ att'[a].replay = replay
<1>1. att \in [Attempt -> AttemptRecord] /\ att[a] \in AttemptRecord
    BY DEF TypeOK
<1>2. att' = [att EXCEPT ![a] = [att[a] EXCEPT !.pc = where, !.replay = replay]]
    BY <1>1
<1>3. [att[a] EXCEPT !.pc = where, !.replay = replay] \in AttemptRecord
    BY <1>1 DEF AttemptRecord
<1> QED
    BY <1>1, <1>2, <1>3 DEF Alone, Kept, AttemptRecord

\* Past the last step, every strict one lies behind.
LEMMA FinishStep ==
    ASSUME IInv, NEW a \in Attempt, Finish(a)
    PROVE  IInv'
<1>1. TypeOK /\ AttemptInv(a) /\ att[a].pc = "step" /\ att[a].at > Len(route[a])
      /\ UNCHANGED <<route, op, store, lost>> /\ lost \in BOOLEAN
    BY DEF IInv, Finish, TypeOK
<1> DEFINE what == IF att[a].peek /\ att[a].outcome = "approved" THEN "confirm" ELSE "forwarded"
<1>2. what \in {"confirm", "forwarded"} /\ (what = "confirm" => att[a].outcome = "approved") /\ Answer(a, what)
    BY DEF Finish
<1> HIDE DEF what
<1>3. /\ Alone(a) /\ Kept(a)
      /\ att'[a].pc = "done" /\ att'[a].answer = what /\ att'[a].at = att[a].at
      /\ att'[a].id = att[a].id /\ att'[a].outcome = att[a].outcome /\ att'[a].replay = att[a].replay
    BY <1>1, <1>2, AnswerFacts DEF Reply
<1>4. att[a].answer = None /\ att[a].at <= Len(route[a]) + 1
    BY <1>1 DEF AttemptInv, PassedInv, TypeOK
<1>5. PcInv(a)' /\ PassedInv(a)' /\ ReplayInv(a)'
    BY <1>1, <1>2, <1>3 DEF AttemptInv, PcInv, Checkable, PassedInv, Granted, ReplayInv, Kept
<1>6. LookupInv(a)'
    <2>1. \A i \in DOMAIN route[a] : ~(i >= att[a].at)
        BY <1>1, RecordType
    <2>2. ~lost /\ att[a].id # None /\ Looked(a) => Settled(att[a].id)
        BY <1>1, <1>4, <2>1 DEF AttemptInv, LookupInv, Looked
    <2> QED
        BY <1>1, <1>3, <2>2 DEF LookupInv, Looked, Settled, Checkable
<1> QED
    BY <1>1, <1>3, <1>4, <1>5, <1>6, LocalStep DEF AttemptInv

\* `from` is resolved, and the id of the header taken or an approval asked for.
LEMMA BeginStep ==
    ASSUME IInv, NEW a \in Attempt, Begin(a)
    PROVE  IInv'
<1>1. TypeOK /\ AttemptInv(a) /\ att[a].pc = "step" /\ att[a].at <= Len(route[a])
      /\ UNCHANGED <<route, op, store, lost>> /\ lost \in BOOLEAN
    BY DEF IInv, Begin, TypeOK
<1>2. att[a].at \in DOMAIN route[a]
    BY <1>1, RecordType
<1>3. CASE Here(a).from = "unresolved"
    BY <1>1, <1>2, <1>3, FailStep DEF Begin, Cause, Checkable, LooksUp, Here
<1>4. CASE Here(a).from # "unresolved"
    <2> DEFINE where == IF att[a].id = None THEN "dispatch" ELSE "check"
    <2>1. att' = [att EXCEPT ![a].pc = where, ![a].replay = att[a].replay]
        <3>1. att' = [att EXCEPT ![a].pc = where]
            BY <1>4 DEF Begin
        <3> QED
            BY <1>1, <3>1 DEF TypeOK, AttemptRecord
    <2>2. where \in {"dispatch", "check"} /\ att[a].replay \in BOOLEAN
          /\ (where = "dispatch" <=> att[a].id = None)
        BY <1>1 DEF TypeOK, AttemptRecord
    <2> HIDE DEF where
    <2>3. /\ Alone(a) /\ Kept(a)
          /\ att'[a].pc = where /\ att'[a].answer = att[a].answer /\ att'[a].at = att[a].at
          /\ att'[a].id = att[a].id /\ att'[a].outcome = att[a].outcome /\ att'[a].replay = att[a].replay
        BY <1>1, <2>1, <2>2, GoFacts
    <2>4. PcInv(a)'
        BY <1>1, <1>4, <2>2, <2>3 DEF AttemptInv, PcInv, Checkable, Here
    <2>5. PassedInv(a)' /\ LookupInv(a)'
        BY <1>1, <2>3 DEF AttemptInv, PassedInv, Granted, LookupInv, Looked, Settled, Checkable
    <2>6. ReplayInv(a)'
        BY <1>1, <2>2, <2>3 DEF AttemptInv, ReplayInv, Cause, Kept
    <2> QED
        BY <1>1, <2>2, <2>3, <2>4, <2>5, <2>6, LocalStep DEF AttemptInv, TypeOK
<1> QED
    BY <1>3, <1>4

\* Before an id is at hand nothing is replayed.
LEMMA DispatchFailsStep ==
    ASSUME IInv, NEW a \in Attempt, DispatchRefused(a) \/ DispatchFails(a)
    PROVE  IInv'
<1>1. TypeOK /\ AttemptInv(a) /\ att[a].pc \in {"dispatch", "minted"} /\ Fail(a)
      /\ UNCHANGED <<route, op, store>>
    BY DEF IInv, DispatchRefused, DispatchFails
<1>2. att[a].id = None /\ ~att[a].replay /\ att[a].at <= Len(route[a])
    BY <1>1 DEF AttemptInv, PcInv, ReplayInv
<1>3. lost' \in BOOLEAN /\ (lost => lost')
    BY Zenon DEF IInv, TypeOK, DispatchRefused, DispatchFails
<1> QED
    BY <1>1, <1>2, <1>3, FailStep

\* A cached resolution spares the poll.
LEMMA CheckStep ==
    ASSUME IInv, NEW a \in Attempt, Check(a)
    PROVE  IInv'
<1> DEFINE id == att[a].id
<1>1. TypeOK /\ AttemptInv(a) /\ att[a].pc = "check"
      /\ UNCHANGED <<route, op, store, lost>> /\ lost \in BOOLEAN
    BY DEF IInv, Check, TypeOK
<1>2. id \in Id /\ id # None /\ att[a].at \in DOMAIN route[a] /\ att[a].at <= Len(route[a])
    BY <1>1, RecordType DEF AttemptInv, PcInv
<1>3. CASE ~Here(a).planned
    BY <1>1, <1>2, <1>3, FailStep DEF Check, Cause, Checkable, LooksUp, Here
<1>4. CASE Here(a).planned /\ Cached(id)
    <2>1. att' = [att EXCEPT ![a].pc = "validate", ![a].replay = TRUE]
        BY <1>4 DEF Check
    <2>2. /\ Alone(a) /\ Kept(a)
          /\ att'[a].pc = "validate" /\ att'[a].answer = att[a].answer /\ att'[a].at = att[a].at
          /\ att'[a].id = id /\ att'[a].outcome = att[a].outcome /\ att'[a].replay = TRUE
        BY <1>1, <2>1, GoFacts
    <2>3. op[id].state = "consumed"
        BY <1>2, <1>4 DEF IInv, StoreInv, Cached
    <2>4. att[a].answer = None
        BY <1>1 DEF AttemptInv, PassedInv
    <2>5. PcInv(a)' /\ PassedInv(a)' /\ LookupInv(a)'
        BY <1>1, <2>2, <2>3 DEF AttemptInv, PcInv, Checkable, PassedInv, Granted, LookupInv, Looked, Settled
    <2>6. ReplayInv(a)'
        BY <1>1, <1>2, <1>4, <2>2, <2>4, ElicitationAssumption DEF ReplayInv, Cached, Reply
    <2> QED
        BY <1>1, <1>2, <2>2, <2>5, <2>6, LocalStep DEF AttemptInv, TypeOK
<1>5. CASE Here(a).planned /\ ~Cached(id)
    <2>1. att' = [att EXCEPT ![a].pc = "poll", ![a].replay = FALSE]
        BY <1>5 DEF Check, Cached
    <2>2. /\ Alone(a) /\ Kept(a)
          /\ att'[a].pc = "poll" /\ att'[a].answer = att[a].answer /\ att'[a].at = att[a].at
          /\ att'[a].id = id /\ att'[a].outcome = att[a].outcome /\ att'[a].replay = FALSE
        BY <1>1, <2>1, GoFacts
    <2>3. PcInv(a)' /\ PassedInv(a)' /\ LookupInv(a)' /\ ReplayInv(a)'
        BY <1>1, <2>2 DEF AttemptInv, PcInv, Checkable, PassedInv, Granted, LookupInv, Looked, Settled, ReplayInv
    <2> QED
        BY <1>1, <1>2, <2>2, <2>3, LocalStep DEF AttemptInv, TypeOK
<1> QED
    BY <1>3, <1>4, <1>5

\* A poll that fails, or is skipped, is on record as lost.
LEMMA PollLostStep ==
    ASSUME IInv, NEW a \in Attempt, PollFails(a) \/ CheckSkipped(a)
    PROVE  IInv'
<1>1. TypeOK /\ AttemptInv(a) /\ att[a].pc \in {"poll", "polled"}
      /\ UNCHANGED <<route, op, store>> /\ lost' = TRUE
    BY DEF IInv, PollFails, CheckSkipped
<1>2. att[a].id # None /\ ~att[a].replay /\ att[a].at <= Len(route[a])
    BY <1>1 DEF AttemptInv, PcInv, ReplayInv
<1>3. CASE PollFails(a)
    BY <1>1, <1>2, <1>3, FailStep DEF PollFails
<1>4. CASE CheckSkipped(a)
    <2>1. /\ Alone(a) /\ Kept(a)
          /\ att'[a].pc = "done" /\ att'[a].answer = "pending" /\ att'[a].at = att[a].at
          /\ att'[a].id = att[a].id /\ att'[a].outcome = att[a].outcome /\ att'[a].replay = att[a].replay
        BY <1>1, <1>4, AnswerFacts DEF CheckSkipped, Reply
    <2>2. PcInv(a)' /\ PassedInv(a)' /\ LookupInv(a)' /\ ReplayInv(a)'
        BY <1>1, <1>2, <2>1 DEF AttemptInv, PcInv, Checkable, PassedInv, Granted, LookupInv, Looked, ReplayInv
    <2> QED
        BY <1>1, <1>2, <2>1, <2>2, RecordType, LocalStep DEF AttemptInv
<1> QED
    BY <1>3, <1>4

\* Only a resolution that names the human who was asked gets past the step.
LEMMA ValidateStep ==
    ASSUME IInv, NEW a \in Attempt, Validate(a)
    PROVE  IInv'
<1> DEFINE id == att[a].id
<1>1. TypeOK /\ AttemptInv(a) /\ att[a].pc = "validate"
      /\ UNCHANGED <<route, op, store, lost>> /\ lost \in BOOLEAN
    BY DEF IInv, Validate, TypeOK
<1>2. /\ id \in Id /\ id # None /\ att[a].at \in DOMAIN route[a] /\ att[a].at <= Len(route[a])
      /\ op[id].state = "consumed" /\ StoreInv(id)
      /\ att[a].at \in Nat /\ Len(route[a]) \in Nat
    BY <1>1, RecordType DEF AttemptInv, PcInv, IInv
<1>3. CASE Valid(id) /\ (Here(a).scoped => att[a].covers)
    <2>1. att' = [att EXCEPT ![a].pc = "step", ![a].at = @ + 1, ![a].outcome = "approved"]
        BY <1>3 DEF Validate
    <2>2. /\ Alone(a) /\ Kept(a)
          /\ att'[a].pc = "step" /\ att'[a].answer = att[a].answer /\ att'[a].at = att[a].at + 1
          /\ att'[a].id = id /\ att'[a].outcome = "approved" /\ att'[a].replay = att[a].replay
        <3>1. att \in [Attempt -> AttemptRecord] /\ att[a] \in AttemptRecord
            BY <1>1 DEF TypeOK
        <3>2. att' = [att EXCEPT ![a] = [att[a] EXCEPT !.pc = "step", !.at = @ + 1, !.outcome = "approved"]]
            BY <2>1, <3>1
        <3>3. [att[a] EXCEPT !.pc = "step", !.at = @ + 1, !.outcome = "approved"] \in AttemptRecord
            <4>1. att[a].at + 1 \in Nat \ {0}
                BY <1>2
            <4> QED
                BY <3>1, <4>1 DEF AttemptRecord
        <3> QED
            BY <3>1, <3>2, <3>3 DEF Alone, Kept, AttemptRecord
    <2>3. Granted(id)
        BY <1>2, <1>3 DEF Valid, StoreInv, Granted
    <2>4. att[a].answer = None
        BY <1>1 DEF AttemptInv, PassedInv
    <2>5. PcInv(a)' /\ LookupInv(a)'
        BY <1>1, <1>2, <2>2 DEF AttemptInv, PcInv, Checkable, LookupInv, Looked, Settled
    <2>6. PassedInv(a)' /\ ReplayInv(a)'
        BY <1>1, <1>2, <2>2, <2>3, <2>4, ElicitationAssumption
        DEF PassedInv, Granted, ReplayInv, Reply
    <2> QED
        BY <1>1, <1>2, <2>2, <2>5, <2>6, LocalStep DEF AttemptInv
<1>4. CASE ~(Valid(id) /\ (Here(a).scoped => att[a].covers))
    <2>1. Fail(a) /\ Settled(id)
        BY <1>2, <1>4 DEF Validate, Settled
    <2>2. att[a].replay => Cause(a)
        <3> SUFFICES ASSUME att[a].replay PROVE Cause(a)
            OBVIOUS
        <3>1. Cached(id)
            BY <1>1 DEF AttemptInv, ReplayInv
        <3>2. CASE ~Valid(id)
            BY <1>2, <3>1, <3>2 DEF Valid, Cached, StoreInv, Cause
        <3>3. CASE Here(a).scoped /\ ~att[a].covers
            BY <1>2, <3>3 DEF Cause, Here
        <3> QED
            BY <1>4, <3>2, <3>3
    <2> QED
        BY <1>1, <1>2, <2>1, <2>2, FailStep
<1> QED
    BY <1>3, <1>4

-----------------------------------------------------------------------------
(* The steps that change what the provider or the store knows.             *)

LEMMA SharedStep ==
    ASSUME IInv, NEW a \in Attempt, Alone(a), route' = route, lost => lost', lost' \in BOOLEAN,
           op' \in [Id -> OpRecord], store' \in [Id -> {None} \cup Correlation],
           OpStable, StoreStable, \A id \in Id : StoreInv(id)',
           \A id \in Id : op[id].state = "free" => op'[id].state = "free" \/ AskedInv(id)',
           att'[a].at <= Len(route[a]) + 1, AttemptInv(a)', MintedInv(a)',
           \A b \in Attempt \ {a} : att[b].pc = "minted" =>
              /\ store'[att[b].reply.id] = None
              /\ att'[a].id # att[b].reply.id
              /\ att'[a].pc = "minted" => att'[a].reply.id # att[b].reply.id
    PROVE  IInv'
<1>1. TypeOK /\ \A b \in Attempt : AttemptInv(b)
    BY DEF IInv
<1>2. TypeOK'
    BY <1>1 DEF TypeOK, Alone
<1>3. \A b \in Attempt \ {a} : AttemptInv(b)'
    BY <1>1, OthersStand DEF Alone
<1>4. \A b \in Attempt \ {a} : MintedInv(b)'
    BY MintedStands
<1>5. \A id \in Id : AskedInv(id)'
    BY AskedStands DEF IInv
<1> QED
    BY <1>2, <1>3, <1>4, <1>5 DEF IInv

\* An answer of the provider is read: only the approval of a human who was
\* asked is written down, and an id the store forgot stays unknown.
LEMMA PolledStep ==
    ASSUME IInv, NEW a \in Attempt, Polled(a)
    PROVE  IInv'
<1> DEFINE id == att[a].id
           reply == att[a].reply
<1>1. TypeOK /\ AttemptInv(a) /\ att[a].pc = "polled"
      /\ UNCHANGED <<route, op, lost>> /\ lost \in BOOLEAN
    BY DEF IInv, Polled, TypeOK
<1>2. /\ id \in Id /\ id # None /\ att[a].at <= Len(route[a]) /\ att[a].at <= Len(route[a]) + 1
      /\ ~att[a].replay /\ reply \in OpReply /\ att[a].answer = None
    BY <1>1, RecordType DEF AttemptInv, PcInv, ReplayInv, PassedInv
<1>3. CASE reply.status \in {"expired", "rejected"} /\ Fail(a) /\ UNCHANGED store
    <2>1. Settled(id)
        BY <1>1, <1>3 DEF AttemptInv, PcInv
    <2> QED
        BY <1>1, <1>2, <1>3, <2>1, FailStep
<1>4. CASE /\ (Answer(a, "pending") \/ Answer(a, "denied")) /\ UNCHANGED store
    <2>1. PICK what \in {"pending", "denied"} : Answer(a, what)
        BY <1>4
    <2>2. /\ Alone(a) /\ Kept(a)
          /\ att'[a].pc = "done" /\ att'[a].answer = what /\ att'[a].at = att[a].at
          /\ att'[a].id = id /\ att'[a].outcome = att[a].outcome /\ att'[a].replay = att[a].replay
        BY <1>1, <2>1, AnswerFacts DEF Reply
    <2>3. PcInv(a)' /\ PassedInv(a)' /\ ReplayInv(a)'
        BY <1>1, <1>2, <1>4, <2>1, <2>2 DEF AttemptInv, PcInv, Checkable, PassedInv, Granted, ReplayInv
    <2>4. LookupInv(a)'
        BY <2>1, <2>2, ElicitationAssumption DEF LookupInv, Looked, Reply
    <2> QED
        BY <1>1, <1>2, <1>4, <2>2, <2>3, <2>4, LocalStep DEF AttemptInv
<1>5. CASE /\ reply.status = "approved" /\ Resolve(id, reply.claim)
           /\ att' = [att EXCEPT ![a].pc = "validate", ![a].reply = None]
    <2>1. op[id].state = "consumed" /\ op[id].claim = reply.claim /\ reply.claim \in Human \cup {None}
        BY <1>1, <1>2, <1>5 DEF AttemptInv, PcInv, OpReply
    <2>2. /\ Alone(a) /\ Kept(a)
          /\ att'[a].pc = "validate" /\ att'[a].answer = att[a].answer /\ att'[a].at = att[a].at
          /\ att'[a].id = id /\ att'[a].outcome = att[a].outcome /\ att'[a].replay = att[a].replay
        <3>1. att \in [Attempt -> AttemptRecord] /\ att[a] \in AttemptRecord
            BY <1>1 DEF TypeOK
        <3>2. att' = [att EXCEPT ![a] = [att[a] EXCEPT !.pc = "validate", !.reply = None]]
            BY <1>5, <3>1
        <3>3. [att[a] EXCEPT !.pc = "validate", !.reply = None] \in AttemptRecord
            BY <3>1 DEF AttemptRecord
        <3> QED
            BY <3>1, <3>2, <3>3 DEF Alone, Kept, AttemptRecord
    <2>3. AttemptInv(a)'
        BY <1>1, <1>2, <2>1, <2>2
        DEF AttemptInv, PcInv, Checkable, PassedInv, Granted, LookupInv, Looked, Settled, ReplayInv
    <2>4. /\ store' \in [Id -> {None} \cup Correlation]
          /\ \A i \in Id \ {id} : store'[i] = store[i]
          /\ store[id] = None => store'[id] = None
          /\ store[id] # None => /\ store'[id] # None /\ store'[id].expected = store[id].expected
                                 /\ store'[id].resolved = IF reply.claim = None THEN store[id].resolved
                                                          ELSE reply.claim
        <3>1. store \in [Id -> {None} \cup Correlation]
            BY <1>1 DEF TypeOK
        <3>2. CASE store[id] # None /\ reply.claim # None
            <4>1. store[id] \in Correlation
                BY <1>2, <3>1, <3>2
            <4>2. store' = [store EXCEPT ![id] = [store[id] EXCEPT !.resolved = reply.claim]]
                BY <1>5, <3>1, <3>2 DEF Resolve
            <4>3. [store[id] EXCEPT !.resolved = reply.claim] \in Correlation
                BY <2>1, <4>1 DEF Correlation
            <4>4. [store[id] EXCEPT !.resolved = reply.claim].expected = store[id].expected
                  /\ [store[id] EXCEPT !.resolved = reply.claim].resolved = reply.claim
                BY <4>1 DEF Correlation
            <4> QED
                BY <1>2, <3>1, <3>2, <4>2, <4>3, <4>4, ElicitationAssumption
        <3>3. CASE ~(store[id] # None /\ reply.claim # None)
            BY <1>5, <3>1, <3>3 DEF Resolve
        <3> QED
            BY <3>2, <3>3
    <2>5. OpStable /\ StoreStable
        BY <1>1, <2>4, <1>2 DEF OpStable, StoreStable, Settled, Cached
    <2>6. \A i \in Id : StoreInv(i)'
        BY <1>1, <1>2, <2>1, <2>4 DEF IInv, StoreInv
    <2>7. \A b \in Attempt \ {a} : att[b].pc = "minted" =>
              /\ store'[att[b].reply.id] = None
              /\ att'[a].id # att[b].reply.id
        <3> SUFFICES ASSUME NEW b \in Attempt \ {a}, att[b].pc = "minted"
                     PROVE  store'[att[b].reply.id] = None /\ att'[a].id # att[b].reply.id
            OBVIOUS
        <3>1. MintedInv(b)
            BY DEF IInv
        <3>2. att[b].reply.id \in Id /\ store[att[b].reply.id] = None /\ id # att[b].reply.id
            BY <3>1 DEF MintedInv, OpReply
        <3> QED
            BY <2>2, <2>4, <3>2
    <2>8. MintedInv(a)' /\ op' \in [Id -> OpRecord]
        BY <1>1, <2>2 DEF MintedInv, TypeOK
    <2> QED
        BY <1>1, <1>2, <2>2, <2>3, <2>4, <2>5, <2>6, <2>7, <2>8, SharedStep
<1> QED
    BY <1>3, <1>4, <1>5 DEF Polled, Denied

\* What the agent may echo has been looked up by an attempt before.
LEMMA SendStep ==
    ASSUME IInv, NEW a \in Attempt, Send(a)
    PROVE  IInv'
<1>1. /\ TypeOK /\ att[a].pc = "new" /\ UNCHANGED <<route, op, store, lost>> /\ lost \in BOOLEAN
      /\ \A b \in Attempt : MintedInv(b) /\ AttemptInv(b)
    BY DEF IInv, Send, TypeOK
<1>2. PICK echo \in Told \cup {None}, peek \in BOOLEAN, covers \in BOOLEAN :
          att' = [att EXCEPT ![a] = [Fresh EXCEPT !.pc = "step", !.id = echo,
                                                  !.peek = peek, !.covers = covers]]
    BY DEF Send
<1>3. /\ echo \in Id \cup {None}
      /\ echo # None => \E b \in Attempt : att[b].id = echo
    BY <1>1, <1>2, RecordType DEF Told
<1>4. /\ Alone(a)
      /\ att'[a].pc = "step" /\ att'[a].answer = None /\ att'[a].at = 1
      /\ att'[a].id = echo /\ att'[a].outcome = None /\ att'[a].replay = FALSE
    <2>1. att \in [Attempt -> AttemptRecord]
        BY <1>1 DEF TypeOK
    <2> DEFINE new == [Fresh EXCEPT !.pc = "step", !.id = echo, !.peek = peek, !.covers = covers]
    <2>2. Fresh \in AttemptRecord
        <3>1. 1 \in Nat \ {0}
            OBVIOUS
        <3> QED
            BY <3>1 DEF Fresh, AttemptRecord
    <2>3. Fresh.answer = None /\ Fresh.at = 1 /\ Fresh.outcome = None /\ Fresh.replay = FALSE
        BY DEF Fresh
    <2>4. /\ new \in AttemptRecord /\ new.pc = "step" /\ new.answer = None /\ new.at = 1
          /\ new.id = echo /\ new.outcome = None /\ new.replay = FALSE
        BY <1>2, <1>3, <2>2, <2>3 DEF AttemptRecord
    <2> HIDE DEF new
    <2> QED
        BY <1>2, <2>1, <2>4 DEF Alone, new
<1>5. echo # None => op[echo].state # "free"
    BY <1>1, <1>3 DEF AttemptInv, PcInv
<1>6. route[a] \in Seq(Step) /\ Len(route[a]) \in Nat /\ DOMAIN route[a] = 1 .. Len(route[a])
    BY <1>1, RecordType
<1>7. PcInv(a)'
    BY <1>1, <1>4, <1>5 DEF PcInv, Checkable
<1>8. PassedInv(a)' /\ ReplayInv(a)'
    <2>1. \A i \in DOMAIN route[a] : ~(i < 1)
        BY <1>6
    <2> QED
        BY <1>1, <1>4, <2>1, ElicitationAssumption DEF PassedInv, ReplayInv, Reply
<1>9. LookupInv(a)'
    <2>1. \A i \in DOMAIN route[a] : i >= 1
        BY <1>6
    <2> QED
        BY <1>1, <1>4, <1>5, <2>1 DEF LookupInv, Looked, Checkable
<1>10. MintedInv(a)' /\ att'[a].at <= Len(route[a]) + 1
    BY <1>4, <1>6 DEF MintedInv
<1>11. \A b \in Attempt \ {a} : att[b].pc = "minted" =>
              store[att[b].reply.id] = None /\ echo # att[b].reply.id
    <2> SUFFICES ASSUME NEW b \in Attempt \ {a}, att[b].pc = "minted"
                 PROVE  store[att[b].reply.id] = None /\ echo # att[b].reply.id
        OBVIOUS
    <2>1. /\ att[b].reply.id \in Id /\ store[att[b].reply.id] = None
          /\ \A c \in Attempt : att[c].id # att[b].reply.id
        BY <1>1 DEF MintedInv, OpReply
    <2>2. None \notin Id
        BY ElicitationAssumption DEF Id
    <2> QED
        BY <1>3, <2>1, <2>2
<1>12. OpStable /\ StoreStable /\ \A id \in Id : StoreInv(id)'
    BY <1>1 DEF OpStable, StoreStable, Settled, Cached, IInv, StoreInv
<1>13. op' \in [Id -> OpRecord] /\ store' \in [Id -> {None} \cup Correlation]
    BY <1>1 DEF TypeOK
<1> QED
    BY <1>1, <1>4, <1>7, <1>8, <1>9, <1>10, <1>11, <1>12, <1>13, SharedStep DEF AttemptInv

\* The provider takes a request for approval under an id nobody has used.
LEMMA MintStep ==
    ASSUME IInv, NEW a \in Attempt, Mint(a)
    PROVE  IInv'
<1>1. /\ TypeOK /\ att[a].pc = "dispatch" /\ UNCHANGED <<route, store, lost>> /\ lost \in BOOLEAN
      /\ Here(a).planned /\ Here(a).from # "empty"
      /\ \A b \in Attempt : MintedInv(b) /\ AttemptInv(b)
      /\ \A i \in Id : StoreInv(i)
    BY DEF IInv, Mint, TypeOK
<1>2. PICK id \in Id :
          /\ op[id].state = "free"
          /\ op' = [op EXCEPT ![id] = [state |-> "pending", asked |-> Here(a).from, claim |-> None, by |-> a]]
          /\ att' = [att EXCEPT ![a].pc = "minted",
                                ![a].reply = [id |-> id, status |-> "pending", claim |-> None]]
    BY DEF Mint
<1>3. att[a].at <= Len(route[a]) /\ att[a].id = None /\ Here(a).from \in Human /\ att[a].at <= Len(route[a]) + 1
    <2>1. /\ route[a] \in Seq(Step) /\ att[a].at \in DOMAIN route[a] /\ att[a].at <= Len(route[a])
          /\ att[a].at <= Len(route[a]) + 1
        BY <1>1, RecordType DEF AttemptInv, PcInv
    <2>2. route[a][att[a].at] \in Step
        BY <2>1, ElementOfSeq
    <2> QED
        BY <1>1, <2>1, <2>2 DEF AttemptInv, PcInv, Here, Step
<1>4. /\ Alone(a) /\ Kept(a)
      /\ att'[a].pc = "minted" /\ att'[a].answer = att[a].answer /\ att'[a].at = att[a].at
      /\ att'[a].id = None /\ att'[a].outcome = att[a].outcome /\ att'[a].replay = att[a].replay
      /\ att'[a].reply \in OpReply /\ att'[a].reply.id = id
    <2> DEFINE r == [id |-> id, status |-> "pending", claim |-> None]
    <2>1. att \in [Attempt -> AttemptRecord] /\ att[a] \in AttemptRecord
        BY <1>1 DEF TypeOK
    <2>2. r \in OpReply /\ r.id = id
        BY DEF OpReply, Status
    <2> HIDE DEF r
    <2>3. att' = [att EXCEPT ![a] = [att[a] EXCEPT !.pc = "minted", !.reply = r]]
        BY <1>2, <2>1 DEF r
    <2>4. [att[a] EXCEPT !.pc = "minted", !.reply = r] \in AttemptRecord
        BY <2>1, <2>2 DEF AttemptRecord
    <2> QED
        BY <1>3, <2>1, <2>2, <2>3, <2>4 DEF Alone, Kept, AttemptRecord
<1>5. /\ op' \in [Id -> OpRecord] /\ \A i \in Id \ {id} : op'[i] = op[i]
      /\ op'[id].state = "pending" /\ op'[id].asked = Here(a).from /\ op'[id].claim = None
      /\ op'[id].by = a
    <2> DEFINE r == [state |-> "pending", asked |-> Here(a).from, claim |-> None, by |-> a]
    <2>1. /\ r \in OpRecord /\ r.state = "pending" /\ r.asked = Here(a).from /\ r.claim = None
          /\ r.by = a
        BY <1>3 DEF OpRecord, OpState
    <2>2. op \in [Id -> OpRecord] /\ op' = [op EXCEPT ![id] = r]
        BY <1>1, <1>2 DEF TypeOK
    <2> HIDE DEF r
    <2> QED
        BY <2>1, <2>2
<1>6. OpStable /\ StoreStable
    BY <1>1, <1>2, <1>5 DEF OpStable, StoreStable, Settled, Cached
<1>7. \A i \in Id : StoreInv(i)'
    BY <1>1, <1>2, <1>5 DEF StoreInv
<1>8. AttemptInv(a)'
    <2>1. att[a].answer = None /\ ~att[a].replay
        BY <1>1, <1>3 DEF AttemptInv, PassedInv, ReplayInv
    <2> QED
        BY <1>1, <1>3, <1>4, <2>1
        DEF AttemptInv, PcInv, Checkable, PassedInv, Granted, LookupInv, Looked, Settled, ReplayInv, Here
<1>9. \A b \in Attempt : att[b].id # id /\ (att[b].pc = "minted" => att[b].reply.id # id)
    <2>1. \A b \in Attempt : att[b].id # id
        BY <1>1, <1>2, ElicitationAssumption DEF AttemptInv, PcInv, Id
    <2> QED
        BY <1>1, <1>2, <2>1 DEF MintedInv
<1>10. MintedInv(a)'
    <2>1. \A b \in Attempt : att'[b].id # id
        BY <1>3, <1>4, <1>9, ElicitationAssumption DEF Alone, Id
    <2>2. store[id] = None
        BY <1>1, <1>2 DEF StoreInv
    <2>3. Here(a)' = Here(a)
        BY <1>1, <1>4 DEF Here
    <2> QED
        BY <1>1, <1>3, <1>4, <1>5, <1>9, <2>1, <2>2, <2>3 DEF MintedInv, Alone
<1>11. \A b \in Attempt \ {a} : att[b].pc = "minted" =>
              /\ store'[att[b].reply.id] = None /\ att'[a].id # att[b].reply.id
              /\ att'[a].reply.id # att[b].reply.id
    BY <1>1, <1>3, <1>4, <1>9 DEF MintedInv
<1>12. AskedInv(id)'
    <2>1. att[a].at \in DOMAIN route[a] /\ DOMAIN route[a] = 1 .. Len(route[a]) /\ att[a].at \in Nat
        BY <1>1, <1>3, RecordType
    <2>2. \A k \in 1 .. att[a].at - 1 : route[a][k].lenient
        BY <1>1, <1>3, <2>1 DEF AttemptInv, PassedInv
    <2> QED
        BY <1>1, <1>5, <2>1, <2>2 DEF AskedInv, Here
<1> QED
    BY <1>1, <1>3, <1>4, <1>5, <1>6, <1>7, <1>8, <1>10, <1>11, <1>12, SharedStep DEF TypeOK

\* The id of the new approval reaches the gateway, which remembers who was asked.
LEMMA DispatchedStep ==
    ASSUME IInv, NEW a \in Attempt, Dispatched(a)
    PROVE  IInv'
<1> DEFINE id == att[a].reply.id
<1>1. /\ TypeOK /\ att[a].pc = "minted" /\ UNCHANGED <<route, op, lost>> /\ lost \in BOOLEAN
      /\ \A b \in Attempt : MintedInv(b) /\ AttemptInv(b)
      /\ \A i \in Id : StoreInv(i)
    BY DEF IInv, Dispatched, TypeOK
<1>2. /\ id \in Id /\ id # None /\ store[id] = None /\ op[id].state # "free"
      /\ op[id].asked = Here(a).from /\ Here(a).planned /\ Here(a).from \in Human
      /\ \A b \in Attempt : /\ att[b].id # id
                            /\ b # a /\ att[b].pc = "minted" => att[b].reply.id # id
    BY <1>1, ElicitationAssumption DEF MintedInv, OpReply, Id
<1>3. /\ att[a].at \in DOMAIN route[a] /\ att[a].at <= Len(route[a]) /\ att[a].at <= Len(route[a]) + 1
      /\ att[a].at \in Nat /\ att[a].id = None /\ Checkable(a, att[a].at)
    BY <1>1, <1>2, RecordType DEF AttemptInv, PcInv, Checkable, LooksUp, Here
<1>4. /\ Alone(a) /\ Kept(a)
      /\ att'[a].pc = "check" /\ att'[a].answer = att[a].answer /\ att'[a].at = att[a].at
      /\ att'[a].id = id /\ att'[a].outcome = att[a].outcome /\ att'[a].replay = att[a].replay
    <2>1. att \in [Attempt -> AttemptRecord] /\ att[a] \in AttemptRecord
        BY <1>1 DEF TypeOK
    <2>2. att' = [att EXCEPT ![a] = [att[a] EXCEPT !.pc = "check", !.id = id, !.reply = None]]
        BY <2>1 DEF Dispatched
    <2>3. [att[a] EXCEPT !.pc = "check", !.id = id, !.reply = None] \in AttemptRecord
        BY <1>2, <2>1 DEF AttemptRecord
    <2> QED
        BY <2>1, <2>2, <2>3 DEF Alone, Kept, AttemptRecord
<1>5. /\ store' \in [Id -> {None} \cup Correlation] /\ \A i \in Id \ {id} : store'[i] = store[i]
      /\ store'[id].expected = Here(a).from /\ store'[id].resolved = None
    <2> DEFINE r == [expected |-> Here(a).from, resolved |-> None]
    <2>1. r \in Correlation /\ r.expected = Here(a).from /\ r.resolved = None
        BY <1>2 DEF Correlation
    <2>2. store \in [Id -> {None} \cup Correlation] /\ store' = [store EXCEPT ![id] = r]
        BY <1>1 DEF TypeOK, Dispatched
    <2> HIDE DEF r
    <2> QED
        BY <1>2, <2>1, <2>2
<1>6. OpStable /\ StoreStable
    BY <1>1, <1>2, <1>5 DEF OpStable, StoreStable, Settled, Cached
<1>7. \A i \in Id : StoreInv(i)'
    BY <1>1, <1>2, <1>5 DEF StoreInv
<1>8. AttemptInv(a)'
    <2>1. att[a].answer = None /\ ~att[a].replay /\ att[a].outcome # "approved"
        BY <1>1, <1>3 DEF AttemptInv, PassedInv, ReplayInv
    <2>2. PcInv(a)'
        BY <1>1, <1>2, <1>3, <1>4 DEF PcInv, Checkable
    <2>3. PassedInv(a)' /\ ReplayInv(a)'
        BY <1>1, <1>2, <1>4, <2>1, ElicitationAssumption DEF AttemptInv, PassedInv, ReplayInv, Reply
    <2>4. LookupInv(a)'
        BY <1>1, <1>3, <1>4, <2>1 DEF LookupInv, Looked, Checkable
    <2> QED
        BY <2>2, <2>3, <2>4 DEF AttemptInv
<1>9. MintedInv(a)' /\ op' \in [Id -> OpRecord]
    BY <1>1, <1>4 DEF MintedInv, TypeOK
<1>10. \A b \in Attempt \ {a} : att[b].pc = "minted" =>
              store'[att[b].reply.id] = None /\ att'[a].id # att[b].reply.id
    <2> SUFFICES ASSUME NEW b \in Attempt \ {a}, att[b].pc = "minted"
                 PROVE  store'[att[b].reply.id] = None /\ att'[a].id # att[b].reply.id
        OBVIOUS
    <2>1. att[b].reply.id \in Id /\ store[att[b].reply.id] = None
        BY <1>1 DEF MintedInv, OpReply
    <2> QED
        BY <1>2, <1>4, <1>5, <2>1
<1> QED
    BY <1>1, <1>3, <1>4, <1>5, <1>6, <1>7, <1>8, <1>9, <1>10, SharedStep

\* The token of an approval goes out once: from then on it is settled.
LEMMA OpAnswersStep ==
    ASSUME IInv, NEW a \in Attempt, OpAnswers(a)
    PROVE  IInv'
<1> DEFINE id == att[a].id
           says == [free |-> "rejected", pending |-> "pending", approved |-> "approved",
                    denied |-> "denied", expired |-> "expired", consumed |-> "rejected"]
           status == says[op[id].state]
           reply == [id |-> id, status |-> status, claim |-> op[id].claim]
           after == IF op[id].state = "approved" THEN "consumed" ELSE op[id].state
<1>1. /\ TypeOK /\ att[a].pc = "poll" /\ UNCHANGED <<route, store, lost>> /\ lost \in BOOLEAN
      /\ \A b \in Attempt : MintedInv(b) /\ AttemptInv(b)
      /\ \A i \in Id : StoreInv(i)
    BY DEF IInv, OpAnswers, TypeOK
<1>2. /\ id \in Id /\ id # None /\ op[id].state # "free" /\ op[id] \in OpRecord
      /\ att[a].at <= Len(route[a]) + 1
    BY <1>1, RecordType DEF AttemptInv, PcInv, TypeOK
<1>3. /\ status \in Status
      /\ status = "approved" => after = "consumed"
      /\ status \in {"expired", "rejected"} => after \in {"consumed", "expired"}
    BY <1>2 DEF OpRecord, OpState, Status
<1>4. after \in OpState /\ after # "free" /\ (Settled(id) => after = op[id].state)
    BY <1>2 DEF OpRecord, OpState, Settled
<1>5. reply \in OpReply /\ reply.status = status /\ reply.claim = op[id].claim
    BY <1>2, <1>3 DEF OpReply, OpRecord
<1>6. /\ att' = [att EXCEPT ![a].pc = "polled", ![a].reply = reply]
      /\ op' = [op EXCEPT ![id].state = after]
    BY <1>1, <1>2 DEF OpAnswers, TypeOK
<1> HIDE DEF says, status, reply, after
<1>7. /\ Alone(a) /\ Kept(a)
      /\ att'[a].pc = "polled" /\ att'[a].answer = att[a].answer /\ att'[a].at = att[a].at
      /\ att'[a].id = id /\ att'[a].outcome = att[a].outcome /\ att'[a].replay = att[a].replay
      /\ att'[a].reply = reply
    <2>1. att \in [Attempt -> AttemptRecord] /\ att[a] \in AttemptRecord
        BY <1>1 DEF TypeOK
    <2>2. att' = [att EXCEPT ![a] = [att[a] EXCEPT !.pc = "polled", !.reply = reply]]
        BY <1>6, <2>1
    <2>3. [att[a] EXCEPT !.pc = "polled", !.reply = reply] \in AttemptRecord
        BY <1>5, <2>1 DEF AttemptRecord
    <2> QED
        BY <2>1, <2>2, <2>3 DEF Alone, Kept, AttemptRecord
<1>8. /\ op' \in [Id -> OpRecord] /\ \A i \in Id \ {id} : op'[i] = op[i]
      /\ op'[id].state = after /\ op'[id].asked = op[id].asked /\ op'[id].claim = op[id].claim
      /\ op'[id].by = op[id].by
      /\ Settled(id) => op'[id] = op[id]
    <2> DEFINE r == [op[id] EXCEPT !.state = after]
    <2>1. r \in OpRecord /\ r.state = after /\ r.asked = op[id].asked /\ r.claim = op[id].claim
          /\ r.by = op[id].by
        BY <1>2, <1>4 DEF OpRecord
    <2>2. Settled(id) => r = op[id]
        BY <1>2, <1>4 DEF OpRecord
    <2>3. op \in [Id -> OpRecord] /\ op' = [op EXCEPT ![id] = r]
        BY <1>1, <1>6 DEF TypeOK
    <2> HIDE DEF r
    <2> QED
        BY <1>2, <2>1, <2>2, <2>3
<1>9. OpStable /\ StoreStable
    BY <1>1, <1>2, <1>4, <1>8 DEF OpStable, StoreStable, Settled, Cached
<1>10. \A i \in Id : StoreInv(i)'
    BY <1>1, <1>2, <1>4, <1>8 DEF StoreInv, Settled
<1>11. AttemptInv(a)'
    <2>1. att[a].answer = None /\ ~att[a].replay /\ AttemptInv(a)
        BY <1>1 DEF AttemptInv, PassedInv, ReplayInv
    <2>2. PcInv(a)'
        BY <1>1, <1>2, <1>3, <1>4, <1>5, <1>7, <1>8, <2>1 DEF AttemptInv, PcInv, Checkable, Settled
    <2>3. PassedInv(a)' /\ ReplayInv(a)'
        BY <1>1, <1>2, <1>7, <1>8, <1>9, <2>1 DEF AttemptInv, PassedInv, ReplayInv, Granted, Settled
    <2>4. LookupInv(a)'
        BY <1>1, <1>2, <1>7, <1>8, <2>1 DEF AttemptInv, LookupInv, Looked, Checkable, Settled
    <2> QED
        BY <2>2, <2>3, <2>4 DEF AttemptInv
<1>12. \A b \in Attempt \ {a} : att[b].pc = "minted" =>
              store'[att[b].reply.id] = None /\ att'[a].id # att[b].reply.id
    BY <1>1, <1>7 DEF MintedInv
<1>13. MintedInv(a)' /\ store' \in [Id -> {None} \cup Correlation]
    BY <1>1, <1>7 DEF MintedInv, TypeOK
<1> QED
    BY <1>1, <1>2, <1>7, <1>8, <1>9, <1>10, <1>11, <1>12, <1>13, SharedStep

-----------------------------------------------------------------------------
(* The human, the provider's clock and the gateway's host.                 *)

\* A decision of the human or the clock concerns an approval that is not redeemed.
LEMMA ProviderStep ==
    ASSUME IInv, NEW id \in Id, Approve(id) \/ Deny(id) \/ Expire(id)
    PROVE  IInv'
<1>1. /\ TypeOK /\ UNCHANGED <<route, store, att, lost>> /\ op[id].state \in {"pending", "approved"}
      /\ \A b \in Attempt : MintedInv(b) /\ AttemptInv(b)
      /\ \A i \in Id : StoreInv(i)
    BY DEF IInv, Approve, Deny, Expire
<1>2. PICK s \in {"approved", "denied", "expired"}, c \in Human \cup {None} :
          op' = [op EXCEPT ![id] = [op[id] EXCEPT !.state = s, !.claim = c]]
    <2>1. op \in [Id -> OpRecord] /\ op[id] \in OpRecord
        BY <1>1 DEF TypeOK
    <2>2. CASE Approve(id)
        BY <2>1, <2>2 DEF Approve
    <2>3. ASSUME NEW s \in {"denied", "expired"}, op' = [op EXCEPT ![id].state = s]
          PROVE  op' = [op EXCEPT ![id] = [op[id] EXCEPT !.state = s, !.claim = op[id].claim]]
                 /\ op[id].claim \in Human \cup {None}
        BY <2>1, <2>3 DEF OpRecord
    <2>4. CASE Deny(id)
        BY <2>3, <2>4 DEF Deny
    <2>5. CASE Expire(id)
        BY <2>3, <2>5 DEF Expire
    <2> QED
        BY <2>2, <2>4, <2>5
<1>3. /\ op' \in [Id -> OpRecord] /\ \A i \in Id \ {id} : op'[i] = op[i]
      /\ op'[id].state = s /\ op'[id].asked = op[id].asked /\ op'[id].by = op[id].by
    <2> DEFINE r == [op[id] EXCEPT !.state = s, !.claim = c]
    <2>1. op \in [Id -> OpRecord] /\ op[id] \in OpRecord
        BY <1>1 DEF TypeOK
    <2>2. r \in OpRecord /\ r.state = s /\ r.asked = op[id].asked /\ r.by = op[id].by
        BY <1>2, <2>1 DEF OpRecord, OpState
    <2> HIDE DEF r
    <2> QED
        BY <1>2, <2>1, <2>2 DEF r
<1>4. OpStable /\ StoreStable
    BY <1>1, <1>2, <1>3 DEF OpStable, StoreStable, Settled, Cached
<1>5. TypeOK'
    BY <1>1, <1>3 DEF TypeOK
<1>6. \A i \in Id : StoreInv(i)'
    BY <1>1, <1>2, <1>3 DEF StoreInv
<1>7. \A b \in Attempt : AttemptInv(b)'
    BY <1>1, <1>4, OthersStand
<1>8. \A b \in Attempt : MintedInv(b)'
    <2> SUFFICES ASSUME NEW b \in Attempt, att[b].pc = "minted" PROVE MintedInv(b)'
        BY <1>1 DEF MintedInv
    <2>1. MintedInv(b) /\ att[b].reply.id \in Id
        BY <1>1 DEF MintedInv, OpReply
    <2> QED
        BY <1>1, <1>4, <2>1 DEF MintedInv, OpStable, Here
<1>9. \A i \in Id : AskedInv(i)'
    BY <1>1, <1>3, <1>4, AskedStands DEF IInv
<1> QED
    BY <1>5, <1>6, <1>7, <1>8, <1>9 DEF IInv

\* A restart forgets the store and drops every attempt that is under way.
LEMMA RestartStep ==
    ASSUME IInv, Restart
    PROVE  IInv'
<1>1. /\ TypeOK /\ UNCHANGED <<route, op>> /\ lost' = TRUE /\ store' = [id \in Id |-> None]
      /\ \A b \in Attempt : AttemptInv(b)
    BY DEF IInv, Restart
<1>2. \A a \in Attempt :
          /\ att'[a] \in AttemptRecord /\ att'[a].pc \in {"new", "done"} /\ Kept(a)
          /\ att'[a].at = att[a].at /\ att'[a].id = att[a].id /\ att'[a].outcome = att[a].outcome
          /\ att'[a].replay = att[a].replay
          /\ att'[a].answer = IF att[a].pc \in {"new", "done"} THEN att[a].answer ELSE "dropped"
          /\ att'[a].pc = "new" => att[a].pc = "new"
    <2> SUFFICES ASSUME NEW a \in Attempt
                 PROVE  /\ att'[a] \in AttemptRecord /\ att'[a].pc \in {"new", "done"} /\ Kept(a)
                        /\ att'[a].at = att[a].at /\ att'[a].id = att[a].id
                        /\ att'[a].outcome = att[a].outcome /\ att'[a].replay = att[a].replay
                        /\ att'[a].answer = IF att[a].pc \in {"new", "done"} THEN att[a].answer
                                            ELSE "dropped"
                        /\ att'[a].pc = "new" => att[a].pc = "new"
        OBVIOUS
    <2>1. att[a] \in AttemptRecord
        BY <1>1 DEF TypeOK
    <2>2. att'[a] = IF att[a].pc \in {"new", "done"} THEN att[a]
                    ELSE [att[a] EXCEPT !.pc = "done", !.answer = "dropped", !.reply = None]
        BY DEF Restart
    <2>3. CASE att[a].pc \in {"new", "done"}
        <3>1. att'[a] = att[a]
            BY <2>2, <2>3
        <3> QED
            BY <2>1, <2>3, <3>1 DEF Kept
    <2>4. CASE att[a].pc \notin {"new", "done"}
        <3>1. att'[a] = [att[a] EXCEPT !.pc = "done", !.answer = "dropped", !.reply = None]
            BY <2>2, <2>4
        <3>2. [att[a] EXCEPT !.pc = "done", !.answer = "dropped", !.reply = None] \in AttemptRecord
            BY <2>1 DEF AttemptRecord, Reply
        <3> QED
            BY <2>1, <2>4, <3>1, <3>2 DEF Kept, AttemptRecord
    <2> QED
        BY <2>3, <2>4
<1>3. TypeOK'
    <2>1. att' \in [Attempt -> AttemptRecord]
        BY <1>2 DEF Restart
    <2> QED
        BY <1>1, <1>2, <2>1 DEF TypeOK
<1>4. \A id \in Id : StoreInv(id)' /\ AskedInv(id)'
    <2>1. \A id \in Id : AskedInv(id)
        BY DEF IInv
    <2> QED
        BY <1>1, <2>1 DEF StoreInv, AskedInv
<1>5. \A a \in Attempt : MintedInv(a)'
    BY <1>2 DEF MintedInv
<1>6. \A a \in Attempt : PcInv(a)' /\ PassedInv(a)'
    BY <1>1, <1>2 DEF AttemptInv, PcInv, Checkable, PassedInv, Granted
<1>7. \A a \in Attempt : LookupInv(a)' /\ ReplayInv(a)'
    BY <1>1, <1>2 DEF AttemptInv, LookupInv, Looked, ReplayInv, Cause, Kept
<1> QED
    BY <1>3, <1>4, <1>5, <1>6, <1>7 DEF IInv, AttemptInv

-----------------------------------------------------------------------------
LEMMA Initially ==
    Init => IInv
<1> SUFFICES ASSUME Init PROVE IInv
    OBVIOUS
<1>1. \A a \in Attempt : /\ route[a] \in Seq(Step) /\ Len(route[a]) \in Nat
                          /\ DOMAIN route[a] = 1 .. Len(route[a])
    BY ElicitationAssumption DEF Init
<1>2. Fresh \in AttemptRecord
    <2>1. 1 \in Nat \ {0}
        OBVIOUS
    <2> QED
        BY <2>1 DEF Fresh, AttemptRecord
<1>3. /\ Fresh.pc = "new" /\ Fresh.answer = None /\ Fresh.at = 1 /\ Fresh.id = None
      /\ Fresh.outcome = None /\ Fresh.replay = FALSE
    BY DEF Fresh
<1>4. \A a \in Attempt : att[a] = Fresh
    BY DEF Init
<1>5. TypeOK
    <2>1. op \in [Id -> OpRecord]
        BY DEF Init, OpRecord, OpState
    <2>2. att \in [Attempt -> AttemptRecord]
        BY <1>2 DEF Init
    <2>3. \A a \in Attempt : att[a].at <= Len(route[a]) + 1
        BY <1>1, <1>3, <1>4
    <2>4. store \in [Id -> {None} \cup Correlation]
        BY DEF Init
    <2> QED
        BY <2>1, <2>2, <2>3, <2>4 DEF Init, TypeOK
<1>6. \A id \in Id : StoreInv(id) /\ AskedInv(id)
    BY DEF Init, StoreInv, AskedInv
<1>7. \A a \in Attempt : MintedInv(a) /\ PcInv(a)
    BY <1>3, <1>4 DEF MintedInv, PcInv
<1>8. \A a \in Attempt : PassedInv(a) /\ LookupInv(a) /\ ReplayInv(a)
    <2>1. \A a \in Attempt : \A i \in DOMAIN route[a] : ~(i < 1)
        BY <1>1
    <2> QED
        BY <1>3, <1>4, <2>1, ElicitationAssumption DEF PassedInv, LookupInv, Looked, ReplayInv, Reply
<1> QED
    BY <1>5, <1>6, <1>7, <1>8 DEF IInv, AttemptInv

LEMMA Inductive ==
    ASSUME IInv, [Next]_vars
    PROVE  IInv'
<1>1. ASSUME NEW a \in Attempt, Send(a) \/ Move(a) PROVE IInv'
    BY <1>1, SendStep, FinishStep, BeginStep, DispatchFailsStep, MintStep, DispatchedStep,
       CheckStep, OpAnswersStep, PolledStep, PollLostStep, ValidateStep DEF Move
<1>2. ASSUME NEW id \in Id, Approve(id) \/ Deny(id) \/ Expire(id) PROVE IInv'
    BY <1>2, ProviderStep
<1>3. CASE Restart
    BY <1>3, RestartStep
<1>4. CASE UNCHANGED vars
    BY <1>4 DEF vars, IInv, TypeOK, StoreInv, AskedInv, MintedInv, AttemptInv, PcInv, PassedInv, LookupInv, Looked,
                ReplayInv, Cause, Checkable, Settled, Granted, Cached, Here
<1> QED
    BY <1>1, <1>2, <1>3, <1>4 DEF Next

LEMMA Invariant ==
    Spec => []IInv
<1>1. IInv /\ [Next]_vars => IInv'
    BY Inductive
<1> QED
    BY <1>1, Initially, PTL DEF Spec

-----------------------------------------------------------------------------
\* Every attempt, approval and correlation keeps its shape, and no attempt runs
\* past the end of its route (dispatch_elicitation and the CIBA plugin's store).
THEOREM TypeCorrect ==
    Spec => []TypeOK
<1>1. IInv => TypeOK
    BY DEF IInv
<1> QED
    BY <1>1, Invariant, PTL

\* A call gets past a strict approval step only under an approval that the
\* provider granted and that names the human who was asked, who is the step's
\* own `from` or that of an earlier step wherever the same route asked, for any
\* number of attempts that share approvals, lose replies or see a restart
\* (do_validate, dispatch_elicitation).
THEOREM ApprovalRequired ==
    Spec => []ForwardedIsApproved
<1>1. IInv => ForwardedIsApproved
    <2> SUFFICES ASSUME IInv, NEW a \in Attempt, NEW i \in DOMAIN route[a],
                        att[a].answer = "forwarded", ~route[a][i].lenient
                 PROVE  /\ att[a].id # None /\ Granted(att[a].id)
                        /\ LET asking == route[op[att[a].id].by]
                           IN  \E j \in DOMAIN asking : /\ op[att[a].id].claim = asking[j].from
                                                        /\ asking = route[a] => j <= i
        BY DEF ForwardedIsApproved, Granted
    <2>1. TypeOK /\ PassedInv(a)
        BY DEF IInv, AttemptInv
    <2>2. att[a].at > Len(route[a]) /\ i \in 1 .. Len(route[a])
        BY <2>1, RecordType DEF PassedInv
    <2>3. i < att[a].at
        BY <2>1, <2>2, RecordType
    <2>4. att[a].id # None /\ Granted(att[a].id)
        BY <2>1, <2>3 DEF PassedInv
    <2>5. att[a].id \in Id /\ AskedInv(att[a].id)
        BY <2>1, <2>4, RecordType DEF IInv
    <2> DEFINE by == op[att[a].id].by
    <2>6. PICK j \in DOMAIN route[by] : /\ by \in Attempt /\ op[att[a].id].asked = route[by][j].from
                                        /\ \A k \in 1 .. j - 1 : route[by][k].lenient
        BY <2>4, <2>5 DEF AskedInv, Granted
    <2>7. j \in Nat /\ (route[by] = route[a] => ~(i \in 1 .. j - 1))
        BY <2>1, <2>6, RecordType
    <2>8. route[by] = route[a] => j <= i
        BY <2>2, <2>7
    <2> QED
        BY <2>4, <2>6, <2>8 DEF Granted
<1> QED
    BY <1>1, Invariant, PTL

\* Unless a reply was lost, no call goes out past a step that looks up an
\* approval a human has denied, however lenient it is (dispatch_elicitation on
\* Denied).
THEOREM DenialStands ==
    Spec => []NoMeansNo
<1>1. IInv => NoMeansNo
    BY ElicitationAssumption DEF IInv, AttemptInv, LookupInv, Looked, NoMeansNo, Checkable, Settled, Reply
<1> QED
    BY <1>1, Invariant, PTL

\* An approval that is held in the store lets every later attempt through the
\* step, but for the causes that the property names (do_check's cache).
THEOREM ApprovalReplayed ==
    Spec => []ReplayHonoured
<1>1. IInv => ReplayHonoured
    BY DEF IInv, AttemptInv, ReplayInv, Cause, ReplayHonoured
<1> QED
    BY <1>1, Invariant, PTL

-----------------------------------------------------------------------------
(* Credentials: the session store.                                         *)

\* An option is absent or holds one value.
LEMMA OptionCases ==
    ASSUME NEW T, NEW o \in AtMostOne(T)
    PROVE  o = <<>> \/ (o = <<o[1]>> /\ o[1] \in T /\ DOMAIN o = {1})
<1>1. o \in Seq(T) /\ Len(o) <= 1
    BY DEF AtMostOne
<1>2. CASE Len(o) = 0
    BY <1>1, <1>2
<1>3. CASE Len(o) # 0
    <2>1. Len(o) = 1
        <3>1. Len(o) \in Nat
            BY <1>1
        <3> QED
            BY <1>1, <1>3, <3>1
    <2>2. o[1] \in T /\ DOMAIN o = 1 .. 1
        BY <1>1, <2>1
    <2>3. o = <<o[1]>>
        BY <1>1, <2>1
    <2> QED
        BY <2>2, <2>3
<1> QED
    BY <1>2, <1>3

\* What validate and from_config answer for any configuration of the store.
LEMMA StoreCredentials ==
    ASSUME IsStoreCase(input), answer = <<[store |-> Store!FromConfig(input.config), error |-> Store!Validate(input.config)]>>
    PROVE  StoreHoldsCredentials
<1> DEFINE cfg == input.config
           e == cfg.endpoint
           hidden == Store!RedactEndpoint(e).userinfo
<1>1. answer[1].store = Store!FromConfig(cfg) /\ answer[1].error = Store!Validate(cfg)
    OBVIOUS
<1>2. /\ cfg.endpoint.scheme \in {"none", "redis", "rediss"}
      /\ e.userinfo = <<>> \/ e.userinfo = <<e.userinfo[1]>>
      /\ e.later = <<>> \/ (e.later = <<e.later[1]>> /\ DOMAIN e.later = {1})
      /\ cfg.username = <<>> \/ cfg.username = <<cfg.username[1]>>
      /\ cfg.password = <<>> \/ cfg.password = <<cfg.password[1]>>
      /\ cfg.ttl_seconds = <<>> \/ (cfg.ttl_seconds = <<cfg.ttl_seconds[1]>> /\ cfg.ttl_seconds[1] \in Nat)
      /\ cfg.tls \in BOOLEAN
    <2>1. /\ e.userinfo \in AtMostOne([user : STRING, pass : STRING]) /\ e.later \in AtMostOne(STRING)
          /\ cfg.username \in AtMostOne(STRING) /\ cfg.password \in AtMostOne(STRING)
          /\ cfg.ttl_seconds \in AtMostOne(Nat) /\ cfg.tls \in BOOLEAN
          /\ cfg.endpoint.scheme \in {"none", "redis", "rediss"}
        BY DEF IsStoreCase
    <2> HIDE DEF cfg, e
    <2>2. e.userinfo = <<>> \/ e.userinfo = <<e.userinfo[1]>>
        BY <2>1, OptionCases
    <2>3. cfg.username = <<>> \/ cfg.username = <<cfg.username[1]>>
        BY <2>1, OptionCases
    <2>4. cfg.password = <<>> \/ cfg.password = <<cfg.password[1]>>
        BY <2>1, OptionCases
    <2>5. cfg.ttl_seconds = <<>> \/ (cfg.ttl_seconds = <<cfg.ttl_seconds[1]>> /\ cfg.ttl_seconds[1] \in Nat)
        BY <2>1, OptionCases
    <2>6. e.later = <<>> \/ (e.later = <<e.later[1]>> /\ DOMAIN e.later = {1})
        BY <2>1, OptionCases
    <2> QED
        BY <2>1, <2>2, <2>3, <2>4, <2>5, <2>6
<1>3. MaxI64 \in Nat
    BY CredentialsAssumption
<1>4. hidden \in {<<>>, <<[user |-> "***", pass |-> "***"]>>}
    BY DEF Store!RedactEndpoint
<1> HIDE DEF cfg, e, hidden
<1>5. CASE Store!Validate(cfg) # <<>>
    <2>1. answer[1].store = <<>>
        BY <1>1, <1>5 DEF Store!FromConfig
    <2>2. answer[1].error[1].shows = Store!RedactEndpoint(e)
        BY <1>1, <1>5 DEF Store!Validate, e
    <2> QED
        BY <1>4, <2>1, <2>2 DEF StoreHoldsCredentials, hidden
<1>6. CASE Store!Validate(cfg) = <<>>
    <2> DEFINE url == Store!ConnectionUrl(cfg)[1]
               fields == cfg.username # <<>> \/ cfg.password # <<>>
    <2>1. /\ ~(cfg.tls /\ e.scheme = "redis")
          /\ Store!TlsEnabled(cfg) \/ Store!EndpointIsLocalhost(e)
          /\ ~(Store!IsUrl(e) /\ fields)
          /\ ~(cfg.username # <<>> /\ cfg.password = <<>>)
          /\ Store!ConnectionUrl(cfg) # <<>>
          /\ ~(cfg.ttl_seconds # <<>> /\ cfg.ttl_seconds[1] > MaxI64)
        BY <1>6 DEF Store!Validate, e
    <2>2. /\ answer[1].store = <<[url |-> url,
                 expire |-> IF cfg.ttl_seconds = <<>> THEN <<>> ELSE <<Store!TtlForExpire(cfg.ttl_seconds[1])>>]>>
        BY <1>1, <1>6 DEF Store!FromConfig
    <2>3. answer[1].store # <<>> /\ answer[1].store[1].url = url /\ answer[1].store[1].expire = cfg.ttl_seconds
        BY <1>2, <1>3, <2>1, <2>2 DEF Store!TtlForExpire
    <2>4. url.scheme = IF Store!IsUrl(e) THEN e.scheme ELSE IF Store!TlsEnabled(cfg) THEN "rediss" ELSE "redis"
        BY <2>1 DEF Store!ConnectionUrl, e
    <2>5. url.scheme = "redis" => ~cfg.tls /\ Store!HostText(e) \in Loopback
        BY <1>2, <2>1, <2>4 DEF Store!IsUrl, Store!TlsEnabled, Store!EndpointIsLocalhost, Loopback, e
    <2>8. url.host = e.host
        BY <2>1 DEF Store!ConnectionUrl, e
    <2>9. url.scheme = "redis" => /\ ~cfg.tls
                                  /\ e.later = <<>> => url.host \in Loopback
                                  /\ \A i \in DOMAIN e.later : e.later[i] \in Loopback
        BY <1>2, <2>5, <2>8 DEF Store!HostText
    <2>6. (cfg.tls \/ e.scheme = "rediss") => url.scheme = "rediss"
        BY <1>2, <2>1, <2>4 DEF Store!IsUrl, Store!TlsEnabled, e
    <2>7. url.credentials =
             IF ~fields THEN IF e.userinfo = <<>> THEN <<>>
                             ELSE <<[user |-> e.userinfo[1].user, pass |-> <<e.userinfo[1].pass>>]>>
             ELSE <<[user |-> IF cfg.username = <<>> THEN "" ELSE cfg.username[1], pass |-> cfg.password]>>
        BY <2>1 DEF Store!ConnectionUrl, e
    <2> HIDE DEF url
    <2> QED
        BY <2>3, <2>6, <2>7, <2>9 DEF StoreHoldsCredentials, cfg, e
<1> QED
    BY <1>5, <1>6

-----------------------------------------------------------------------------
(* Credentials: the keys of an issuer.                                     *)

\* A set of numbers has a least one.
LEMMA LeastNat ==
    ASSUME NEW S \in SUBSET Nat, S # {}
    PROVE  \E x \in S : \A y \in S : x <= y
<1>1. PICK x \in S : \A y \in S : ~(<<y, x>> \in OpToRel(<, Nat))
    BY NatLessThanWellFounded, WFMin, Zenon
<1>2. \A y \in S : ~(y < x)
    BY <1>1, Zenon DEF OpToRel
<1> QED
    BY <1>2

\* Positions of a sequence have a last one.
LEMMA LastPosition ==
    ASSUME NEW n \in Nat, NEW U \in SUBSET (1 .. n), U # {}
    PROVE  \E i \in U : \A j \in U : j <= i
<1> DEFINE D == {n - i : i \in U}
<1>1. D \in SUBSET Nat /\ D # {}
    <2>1. ASSUME NEW i \in U PROVE n - i \in Nat
        <3>1. i \in 1 .. n
            OBVIOUS
        <3> QED
            BY <3>1
    <2> QED
        BY <2>1
<1>2. PICK d \in D : \A y \in D : d <= y
    <2> HIDE DEF D
    <2> QED
        BY <1>1, LeastNat
<1>3. PICK i \in U : d = n - i
    OBVIOUS
<1>4. ASSUME NEW j \in U PROVE j <= i
    <2>1. n - j \in D
        OBVIOUS
    <2>2. n - i <= n - j
        BY <1>2, <1>3, <2>1
    <2> QED
        BY <2>2
<1> QED
    BY <1>4

\* Fetching: an endpoint that may not be asked, does not answer or publishes
\* no usable key leaves the store alone; any other gives one that holds what
\* was published.
LEMMA FetchedStore ==
    ASSUME NEW source, source.kind = "jwks_url", NEW reply \in KeyReplies
    PROVE  LET got == J!BuildSourceAsync(source, reply)
           IN IF got = <<>> THEN (source.scheme = "http" /\ ~source.insecure_http) \/ Fetched(reply) = {}
              ELSE /\ ~(source.scheme = "http" /\ ~source.insecure_http) /\ Fetched(reply) # {}
                   /\ Held(got[1]) = Fetched(reply)
<1> DEFINE keys == reply[1]
           U == J!UsableKeys(keys)
           last(k) == CHOOSE i \in U : keys[i].kid = k /\ \A j \in U : keys[j].kid = k => j <= i
           kept == J!FromJwksEntries(keys, U)
<1>1. reply = <<>> \/ (reply = <<keys>> /\ keys \in Seq(KeyEntry))
    <2>1. reply \in AtMostOne(Seq(KeyEntry))
        BY CredentialsAssumption
    <2> QED
        BY <2>1, OptionCases
<1>2. CASE reply = <<>>
    BY <1>2 DEF J!BuildSourceAsync, Fetched
<1>3. CASE reply # <<>>
    <2>1. keys \in Seq(KeyEntry) /\ Len(keys) \in Nat /\ DOMAIN keys = 1 .. Len(keys)
        BY <1>1, <1>3
    <2>2. U \in SUBSET (1 .. Len(keys)) /\ U \in SUBSET Nat
        <3>1. U \in SUBSET (DOMAIN keys)
            BY DEF J!UsableKeys
        <3>2. 1 .. Len(keys) \in SUBSET Nat
            BY <2>1
        <3> HIDE DEF U, keys
        <3> QED
            BY <2>1, <3>1, <3>2
    <2>3. Fetched(reply) = {[kid |-> keys[i].kid, key |-> keys[i].key] :
                              i \in {i \in U : \A j \in U : j > i => keys[j].kid # keys[i].kid}}
        BY <1>3 DEF Fetched, J!UsableKeys
    <2> HIDE DEF U, keys
    <2>4. ASSUME NEW k \in {keys[i].kid : i \in U}
          PROVE  last(k) \in U /\ keys[last(k)].kid = k /\ \A j \in U : keys[j].kid = k => j <= last(k)
        <3> DEFINE N == {i \in U : keys[i].kid = k}
        <3>1. N \in SUBSET (1 .. Len(keys)) /\ N # {}
            BY <2>2
        <3>2. PICK i \in N : \A j \in N : j <= i
            <4> HIDE DEF N
            <4> QED
                BY <2>1, <3>1, LastPosition
        <3>3. i \in U /\ keys[i].kid = k /\ \A j \in U : keys[j].kid = k => j <= i
            BY <3>2
        <3> QED
            BY <3>3, Zenon
    <2>5. /\ DOMAIN kept.by_kid = {keys[i].kid : i \in U} /\ kept.fallback = J!NoKey
          /\ \A k \in {keys[i].kid : i \in U} : kept.by_kid[k] = keys[last(k)].key
        BY DEF J!FromJwksEntries, J!EmptyStore
    <2> HIDE DEF kept, last
    <2>6. Held(kept) = {[kid |-> k, key |-> keys[last(k)].key] : k \in {keys[i].kid : i \in U}}
        BY <2>5 DEF Held
    <2>7. ASSUME NEW i \in U, \A j \in U : j > i => keys[j].kid # keys[i].kid
          PROVE  last(keys[i].kid) = i
        <3>1. /\ last(keys[i].kid) \in U /\ keys[last(keys[i].kid)].kid = keys[i].kid
              /\ i <= last(keys[i].kid)
            BY <2>4
        <3>2. PICK m \in U : m = last(keys[i].kid)
            BY <3>1
        <3>3. keys[m].kid = keys[i].kid /\ i <= m /\ ~(m > i)
            BY <2>7, <3>1, <3>2
        <3>4. m \in Nat /\ i \in Nat
            BY <2>2
        <3>5. m = i
            BY <3>3, <3>4
        <3> QED
            BY <3>2, <3>5
    <2>8. ASSUME NEW k \in {keys[i].kid : i \in U}
          PROVE  \A j \in U : j > last(k) => keys[j].kid # keys[last(k)].kid
        <3>1. PICK m \in U : m = last(k)
            BY <2>4
        <3>2. keys[m].kid = k /\ \A j \in U : keys[j].kid = k => j <= m
            BY <2>4, <3>1
        <3>3. ASSUME NEW j \in U, j > m PROVE keys[j].kid # keys[m].kid
            <4>1. j \in Nat /\ m \in Nat
                BY <2>2
            <4>2. ~(j <= m)
                BY <3>3, <4>1
            <4> QED
                BY <3>2, <4>2
        <3> QED
            BY <3>1, <3>3
    <2>9. Held(kept) = Fetched(reply)
        <3>1. ASSUME NEW x \in Held(kept) PROVE x \in Fetched(reply)
            <4>1. PICK k \in {keys[i].kid : i \in U} : x = [kid |-> k, key |-> keys[last(k)].key]
                BY <2>6
            <4>2. last(k) \in U /\ keys[last(k)].kid = k
                BY <2>4
            <4>3. x = [kid |-> keys[last(k)].kid, key |-> keys[last(k)].key]
                BY <4>1, <4>2
            <4>4. last(k) \in {i \in U : \A j \in U : j > i => keys[j].kid # keys[i].kid}
                BY <2>8, <4>2
            <4> QED
                BY <2>3, <4>3, <4>4
        <3>2. ASSUME NEW x \in Fetched(reply) PROVE x \in Held(kept)
            <4>1. PICK i \in U : /\ \A j \in U : j > i => keys[j].kid # keys[i].kid
                                 /\ x = [kid |-> keys[i].kid, key |-> keys[i].key]
                BY <2>3
            <4>2. last(keys[i].kid) = i /\ keys[i].kid \in {keys[m].kid : m \in U}
                BY <2>7, <4>1
            <4> QED
                BY <2>6, <4>1, <4>2
        <3> QED
            BY <3>1, <3>2
    <2>10. U # {} <=> Fetched(reply) # {}
        <3>1. ASSUME U # {} PROVE Fetched(reply) # {}
            <4>1. PICK i \in U : TRUE
                BY <3>1
            <4>2. [kid |-> keys[i].kid, key |-> keys[last(keys[i].kid)].key] \in Held(kept)
                BY <2>6
            <4> QED
                BY <2>9, <4>2
        <3>2. ASSUME U = {} PROVE Fetched(reply) = {}
            BY <2>3, <3>2
        <3> QED
            BY <3>1, <3>2
    <2> DEFINE open == ~(source.scheme = "http" /\ ~source.insecure_http)
    <2>11. J!BuildSourceAsync(source, reply) = IF ~open \/ U = {} THEN <<>> ELSE <<kept>>
        BY <1>3 DEF J!BuildSourceAsync, J!RequireHttps, U, keys, kept
    <2> QED
        BY <2>9, <2>10, <2>11
<1> QED
    BY <1>2, <1>3

\* FlattenSeq, unfolded: each list appended to the ones before it.
LEMMA FlattenUnfolds ==
    ASSUME NEW V, NEW S \in Seq(Seq(V)), S # <<>>
    PROVE  \E f : /\ f \in [1 .. Len(S) -> Seq(V)]
                  /\ f[1] = S[1]
                  /\ \A i \in 2 .. Len(S) : f[i] = f[i - 1] \o S[i]
                  /\ J!FlattenSeq(S) = f[Len(S)]
<1> DEFINE n == Len(S)
           Body(m, f) == [i \in 1 .. m |-> IF i = 1 THEN S[i] ELSE f[i - 1] \o S[i]]
           Solved(m) == \E f \in [1 .. m -> Seq(V)] : f = Body(m, f)
<1>1. n \in Nat /\ n >= 1 /\ \A i \in 1 .. n : S[i] \in Seq(V)
    OBVIOUS
<1>2. Solved(1)
    <2> DEFINE f == [i \in 1 .. 1 |-> S[1]]
    <2>1. f \in [1 .. 1 -> Seq(V)]
        BY <1>1
    <2>2. f = Body(1, f)
        OBVIOUS
    <2> QED
        BY <2>1, <2>2
<1>3. ASSUME NEW m \in 1 .. n, m + 1 \in 1 .. n, Solved(m) PROVE Solved(m + 1)
    <2>1. PICK f \in [1 .. m -> Seq(V)] : f = Body(m, f)
        BY <1>3
    <2> DEFINE g == [i \in 1 .. m + 1 |-> IF i = m + 1 THEN f[m] \o S[m + 1] ELSE f[i]]
    <2>2. f[m] \in Seq(V) /\ S[m + 1] \in Seq(V)
        BY <1>1, <1>3, <2>1
    <2>3. f[m] \o S[m + 1] \in Seq(V)
        BY <2>2
    <2>4. g \in [1 .. m + 1 -> Seq(V)]
        <3>1. ASSUME NEW i \in 1 .. m + 1, i # m + 1 PROVE f[i] \in Seq(V)
            <4>1. i \in 1 .. m
                BY <1>3, <3>1
            <4> QED
                BY <2>1, <4>1
        <3> QED
            BY <2>3, <3>1
    <2>5. ASSUME NEW i \in 1 .. m + 1 PROVE g[i] = IF i = 1 THEN S[i] ELSE g[i - 1] \o S[i]
        <3>1. CASE i = m + 1
            <4>1. i # 1 /\ i - 1 = m /\ g[m] = f[m]
                BY <3>1
            <4> QED
                BY <3>1, <4>1
        <3>2. CASE i # m + 1
            <4>1. i \in 1 .. m /\ g[i] = f[i]
                BY <3>2
            <4>2. f[i] = IF i = 1 THEN S[i] ELSE f[i - 1] \o S[i]
                BY <2>1, <4>1
            <4>3. i # 1 => g[i - 1] = f[i - 1]
                BY <4>1
            <4> QED
                BY <4>1, <4>2, <4>3
        <3> QED
            BY <3>1, <3>2
    <2>6. g = Body(m + 1, g)
        BY <2>4, <2>5
    <2> QED
        BY <2>4, <2>6
<1>4. Solved(n)
    <2> HIDE DEF Solved
    <2> DEFINE Bad == {m \in 1 .. n : ~Solved(m)}
    <2>1. SUFFICES ASSUME Bad # {} PROVE FALSE
        BY <1>1
    <2>2. PICK m \in Bad : \A k \in Bad : m <= k
        <3>1. Bad \in SUBSET Nat
            BY <1>1
        <3> HIDE DEF Bad
        <3> QED
            BY <2>1, <3>1, LeastNat
    <2>3. m # 1
        BY <1>2, <2>2
    <2>4. m - 1 \in 1 .. n /\ (m - 1) + 1 = m /\ m - 1 \notin Bad
        BY <1>1, <2>2, <2>3
    <2> QED
        BY <1>3, <2>2, <2>4
<1>5. PICK g \in [1 .. n -> Seq(V)] : g = Body(n, g)
    BY <1>4
<1> DEFINE h == CHOOSE f : f = Body(n, f)
<1>6. J!FlattenSeq(S) = h[n]
    <2>1. Len(S) # 0
        BY <1>1
    <2> QED
        BY <2>1 DEF J!FlattenSeq
<1>7. h = Body(n, h)
    <2> HIDE DEF Body
    <2> QED
        BY <1>5, Zenon
<1> HIDE DEF h
<1>8. h[1] = S[1] /\ \A i \in 2 .. n : h[i] = h[i - 1] \o S[i]
    <2>1. ASSUME NEW i \in 1 .. n PROVE h[i] = IF i = 1 THEN S[i] ELSE h[i - 1] \o S[i]
        BY <1>7
    <2>2. 1 \in 1 .. n /\ \A i \in 2 .. n : i \in 1 .. n /\ i # 1
        BY <1>1
    <2> QED
        BY <2>1, <2>2
<1>9. \A i \in 1 .. n : h[i] \in Seq(V)
    <2> DEFINE Bad == {m \in 1 .. n : h[m] \notin Seq(V)}
    <2>1. SUFFICES ASSUME Bad # {} PROVE FALSE
        OBVIOUS
    <2>2. PICK m \in Bad : \A k \in Bad : m <= k
        <3>1. Bad \in SUBSET Nat
            BY <1>1
        <3> HIDE DEF Bad
        <3> QED
            BY <2>1, <3>1, LeastNat
    <2>3. m # 1
        BY <1>1, <1>8, <2>2
    <2>4. m - 1 \in 1 .. n /\ m \in 2 .. n /\ m - 1 \notin Bad
        BY <1>1, <2>2, <2>3
    <2>5. h[m - 1] \in Seq(V) /\ S[m] \in Seq(V) /\ h[m] = h[m - 1] \o S[m]
        BY <1>1, <1>8, <2>4
    <2>6. h[m] \in Seq(V)
        BY <2>5
    <2> QED
        BY <2>2, <2>6
<1>10. h \in [1 .. n -> Seq(V)]
    <2>1. h = [i \in 1 .. n |-> h[i]]
        BY <1>7
    <2> QED
        BY <1>9, <2>1
<1> QED
    BY <1>6, <1>8, <1>10

(* A sequence, whatever it holds. *)
Sequence(s) == s \in Seq({s[i] : i \in DOMAIN s})

\* Every sequence is a sequence of its elements.
LEMMA SequenceOf ==
    ASSUME NEW T, NEW s \in Seq(T)
    PROVE  Sequence(s) /\ Len(s) \in Nat /\ DOMAIN s = 1 .. Len(s)
<1>1. Len(s) \in Nat /\ DOMAIN s = 1 .. Len(s) /\ s \in [1 .. Len(s) -> T]
    OBVIOUS
<1>2. s \in [1 .. Len(s) -> {s[i] : i \in DOMAIN s}]
    BY <1>1
<1> DEFINE R == {s[i] : i \in DOMAIN s}
<1> HIDE DEF R
<1>3. s \in Seq(R)
    BY <1>1, <1>2 DEF R
<1> QED
    BY <1>1, <1>3 DEF Sequence, R

\* A function on the first n numbers is a sequence.
LEMMA SequenceFrom ==
    ASSUME NEW n \in Nat, NEW f, f = [i \in 1 .. n |-> f[i]]
    PROVE  Sequence(f) /\ Len(f) = n /\ DOMAIN f = 1 .. n
<1> DEFINE R == {f[i] : i \in DOMAIN f}
<1>1. DOMAIN f = 1 .. n
    OBVIOUS
<1>2. f \in [1 .. n -> R]
    BY <1>1
<1> HIDE DEF R
<1>3. f \in Seq(R) /\ Len(f) = n
    BY <1>2
<1> QED
    BY <1>1, <1>3 DEF Sequence, R

\* Two sequences joined: the positions of the first, then those of the second.
LEMMA SequenceJoined ==
    ASSUME NEW s, NEW t, Sequence(s), Sequence(t)
    PROVE  /\ Len(s) \in Nat /\ Len(t) \in Nat /\ DOMAIN s = 1 .. Len(s) /\ DOMAIN t = 1 .. Len(t)
           /\ Sequence(s \o t) /\ Len(s \o t) = Len(s) + Len(t) /\ DOMAIN (s \o t) = 1 .. Len(s) + Len(t)
           /\ \A i \in 1 .. Len(s) : (s \o t)[i] = s[i]
           /\ \A i \in 1 .. Len(t) : (s \o t)[Len(s) + i] = t[i]
<1> DEFINE A == {s[i] : i \in DOMAIN s}
           B == {t[i] : i \in DOMAIN t}
<1>1. s \in Seq(A) /\ t \in Seq(B)
    BY DEF Sequence
<1> HIDE DEF A, B
<1>2. s \in Seq(A \cup B) /\ t \in Seq(A \cup B)
    BY <1>1
<1>3. /\ Len(s) \in Nat /\ Len(t) \in Nat /\ DOMAIN s = 1 .. Len(s) /\ DOMAIN t = 1 .. Len(t)
      /\ s \o t \in Seq(A \cup B) /\ Len(s \o t) = Len(s) + Len(t)
    BY <1>2
<1>4. Sequence(s \o t) /\ DOMAIN (s \o t) = 1 .. Len(s) + Len(t)
    BY <1>3, SequenceOf
<1>5. \A i \in 1 .. Len(s) : (s \o t)[i] = s[i]
    BY <1>2, <1>3
<1>6. \A i \in 1 .. Len(t) : (s \o t)[Len(s) + i] = t[i]
    BY <1>2, <1>3
<1> QED
    BY <1>3, <1>4, <1>5, <1>6

\* The issuers of one sort are issuers of the configuration of that sort.
LEMMA IssuersOfSort ==
    ASSUME NEW issuers, Sequence(issuers), NEW fetched \in BOOLEAN
    PROVE  LET some == J!Issuers(issuers, fetched)
           IN /\ Sequence(some) /\ Len(some) \in Nat /\ DOMAIN some = 1 .. Len(some)
              /\ \A i \in DOMAIN some : /\ (some[i].source.kind = "jwks_url") = fetched
                                        /\ \E c \in DOMAIN issuers : some[i] = issuers[c]
<1> DEFINE V == {issuers[c] : c \in {c \in DOMAIN issuers : (issuers[c].source.kind = "jwks_url") = fetched}}
           S == [i \in DOMAIN issuers |->
                    IF (issuers[i].source.kind = "jwks_url") = fetched THEN <<issuers[i]>> ELSE <<>>]
           some == J!Issuers(issuers, fetched)
<1>1. Len(issuers) \in Nat /\ DOMAIN issuers = 1 .. Len(issuers)
    BY DEF Sequence
<1>2. some = J!FlattenSeq(S)
    BY DEF J!Issuers
<1>3. S \in Seq(Seq(V))
    <2>1. ASSUME NEW i \in DOMAIN issuers PROVE S[i] \in Seq(V)
        <3>1. CASE (issuers[i].source.kind = "jwks_url") = fetched
            <4>1. issuers[i] \in V
                BY <3>1
            <4> HIDE DEF V
            <4>2. <<issuers[i]>> \in Seq(V)
                BY <4>1
            <4> QED
                BY <3>1, <4>2
        <3>2. CASE (issuers[i].source.kind = "jwks_url") # fetched
            <4>1. S[i] = <<>>
                BY <3>2
            <4> HIDE DEF S, V
            <4> QED
                BY <4>1
        <3> QED
            BY <3>1, <3>2
    <2>2. S \in [1 .. Len(issuers) -> Seq(V)]
        <3> HIDE DEF V
        <3> QED
            BY <1>1, <2>1
    <2> HIDE DEF S, V
    <2> QED
        BY <1>1, <2>2
<1> HIDE DEF S, V
<1>4. J!FlattenSeq(S) \in Seq(V)
    <2>1. CASE S = <<>>
        <3>1. J!FlattenSeq(S) = <<>>
            BY <2>1 DEF J!FlattenSeq
        <3> QED
            BY <3>1
    <2>2. CASE S # <<>>
        <3>1. PICK f : /\ f \in [1 .. Len(S) -> Seq(V)]
                       /\ f[1] = S[1]
                       /\ \A i \in 2 .. Len(S) : f[i] = f[i - 1] \o S[i]
                       /\ J!FlattenSeq(S) = f[Len(S)]
            BY <1>3, <2>2, FlattenUnfolds
        <3>2. Len(S) \in 1 .. Len(S)
            <4>1. Len(S) \in Nat /\ Len(S) # 0
                BY <1>3, <2>2
            <4> QED
                BY <4>1
        <3> QED
            BY <3>1, <3>2
    <2> QED
        BY <2>1, <2>2
<1>5. some \in Seq(V)
    BY <1>2, <1>4
<1> HIDE DEF some
<1>6. Sequence(some) /\ Len(some) \in Nat /\ DOMAIN some = 1 .. Len(some)
    BY <1>5, SequenceOf
<1>7. \A i \in DOMAIN some : some[i] \in V
    BY <1>5, <1>6
<1> QED
    BY <1>6, <1>7 DEF V, some

-----------------------------------------------------------------------------
(* Credentials: the resolver.                                              *)

(* issuer i is trusted as configured and holds what it published. *)
Trusted(issuer, p, config) ==
    /\ p = [by |-> p.by, keys |-> p.keys]
    /\ issuer = J!TrustedIssuer(p.by, issuer.keys) /\ Held(issuer.keys) = p.keys
    /\ \E c \in DOMAIN config.trusted_issuers : p.by = config.trusted_issuers[c]

(* The inductive invariant of a resolver: its issuers and what they        *)
(* published are in step, a refresh task polls the endpoint of the issuer  *)
(* it writes to, and what is still to be fetched is of the configuration.  *)
ResolverInv(r, published, config) ==
    /\ r = [trusted_issuers |-> r.trusted_issuers, pending_jwks |-> r.pending_jwks,
            role |-> config.role, header |-> config.header, tasks |-> r.tasks]
    /\ Sequence(r.trusted_issuers) /\ Sequence(published) /\ Len(published) = Len(r.trusted_issuers)
    /\ \A i \in 1 .. Len(published) : Trusted(r.trusted_issuers[i], published[i], config)
    /\ Sequence(r.pending_jwks)
    /\ \A i \in DOMAIN r.pending_jwks :
          /\ r.pending_jwks[i].source.kind = "jwks_url"
          /\ \E c \in DOMAIN config.trusted_issuers : r.pending_jwks[i] = config.trusted_issuers[c]
    /\ \A task \in r.tasks : /\ task.at \in 1 .. Len(published) /\ task.source.kind = "jwks_url"
                             /\ task.source = published[task.at].by.source
    /\ config.role \in J!Roles

\* A resolver that is built holds the keys of its inline issuers.
LEMMA ResolverBuilt ==
    ASSUME NEW case, IsIdentityCase(case), NEW r, J!NewResolver(case.config) = <<r>>
    PROVE  LET inline == J!Issuers(case.config.trusted_issuers, FALSE)
           IN ResolverInv(r, [i \in DOMAIN inline |->
                  [by |-> inline[i], keys |-> {[kid |-> "", key |-> inline[i].source.key]}]], case.config)
<1> DEFINE config == case.config
           issuers == config.trusted_issuers
           inline == J!Issuers(issuers, FALSE)
           pending == J!Issuers(issuers, TRUE)
           published == [i \in DOMAIN inline |-> [by |-> inline[i], keys |-> {[kid |-> "", key |-> inline[i].source.key]}]]
           trusted == [i \in DOMAIN inline |-> J!TrustedIssuer(inline[i], J!BuildSource(inline[i].source)[1])]
<1>1. /\ Sequence(issuers) /\ \A i \in DOMAIN issuers : IsTrustedIssuer(issuers[i])
      /\ config.role \in J!Roles \cup {"custom"}
    BY DEF IsIdentityCase, Sequence
<1> HIDE DEF config, issuers
<1>2. /\ Sequence(inline) /\ Len(inline) \in Nat /\ DOMAIN inline = 1 .. Len(inline)
      /\ \A i \in DOMAIN inline : /\ (inline[i].source.kind = "jwks_url") = FALSE
                                  /\ \E c \in DOMAIN issuers : inline[i] = issuers[c]
    BY <1>1, IssuersOfSort
<1>3. /\ Sequence(pending)
      /\ \A i \in DOMAIN pending : /\ (pending[i].source.kind = "jwks_url") = TRUE
                                   /\ \E c \in DOMAIN issuers : pending[i] = issuers[c]
    BY <1>1, IssuersOfSort
<1>4. J!NewResolver(config) = <<r>>
    BY DEF config
<1> HIDE DEF inline, pending
<1>5. /\ config.role # "custom" /\ \A i \in DOMAIN inline : J!BuildSource(inline[i].source) # <<>>
      /\ r = [trusted_issuers |-> trusted, pending_jwks |-> pending,
              role |-> config.role, header |-> config.header, tasks |-> {}]
    BY <1>4 DEF J!NewResolver, inline, pending, issuers
<1>6. Sequence(trusted) /\ Len(trusted) = Len(inline)
    BY <1>2, SequenceFrom
<1>7. Sequence(published) /\ Len(published) = Len(inline)
    BY <1>2, SequenceFrom
<1>8. ASSUME NEW i \in 1 .. Len(inline) PROVE Trusted(trusted[i], published[i], config)
    <2> DEFINE key == inline[i].source.key
               keys == J!BuildSource(inline[i].source)[1]
    <2>1. i \in DOMAIN inline /\ inline[i].source.kind # "jwks_url" /\ \E c \in DOMAIN issuers : inline[i] = issuers[c]
        BY <1>2
    <2>2. key # J!NoKey
        BY <1>1, <2>1 DEF IsTrustedIssuer
    <2>3. keys = J!SingleFallback(key)
        BY <1>5, <2>1 DEF J!BuildSource
    <2>4. keys.by_kid = [k \in {} |-> J!NoKey] /\ keys.fallback = key
        BY <2>3 DEF J!SingleFallback, J!EmptyStore
    <2> HIDE DEF keys
    <2>5. Held(keys) = {[kid |-> "", key |-> key]}
        BY <2>2, <2>4 DEF Held
    <2>6. trusted[i] = J!TrustedIssuer(inline[i], keys) /\ published[i] = [by |-> inline[i], keys |-> {[kid |-> "", key |-> key]}]
        BY <2>1 DEF keys
    <2> HIDE DEF key, trusted, published
    <2>7. trusted[i].keys = keys
        <3>1. J!TrustedIssuer(inline[i], keys).keys = keys
            BY DEF J!TrustedIssuer
        <3> QED
            BY <2>6, <3>1
    <2>8. published[i].by = inline[i] /\ published[i].keys = {[kid |-> "", key |-> key]}
        <3>1. PICK x, k : x = inline[i] /\ k = {[kid |-> "", key |-> key]}
            OBVIOUS
        <3>2. PICK p : p = published[i]
            OBVIOUS
        <3>3. p = [by |-> x, keys |-> k]
            BY <2>6, <3>1, <3>2
        <3>4. p.by = x /\ p.keys = k
            BY <3>3
        <3> QED
            BY <3>1, <3>2, <3>4
    <2>9. trusted[i] = J!TrustedIssuer(published[i].by, trusted[i].keys)
        BY <2>6, <2>7, <2>8
    <2>10. published[i] = [by |-> published[i].by, keys |-> published[i].keys]
        BY <2>6, <2>8
    <2> QED
        BY <2>1, <2>5, <2>7, <2>8, <2>9, <2>10 DEF Trusted, issuers
<1> HIDE DEF trusted, published
<1>9. config.role \in J!Roles
    BY <1>1, <1>5
<1>10. ResolverInv(r, published, config)
    BY <1>3, <1>5, <1>6, <1>7, <1>8, <1>9 DEF ResolverInv, issuers
<1> QED
    BY <1>10 DEF published, config, inline, issuers

\* initialize: the issuers fetched come after the others, and their tasks
\* know where.
LEMMA ResolverInitialized ==
    ASSUME NEW r, NEW published, NEW config, ResolverInv(r, published, config),
           NEW replies \in [DOMAIN r.pending_jwks -> KeyReplies]
    PROVE  ResolverInv(J!Initialize(r, replies),
                       published \o [i \in DOMAIN r.pending_jwks |->
                           [by |-> r.pending_jwks[i],
                            keys |-> Learnt(r.pending_jwks[i].source, {}, replies[i])]], config)
<1> DEFINE pending == r.pending_jwks
           base == Len(r.trusted_issuers)
           built == [i \in DOMAIN pending |->
                        LET got == J!BuildSourceAsync(pending[i].source, replies[i])
                        IN J!TrustedIssuer(pending[i], IF got = <<>> THEN J!EmptyStore ELSE got[1])]
           learnt == [i \in DOMAIN pending |-> [by |-> pending[i], keys |-> Learnt(pending[i].source, {}, replies[i])]]
           tasks == {[at |-> base + i, source |-> pending[i].source] : i \in DOMAIN pending}
           next == J!Initialize(r, replies)
<1>1. /\ r = [trusted_issuers |-> r.trusted_issuers, pending_jwks |-> pending,
              role |-> config.role, header |-> config.header, tasks |-> r.tasks]
      /\ Sequence(r.trusted_issuers) /\ Sequence(published) /\ Len(published) = base
      /\ \A i \in 1 .. base : Trusted(r.trusted_issuers[i], published[i], config)
      /\ Sequence(pending)
      /\ \A i \in DOMAIN pending :
            /\ pending[i].source.kind = "jwks_url"
            /\ \E c \in DOMAIN config.trusted_issuers : pending[i] = config.trusted_issuers[c]
      /\ \A task \in r.tasks : /\ task.at \in 1 .. base /\ task.source.kind = "jwks_url"
                               /\ task.source = published[task.at].by.source
      /\ config.role \in J!Roles
    BY DEF ResolverInv
<1>2. next = [trusted_issuers |-> r.trusted_issuers \o built, pending_jwks |-> pending,
              role |-> config.role, header |-> config.header, tasks |-> r.tasks \cup tasks]
    <2>1. next = [r EXCEPT !.trusted_issuers = r.trusted_issuers \o built, !.tasks = r.tasks \cup tasks]
        BY Zenon DEF J!Initialize
    <2> HIDE DEF next, built, tasks, pending
    <2>2. PICK a, b, c, d, e : r = [trusted_issuers |-> a, pending_jwks |-> b, role |-> c, header |-> d, tasks |-> e]
        BY <1>1
    <2>3. /\ a = r.trusted_issuers /\ b = pending /\ c = config.role /\ d = config.header /\ e = r.tasks
        BY <1>1, <2>2
    <2>4. PICK f, g : f = r.trusted_issuers \o built /\ g = r.tasks \cup tasks
        OBVIOUS
    <2>5. next = [trusted_issuers |-> f, pending_jwks |-> b, role |-> c, header |-> d, tasks |-> g]
        BY <2>1, <2>2, <2>4
    <2> QED
        BY <2>3, <2>4, <2>5
<1>3. /\ Len(pending) \in Nat /\ DOMAIN pending = 1 .. Len(pending)
    BY <1>1 DEF Sequence
<1>4. Sequence(built) /\ Len(built) = Len(pending) /\ DOMAIN built = 1 .. Len(pending)
    BY <1>3, SequenceFrom
<1>5. Sequence(learnt) /\ Len(learnt) = Len(pending) /\ DOMAIN learnt = 1 .. Len(pending)
    BY <1>3, SequenceFrom
<1>6. ASSUME NEW i \in DOMAIN pending PROVE Trusted(built[i], learnt[i], config)
    <2> DEFINE source == pending[i].source
               got == J!BuildSourceAsync(source, replies[i])
               keys == IF got = <<>> THEN J!EmptyStore ELSE got[1]
    <2>1. /\ source.kind = "jwks_url" /\ replies[i] \in KeyReplies
          /\ \E c \in DOMAIN config.trusted_issuers : pending[i] = config.trusted_issuers[c]
        BY <1>1
    <2>2. built[i] = J!TrustedIssuer(pending[i], keys) /\ learnt[i] = [by |-> pending[i], keys |-> Learnt(source, {}, replies[i])]
        OBVIOUS
    <2>3. IF got = <<>> THEN (source.scheme = "http" /\ ~source.insecure_http) \/ Fetched(replies[i]) = {}
          ELSE /\ ~(source.scheme = "http" /\ ~source.insecure_http) /\ Fetched(replies[i]) # {}
               /\ Held(got[1]) = Fetched(replies[i])
        BY <2>1, FetchedStore
    <2>4. Held(J!EmptyStore) = {}
        BY DEF Held, J!EmptyStore
    <2> HIDE DEF got, source, built, learnt
    <2>5. Held(keys) = Learnt(source, {}, replies[i])
        BY <2>3, <2>4 DEF Learnt
    <2> HIDE DEF keys
    <2>6. built[i].keys = keys
        BY <2>2 DEF J!TrustedIssuer
    <2> QED
        BY <2>1, <2>2, <2>5, <2>6 DEF Trusted
<1>7. ASSUME NEW i \in DOMAIN pending PROVE learnt[i].by.source = pending[i].source
    OBVIOUS
<1> HIDE DEF built, learnt, pending, next
<1> DEFINE t == r.trusted_issuers \o built
           p == published \o learnt
<1>8. /\ Len(r.trusted_issuers) \in Nat /\ Sequence(t) /\ Len(t) = base + Len(pending)
      /\ \A i \in 1 .. base : t[i] = r.trusted_issuers[i]
      /\ \A i \in 1 .. Len(pending) : t[base + i] = built[i]
    <2>1. Sequence(r.trusted_issuers) /\ Sequence(built) /\ Len(built) = Len(pending)
        BY <1>1, <1>4
    <2> QED
        BY <2>1, SequenceJoined
<1>9. /\ Sequence(p) /\ Len(p) = base + Len(pending)
      /\ \A i \in 1 .. base : p[i] = published[i]
      /\ \A i \in 1 .. Len(pending) : p[base + i] = learnt[i]
    BY <1>1, <1>5, SequenceJoined
<1> HIDE DEF t, p
<1>10. ASSUME NEW i \in 1 .. Len(p) PROVE Trusted(t[i], p[i], config)
    <2>1. CASE i <= base
        <3>1. i \in 1 .. base
            BY <1>8, <1>9, <2>1
        <3> QED
            BY <1>1, <1>8, <1>9, <3>1
    <2>2. CASE ~(i <= base)
        <3> DEFINE j == i - base
        <3>1. j \in 1 .. Len(pending) /\ base + j = i
            BY <1>3, <1>8, <1>9, <2>2
        <3> HIDE DEF j
        <3>2. t[i] = built[j] /\ p[i] = learnt[j]
            BY <1>8, <1>9, <3>1
        <3> QED
            BY <1>3, <1>6, <3>1, <3>2
    <2> QED
        BY <2>1, <2>2
<1>11. ASSUME NEW task \in r.tasks \cup tasks
       PROVE  task.at \in 1 .. Len(p) /\ task.source.kind = "jwks_url" /\ task.source = p[task.at].by.source
    <2>1. CASE task \in r.tasks
        <3>1. task.at \in 1 .. base /\ task.source.kind = "jwks_url" /\ task.source = published[task.at].by.source
            BY <1>1, <2>1
        <3>2. task.at \in 1 .. Len(p)
            BY <1>3, <1>8, <1>9, <3>1
        <3> QED
            BY <1>9, <3>1, <3>2
    <2>2. CASE task \in tasks
        <3>1. PICK i \in DOMAIN pending : task = [at |-> base + i, source |-> pending[i].source]
            BY <2>2
        <3>2. i \in 1 .. Len(pending) /\ task.at = base + i /\ task.source = pending[i].source
            BY <1>3, <3>1
        <3>3. task.at \in 1 .. Len(p)
            BY <1>3, <1>8, <1>9, <3>2
        <3>4. p[task.at] = learnt[i] /\ learnt[i].by.source = pending[i].source /\ pending[i].source.kind = "jwks_url"
            BY <1>1, <1>7, <1>9, <3>1, <3>2
        <3> QED
            BY <3>2, <3>3, <3>4
    <2> QED
        BY <2>1, <2>2
<1> HIDE DEF tasks
<1>12. ResolverInv(next, p, config)
    <2>1. /\ next.trusted_issuers = t /\ next.pending_jwks = pending /\ next.tasks = r.tasks \cup tasks
          /\ next = [trusted_issuers |-> t, pending_jwks |-> pending,
                     role |-> config.role, header |-> config.header, tasks |-> r.tasks \cup tasks]
        BY <1>2 DEF t
    <2> QED
        BY <1>1, <1>8, <1>9, <1>10, <1>11, <2>1 DEF ResolverInv
<1> QED
    BY <1>12 DEF next, p, learnt, pending

\* One tick of a refresh task replaces the keys of its own issuer by what the
\* endpoint now publishes, or leaves them.
LEMMA ResolverRefreshed ==
    ASSUME NEW r, NEW published, NEW config, ResolverInv(r, published, config),
           NEW task \in r.tasks, NEW reply \in KeyReplies
    PROVE  ResolverInv(J!Refresh(r, task, reply),
                       [published EXCEPT ![task.at].keys = Learnt(task.source, @, reply)], config)
<1> DEFINE n == Len(published)
           at == task.at
           t == r.trusted_issuers
           got == J!BuildSourceAsync(task.source, reply)
           keys == Learnt(task.source, published[at].keys, reply)
           p == [published EXCEPT ![at].keys = keys]
           next == J!Refresh(r, task, reply)
<1>1. /\ r = [trusted_issuers |-> t, pending_jwks |-> r.pending_jwks,
              role |-> config.role, header |-> config.header, tasks |-> r.tasks]
      /\ Sequence(t) /\ Sequence(published) /\ n = Len(t)
      /\ \A i \in 1 .. n : Trusted(t[i], published[i], config)
      /\ Sequence(r.pending_jwks)
      /\ \A i \in DOMAIN r.pending_jwks :
            /\ r.pending_jwks[i].source.kind = "jwks_url"
            /\ \E c \in DOMAIN config.trusted_issuers : r.pending_jwks[i] = config.trusted_issuers[c]
      /\ \A k \in r.tasks : k.at \in 1 .. n /\ k.source.kind = "jwks_url" /\ k.source = published[k.at].by.source
      /\ config.role \in J!Roles
    BY DEF ResolverInv
<1>2. /\ n \in Nat /\ DOMAIN published = 1 .. n /\ DOMAIN t = 1 .. n
      /\ published = [i \in 1 .. n |-> published[i]] /\ t = [i \in 1 .. n |-> t[i]]
    BY <1>1 DEF Sequence
<1>3. at \in 1 .. n /\ task.source.kind = "jwks_url"
    BY <1>1
<1>4. IF got = <<>> THEN (task.source.scheme = "http" /\ ~task.source.insecure_http) \/ Fetched(reply) = {}
      ELSE /\ ~(task.source.scheme = "http" /\ ~task.source.insecure_http) /\ Fetched(reply) # {}
           /\ Held(got[1]) = Fetched(reply)
    BY <1>3, FetchedStore
<1>5. /\ published[at] = [by |-> published[at].by, keys |-> published[at].keys]
      /\ t[at] = J!TrustedIssuer(published[at].by, t[at].keys) /\ Held(t[at].keys) = published[at].keys
      /\ \E c \in DOMAIN config.trusted_issuers : published[at].by = config.trusted_issuers[c]
    BY <1>1, <1>3 DEF Trusted
<1> HIDE DEF n, at, t, got, keys
<1>6. /\ p = [i \in 1 .. n |-> p[i]] /\ p[at] = [by |-> published[at].by, keys |-> keys]
      /\ \A i \in 1 .. n : i # at => p[i] = published[i]
    <2>1. p = [published EXCEPT ![at] = [published[at] EXCEPT !.keys = keys]]
        OBVIOUS
    <2>2. PICK b, k, q : b = published[at].by /\ k = published[at].keys /\ q = published[at]
        OBVIOUS
    <2>3. q = [by |-> b, keys |-> k]
        BY <1>5, <2>2
    <2>4. [q EXCEPT !.keys = keys] = [by |-> b, keys |-> keys]
        BY <2>3
    <2>5. p = [published EXCEPT ![at] = [by |-> b, keys |-> keys]]
        BY <2>1, <2>2, <2>4
    <2> HIDE DEF p
    <2>6. p[at] = [by |-> b, keys |-> keys] /\ \A i \in 1 .. n : i # at => p[i] = published[i]
        BY <1>2, <1>3, <2>5
    <2>7. p = [i \in 1 .. n |-> p[i]]
        BY <1>2, <2>5
    <2> QED
        BY <2>2, <2>6, <2>7
<1>7. p[at].by = published[at].by /\ p[at].keys = keys
    <2> HIDE DEF p
    <2>1. PICK b, q : b = published[at].by /\ q = p[at]
        OBVIOUS
    <2>2. q = [by |-> b, keys |-> keys]
        BY <1>6, <2>1
    <2>3. q.by = b /\ q.keys = keys
        BY <2>2
    <2> QED
        BY <2>1, <2>3
<1> HIDE DEF p
<1>8. Sequence(p) /\ Len(p) = n
    BY <1>2, <1>6, SequenceFrom
<1>9. \E u : /\ u = [i \in 1 .. n |-> u[i]] /\ \A i \in 1 .. n : i # at => u[i] = t[i]
             /\ u[at] = J!TrustedIssuer(published[at].by, u[at].keys) /\ Held(u[at].keys) = keys
             /\ next = [trusted_issuers |-> u, pending_jwks |-> r.pending_jwks,
                        role |-> config.role, header |-> config.header, tasks |-> r.tasks]
    <2>1. CASE got = <<>>
        <3>1. next = r
            BY <2>1 DEF J!Refresh, got
        <3>2. keys = published[at].keys
            BY <1>4, <2>1 DEF Learnt, keys
        <3> HIDE DEF next
        <3> QED
            BY <1>1, <1>2, <1>5, <3>1, <3>2
    <2>2. CASE got # <<>>
        <3> DEFINE u == [t EXCEPT ![at] = [t[at] EXCEPT !.keys = got[1]]]
        <3>1. next = [r EXCEPT !.trusted_issuers = u]
            BY <2>2, Zenon DEF J!Refresh, got, t, at
        <3>2. keys = Held(got[1])
            BY <1>4, <2>2 DEF Learnt, keys
        <3>3. PICK b, k : b = published[at].by /\ k = t[at].keys
            OBVIOUS
        <3>4. [J!TrustedIssuer(b, k) EXCEPT !.keys = got[1]] = J!TrustedIssuer(b, got[1])
            BY DEF J!TrustedIssuer
        <3>5. u[at] = J!TrustedIssuer(b, got[1])
            <4>1. [t[at] EXCEPT !.keys = got[1]] = J!TrustedIssuer(b, got[1])
                BY <1>5, <3>3, <3>4
            <4> QED
                BY <1>2, <1>3, <4>1
        <3>6. J!TrustedIssuer(b, got[1]).keys = got[1]
            BY DEF J!TrustedIssuer
        <3>7. u = [i \in 1 .. n |-> u[i]] /\ \A i \in 1 .. n : i # at => u[i] = t[i]
            BY <1>2, <1>3
        <3> HIDE DEF u, next
        <3>8. PICK w, a, b2, c, d, e : w = u /\ r = [trusted_issuers |-> a, pending_jwks |-> b2, role |-> c, header |-> d, tasks |-> e]
            BY <1>1
        <3>9. b2 = r.pending_jwks /\ c = config.role /\ d = config.header /\ e = r.tasks
            BY <1>1, <3>8
        <3>10. next = [trusted_issuers |-> w, pending_jwks |-> b2, role |-> c, header |-> d, tasks |-> e]
            BY <3>1, <3>8
        <3> QED
            BY <3>2, <3>3, <3>5, <3>6, <3>7, <3>8, <3>9, <3>10
    <2> QED
        BY <2>1, <2>2
<1> HIDE DEF next
<1>10. PICK u : /\ u = [i \in 1 .. n |-> u[i]] /\ \A i \in 1 .. n : i # at => u[i] = t[i]
                /\ u[at] = J!TrustedIssuer(published[at].by, u[at].keys) /\ Held(u[at].keys) = keys
                /\ next = [trusted_issuers |-> u, pending_jwks |-> r.pending_jwks,
                           role |-> config.role, header |-> config.header, tasks |-> r.tasks]
    BY <1>9
<1>11. Sequence(u) /\ Len(u) = n
    BY <1>2, <1>10, SequenceFrom
<1>12. ASSUME NEW i \in 1 .. n PROVE Trusted(u[i], p[i], config) /\ p[i].by = published[i].by
    <2>1. CASE i = at
        <3>1. p[at] = [by |-> p[at].by, keys |-> p[at].keys]
            BY <1>6, <1>7
        <3> QED
            BY <1>5, <1>7, <1>10, <2>1, <3>1 DEF Trusted
    <2>2. CASE i # at
        BY <1>1, <1>6, <1>10, <2>2
    <2> QED
        BY <2>1, <2>2
<1>13. /\ next.trusted_issuers = u /\ next.pending_jwks = r.pending_jwks /\ next.tasks = r.tasks
    BY <1>10
<1>14. \A k \in r.tasks : k.at \in 1 .. n /\ k.source.kind = "jwks_url" /\ k.source = p[k.at].by.source
    BY <1>1, <1>12
<1>15. ResolverInv(next, p, config)
    BY <1>1, <1>8, <1>10, <1>11, <1>12, <1>13, <1>14 DEF ResolverInv
<1>16. p = [published EXCEPT ![task.at].keys = Learnt(task.source, @, reply)]
    BY DEF p, at, keys
<1> QED
    BY <1>15, <1>16 DEF next

\* Dropping the resolver stops its tasks and changes no key.
LEMMA ResolverDropped ==
    ASSUME NEW r, NEW published, NEW config, ResolverInv(r, published, config)
    PROVE  ResolverInv(J!Drop(r), published, config)
<1>1. r = [trusted_issuers |-> r.trusted_issuers, pending_jwks |-> r.pending_jwks,
           role |-> config.role, header |-> config.header, tasks |-> r.tasks]
    BY DEF ResolverInv
<1>2. PICK a, b, c, d, e : r = [trusted_issuers |-> a, pending_jwks |-> b, role |-> c, header |-> d, tasks |-> e]
    BY <1>1
<1>3. a = r.trusted_issuers /\ b = r.pending_jwks /\ c = config.role /\ d = config.header
    BY <1>1, <1>2
<1>4. J!Drop(r) = [trusted_issuers |-> a, pending_jwks |-> b, role |-> c, header |-> d, tasks |-> {}]
    BY <1>2 DEF J!Drop
<1> QED
    BY <1>3, <1>4 DEF ResolverInv

\* What validate_token has established of a token it accepts.
LEMMA TokenValidated ==
    ASSUME NEW t, IsToken(t), NEW issuer, issuer.leeway \in Nat, NEW now \in Nat,
           J!ValidateToken(t, issuer, now) = "ok"
    PROVE  LET leeway == IF issuer.leeway = 0 THEN DefaultLeeway ELSE issuer.leeway
           IN /\ [kid |-> t.kid, key |-> t.key] \in Held(issuer.keys)
              /\ t.alg \in issuer.algorithms /\ t.iss = issuer.issuer
              /\ issuer.audiences = {} \/ t.aud \cap issuer.audiences # {}
              /\ now <= t.exp + leeway /\ t.nbf <= now + leeway
<1> DEFINE key == J!Select(issuer.keys, t.kid)
           leeway == J!Leeway(issuer)
<1>1. ~J!IsEmpty(issuer.keys) /\ key # J!NoKey /\ J!ClassifyJwtError(t, issuer, key, now) = "ok"
    <2>1. CASE J!IsEmpty(issuer.keys)
        BY <2>1 DEF J!ValidateToken
    <2>2. CASE ~J!IsEmpty(issuer.keys) /\ key = J!NoKey
        BY <2>2 DEF J!ValidateToken
    <2>3. CASE ~J!IsEmpty(issuer.keys) /\ key # J!NoKey
        BY <2>3 DEF J!ValidateToken
    <2> QED
        BY <2>1, <2>2, <2>3
<1>2. leeway \in Nat /\ t.exp \in Nat /\ t.nbf \in Nat
    BY CredentialsAssumption DEF J!Leeway, IsToken
<1> HIDE DEF key, leeway
<1>3. t.alg \in issuer.algorithms /\ t.key = key
    <2>1. CASE t.alg \notin issuer.algorithms
        BY <1>1, <2>1 DEF J!ClassifyJwtError
    <2>2. CASE t.alg \in issuer.algorithms /\ t.key # key
        BY <1>1, <2>2 DEF J!ClassifyJwtError
    <2> QED
        BY <2>1, <2>2
<1>4. /\ ~(t.exp + leeway < now) /\ ~(t.exp + leeway >= now /\ t.nbf > now + leeway)
      /\ t.iss = issuer.issuer /\ ~(issuer.audiences # {} /\ t.aud \cap issuer.audiences = {})
    <2>1. J!ClassifyJwtError(t, issuer, key, now) =
            CASE t.exp + leeway < now -> "auth.token_expired"
              [] t.exp + leeway >= now /\ t.nbf > now + leeway -> "auth.token_not_yet_valid"
              [] OTHER -> IF t.iss # issuer.issuer THEN "auth.untrusted_issuer"
                          ELSE IF issuer.audiences # {} /\ t.aud \cap issuer.audiences = {}
                          THEN "auth.audience_mismatch" ELSE "ok"
        BY <1>3 DEF J!ClassifyJwtError, leeway
    <2>2. CASE t.exp + leeway < now
        BY <1>1, <1>2, <2>1, <2>2
    <2>3. CASE t.exp + leeway >= now /\ t.nbf > now + leeway
        BY <1>1, <1>2, <2>1, <2>3
    <2>4. CASE ~(t.exp + leeway < now) /\ ~(t.exp + leeway >= now /\ t.nbf > now + leeway)
        BY <1>1, <1>2, <2>1, <2>4
    <2> QED
        BY <2>2, <2>3, <2>4
<1>5. now <= t.exp + leeway /\ t.nbf <= now + leeway
    BY <1>2, <1>4
<1>6. [kid |-> t.kid, key |-> t.key] \in Held(issuer.keys)
    <2>1. CASE t.kid # ""
        <3>1. t.kid \in DOMAIN issuer.keys.by_kid /\ key = issuer.keys.by_kid[t.kid]
            BY <1>1, <2>1 DEF J!Select, key
        <3> QED
            BY <1>3, <3>1 DEF Held
    <2>2. CASE t.kid = ""
        <3>1. key = issuer.keys.fallback
            BY <2>2 DEF J!Select, key
        <3> QED
            BY <1>1, <1>3, <2>2, <3>1 DEF Held
    <2> QED
        BY <2>1, <2>2
<1> QED
    BY <1>3, <1>4, <1>5, <1>6 DEF leeway, J!Leeway

\* What handle answers, and what is written back of it, for any request.
LEMMA HandledAuthentic ==
    ASSUME NEW case, IsIdentityCase(case), NEW r, NEW published, ResolverInv(r, published, case.config),
           NEW q \in IdentityRequests
    PROVE  LET asked == [J!Payload(q.headers, q.raw_token) EXCEPT !.slots = q.slots]
               got == J!Handle(r, asked, q.now)
           IN AnswerAuthentic([q |-> q, asked |-> asked, verdict |-> got.verdict, payload |-> got.payload,
                    ext |-> J!ApplyToExtensions(got.payload, [slots |-> q.host, raw_credentials |-> <<>>]),
                    merged |-> J!Merge(asked, got.payload)], published, case.config)
<1> DEFINE config == case.config
           asked == [J!Payload(q.headers, q.raw_token) EXCEPT !.slots = q.slots]
           got == J!Handle(r, asked, q.now)
           token == J!TokenFor(r, asked)
           t == token[1]
           known == {i \in DOMAIN r.trusted_issuers : r.trusted_issuers[i].issuer = J!PeekIssuer(t)}
           m == CHOOSE i \in known : \A j \in known : i <= j
           issuer == r.trusted_issuers[m]
           slot == J!MapClaims(r.role, t.claims)
           role == config.role
           inbound == [token |-> t, header |-> r.header, kind |-> IF role = "caller_workload" THEN "spiffe_jwt" ELSE "jwt"]
           none == [p \in J!Roles |-> <<>>]
           o == [q |-> q, asked |-> asked, verdict |-> got.verdict, payload |-> got.payload,
                 ext |-> J!ApplyToExtensions(got.payload, [slots |-> q.host, raw_credentials |-> <<>>]),
                 merged |-> J!Merge(asked, got.payload)]
<1>1. /\ r.role = role /\ r.header = config.header /\ role \in J!Roles
      /\ Sequence(r.trusted_issuers) /\ Sequence(published) /\ Len(published) = Len(r.trusted_issuers)
      /\ \A i \in 1 .. Len(published) : Trusted(r.trusted_issuers[i], published[i], config)
    <2>1. r = [trusted_issuers |-> r.trusted_issuers, pending_jwks |-> r.pending_jwks,
               role |-> role, header |-> config.header, tasks |-> r.tasks]
        BY DEF ResolverInv
    <2>2. r.role = role /\ r.header = config.header
        BY <2>1
    <2> QED
        BY <2>2 DEF ResolverInv
<1>2. IsIdentityRequest(q)
    BY CredentialsAssumption
<1>3. asked = [headers |-> q.headers, raw_token |-> q.raw_token, slots |-> q.slots,
               inbound_tokens |-> none, raw_claims |-> [n \in {} |-> <<>>]]
    BY DEF J!Payload
<1> SUFFICES AnswerAuthentic(o, published, config)
    OBVIOUS
<1> HIDE DEF asked
<1>4. token = IF config.header \in DOMAIN q.headers THEN <<q.headers[config.header]>> ELSE q.raw_token
    <2>1. asked.headers = q.headers /\ asked.raw_token = q.raw_token
        BY <1>3
    <2> QED
        BY <1>1, <2>1 DEF J!TokenFor
<1>5. t = IF config.header \in DOMAIN q.headers THEN q.headers[config.header] ELSE q.raw_token[1]
    BY <1>4
<1> HIDE DEF token
<1>6. CASE got.verdict # "ok"
    <2>1. got.payload = asked
        <3>1. \/ \E code : got = [verdict |-> code, payload |-> asked]
              \/ got.verdict = "ok"
            BY DEF J!Handle
        <3>2. PICK code : got = [verdict |-> code, payload |-> asked]
            BY <1>6, <3>1
        <3> HIDE DEF got
        <3> QED
            BY <3>2
    <2>2. o.verdict # "ok" /\ o.payload = o.asked
        BY <1>6, <2>1
    <2> QED
        BY <2>2 DEF AnswerAuthentic
<1>7. CASE got.verdict = "ok"
    <2> DEFINE payload == [asked EXCEPT !.slots[r.role] = slot, !.inbound_tokens[r.role] =
                              <<[token |-> t, header |-> r.header,
                                 kind |-> IF r.role = "caller_workload" THEN "spiffe_jwt" ELSE "jwt"]>>,
                              !.raw_claims = t.claims]
    <2>1. /\ token # <<>> /\ J!PeekIssuer(t) # "" /\ known # {} /\ J!ValidateToken(t, issuer, q.now) = "ok"
          /\ slot # <<>> /\ got.payload = payload
        <3> HIDE DEF payload
        <3>1. got = IF token = <<>> THEN [verdict |-> "auth.malformed_header", payload |-> asked]
                    ELSE IF J!PeekIssuer(t) = "" THEN [verdict |-> "auth.malformed_header", payload |-> asked]
                    ELSE IF known = {} THEN [verdict |-> "auth.untrusted_issuer", payload |-> asked]
                    ELSE IF J!ValidateToken(t, issuer, q.now) # "ok"
                         THEN [verdict |-> J!ValidateToken(t, issuer, q.now), payload |-> asked]
                    ELSE IF slot = <<>> THEN [verdict |-> "auth.mapping_failed", payload |-> asked]
                    ELSE [verdict |-> "ok", payload |-> payload]
            BY DEF J!Handle, token, payload
        <3> HIDE DEF got, t, known, issuer, slot
        <3> QED
            BY <1>7, <3>1
    <2>2. IsToken(t)
        <3>1. CASE config.header \in DOMAIN q.headers
            BY <1>2, <1>5, <3>1 DEF IsIdentityRequest
        <3>2. CASE config.header \notin DOMAIN q.headers
            <4>1. q.raw_token # <<>> /\ t = q.raw_token[1]
                BY <1>4, <1>5, <2>1, <3>2
            <4>2. 1 \in DOMAIN q.raw_token
                <5>1. q.raw_token \in AtMostOne({q.raw_token[i] : i \in DOMAIN q.raw_token})
                    BY <1>2 DEF IsIdentityRequest
                <5>2. DOMAIN q.raw_token = {1}
                    BY <4>1, <5>1, OptionCases
                <5> QED
                    BY <5>2
            <4> QED
                BY <1>2, <4>1, <4>2 DEF IsIdentityRequest
        <3> QED
            BY <3>1, <3>2
    <2>3. m \in known
        <3>1. known \in SUBSET Nat
            BY <1>1 DEF Sequence
        <3>2. \E i \in known : \A j \in known : i <= j
            <4> HIDE DEF known
            <4> QED
                BY <2>1, <3>1, LeastNat
        <3> HIDE DEF known
        <3> QED
            BY <3>2, Zenon
    <2>4. /\ m \in DOMAIN published /\ Trusted(issuer, published[m], config) /\ issuer.issuer = J!PeekIssuer(t)
        <3>1. DOMAIN published = 1 .. Len(published) /\ DOMAIN r.trusted_issuers = 1 .. Len(published)
            BY <1>1 DEF Sequence
        <3>2. m \in 1 .. Len(published) /\ r.trusted_issuers[m].issuer = J!PeekIssuer(t)
            BY <2>3, <3>1
        <3> HIDE DEF m
        <3> QED
            BY <1>1, <3>1, <3>2
    <2> HIDE DEF m, known, issuer, t, payload
    <2> DEFINE p == published[m]
    <2>5. /\ issuer.issuer = p.by.issuer /\ issuer.audiences = p.by.audiences /\ issuer.algorithms = p.by.algorithms
          /\ issuer.leeway = p.by.leeway /\ Held(issuer.keys) = p.keys
        <3>1. issuer = J!TrustedIssuer(p.by, issuer.keys) /\ Held(issuer.keys) = p.keys
            BY <2>4 DEF Trusted
        <3>2. PICK b, k : b = p.by /\ k = issuer.keys
            OBVIOUS
        <3> HIDE DEF p
        <3>3. issuer = [issuer |-> b.issuer, audiences |-> b.audiences, algorithms |-> b.algorithms,
                        leeway |-> b.leeway, keys |-> k]
            BY <3>1, <3>2 DEF J!TrustedIssuer
        <3>4. /\ issuer.issuer = b.issuer /\ issuer.audiences = b.audiences /\ issuer.algorithms = b.algorithms
              /\ issuer.leeway = b.leeway
            BY <3>3
        <3> QED
            BY <3>1, <3>2, <3>4
    <2>6. issuer.leeway \in Nat /\ q.now \in Nat
        <3>1. PICK c \in DOMAIN config.trusted_issuers : p.by = config.trusted_issuers[c]
            BY <2>4 DEF Trusted
        <3>2. config.trusted_issuers[c].leeway \in Nat
            BY DEF IsIdentityCase, IsTrustedIssuer
        <3>3. q.now \in Nat
            BY <1>2 DEF IsIdentityRequest
        <3> QED
            BY <2>5, <3>1, <3>2, <3>3
    <2>7. t.form = "jwt"
        BY <2>1 DEF J!PeekIssuer
    <2>8. LET leeway == IF issuer.leeway = 0 THEN DefaultLeeway ELSE issuer.leeway
          IN /\ [kid |-> t.kid, key |-> t.key] \in Held(issuer.keys)
             /\ t.alg \in issuer.algorithms /\ t.iss = issuer.issuer
             /\ issuer.audiences = {} \/ t.aud \cap issuer.audiences # {}
             /\ q.now <= t.exp + leeway /\ t.nbf <= q.now + leeway
        BY <2>1, <2>2, <2>6, TokenValidated
    <2>9. Vouched(t, p, q.now)
        BY <2>5, <2>7, <2>8 DEF Vouched
    <2>10. got.payload = [headers |-> q.headers, raw_token |-> q.raw_token, slots |-> [q.slots EXCEPT ![role] = slot],
                          inbound_tokens |-> [none EXCEPT ![role] = <<inbound>>], raw_claims |-> t.claims]
        <3>1. payload = [asked EXCEPT !.slots[role] = slot, !.inbound_tokens[role] = <<inbound>>, !.raw_claims = t.claims]
            BY <1>1 DEF payload
        <3> HIDE DEF inbound, none, slot
        <3> QED
            BY <1>3, <2>1, <3>1
    <2>11. /\ q.slots \in [J!Roles -> {q.slots[p2] : p2 \in J!Roles}]
           /\ q.host \in [J!Roles -> {q.host[p2] : p2 \in J!Roles}]
        BY <1>2 DEF IsIdentityRequest
    <2> DEFINE slots == [q.slots EXCEPT ![role] = slot]
               tokens == [none EXCEPT ![role] = <<inbound>>]
    <2>12. /\ slots[role] = slot /\ tokens[role][1] = inbound
           /\ \A p2 \in J!Roles \ {role} : slots[p2] = q.slots[p2]
           /\ slots = [p2 \in J!Roles |-> slots[p2]]
        <3> HIDE DEF slot, inbound
        <3>1. role \in J!Roles
            BY <1>1
        <3>2. slots[role] = slot /\ slots = [p2 \in J!Roles |-> slots[p2]] /\ \A p2 \in J!Roles \ {role} : slots[p2] = q.slots[p2]
            BY <2>11, <3>1
        <3>3. tokens[role] = <<inbound>>
            BY <3>1
        <3> HIDE DEF tokens, slots
        <3> QED
            BY <3>2, <3>3
    <2>13. inbound.token = t
        OBVIOUS
    <2> HIDE DEF slot, inbound, slots, tokens, got
    <2>14. got.payload.slots = slots /\ got.payload.inbound_tokens = tokens
        BY <2>10 DEF slots, tokens
    <2>15. o.ext.slots = [p2 \in J!Roles |-> IF slots[p2] # <<>> THEN slots[p2] ELSE q.host[p2]]
        BY <2>14 DEF J!ApplyToExtensions
    <2>16. o.merged.slots = slots
        <3>1. o.merged.slots = [p2 \in J!Roles |-> IF slots[p2] # <<>> THEN slots[p2] ELSE q.slots[p2]]
            BY <1>3, <2>14 DEF J!Merge
        <3>2. ASSUME NEW p2 \in J!Roles PROVE (IF slots[p2] # <<>> THEN slots[p2] ELSE q.slots[p2]) = slots[p2]
            BY <2>1, <2>12
        <3> HIDE DEF o
        <3> QED
            BY <2>12, <3>1, <3>2
    <2>17. /\ o.verdict = "ok" /\ o.payload = got.payload /\ o.q = q
        BY <1>7
    <2> HIDE DEF o, p
    <2>18. \E i \in DOMAIN published : Vouched(t, published[i], o.q.now)
        BY <2>4, <2>9, <2>17 DEF p
    <2>19. \A p2 \in J!Roles :
              o.ext.slots[p2] = IF o.payload.slots[p2] = <<>> THEN o.q.host[p2] ELSE o.payload.slots[p2]
        BY <2>14, <2>15, <2>17
    <2>20. /\ o.payload.slots[role] # <<>> /\ o.payload.inbound_tokens[role][1].token = t
           /\ \A p2 \in J!Roles \ {role} : o.payload.slots[p2] = o.q.slots[p2]
           /\ o.merged.slots = o.payload.slots
        BY <2>1, <2>12, <2>13, <2>14, <2>16, <2>17
    <2> QED
        BY <1>5, <2>17, <2>18, <2>19, <2>20 DEF AnswerAuthentic
<1> QED
    BY <1>6, <1>7

-----------------------------------------------------------------------------
(* Credentials: delegation.                                                *)

IsPayload(p) ==
    p = [bearer |-> p.bearer, actor |-> p.actor, actor_role |-> p.actor_role, subject |-> p.subject,
         target |-> p.target, target_type |-> p.target_type, audience |-> p.audience, required |-> p.required,
         enforced_by |-> p.enforced_by, attenuation |-> p.attenuation, delegated_token |-> p.delegated_token,
         mode |-> p.mode, update |-> p.update]

(* What the plugin is handed for a step: whom it is for, in whose name,    *)
(* what it requires, and nothing minted yet.                               *)
Prepared(cfg, p) ==
    /\ IsPayload(p) /\ p.update = <<>>
    /\ p.subject = Party(cfg.subject) /\ p.subject \in G!DelegationSubjects
    /\ p.bearer = Presented(p.subject) /\ p.required = cfg.permissions
    /\ p.audience = (IF cfg.audience \in {"absent", "malformed"} THEN "" ELSE cfg.audience)
    /\ cfg.actor # "absent" => p.subject \in {"user", "client"} /\ Party(cfg.actor) \in J!Roles
    /\ IF cfg.actor = "absent" \/ Actor(cfg) = "" THEN p.actor = <<>> /\ p.actor_role = <<>>
       ELSE p.actor = <<Actor(cfg)>> /\ p.actor_role = <<Party(cfg.actor)>>

\* What a role presented, as delegate() looks it up.
LEMMA InboundPresented ==
    ASSUME NEW role \in J!Roles
    PROVE  G!Inbound(input.ext, role) = Presented(role)
BY DEF G!Inbound, Presented

\* A sequence of one element.
LEMMA OneElement ==
    ASSUME NEW s, NEW x, s = <<x>>
    PROVE  s # <<>> /\ s[1] = x /\ Len(s) = 1 /\ DOMAIN s = {1}
OBVIOUS

WithSettings(q, b, t, x, a, r, y, e) ==
    q = [G!NewPayload(b, t) EXCEPT !.subject = x, !.audience = a, !.required = r, !.target_type = y, !.enforced_by = e]

\* A new payload with the settings of a step, field by field.
LEMMA PayloadBuilt ==
    ASSUME NEW b, NEW t, NEW x, NEW a, NEW r, NEW y, NEW e, NEW q, WithSettings(q, b, t, x, a, r, y, e)
    PROVE  q = [bearer |-> b, actor |-> <<>>, actor_role |-> <<>>, subject |-> x, target |-> t, target_type |-> y,
                audience |-> a, required |-> r, enforced_by |-> e, attenuation |-> <<>>, delegated_token |-> <<>>,
                mode |-> <<>>, update |-> <<>>]
<1>1. PICK nil, x0, a0, r0, y0, e0 :
          nil = <<>> /\ x0 = "user" /\ a0 = "" /\ r0 = {} /\ y0 = "tool" /\ e0 = "caller"
    BY Zenon
<1>2. PICK p : p = G!NewPayload(b, t)
    BY Zenon
<1>3. p = [bearer |-> b, actor |-> nil, actor_role |-> nil, subject |-> x0, target |-> t, target_type |-> y0,
           audience |-> a0, required |-> r0, enforced_by |-> e0, attenuation |-> nil, delegated_token |-> nil,
           mode |-> nil, update |-> nil]
    BY <1>1, <1>2, Zenon DEF G!NewPayload
<1>4. q = [p EXCEPT !.subject = x, !.audience = a, !.required = r, !.target_type = y, !.enforced_by = e]
    BY <1>2, Zenon DEF WithSettings
<1>5. q = [bearer |-> b, actor |-> nil, actor_role |-> nil, subject |-> x, target |-> t, target_type |-> y,
           audience |-> a, required |-> r, enforced_by |-> e, attenuation |-> nil, delegated_token |-> nil,
           mode |-> nil, update |-> nil]
    BY <1>3, <1>4
<1> QED
    BY <1>1, <1>2, <1>4, <1>5, Zenon

NamesActor(q, p, role, token) == q = G!WithActor(p, role, token)
Acting(q, p, role, token) ==
    /\ IsPayload(q) /\ q.actor = token /\ q.actor_role = <<role>>
    /\ q.bearer = p.bearer /\ q.subject = p.subject /\ q.audience = p.audience
    /\ q.required = p.required /\ q.update = p.update

\* Naming an actor changes nothing else of a payload.
LEMMA ActorNamed ==
    ASSUME NEW p, IsPayload(p), NEW role, NEW token, NEW q, NamesActor(q, p, role, token)
    PROVE  Acting(q, p, role, token)
<1>1. PICK ro : ro = <<role>>
    BY Zenon
<1> q = [p EXCEPT !.actor = token, !.actor_role = ro]
    BY <1>1, Zenon DEF NamesActor, G!WithActor
<1>2. q = [bearer |-> p.bearer, actor |-> token, actor_role |-> ro, subject |-> p.subject,
           target |-> p.target, target_type |-> p.target_type, audience |-> p.audience, required |-> p.required,
           enforced_by |-> p.enforced_by, attenuation |-> p.attenuation, delegated_token |-> p.delegated_token,
           mode |-> p.mode, update |-> p.update]
    BY <1>1 DEF IsPayload
<1>3. IsPayload(q) /\ q.actor = token /\ q.actor_role = ro
      /\ q.bearer = p.bearer /\ q.subject = p.subject /\ q.audience = p.audience
      /\ q.required = p.required /\ q.update = p.update
    BY <1>2 DEF IsPayload
<1> QED
    BY <1>1, <1>3, Zenon DEF Acting

\* The first half of delegate() refuses a step or prepares what it says.
LEMMA StepPrepared ==
    ASSUME NEW step, NEW plan, G!Prepare(step, plan, input.ext).error = ""
    PROVE  \E p : G!Prepare(step, plan, input.ext) = [error |-> "", payload |-> <<p>>] /\ Prepared(step.cfg, p)
<1> DEFINE cfg == step.cfg
           subject == G!SubjectFromCfg(cfg)
           actor == G!RoleFromCfg(cfg)
           p == G!BuildPayload(step, input.ext, subject[1], actor.role)
<1>1. /\ subject # <<>> /\ actor.ok /\ ~G!RejectUnsupportedActorCombo(subject[1], actor.role)
      /\ G!Prepare(step, plan, input.ext) = [error |-> "", payload |-> <<p>>]
    BY DEF G!Prepare
<1>2. subject[1] = Party(cfg.subject) /\ subject[1] \in G!DelegationSubjects
    BY <1>1 DEF G!SubjectFromCfg, G!FromConfigStr, G!DelegationSubjects, Party
<1>3. \/ cfg.actor = "absent" /\ actor.role = <<>>
      \/ cfg.actor # "absent" /\ Party(cfg.actor) \in J!Roles /\ actor.role = <<Party(cfg.actor)>>
    BY <1>1 DEF G!RoleFromCfg, Party, J!Roles
<1>4. actor.role # <<>> => subject[1] \in {"user", "client"}
    BY <1>1, <1>2 DEF G!RejectUnsupportedActorCombo, G!DelegationSubjects
<1>5. (IF G!InboundRole(subject[1]) = <<>> THEN "" ELSE G!Inbound(input.ext, subject[1])) = Presented(subject[1])
    <2>1. CASE subject[1] = "this_workload"
        BY <2>1 DEF G!InboundRole, Presented, J!Roles
    <2>2. CASE subject[1] # "this_workload"
        <3>1. subject[1] \in J!Roles
            BY <1>2, <2>2 DEF G!DelegationSubjects, J!Roles
        <3> QED
            BY <2>2, <3>1, InboundPresented DEF G!InboundRole
    <2> QED
        BY <2>1, <2>2
<1> HIDE DEF subject, actor
<1>6. PICK name, ro, who, sub : name = cfg.actor /\ ro = actor.role /\ who = Party(cfg.actor) /\ sub = subject[1]
    BY Zenon
<1>7. \/ name = "absent" /\ ro = <<>>
      \/ name # "absent" /\ who \in J!Roles /\ ro # <<>> /\ ro[1] = who
    <2>1. CASE name = "absent"
        BY <1>3, <1>6, <2>1, Zenon
    <2>2. CASE name # "absent"
        <3>1. who \in J!Roles /\ ro = <<who>>
            BY <1>3, <1>6, <2>2, Zenon
        <3> QED
            BY <2>2, <3>1, OneElement
    <2> QED
        BY <2>1, <2>2
<1>8. ro # <<>> => G!Inbound(input.ext, ro[1]) = Actor(cfg) /\ sub \in {"user", "client"}
    <2>1. ASSUME ro # <<>> PROVE G!Inbound(input.ext, ro[1]) = Actor(cfg)
        <3>1. G!Inbound(input.ext, who) = Presented(who)
            BY <1>7, <2>1, InboundPresented
        <3> QED
            BY <1>6, <1>7, <2>1, <3>1, Zenon DEF Actor
    <2> QED
        BY <1>4, <1>6, <2>1
<1> DEFINE aud == IF cfg.audience \in {"absent", "malformed"} THEN "" ELSE cfg.audience
           target == IF cfg.target \in {"absent", "malformed"} THEN step.plugin_name ELSE cfg.target
<1>9. PICK base : base = [G!NewPayload(IF G!InboundRole(subject[1]) = <<>> THEN "" ELSE G!Inbound(input.ext, subject[1]), target)
              EXCEPT !.subject = subject[1], !.audience = aud, !.required = cfg.permissions,
                     !.target_type = G!TargetTypeFromStr(cfg.target_type),
                     !.enforced_by = G!AuthEnforcedByFromStr(cfg.enforced_by)]
    BY Zenon
<1>10. p = IF ro # <<>> /\ G!Inbound(input.ext, ro[1]) # ""
           THEN G!WithActor(base, ro[1], <<G!Inbound(input.ext, ro[1])>>) ELSE base
    BY <1>6, <1>9, Zenon DEF G!BuildPayload
<1> HIDE DEF p
<1>11. /\ IsPayload(base) /\ base.update = <<>> /\ base.subject = sub /\ base.bearer = Presented(sub)
       /\ base.required = cfg.permissions /\ base.audience = aud /\ base.actor = <<>> /\ base.actor_role = <<>>
    <2>1. PICK bb, tt, xx, aa, rr, yy, ee :
              /\ bb = (IF G!InboundRole(subject[1]) = <<>> THEN "" ELSE G!Inbound(input.ext, subject[1]))
              /\ tt = target /\ xx = subject[1] /\ aa = aud /\ rr = cfg.permissions
              /\ yy = G!TargetTypeFromStr(cfg.target_type) /\ ee = G!AuthEnforcedByFromStr(cfg.enforced_by)
        BY Zenon
    <2> HIDE DEF aud, target
    <2>2. WithSettings(base, bb, tt, xx, aa, rr, yy, ee)
        BY <1>9, <2>1, Zenon DEF WithSettings
    <2>3. base = [bearer |-> bb, actor |-> <<>>, actor_role |-> <<>>, subject |-> xx, target |-> tt, target_type |-> yy,
                audience |-> aa, required |-> rr, enforced_by |-> ee, attenuation |-> <<>>, delegated_token |-> <<>>,
                mode |-> <<>>, update |-> <<>>]
        BY <2>2, PayloadBuilt
    <2>4. /\ IsPayload(base) /\ base.update = <<>> /\ base.subject = xx /\ base.bearer = bb
          /\ base.required = rr /\ base.audience = aa /\ base.actor = <<>> /\ base.actor_role = <<>>
        BY <2>3 DEF IsPayload
    <2> QED
        BY <1>5, <1>6, <2>1, <2>4, Zenon
<1>12. Prepared(cfg, p)
    <2>1. /\ sub = Party(cfg.subject) /\ sub \in G!DelegationSubjects
          /\ cfg.actor # "absent" => sub \in {"user", "client"} /\ Party(cfg.actor) \in J!Roles
        BY <1>2, <1>6, <1>7, <1>8
    <2> HIDE DEF cfg
    <2>2. CASE ro # <<>> /\ G!Inbound(input.ext, ro[1]) # ""
        <3>1. cfg.actor # "absent" /\ Actor(cfg) # "" /\ ro[1] = Party(cfg.actor)
            BY <1>6, <1>7, <1>8, <2>2, Zenon
        <3>2. p = G!WithActor(base, ro[1], <<Actor(cfg)>>)
            BY <1>8, <1>10, <2>2, Zenon
        <3>3. /\ IsPayload(p) /\ p.actor = <<Actor(cfg)>> /\ p.actor_role = <<ro[1]>>
              /\ p.bearer = base.bearer /\ p.subject = base.subject /\ p.audience = base.audience
              /\ p.required = base.required /\ p.update = base.update
            <4>1. PICK as, tok, q : as = ro[1] /\ tok = <<Actor(cfg)>> /\ q = p
                BY Zenon
            <4>2. NamesActor(q, base, as, tok) /\ IsPayload(base)
                BY <1>11, <3>2, <4>1, Zenon DEF NamesActor
            <4>3. /\ IsPayload(q) /\ q.actor = tok /\ q.actor_role = <<as>>
                  /\ q.bearer = base.bearer /\ q.subject = base.subject /\ q.audience = base.audience
                  /\ q.required = base.required /\ q.update = base.update
                <5>1. Acting(q, base, as, tok)
                    BY <4>2, ActorNamed
                <5> QED
                    BY <5>1 DEF Acting
            <4> QED
                BY <4>1, <4>3, Zenon
        <3> QED
            BY <1>11, <2>1, <3>1, <3>3, Zenon DEF Prepared
    <2>3. CASE ~(ro # <<>> /\ G!Inbound(input.ext, ro[1]) # "")
        <3>1. cfg.actor = "absent" \/ Actor(cfg) = ""
            BY <1>6, <1>7, <1>8, <2>3, Zenon
        <3>2. p = base
            BY <1>10, <2>3, Zenon
        <3> QED
            BY <1>11, <2>1, <3>1, <3>2, Zenon DEF Prepared
    <2> QED
        BY <2>2, <2>3
<1> QED
    BY <1>1, <1>12, Zenon

ReplyOf(p, legs) == IF p.subject = "caller_workload" THEN legs[2] ELSE legs[1]

(* A token that is minted for a payload. *)
IsMinted(t, p) ==
    /\ t = [token |-> t.token, header |-> t.header, audience |-> p.audience, scopes |-> t.scopes, ttl |-> t.ttl]
    /\ p.required \subseteq t.scopes
    /\ p.attenuation # <<>> => \A i \in DOMAIN p.attenuation[1].ttl : t.ttl <= p.attenuation[1].ttl[i]

(* The request that was sent for a payload. *)
IsForm(f, p, legs) ==
    /\ f.subject_token = (IF p.subject = "this_workload" THEN ""
                          ELSE IF p.subject = "caller_workload" THEN legs[1].token ELSE p.bearer)
    /\ f.actor_token = (IF p.actor # <<>> /\ p.subject \in {"user", "client"} THEN p.actor[1] ELSE "")

(* The payload that comes back when a token was minted. *)
CarriesToken(q, p, t) ==
    /\ IsPayload(q) /\ q.delegated_token = <<t>> /\ q.mode = <<G!DefaultMode(p.subject)>>
    /\ q.subject = p.subject /\ q.actor_role = p.actor_role /\ q.update = p.update /\ q.bearer = p.bearer

Handled(out, p, legs) ==
    /\ out.code = "ok" /\ p.audience # "" /\ (p.bearer # "" \/ p.subject = "this_workload")
    /\ IsForm(out.form[1], p, legs) /\ out.base = (IF p.subject = "caller_workload" THEN <<p.bearer>> ELSE <<>>)
    /\ \E t : IsMinted(t, p) /\ CarriesToken(out.payload, p, t)

AreLegs(legs) ==
    \A i \in 1..2 : /\ legs[i].kind \in ReplyKinds
                    /\ legs[i].kind = "token" => legs[i].expires_in \in AtMostOne(Int)

\* A lifetime is never longer than the route's bound.
LEMMA TtlBounded ==
    ASSUME NEW p, NEW reply, reply.expires_in \in AtMostOne(Int), p.attenuation # <<>>,
           p.attenuation[1].ttl \in AtMostOne(Nat), NEW i \in DOMAIN p.attenuation[1].ttl
    PROVE  G!TtlSecs(p, reply) <= p.attenuation[1].ttl[i]
<1>1. PICK bound, e, m : bound = p.attenuation[1].ttl /\ e = reply.expires_in /\ m = MaxI64
    BY Zenon
<1>2. m \in Nat /\ DefaultTtl \in Nat
    BY <1>1, CredentialsAssumption
<1>3. i = 1 /\ bound[1] \in Nat /\ bound # <<>>
    <2>1. bound \in Seq(Nat) /\ Len(bound) <= 1 /\ i \in DOMAIN bound
        BY <1>1 DEF AtMostOne
    <2> QED
        BY <2>1
<1>4. PICK ttl : ttl = (IF e = <<>> THEN DefaultTtl ELSE e[1])
    BY Zenon
<1>5. ttl \in Int
    <2>1. e \in Seq(Int) /\ Len(e) <= 1
        BY <1>1 DEF AtMostOne
    <2> QED
        BY <1>2, <1>4, <2>1
<1>6. G!TtlSecs(p, reply) = G!Least(ttl, G!Least(bound[1], m))
    BY <1>1, <1>3, <1>4, Zenon DEF G!TtlSecs
<1>7. PICK b : b = bound[1]
    BY Zenon
<1>8. G!Least(ttl, G!Least(b, m)) <= b
    BY <1>2, <1>3, <1>5, <1>7 DEF G!Least
<1> QED
    BY <1>1, <1>3, <1>6, <1>7, <1>8, Zenon

\* What the delegator hands back with a token.
LEMMA TokenCarried ==
    ASSUME NEW delegator, NEW p, IsPayload(p), NEW reply, reply.expires_in \in AtMostOne(Int),
           p.attenuation # <<>> => p.attenuation[1].ttl \in AtMostOne(Nat), G!Missing(p, reply) = {},
           NEW q, q = G!Minted(delegator, p, reply)
    PROVE  \E t : IsMinted(t, p) /\ CarriesToken(q, p, t)
<1>1. PICK t : t = [token |-> reply.token, header |-> delegator.header, audience |-> p.audience,
                    scopes |-> G!EffectiveScopes(p, reply), ttl |-> G!TtlSecs(p, reply)]
    BY Zenon
<1>2. IsMinted(t, p)
    <2>1. PICK s, n : s = G!EffectiveScopes(p, reply) /\ n = G!TtlSecs(p, reply)
        BY Zenon
    <2>2. t = [token |-> reply.token, header |-> delegator.header, audience |-> p.audience, scopes |-> s, ttl |-> n]
        BY <1>1, <2>1, Zenon
    <2>3. p.required \subseteq s
        BY <2>1 DEF G!EffectiveScopes, G!Missing, G!RequestedScopes
    <2>4. t.scopes = s /\ t.ttl = n
          /\ t = [token |-> t.token, header |-> t.header, audience |-> p.audience, scopes |-> t.scopes, ttl |-> t.ttl]
        BY <2>2
    <2>5. p.attenuation # <<>> => \A i \in DOMAIN p.attenuation[1].ttl : n <= p.attenuation[1].ttl[i]
        BY <2>1, TtlBounded, Zenon
    <2> QED
        BY <2>3, <2>4, <2>5, Zenon DEF IsMinted
<1>3. PICK one, mode : one = <<t>> /\ mode = <<G!DefaultMode(p.subject)>>
    BY Zenon
<1>4. q = [p EXCEPT !.delegated_token = one, !.mode = mode]
    BY <1>1, <1>3, Zenon DEF G!Minted
<1>5. q = [bearer |-> p.bearer, actor |-> p.actor, actor_role |-> p.actor_role, subject |-> p.subject,
           target |-> p.target, target_type |-> p.target_type, audience |-> p.audience, required |-> p.required,
           enforced_by |-> p.enforced_by, attenuation |-> p.attenuation, delegated_token |-> one,
           mode |-> mode, update |-> p.update]
    BY <1>4 DEF IsPayload
<1>6. /\ IsPayload(q) /\ q.delegated_token = one /\ q.mode = mode
      /\ q.subject = p.subject /\ q.actor_role = p.actor_role /\ q.update = p.update /\ q.bearer = p.bearer
    BY <1>5 DEF IsPayload
<1>7. CarriesToken(q, p, t)
    BY <1>3, <1>6, Zenon DEF CarriesToken
<1> QED
    BY <1>2, <1>7

\* The delegator mints a token as it was asked, or says why it does not.
LEMMA HandledOrRefused ==
    ASSUME NEW delegator, NEW p, IsPayload(p), NEW legs, AreLegs(legs),
           p.attenuation # <<>> => p.attenuation[1].ttl \in AtMostOne(Nat),
           NEW out, out = G!Handle(delegator, p, legs)
    PROVE  \/ Handled(out, p, legs)
           \/ out.code \notin {"ok", "allow", "no_payload"} /\ out.payload = p
<1> DEFINE workload == p.subject = "caller_workload"
           base == G!MintBaseToken(p.bearer, legs[1])
           reply == ReplyOf(p, legs)
           token == IF workload THEN base.token ELSE p.bearer
<1>1. PICK l1, l2 : l1 = legs[1] /\ l2 = legs[2]
    BY Zenon
<1>2. /\ l1.kind \in ReplyKinds /\ (l1.kind = "token" => l1.expires_in \in AtMostOne(Int))
      /\ l2.kind \in ReplyKinds /\ (l2.kind = "token" => l2.expires_in \in AtMostOne(Int))
    <2>1. 1 \in 1..2 /\ 2 \in 1..2
        OBVIOUS
    <2> QED
        BY <1>1, <2>1, Zenon DEF AreLegs
<1>3. PICK re : re = reply
    BY Zenon
<1>4. re.kind \in ReplyKinds /\ (re.kind = "token" => re.expires_in \in AtMostOne(Int))
    BY <1>1, <1>2, <1>3, Zenon DEF ReplyOf
<1>5. \A kind \in ReplyKinds : kind # "token" => G!ReplyCode(kind) \notin {"ok", "allow", "no_payload"}
    BY DEF ReplyKinds, G!ReplyCode
<1>6. base.client_assertion = p.bearer /\ (base.code = "ok" => base.token = l1.token)
    BY <1>1, <1>2, <1>5 DEF G!MintBaseToken
<1>7. base.code # "ok" => base.code \notin {"ok", "allow", "no_payload"}
    BY <1>1, <1>2, <1>5 DEF G!MintBaseToken
<1> DEFINE deny(code) == [code |-> code, payload |-> p, base |-> <<>>, form |-> <<>>]
<1>8. \A code : deny(code).code = code /\ deny(code).payload = p
    OBVIOUS
<1> HIDE DEF deny
<1>9. out = IF p.bearer = "" /\ p.subject # "this_workload" THEN deny("delegation.bad_request")
            ELSE IF p.audience = "" THEN deny("delegation.bad_request")
            ELSE IF workload /\ base.code # "ok" THEN deny(base.code)
            ELSE IF re.kind # "token" THEN deny(G!ReplyCode(re.kind))
            ELSE IF G!Missing(p, re) # {} THEN deny("delegation.scope_too_broad")
            ELSE IF G!OutOfRange(p, re) THEN deny("panic")
            ELSE [code |-> "ok", base |-> IF workload THEN <<base.client_assertion>> ELSE <<>>,
                  form |-> <<G!ExchangeForm(p, token)>>, payload |-> G!Minted(delegator, p, re)]
    BY <1>3, Zenon DEF G!Handle, ReplyOf, deny
<1> DEFINE minted == /\ p.bearer # "" \/ p.subject = "this_workload"
                     /\ p.audience # "" /\ (workload => base.code = "ok")
                     /\ re.kind = "token" /\ G!Missing(p, re) = {} /\ ~G!OutOfRange(p, re)
<1>10. CASE minted
    <2>1. PICK f, q, b : /\ f = G!ExchangeForm(p, token) /\ q = G!Minted(delegator, p, re)
                         /\ b = (IF p.subject = "caller_workload" THEN <<p.bearer>> ELSE <<>>)
        BY Zenon
    <2>2. out = [code |-> "ok", base |-> b, form |-> <<f>>, payload |-> q]
        BY <1>6, <1>9, <1>10, <2>1, Zenon
    <2>3. out.code = "ok" /\ out.base = b /\ out.form[1] = f /\ out.payload = q
        BY <2>2
    <2>4. \E t : IsMinted(t, p) /\ CarriesToken(q, p, t)
        BY <1>4, <1>10, <2>1, TokenCarried
    <2>5. IsForm(f, p, legs)
        <3>1. PICK to, fa : to = token /\ fa = G!ExchangeForm(p, to)
            BY Zenon
        <3>2. workload => to = l1.token
            BY <1>6, <1>10, <3>1
        <3>3. ~workload => to = p.bearer
            BY <3>1
        <3>4. f = fa
            BY <2>1, <3>1, Zenon
        <3>5. /\ fa.subject_token = (IF p.subject = "this_workload" THEN "" ELSE to)
              /\ fa.actor_token = (IF p.actor # <<>> /\ p.subject \in {"user", "client"} THEN p.actor[1] ELSE "")
            BY <3>1 DEF G!ExchangeForm
        <3> QED
            BY <1>1, <3>2, <3>3, <3>4, <3>5 DEF IsForm
    <2> QED
        BY <1>10, <2>1, <2>3, <2>4, <2>5 DEF Handled
<1>11. CASE ~minted
    <2>1. \/ out = deny("delegation.bad_request") \/ out = deny("delegation.scope_too_broad")
          \/ out = deny("panic")
          \/ base.code # "ok" /\ out = deny(base.code)
          \/ re.kind # "token" /\ out = deny(G!ReplyCode(re.kind))
        BY <1>9, <1>11, Zenon
    <2> QED
        BY <1>4, <1>5, <1>7, <1>8, <2>1
<1> QED
    BY <1>10, <1>11

\* The route's bound is the only thing added to what was prepared.
LEMMA BoundAdded ==
    ASSUME NEW cfg, NEW p, Prepared(cfg, p), NEW bound, NEW q, q = [p EXCEPT !.attenuation = bound]
    PROVE  Prepared(cfg, q) /\ q.attenuation = bound
<1>1. IsPayload(p)
    BY DEF Prepared
<1>2. q = [bearer |-> p.bearer, actor |-> p.actor, actor_role |-> p.actor_role, subject |-> p.subject,
           target |-> p.target, target_type |-> p.target_type, audience |-> p.audience, required |-> p.required,
           enforced_by |-> p.enforced_by, attenuation |-> bound, delegated_token |-> p.delegated_token,
           mode |-> p.mode, update |-> p.update]
    BY <1>1 DEF IsPayload
<1>3. /\ IsPayload(q) /\ q.attenuation = bound /\ q.actor = p.actor /\ q.actor_role = p.actor_role
      /\ q.bearer = p.bearer /\ q.subject = p.subject /\ q.audience = p.audience
      /\ q.required = p.required /\ q.update = p.update
    BY <1>2 DEF IsPayload
<1> QED
    BY <1>3, Zenon DEF Prepared

(* What a delegate step comes to before it is completed. *)
MintedFor(call, out) == \E p : Prepared(call.step.cfg, p) /\ p.attenuation = call.bound /\ Handled(out, p, call.legs)
Outcome(call, out) ==
    IsPayload(out.payload) /\ (out.code \notin {"ok", "allow"} \/ MintedFor(call, out))

\* A delegate step mints what it was prepared for, or fails.
LEMMA OutcomeOfCall ==
    ASSUME NEW call, IsDelegateCall(call), NEW out, out = Delegated(call)
    PROVE  Outcome(call, out)
<1>1. PICK ready, empty : ready = G!Prepare(call.step, input.plan, input.ext) /\ empty = G!NewPayload("", "")
    BY Zenon
<1> DEFINE failed(why) == [code |-> why, payload |-> empty, base |-> <<>>, form |-> <<>>]
<1>2. \A why : failed(why).code = why /\ failed(why).payload = empty
    OBVIOUS
<1> HIDE DEF failed
<1>3. IsPayload(empty)
    <2>1. PICK nil, x0, a0, r0, y0, e0, b0 :
              nil = <<>> /\ x0 = "user" /\ a0 = "" /\ r0 = {} /\ y0 = "tool" /\ e0 = "caller" /\ b0 = ""
        BY Zenon
    <2>2. empty = [bearer |-> b0, actor |-> nil, actor_role |-> nil, subject |-> x0, target |-> b0, target_type |-> y0,
                   audience |-> a0, required |-> r0, enforced_by |-> e0, attenuation |-> nil, delegated_token |-> nil,
                   mode |-> nil, update |-> nil]
        BY <1>1, <2>1, Zenon DEF G!NewPayload
    <2> QED
        BY <2>2 DEF IsPayload
<1>4. out = IF ready.error # "" THEN failed(ready.error)
            ELSE IF call.step.plugin_name \in input.silent THEN failed("no_payload")
            ELSE G!Handle(G!NewDelegator(input.delegator)[1], [ready.payload[1] EXCEPT !.attenuation = call.bound], call.legs)
    BY <1>1, Zenon DEF Delegated, failed
<1>5. ready.error # "" => ready.error \in {"not_found", "invalid_config"}
    BY <1>1 DEF G!Prepare
<1>6. CASE ready.error # ""
    <2>1. out = failed(ready.error)
        BY <1>4, <1>6, Zenon
    <2> QED
        BY <1>2, <1>3, <1>5, <1>6, <2>1 DEF Outcome
<1>7. CASE ready.error = "" /\ call.step.plugin_name \in input.silent
    <2>1. out = failed("no_payload")
        BY <1>4, <1>7, Zenon
    <2> QED
        BY <1>2, <1>3, <2>1 DEF Outcome
<1>8. CASE ready.error = "" /\ call.step.plugin_name \notin input.silent
    <2>1. PICK p : ready = [error |-> "", payload |-> <<p>>] /\ Prepared(call.step.cfg, p)
        <3>1. PICK plan : plan = input.plan
            BY Zenon
        <3>2. G!Prepare(call.step, plan, input.ext).error = ""
            BY <1>1, <1>8, <3>1, Zenon
        <3>3. PICK p : G!Prepare(call.step, plan, input.ext) = [error |-> "", payload |-> <<p>>] /\ Prepared(call.step.cfg, p)
            BY <3>2, StepPrepared, Zenon
        <3> QED
            BY <1>1, <3>1, <3>3, Zenon
    <2>2. ready.payload[1] = p
        BY <2>1
    <2>3. PICK delegator, q : delegator = G!NewDelegator(input.delegator)[1] /\ q = [p EXCEPT !.attenuation = call.bound]
        BY Zenon
    <2>4. out = G!Handle(delegator, q, call.legs)
        BY <1>4, <1>8, <2>2, <2>3, Zenon
    <2>5. Prepared(call.step.cfg, q) /\ q.attenuation = call.bound
        <3>1. PICK cfg, bound : cfg = call.step.cfg /\ bound = call.bound
            BY Zenon
        <3>2. Prepared(cfg, p) /\ q = [p EXCEPT !.attenuation = bound]
            BY <2>1, <2>3, <3>1, Zenon
        <3>3. Prepared(cfg, q) /\ q.attenuation = bound
            BY <3>2, BoundAdded
        <3> QED
            BY <3>1, <3>3, Zenon
    <2>6. IsPayload(q)
        BY <2>5, Zenon DEF Prepared
    <2>7. AreLegs(call.legs)
        BY Zenon DEF AreLegs, IsDelegateCall
    <2>8. q.attenuation # <<>> => q.attenuation[1].ttl \in AtMostOne(Nat)
        BY <2>5, Zenon DEF IsDelegateCall
    <2>9. \/ Handled(out, q, call.legs)
          \/ out.code \notin {"ok", "allow", "no_payload"} /\ out.payload = q
        <3>1. PICK legs : legs = call.legs
            BY Zenon
        <3>2. AreLegs(legs) /\ out = G!Handle(delegator, q, legs)
            BY <2>4, <2>7, <3>1, Zenon
        <3>3. \/ Handled(out, q, legs)
              \/ out.code \notin {"ok", "allow", "no_payload"} /\ out.payload = q
            BY <2>6, <2>8, <3>2, HandledOrRefused
        <3> QED
            BY <3>1, <3>3, Zenon
    <2>10. CASE Handled(out, q, call.legs)
        <3>1. IsPayload(out.payload)
            BY <2>10, Zenon DEF Handled, CarriesToken
        <3>2. MintedFor(call, out)
            BY <2>5, <2>10, Zenon DEF MintedFor
        <3> QED
            BY <3>1, <3>2, Zenon DEF Outcome
    <2>11. CASE out.code \notin {"ok", "allow", "no_payload"} /\ out.payload = q
        <3>1. out.code \notin {"ok", "allow"} /\ IsPayload(out.payload)
            BY <2>6, <2>11
        <3> QED
            BY <3>1, Zenon DEF Outcome
    <2> QED
        BY <2>9, <2>10, <2>11
<1> QED
    BY <1>6, <1>7, <1>8

IsExt(e) == e = [ids |-> e.ids, inbound |-> e.inbound, tokens |-> e.tokens, chain |-> e.chain]

(* The key a token is kept under, from whom and what it was minted for. *)
KeyFor(m) ==
    [subject_id |-> input.ext.ids["user"], workload_id |-> m.others["caller_workload"],
     client_id |-> m.others["client"], audience |-> m.audience, scopes |-> m.scopes, mode |-> G!DefaultMode(m.subject)]

(* The extensions after a step whose token was kept. *)
TokenKept(cfg, out, done, before) ==
    LET m == Minted(cfg, done.granted)
    IN /\ m.subject \in G!DelegationSubjects /\ out.payload.delegated_token # <<>>
       /\ done.ext.tokens = {t \in before.tokens : t.key # KeyFor(m)} \cup {[key |-> KeyFor(m), token |-> TokenOf(out)]}

StepDone(call, out, done, before) ==
    /\ StepFaithful(call, out, done, before) /\ IsPayload(out.payload)
    /\ IsExt(done.ext) /\ done.ext.ids = before.ids
    /\ out.code = "ok" => TokenKept(call.step.cfg, out, done, before)

\* Who took part in an exchange, as the payload records it.
LEMMA ParticipantsRecorded ==
    ASSUME NEW cfg, NEW p, Prepared(cfg, p), NEW q, q.subject = p.subject, q.actor_role = p.actor_role, NEW role
    PROVE  G!Involves(q, role) <=> TookPart(cfg, role)
<1>1. PICK ro, who : ro = p.actor_role /\ who = Party(cfg.actor)
    BY Zenon
<1>2. q.subject = role <=> Party(cfg.subject) = role
    BY Zenon DEF Prepared
<1>3. ro = <<role>> <=> cfg.actor # "absent" /\ who = role /\ Actor(cfg) # ""
    <2>1. CASE cfg.actor = "absent" \/ Actor(cfg) = ""
        <3>1. ro = <<>>
            BY <1>1, <2>1, Zenon DEF Prepared
        <3> QED
            BY <2>1, <3>1
    <2>2. CASE ~(cfg.actor = "absent" \/ Actor(cfg) = "")
        <3>1. ro = <<who>>
            BY <1>1, <2>2, Zenon DEF Prepared
        <3>2. ro = <<role>> <=> who = role
            BY <3>1
        <3> QED
            BY <2>2, <3>2
    <2> QED
        BY <2>1, <2>2
<1> QED
    BY <1>1, <1>2, <1>3, Zenon DEF G!Involves, TookPart

KeyedFor(cfg, q, before, granted) ==
    /\ G!DelegationKey(q, before) = KeyFor(Minted(cfg, granted))
    /\ Minted(cfg, granted).subject \in G!DelegationSubjects

\* A minted token is kept under the key of what it was minted for.
LEMMA KeyOfToken ==
    ASSUME NEW cfg, NEW p, Prepared(cfg, p), NEW t, NEW q, CarriesToken(q, p, t), NEW before, before.ids = input.ext.ids,
           NEW granted, granted.permissions = t.scopes, t.audience = cfg.audience
    PROVE  KeyedFor(cfg, q, before, granted)
<1>1. PICK m, oth, wl, cl :
          /\ m = Minted(cfg, granted)
          /\ oth = [r \in J!Roles |-> IF TookPart(cfg, r) THEN input.ext.ids[r] ELSE <<>>]
          /\ wl = (IF TookPart(cfg, "caller_workload") THEN input.ext.ids["caller_workload"] ELSE <<>>)
          /\ cl = (IF TookPart(cfg, "client") THEN input.ext.ids["client"] ELSE <<>>)
    BY Zenon
<1>2. oth["client"] = cl /\ oth["caller_workload"] = wl
    <2>1. "client" \in J!Roles /\ "caller_workload" \in J!Roles
        BY DEF J!Roles
    <2> QED
        BY <1>1, <2>1, Zenon
<1>3. PICK sub, aud, sc : sub = Party(cfg.subject) /\ aud = cfg.audience /\ sc = granted.permissions
    BY Zenon
<1>4. m = [subject |-> sub, audience |-> aud, scopes |-> sc, others |-> oth]
    BY <1>1, <1>3, Zenon DEF Minted
<1>5. m.subject = sub /\ m.audience = aud /\ m.scopes = sc /\ m.others = oth
    BY <1>4
<1>6. KeyFor(m) = [subject_id |-> input.ext.ids["user"], workload_id |-> wl, client_id |-> cl,
                   audience |-> aud, scopes |-> sc, mode |-> G!DefaultMode(sub)]
    BY <1>2, <1>5, Zenon DEF KeyFor
<1>7. PICK one, mode : one = q.delegated_token /\ mode = q.mode
    BY Zenon
<1>8. one = <<t>> /\ mode = <<G!DefaultMode(sub)>> /\ sub \in G!DelegationSubjects /\ q.subject = p.subject /\ q.actor_role = p.actor_role
    BY <1>3, <1>7, Zenon DEF CarriesToken, Prepared
<1>9. one[1] = t /\ mode # <<>> /\ mode[1] = G!DefaultMode(sub)
    BY <1>8
<1>10. /\ G!Involves(q, "client") <=> TookPart(cfg, "client")
       /\ G!Involves(q, "caller_workload") <=> TookPart(cfg, "caller_workload")
    BY <1>8, ParticipantsRecorded, Zenon
<1>11. /\ wl = IF G!Involves(q, "caller_workload") THEN before.ids["caller_workload"] ELSE <<>>
       /\ cl = IF G!Involves(q, "client") THEN before.ids["client"] ELSE <<>>
    BY <1>1, <1>10, Zenon
<1>12. G!DelegationKey(q, before)
          = [subject_id |-> before.ids["user"], workload_id |-> wl, client_id |-> cl,
             audience |-> t.audience, scopes |-> t.scopes, mode |-> G!DefaultMode(sub)]
    BY <1>7, <1>9, <1>11, Zenon DEF G!DelegationKey
<1> QED
    BY <1>1, <1>3, <1>5, <1>6, <1>8, <1>12, Zenon DEF KeyedFor

\* A step that fails leaves the request as it was.
LEMMA FailedStepDone ==
    ASSUME NEW call, NEW out, IsPayload(out.payload), out.code \notin {"ok", "allow"},
           NEW before, IsExt(before), NEW done, done = G!Complete(out, before)
    PROVE  StepDone(call, out, done, before)
<1>1. PICK none, why : /\ none = G!NothingGranted
                       /\ why = IF out.code = "no_payload" THEN "error" ELSE out.code
    BY Zenon
<1>2. why # "allow"
    BY <1>1
<1>3. done = [ext |-> before, decision |-> why, granted |-> none]
    BY <1>1, Zenon DEF G!Complete
<1>4. done.ext = before /\ done.granted = none /\ done.decision = why
    BY <1>3
<1>5. out.code # "ok"
    OBVIOUS
<1> QED
    BY <1>1, <1>2, <1>4, <1>5, Zenon DEF StepDone, StepFaithful

Replaces(ext, before, key, t) ==
    /\ IsExt(ext) /\ ext.ids = before.ids
    /\ ext.tokens = {u \in before.tokens : u.key # key} \cup {[key |-> key, token |-> t]}

\* A token that is kept takes the place of the one under its key.
LEMMA TokenReplaces ==
    ASSUME NEW before, IsExt(before), NEW t, NEW q, q.delegated_token = <<t>>, q.update = <<>>,
           NEW ext, ext = G!ApplyToExtensions(q, before)
    PROVE  Replaces(ext, before, G!DelegationKey(q, before), t)
<1>1. PICK key, one, tokens :
          /\ key = G!DelegationKey(q, before) /\ one = q.delegated_token
          /\ tokens = {u \in before.tokens : u.key # key} \cup {[key |-> key, token |-> t]}
    BY Zenon
<1>2. one # <<>> /\ one[1] = t
    BY <1>1
<1>3. PICK chain : chain = before.chain
    BY Zenon
<1>4. ext = [before EXCEPT !.tokens = tokens, !.chain = chain]
    <2>1. ext = [before EXCEPT
              !.tokens = IF one = <<>> THEN @ ELSE {u \in before.tokens : u.key # key} \cup {[key |-> key, token |-> one[1]]},
              !.chain = IF q.update = <<>> THEN @ ELSE q.update[1]]
        BY <1>1, Zenon DEF G!ApplyToExtensions
    <2>2. ext = [before EXCEPT
              !.tokens = IF one = <<>> THEN before.tokens ELSE {u \in before.tokens : u.key # key} \cup {[key |-> key, token |-> one[1]]},
              !.chain = IF q.update = <<>> THEN before.chain ELSE q.update[1]]
        BY <2>1, Zenon
    <2> QED
        BY <1>1, <1>2, <1>3, <2>2, Zenon
<1>5. ext = [ids |-> before.ids, inbound |-> before.inbound, tokens |-> tokens, chain |-> chain]
    BY <1>4 DEF IsExt
<1>6. IsExt(ext) /\ ext.ids = before.ids /\ ext.tokens = tokens
    BY <1>5 DEF IsExt
<1> QED
    BY <1>1, <1>6, Zenon DEF Replaces

\* Replacing by key keeps one token per key.
LEMMA KeptOnce ==
    ASSUME NEW before, NEW ext, NEW k, NEW t,
           ext.tokens = {u \in before.tokens : u.key # k} \cup {[key |-> k, token |-> t]}
    PROVE  /\ t \in Tokens(ext)
           /\ KeyedOnce(before) => KeyedOnce(ext)
<1>1. PICK e : e = [key |-> k, token |-> t]
    BY Zenon
<1>2. e.key = k /\ e.token = t
    BY <1>1
<1>3. ext.tokens = {u \in before.tokens : u.key # k} \cup {e}
    BY <1>1, Zenon
<1> QED
    BY <1>2, <1>3 DEF Tokens, KeyedOnce

\* A step that mints a token does it as the step says.
LEMMA MintedStepDone ==
    ASSUME NEW call, NEW out, IsPayload(out.payload), MintedFor(call, out), 
           NEW before, IsExt(before), before.ids = input.ext.ids, NEW done, done = G!Complete(out, before)
    PROVE  StepDone(call, out, done, before)
<1>1. PICK p : Prepared(call.step.cfg, p) /\ p.attenuation = call.bound /\ Handled(out, p, call.legs)
    BY Zenon DEF MintedFor
<1>2. PICK t : IsMinted(t, p) /\ CarriesToken(out.payload, p, t)
    BY <1>1, Zenon DEF Handled
<1>3. PICK q, cfg, form, legs : q = out.payload /\ cfg = call.step.cfg /\ form = out.form[1] /\ legs = call.legs
    BY Zenon
<1>4. /\ Prepared(cfg, p) /\ CarriesToken(q, p, t) /\ IsForm(form, p, legs) /\ out.code = "ok"
      /\ p.audience # "" /\ (p.bearer # "" \/ p.subject = "this_workload")
    BY <1>1, <1>2, <1>3, Zenon DEF Handled
<1>5. PICK one : one = q.delegated_token
    BY Zenon
<1>6. one = <<t>> /\ q.update = <<>> /\ TokenOf(out) = one[1]
    BY <1>3, <1>4, <1>5, Zenon DEF CarriesToken, Prepared, TokenOf
<1>7. one # <<>> /\ one[1] = t
    BY <1>6
<1>8. p.audience = cfg.audience
    BY <1>4 DEF Prepared
<1>9. t.audience = cfg.audience
    BY <1>2, <1>8 DEF IsMinted
<1>10. PICK ext, granted :
          /\ ext = G!ApplyToExtensions(q, before)
          /\ granted = [permissions |-> t.scopes, audience |-> <<t.audience>>, expires |-> <<t.ttl>>]
    BY Zenon
<1>11. done = [ext |-> ext, decision |-> "allow", granted |-> granted]
    BY <1>3, <1>4, <1>5, <1>7, <1>10, Zenon DEF G!Complete
<1>12. done.ext = ext /\ done.granted = granted
    BY <1>11
<1>13. /\ granted.permissions = t.scopes /\ granted.audience = <<t.audience>> /\ granted.expires[1] = t.ttl
    BY <1>10
<1>14. PICK key, m : m = Minted(cfg, granted) /\ key = KeyFor(m)
    BY Zenon
<1>15. G!DelegationKey(q, before) = key /\ m.subject \in G!DelegationSubjects
    <2>1. G!DelegationKey(q, before) = KeyFor(Minted(cfg, granted)) /\ Minted(cfg, granted).subject \in G!DelegationSubjects
        <3>1. KeyedFor(cfg, q, before, granted)
            BY <1>4, <1>9, <1>13, KeyOfToken
        <3> QED
            BY <3>1, Zenon DEF KeyedFor
    <2> QED
        BY <1>14, <2>1, Zenon
<1>16. /\ IsExt(ext) /\ ext.ids = before.ids
       /\ ext.tokens = {u \in before.tokens : u.key # key} \cup {[key |-> key, token |-> t]}
    <2>1. q.delegated_token = <<t>> /\ q.update = <<>>
        BY <1>5, <1>6
    <2>2. Replaces(ext, before, G!DelegationKey(q, before), t)
        BY <1>10, <2>1, TokenReplaces
    <2> QED
        BY <1>15, <2>2, Zenon DEF Replaces
<1>17. TokenKept(cfg, out, done, before)
    BY <1>3, <1>5, <1>6, <1>7, <1>12, <1>14, <1>15, <1>16, Zenon DEF TokenKept
<1>18. t \in Tokens(ext) /\ (KeyedOnce(before) => KeyedOnce(ext))
    BY <1>16, KeptOnce, Zenon
<1>19. StepFaithful(call, out, done, before)
    <2>1. form.subject_token = Exchanged(call)
        BY <1>3, <1>4, Zenon DEF IsForm, Prepared, Exchanged
    <2>2. Party(cfg.subject) # "this_workload" => Presented(Party(cfg.subject)) # ""
        BY <1>4, Zenon DEF Prepared
    <2>3. form.actor_token = Actor(cfg)
        <3>1. PICK pa : pa = p.actor
            BY Zenon
        <3>2. CASE cfg.actor = "absent" \/ Actor(cfg) = ""
            <4>1. pa = <<>>
                BY <1>4, <3>1, <3>2, Zenon DEF Prepared
            <4>2. form.actor_token = ""
                BY <1>4, <3>1, <4>1, Zenon DEF IsForm
            <4> QED
                BY <3>2, <4>2, Zenon DEF Actor
        <3>3. CASE ~(cfg.actor = "absent" \/ Actor(cfg) = "")
            <4>1. PICK act : act = Actor(cfg)
                BY Zenon
            <4>2. pa = <<act>> /\ p.subject \in {"user", "client"}
                BY <1>4, <3>1, <3>3, <4>1, Zenon DEF Prepared
            <4>3. pa # <<>> /\ pa[1] = act
                BY <4>2
            <4> QED
                BY <1>4, <3>1, <4>1, <4>2, <4>3, Zenon DEF IsForm
        <3> QED
            BY <3>2, <3>3
    <2>4. cfg.permissions \subseteq granted.permissions
        BY <1>2, <1>4, <1>13, Zenon DEF IsMinted, Prepared
    <2>5. call.bound # <<>> => \A i \in DOMAIN call.bound[1].ttl : granted.expires[1] <= call.bound[1].ttl[i]
        BY <1>1, <1>2, <1>13, Zenon DEF IsMinted
    <2>6. granted.audience = <<cfg.audience>>
        BY <1>9, <1>13, Zenon
    <2>7. TokenOf(out) = t
        BY <1>6, <1>7
    <2>8. out.base = IF Party(cfg.subject) = "caller_workload" THEN <<Presented(Party(cfg.subject))>> ELSE <<>>
        BY <1>1, <1>4, Zenon DEF Handled, Prepared
    <2> QED
        BY <1>3, <1>4, <1>12, <1>18, <2>1, <2>2, <2>3, <2>4, <2>5, <2>6, <2>7, <2>8, Zenon DEF StepFaithful
<1> QED
    BY <1>3, <1>4, <1>12, <1>16, <1>17, <1>19, Zenon DEF StepDone

\* A delegate step is faithful however it comes out.
LEMMA StepCompleted ==
    ASSUME NEW call, IsDelegateCall(call), NEW out, out = Delegated(call),
           NEW before, IsExt(before), before.ids = input.ext.ids, NEW done, done = G!Complete(out, before)
    PROVE  StepDone(call, out, done, before)
<1>1. Outcome(call, out)
    BY OutcomeOfCall
<1>2. CASE out.code \notin {"ok", "allow"}
    <2>1. IsPayload(out.payload)
        BY <1>1, Zenon DEF Outcome
    <2> QED
        BY <1>2, <2>1, FailedStepDone
<1>3. CASE MintedFor(call, out)
    <2>1. IsPayload(out.payload)
        BY <1>1, Zenon DEF Outcome
    <2> QED
        BY <1>3, <2>1, MintedStepDone
<1> QED
    BY <1>1, <1>2, <1>3, Zenon DEF Outcome

\* Tokens minted for different things, or for parties that differ in more than
\* the user acting, have different keys.
LEMMA KeysTellApart ==
    ASSUME NEW m1, NEW m2, ~SameButForUser(m1, m2), m1.subject \in G!DelegationSubjects, m2.subject \in G!DelegationSubjects
    PROVE  KeyFor(m1) # KeyFor(m2)
<1>1. PICK s1, s2, u : s1 = m1.subject /\ s2 = m2.subject /\ u = input.ext.ids["user"]
    BY Zenon
<1>2. G!DefaultMode(s1) = G!DefaultMode(s2) => s1 = s2
    BY <1>1 DEF G!DelegationSubjects, G!DefaultMode
<1>3. PICK d1, d2, k1, k2 : d1 = G!DefaultMode(s1) /\ d2 = G!DefaultMode(s2) /\ k1 = KeyFor(m1) /\ k2 = KeyFor(m2)
    BY Zenon
<1>4. PICK w1, w2, l1, l2, a1, a2, c1, c2 :
          /\ w1 = m1.others["caller_workload"] /\ l1 = m1.others["client"] /\ a1 = m1.audience /\ c1 = m1.scopes
          /\ w2 = m2.others["caller_workload"] /\ l2 = m2.others["client"] /\ a2 = m2.audience /\ c2 = m2.scopes
    BY Zenon
<1>5. /\ k1 = [subject_id |-> u, workload_id |-> w1, client_id |-> l1, audience |-> a1, scopes |-> c1, mode |-> d1]
      /\ k2 = [subject_id |-> u, workload_id |-> w2, client_id |-> l2, audience |-> a2, scopes |-> c2, mode |-> d2]
    BY <1>1, <1>3, <1>4, Zenon DEF KeyFor
<1>6. k1 = k2 => w1 = w2 /\ l1 = l2 /\ a1 = a2 /\ c1 = c2 /\ d1 = d2
    BY <1>5
<1>7. \A p \in J!Roles \ {"user"} : p = "client" \/ p = "caller_workload"
    BY DEF J!Roles
<1>8. k1 = k2 => SameButForUser(m1, m2)
    BY <1>1, <1>2, <1>3, <1>4, <1>6, <1>7, Zenon DEF SameButForUser
<1> QED
    BY <1>3, <1>8, Zenon

Merges(m, p, o) == m.delegated_token = o.delegated_token /\ m.bearer = p.bearer

\* Merging takes the later token and keeps who asked first.
LEMMA MergeTakesLater ==
    ASSUME NEW p, IsPayload(p), NEW o, o.delegated_token # <<>>, NEW m, m = G!MergePayload(p, o)
    PROVE  Merges(m, p, o)
<1>1. PICK a, b, c : /\ a = o.delegated_token
                     /\ b = (IF o.update # <<>> THEN o.update ELSE p.update)
                     /\ c = (IF o.mode # <<>> THEN o.mode ELSE p.mode)
    BY Zenon
<1>2. m = [p EXCEPT !.delegated_token = a, !.update = b, !.mode = c]
    <2>1. m = [p EXCEPT !.delegated_token = IF o.delegated_token # <<>> THEN o.delegated_token ELSE p.delegated_token,
                        !.update = IF o.update # <<>> THEN o.update ELSE p.update,
                        !.mode = IF o.mode # <<>> THEN o.mode ELSE p.mode]
        BY Zenon DEF G!MergePayload
    <2> QED
        BY <1>1, <2>1, Zenon
<1>3. m = [bearer |-> p.bearer, actor |-> p.actor, actor_role |-> p.actor_role, subject |-> p.subject,
           target |-> p.target, target_type |-> p.target_type, audience |-> p.audience, required |-> p.required,
           enforced_by |-> p.enforced_by, attenuation |-> p.attenuation, delegated_token |-> a, mode |-> c, update |-> b]
    BY <1>2 DEF IsPayload
<1>4. m.delegated_token = a /\ m.bearer = p.bearer
    BY <1>3
<1> QED
    BY <1>1, <1>4, Zenon DEF Merges

DelegateAnswer ==
    LET out == [i \in 1..2 |-> Delegated(input.calls[i])]
        one == G!Complete(out[1], input.ext)
        two == G!Complete(out[2], one.ext)
    IN [out |-> out, done |-> <<one, two>>, merged |-> G!MergePayload(out[1].payload, out[2].payload)]

\* Two steps of one request are faithful, and keep both tokens.
LEMMA DelegationsFaithful ==
    ASSUME IsDelegationCase(input), answer = <<DelegateAnswer>>
    PROVE  DelegationFaithful
<1>1. PICK o1, o2, one, two, merged, c1, c2, ext :
          /\ c1 = input.calls[1] /\ c2 = input.calls[2] /\ ext = input.ext
          /\ o1 = Delegated(c1) /\ o2 = Delegated(c2)
          /\ one = G!Complete(o1, ext) /\ two = G!Complete(o2, one.ext)
          /\ merged = G!MergePayload(o1.payload, o2.payload)
    BY Zenon
<1>2. PICK a : a = answer[1]
    BY Zenon
<1>3. a.out[1] = o1 /\ a.out[2] = o2 /\ a.done[1] = one /\ a.done[2] = two /\ a.merged = merged
    <2>1. PICK out, done : out = [i \in 1..2 |-> Delegated(input.calls[i])] /\ done = <<one, two>>
        BY Zenon
    <2>2. out[1] = o1 /\ out[2] = o2
        <3>1. 1 \in 1..2 /\ 2 \in 1..2
            OBVIOUS
        <3> QED
            BY <1>1, <2>1, <3>1, Zenon
    <2>3. done[1] = one /\ done[2] = two
        BY <2>1
    <2>4. DelegateAnswer = [out |-> out, done |-> done, merged |-> merged]
        BY <1>1, <2>1, <2>2, Zenon DEF DelegateAnswer
    <2>5. a = [out |-> out, done |-> done, merged |-> merged]
        <3>1. answer[1] = DelegateAnswer
            OBVIOUS
        <3> QED
            BY <1>2, <2>4, <3>1, Zenon
    <2>6. a.out = out /\ a.done = done /\ a.merged = merged
        BY <2>5
    <2> QED
        BY <2>2, <2>3, <2>6, Zenon
<1>4. IsExt(ext) /\ IsDelegateCall(c1) /\ IsDelegateCall(c2)
    <2>1. 1 \in 1..2 /\ 2 \in 1..2
        OBVIOUS
    <2> QED
        BY <1>1, <2>1, Zenon DEF IsDelegationCase, IsExt
<1>5. StepDone(c1, o1, one, ext)
    BY <1>1, <1>4, StepCompleted
<1>6. PICK mid : mid = one.ext
    BY Zenon
<1>7. IsExt(mid) /\ mid.ids = input.ext.ids
    BY <1>1, <1>5, <1>6, Zenon DEF StepDone
<1>8. StepDone(c2, o2, two, mid)
    BY <1>1, <1>4, <1>6, <1>7, StepCompleted
<1>9. ASSUME o1.code = "ok", o2.code = "ok", ~SameButForUser(Minted(c1.step.cfg, one.granted), Minted(c2.step.cfg, two.granted))
      PROVE  TokenOf(o1) \in Tokens(two.ext)
    <2>1. PICK cfg1, cfg2, g1, g2 : cfg1 = c1.step.cfg /\ cfg2 = c2.step.cfg /\ g1 = one.granted /\ g2 = two.granted
        BY Zenon
    <2>2. TokenKept(cfg1, o1, one, ext) /\ TokenKept(cfg2, o2, two, mid)
        BY <1>5, <1>8, <1>9, <2>1, Zenon DEF StepDone
    <2>3. PICK k1, k2, t1, t2 : /\ k1 = KeyFor(Minted(cfg1, g1)) /\ k2 = KeyFor(Minted(cfg2, g2))
                                /\ t1 = TokenOf(o1) /\ t2 = TokenOf(o2)
        BY Zenon
    <2>4. /\ Minted(cfg1, g1).subject \in G!DelegationSubjects /\ Minted(cfg2, g2).subject \in G!DelegationSubjects
          /\ mid.tokens = {t \in ext.tokens : t.key # k1} \cup {[key |-> k1, token |-> t1]}
          /\ two.ext.tokens = {t \in mid.tokens : t.key # k2} \cup {[key |-> k2, token |-> t2]}
        BY <1>6, <2>1, <2>2, <2>3, Zenon DEF TokenKept
    <2>5. k1 # k2
        <3>1. ~SameButForUser(Minted(cfg1, g1), Minted(cfg2, g2))
            BY <1>9, <2>1, Zenon
        <3>2. KeyFor(Minted(cfg1, g1)) # KeyFor(Minted(cfg2, g2))
            BY <2>4, <3>1, KeysTellApart, Zenon
        <3> QED
            BY <2>3, <3>2, Zenon
    <2>6. PICK e : e = [key |-> k1, token |-> t1]
        BY Zenon
    <2>7. e.key = k1 /\ e.token = t1
        BY <2>6
    <2>8. e \in mid.tokens
        BY <2>4, <2>6, Zenon
    <2>9. e \in two.ext.tokens
        BY <2>4, <2>5, <2>7, <2>8, Zenon
    <2> QED
        BY <2>3, <2>7, <2>9, Zenon DEF Tokens
<1>10. ASSUME o2.code = "ok"
       PROVE  merged.delegated_token = o2.payload.delegated_token /\ merged.bearer = o1.payload.bearer
    <2>1. PICK p, o : p = o1.payload /\ o = o2.payload
        BY Zenon
    <2>2. IsPayload(p) /\ o.delegated_token # <<>> /\ merged = G!MergePayload(p, o)
        BY <1>1, <1>5, <1>8, <1>10, <2>1, Zenon DEF StepDone, TokenKept
    <2>3. merged.delegated_token = o.delegated_token /\ merged.bearer = p.bearer
        <3>1. Merges(merged, p, o)
            BY <2>2, MergeTakesLater
        <3> QED
            BY <3>1, Zenon DEF Merges
    <2> QED
        BY <2>1, <2>3, Zenon
<1>11. StepFaithful(c1, o1, one, ext) /\ StepFaithful(c2, o2, two, mid)
    BY <1>5, <1>8, Zenon DEF StepDone
<1> QED
    BY <1>1, <1>2, <1>3, <1>6, <1>9, <1>10, <1>11, Zenon DEF DelegationFaithful

-----------------------------------------------------------------------------
(* Credentials: the inductive invariant.                                   *)

StoreAnswer == [store |-> Store!FromConfig(input.config), error |-> Store!Validate(input.config)]

(* An identity case as it goes on: the resolver, if one was built, is in   *)
(* step with what its issuers published, and so is what it has answered.   *)
IdentityInv(a, config) ==
    /\ a = [r |-> a.r, published |-> a.published, started |-> a.started, dropped |-> a.dropped, out |-> a.out]
    /\ a.r # <<>> => \E r : a.r = <<r>> /\ ResolverInv(r, a.published, config)
    /\ a.out # <<>> => \E o : a.out = <<o>> /\ AnswerAuthentic(o, a.published, config)

CredentialInv ==
    /\ input \in CredentialCase
    /\ answer # <<>> => /\ input.kind = "identity" => \E a : answer = <<a>> /\ IdentityInv(a, input.config)
                        /\ input.kind = "delegation" => answer = <<DelegateAnswer>>
                        /\ input.kind = "store" => answer = <<StoreAnswer>>

\* The invariant of a resolver says that its keys are authentic.
LEMMA KeysOfResolver ==
    ASSUME NEW r, NEW published, NEW config, ResolverInv(r, published, config)
    PROVE  KeysAuthentic(r, published, config)
<1>1. PICK t : t = r.trusted_issuers
    BY Zenon
<1>2. /\ Sequence(t) /\ Sequence(published) /\ Len(published) = Len(t)
      /\ \A i \in 1 .. Len(published) : Trusted(t[i], published[i], config)
      /\ \A task \in r.tasks : task.source = published[task.at].by.source
    BY <1>1, Zenon DEF ResolverInv
<1>3. DOMAIN t = 1 .. Len(t) /\ DOMAIN published = 1 .. Len(published)
    BY <1>2 DEF Sequence
<1>4. DOMAIN t = DOMAIN published
    BY <1>2, <1>3, Zenon
<1>5. \A i \in DOMAIN published :
          /\ Held(t[i].keys) = published[i].keys
          /\ \E c \in DOMAIN config.trusted_issuers : published[i].by = config.trusted_issuers[c]
    BY <1>2, <1>3, Zenon DEF Trusted
<1> QED
    BY <1>1, <1>2, <1>4, <1>5, Zenon DEF KeysAuthentic

\* The invariant says that the credentials are authentic.
LEMMA InvAuthentic ==
    ASSUME CredentialInv
    PROVE  CredentialsAuthentic
<1> SUFFICES ASSUME answer # <<>> PROVE /\ input.kind = "identity" => IdentityAuthentic
                                        /\ input.kind = "delegation" => DelegationFaithful
                                        /\ input.kind = "store" => StoreHoldsCredentials
    BY Zenon DEF CredentialsAuthentic
<1>1. \/ input.kind = "identity" /\ IsIdentityCase(input)
      \/ input.kind = "delegation" /\ IsDelegationCase(input)
      \/ input.kind = "store" /\ IsStoreCase(input)
    BY CredentialsAssumption, Zenon DEF CredentialInv
<1>2. CASE input.kind = "identity"
    <2>1. PICK a : answer = <<a>> /\ IdentityInv(a, input.config)
        BY <1>2, Zenon DEF CredentialInv
    <2>2. answer[1] = a
        BY <2>1
    <2>3. ASSUME a.r # <<>>
          PROVE  /\ KeysAuthentic(a.r[1], a.published, input.config)
                 /\ a.out # <<>> => AnswerAuthentic(a.out[1], a.published, input.config)
        <3>1. PICK rs, os, published, config : rs = a.r /\ os = a.out /\ published = a.published /\ config = input.config
            BY Zenon
        <3>2. PICK r : rs = <<r>> /\ ResolverInv(r, published, config)
            BY <2>1, <2>3, <3>1, Zenon DEF IdentityInv
        <3>3. rs[1] = r
            BY <3>2
        <3>4. KeysAuthentic(r, published, config)
            BY <3>2, KeysOfResolver
        <3>5. ASSUME os # <<>> PROVE AnswerAuthentic(os[1], published, config)
            <4>1. PICK o : os = <<o>> /\ AnswerAuthentic(o, published, config)
                BY <2>1, <3>1, <3>5, Zenon DEF IdentityInv
            <4>2. os[1] = o
                BY <4>1
            <4> QED
                BY <4>1, <4>2, Zenon
        <3> QED
            BY <3>1, <3>3, <3>4, <3>5, Zenon
    <2>4. IdentityAuthentic
        BY <2>2, <2>3, Zenon DEF IdentityAuthentic
    <2> QED
        BY <1>2, <2>4
<1>3. CASE input.kind = "delegation"
    <2>1. IsDelegationCase(input) /\ answer = <<DelegateAnswer>>
        BY <1>1, <1>3 DEF CredentialInv
    <2> QED
        BY <1>3, <2>1, DelegationsFaithful
<1>4. CASE input.kind = "store"
    <2>1. IsStoreCase(input)
        BY <1>1, <1>4
    <2>2. answer = <<[store |-> Store!FromConfig(input.config), error |-> Store!Validate(input.config)]>>
        BY <1>4, Zenon DEF CredentialInv, StoreAnswer
    <2> QED
        BY <1>4, <2>1, <2>2, StoreCredentials
<1> QED
    BY <1>1, <1>2, <1>3, <1>4

\* A resolver that is built, or refused, starts an identity case.
LEMMA IdentityBuilt ==
    ASSUME CredentialInv, BuildResolver
    PROVE  CredentialInv'
<1>1. /\ answer = <<>> /\ input.kind = "identity" /\ input' = input
    BY DEF BuildResolver, Pending
<1>2. IsIdentityCase(input)
    BY <1>1, CredentialsAssumption DEF CredentialInv
<1>3. PICK case, inline, published, rs :
          /\ case = input /\ inline = J!Issuers(input.config.trusted_issuers, FALSE) /\ rs = J!NewResolver(input.config)
          /\ published = [i \in DOMAIN inline |-> [by |-> inline[i], keys |-> {[kid |-> "", key |-> inline[i].source.key]}]]
    BY Zenon
<1>4. PICK nil, no, a : nil = <<>> /\ no = FALSE
                      /\ a = [r |-> rs, published |-> published, started |-> no, dropped |-> no, out |-> nil]
    BY Zenon
<1>5. answer' = <<a>>
    BY <1>3, <1>4, Zenon DEF BuildResolver
<1>6. a.r = rs /\ a.published = published /\ a.out = nil
      /\ a = [r |-> a.r, published |-> a.published, started |-> a.started, dropped |-> a.dropped, out |-> a.out]
    BY <1>4
<1>7. ASSUME rs # <<>> PROVE \E r : rs = <<r>> /\ ResolverInv(r, published, case.config)
    <2>1. PICK r : rs = <<r>>
        BY <1>3, <1>7, Zenon DEF J!NewResolver
    <2>2. J!NewResolver(case.config) = <<r>> /\ IsIdentityCase(case)
        BY <1>2, <1>3, <2>1, Zenon
    <2>3. ResolverInv(r, published, case.config)
        <3>1. LET new == J!Issuers(case.config.trusted_issuers, FALSE)
              IN ResolverInv(r, [i \in DOMAIN new |->
                     [by |-> new[i], keys |-> {[kid |-> "", key |-> new[i].source.key]}]], case.config)
            BY <2>2, ResolverBuilt, Zenon
        <3> QED
            BY <1>3, <3>1, Zenon
    <2> QED
        BY <2>1, <2>3, Zenon
<1>8. IdentityInv(a, case.config)
    BY <1>4, <1>6, <1>7, Zenon DEF IdentityInv
<1> QED
    BY <1>1, <1>3, <1>5, <1>8 DEF CredentialInv

\* What a step of a resolver starts from.
LEMMA ResolverReady ==
    ASSUME CredentialInv, Resolver
    PROVE  \E a, r : /\ answer = <<a>> /\ answer[1] = a /\ a.r = <<r>> /\ a.r[1] = r /\ a.out = <<>>
                     /\ a = [r |-> a.r, published |-> a.published, started |-> a.started, dropped |-> a.dropped, out |-> a.out]
                     /\ ResolverInv(r, a.published, input.config)
<1>1. PICK a : answer = <<a>> /\ IdentityInv(a, input.config)
    BY Zenon DEF CredentialInv, Resolver
<1>2. answer[1] = a
    BY <1>1
<1>3. a.r # <<>> /\ a.out = <<>>
    BY <1>2, Zenon DEF Resolver
<1>4. PICK r, rs : rs = a.r /\ rs = <<r>> /\ ResolverInv(r, a.published, input.config)
    BY <1>1, <1>3, Zenon DEF IdentityInv
<1>5. rs[1] = r
    BY <1>4
<1> QED
    BY <1>1, <1>2, <1>3, <1>4, <1>5, Zenon DEF IdentityInv

\* A step of a resolver that leaves it, and what it has answered, in step
\* with what was published keeps the invariant.
LEMMA IdentityKept ==
    ASSUME CredentialInv, input' = input, input.kind = "identity",
           NEW r, NEW published, ResolverInv(r, published, input.config), NEW started, NEW dropped, NEW out,
           out = <<>> \/ \E o : out = <<o>> /\ AnswerAuthentic(o, published, input.config),
           answer' = <<[r |-> <<r>>, published |-> published, started |-> started, dropped |-> dropped, out |-> out]>>
    PROVE  CredentialInv'
<1>1. PICK rs, a : rs = <<r>> /\ a = [r |-> rs, published |-> published, started |-> started, dropped |-> dropped, out |-> out]
    BY Zenon
<1>2. /\ a = [r |-> a.r, published |-> a.published, started |-> a.started, dropped |-> a.dropped, out |-> a.out]
      /\ a.r = rs /\ a.published = published /\ a.out = out
    BY <1>1
<1>3. IdentityInv(a, input.config)
    BY <1>1, <1>2, Zenon DEF IdentityInv
<1>4. answer' = <<a>>
    BY <1>1, Zenon
<1> QED
    BY <1>3, <1>4 DEF CredentialInv

\* initialize() keeps the invariant.
LEMMA InitializeKept ==
    ASSUME CredentialInv, InitializeResolver
    PROVE  CredentialInv'
<1>1. Resolver /\ input' = input /\ input.kind = "identity"
    BY DEF InitializeResolver, Resolver
<1>2. PICK a, r : /\ answer[1] = a /\ a.r[1] = r /\ a.out = <<>>
                  /\ a = [r |-> a.r, published |-> a.published, started |-> a.started, dropped |-> a.dropped, out |-> a.out]
                  /\ ResolverInv(r, a.published, input.config)
    BY <1>1, ResolverReady, Zenon
<1>3. PICK pending, published, config : pending = r.pending_jwks /\ published = a.published /\ config = input.config
    BY Zenon
<1>4. PICK replies \in [DOMAIN pending -> KeyReplies] :
          answer' = <<[a EXCEPT
              !.r = <<J!Initialize(@[1], replies)>>, !.started = TRUE,
              !.published = @ \o [i \in DOMAIN pending |->
                  [by |-> pending[i], keys |-> Learnt(pending[i].source, {}, replies[i])]]]>>
    BY <1>2, <1>3, Zenon DEF InitializeResolver
<1>5. PICK r2, rs2, p2, started : 
          /\ r2 = J!Initialize(r, replies) /\ rs2 = <<r2>> /\ started = TRUE
          /\ p2 = published \o [i \in DOMAIN pending |->
                  [by |-> pending[i], keys |-> Learnt(pending[i].source, {}, replies[i])]]
    BY Zenon
<1>6. [a EXCEPT !.r = <<J!Initialize(@[1], replies)>>, !.started = TRUE,
              !.published = @ \o [i \in DOMAIN pending |->
                  [by |-> pending[i], keys |-> Learnt(pending[i].source, {}, replies[i])]]]
        = [a EXCEPT !.r = rs2, !.started = started, !.published = p2]
    BY <1>2, <1>3, <1>5, Zenon
<1>7. PICK a2 : a2 = [a EXCEPT !.r = rs2, !.started = started, !.published = p2]
    BY Zenon
<1>8. a2 = [r |-> rs2, published |-> p2, started |-> started, dropped |-> a.dropped, out |-> a.out]
    BY <1>2, <1>7
<1>9. ResolverInv(r2, p2, config)
    <2>1. ResolverInv(r, published, config) /\ replies \in [DOMAIN r.pending_jwks -> KeyReplies]
        BY <1>2, <1>3, Zenon
    <2>2. ResolverInv(J!Initialize(r, replies),
                      published \o [i \in DOMAIN r.pending_jwks |->
                           [by |-> r.pending_jwks[i],
                            keys |-> Learnt(r.pending_jwks[i].source, {}, replies[i])]], config)
        BY <2>1, ResolverInitialized, Zenon
    <2> QED
        BY <1>3, <1>5, <2>2, Zenon
<1>10. answer' = <<[r |-> <<r2>>, published |-> p2, started |-> started, dropped |-> a.dropped, out |-> a.out]>>
    BY <1>4, <1>5, <1>6, <1>7, <1>8, Zenon
<1>11. PICK dropped, out : dropped = a.dropped /\ out = a.out
    BY Zenon
<1>12. answer' = <<[r |-> <<r2>>, published |-> p2, started |-> started, dropped |-> dropped, out |-> out]>>
    BY <1>10, <1>11, Zenon
<1> QED
    BY <1>1, <1>2, <1>3, <1>9, <1>11, <1>12, IdentityKept

\* A refresh keeps the invariant.
LEMMA RefreshKept ==
    ASSUME CredentialInv, RefreshKeys
    PROVE  CredentialInv'
<1>1. Resolver /\ input' = input /\ input.kind = "identity"
    BY DEF RefreshKeys, Resolver
<1>2. PICK a, r : /\ answer[1] = a /\ a.r[1] = r /\ a.out = <<>>
                  /\ a = [r |-> a.r, published |-> a.published, started |-> a.started, dropped |-> a.dropped, out |-> a.out]
                  /\ ResolverInv(r, a.published, input.config)
    BY <1>1, ResolverReady, Zenon
<1>3. PICK published, config : published = a.published /\ config = input.config
    BY Zenon
<1>4. PICK task \in r.tasks, reply \in KeyReplies :
          answer' = <<[a EXCEPT !.r = <<J!Refresh(@[1], task, reply)>>,
                                !.published[task.at].keys = Learnt(task.source, @, reply)]>>
    BY <1>2, Zenon DEF RefreshKeys
<1>5. PICK r2, rs2, p2 :
          /\ r2 = J!Refresh(r, task, reply) /\ rs2 = <<r2>>
          /\ p2 = [published EXCEPT ![task.at].keys = Learnt(task.source, @, reply)]
    BY Zenon
<1>6. [a EXCEPT !.r = <<J!Refresh(@[1], task, reply)>>, !.published[task.at].keys = Learnt(task.source, @, reply)]
        = [a EXCEPT !.r = rs2, !.published = p2]
    <2>1. PICK at, keys : at = task.at /\ keys = Learnt(task.source, published[task.at].keys, reply)
        BY Zenon
    <2>2. p2 = [published EXCEPT ![at].keys = keys]
        BY <1>5, <2>1, Zenon
    <2>3. [a EXCEPT !.r = <<J!Refresh(@[1], task, reply)>>, !.published[task.at].keys = Learnt(task.source, @, reply)]
            = [a EXCEPT !.r = rs2, !.published[at].keys = keys]
        BY <1>2, <1>3, <1>5, <2>1, Zenon
    <2> QED
        BY <1>2, <1>3, <2>2, <2>3
<1>7. PICK a2 : a2 = [a EXCEPT !.r = rs2, !.published = p2]
    BY Zenon
<1>8. a2 = [r |-> rs2, published |-> p2, started |-> a.started, dropped |-> a.dropped, out |-> a.out]
    BY <1>2, <1>7
<1>9. ResolverInv(r2, p2, config)
    <2>1. ResolverInv(r, published, config)
        BY <1>2, <1>3, Zenon
    <2>2. ResolverInv(J!Refresh(r, task, reply),
                       [published EXCEPT ![task.at].keys = Learnt(task.source, @, reply)], config)
        BY <2>1, ResolverRefreshed, Zenon
    <2> QED
        BY <1>5, <2>2, Zenon
<1>10. PICK started, dropped, out : started = a.started /\ dropped = a.dropped /\ out = a.out
    BY Zenon
<1>11. answer' = <<[r |-> <<r2>>, published |-> p2, started |-> started, dropped |-> dropped, out |-> out]>>
    BY <1>4, <1>5, <1>6, <1>7, <1>8, <1>10, Zenon
<1> QED
    BY <1>1, <1>2, <1>3, <1>9, <1>10, <1>11, IdentityKept

\* Dropping the resolver keeps the invariant.
LEMMA DropKept ==
    ASSUME CredentialInv, DropResolver
    PROVE  CredentialInv'
<1>1. Resolver /\ input' = input /\ input.kind = "identity"
    BY DEF DropResolver, Resolver
<1>2. PICK a, r : /\ answer[1] = a /\ a.r[1] = r /\ a.out = <<>>
                  /\ a = [r |-> a.r, published |-> a.published, started |-> a.started, dropped |-> a.dropped, out |-> a.out]
                  /\ ResolverInv(r, a.published, input.config)
    BY <1>1, ResolverReady, Zenon
<1>3. PICK published, config, r2, rs2, dropped :
          published = a.published /\ config = input.config /\ r2 = J!Drop(r) /\ rs2 = <<r2>> /\ dropped = TRUE
    BY Zenon
<1>4. answer' = <<[a EXCEPT !.r = rs2, !.dropped = dropped]>>
    BY <1>2, <1>3, Zenon DEF DropResolver
<1>5. PICK a2 : a2 = [a EXCEPT !.r = rs2, !.dropped = dropped]
    BY Zenon
<1>6. a2 = [r |-> rs2, published |-> a.published, started |-> a.started, dropped |-> dropped, out |-> a.out]
    BY <1>2, <1>5
<1>7. ResolverInv(r2, published, config)
    <2>1. ResolverInv(r, published, config)
        BY <1>2, <1>3, Zenon
    <2> QED
        BY <1>3, <2>1, ResolverDropped, Zenon
<1>8. PICK started, out : started = a.started /\ out = a.out
    BY Zenon
<1>9. answer' = <<[r |-> <<r2>>, published |-> published, started |-> started, dropped |-> dropped, out |-> out]>>
    BY <1>3, <1>4, <1>5, <1>6, <1>8, Zenon
<1> QED
    BY <1>1, <1>2, <1>3, <1>7, <1>8, <1>9, IdentityKept

\* Handling a request keeps the invariant.
LEMMA HandleKept ==
    ASSUME CredentialInv, HandleIdentity
    PROVE  CredentialInv'
<1>1. Resolver /\ input' = input /\ input.kind = "identity"
    BY DEF HandleIdentity, Resolver
<1>2. PICK a, r : /\ answer[1] = a /\ a.r = <<r>> /\ a.r[1] = r
                  /\ a = [r |-> a.r, published |-> a.published, started |-> a.started, dropped |-> a.dropped, out |-> a.out]
                  /\ ResolverInv(r, a.published, input.config)
    BY <1>1, ResolverReady, Zenon
<1>3. PICK case, published : case = input /\ published = a.published
    BY Zenon
<1> DEFINE asked(q) == [J!Payload(q.headers, q.raw_token) EXCEPT !.slots = q.slots]
           got(q) == J!Handle(r, asked(q), q.now)
           reply(q) == [q |-> q, asked |-> asked(q), verdict |-> got(q).verdict, payload |-> got(q).payload,
                        ext |-> J!ApplyToExtensions(got(q).payload, [slots |-> q.host, raw_credentials |-> <<>>]),
                        merged |-> J!Merge(asked(q), got(q).payload)]
<1>4. PICK q \in IdentityRequests : answer' = <<[a EXCEPT !.out = <<reply(q)>>]>>
    BY <1>2, Zenon DEF HandleIdentity
<1>5. IsIdentityCase(case)
    BY <1>1, <1>3, CredentialsAssumption DEF CredentialInv
<1>6. ResolverInv(r, published, case.config)
    BY <1>2, <1>3, Zenon
<1>7. PICK o, out : o = reply(q) /\ out = <<o>>
    BY Zenon
<1>8. AnswerAuthentic(o, published, case.config)
    BY <1>5, <1>6, <1>7, HandledAuthentic, Zenon
<1> HIDE DEF reply
<1>9. PICK a2 : a2 = [a EXCEPT !.out = out]
    BY Zenon
<1>10. a2 = [r |-> a.r, published |-> a.published, started |-> a.started, dropped |-> a.dropped, out |-> out]
    BY <1>2, <1>9
<1>11. PICK started, dropped : started = a.started /\ dropped = a.dropped
    BY Zenon
<1>12. answer' = <<[r |-> <<r>>, published |-> published, started |-> started, dropped |-> dropped, out |-> out]>>
    BY <1>2, <1>3, <1>4, <1>7, <1>9, <1>10, <1>11, Zenon
<1>13. ResolverInv(r, published, input.config) /\ \E x : out = <<x>> /\ AnswerAuthentic(x, published, input.config)
    BY <1>3, <1>6, <1>7, <1>8, Zenon
<1> QED
    BY <1>1, <1>12, <1>13, IdentityKept

\* The credentials of every case are authentic: the keys a resolver holds
\* are those of its issuers and a slot is filled only from a token one of
\* them vouches for, a delegated token is minted and kept for the parties the
\* step names, and the store is given the one login that was written.
THEOREM CredentialsKept == CredentialSpec => []CredentialsAuthentic
<1>1. CredentialInit => CredentialInv
    BY DEF CredentialInit, CredentialInv
<1>2. ASSUME CredentialInv, [CredentialNext]_credentialVars PROVE CredentialInv'
    <2>1. CASE BuildResolver
        BY <1>2, <2>1, IdentityBuilt
    <2>2. CASE InitializeResolver
        BY <1>2, <2>2, InitializeKept
    <2>3. CASE RefreshKeys
        BY <1>2, <2>3, RefreshKept
    <2>4. CASE HandleIdentity
        BY <1>2, <2>4, HandleKept
    <2>5. CASE DropResolver
        BY <1>2, <2>5, DropKept
    <2>6. CASE Delegate
        <3>1. input' = input /\ input.kind = "delegation"
            BY <2>6 DEF Delegate, Pending
        <3>2. answer' = <<DelegateAnswer>>
            BY <2>6, Zenon DEF Delegate, DelegateAnswer
        <3>3. DelegateAnswer' = DelegateAnswer
            BY <3>1, Zenon DEF DelegateAnswer, Delegated
        <3> QED
            BY <1>2, <3>1, <3>2, <3>3 DEF CredentialInv
    <2>7. CASE BuildStore
        <3>1. input' = input /\ input.kind = "store"
            BY <2>7 DEF BuildStore, Pending
        <3>2. answer' = <<StoreAnswer'>>
            BY <2>7, <3>1, Zenon DEF BuildStore, StoreAnswer
        <3> QED
            BY <1>2, <3>1, <3>2 DEF CredentialInv
    <2>8. CASE UNCHANGED credentialVars
        <3>1. input' = input /\ answer' = answer
            BY <2>8 DEF credentialVars
        <3>2. DelegateAnswer' = DelegateAnswer /\ StoreAnswer' = StoreAnswer
            BY <3>1, Zenon DEF DelegateAnswer, Delegated, StoreAnswer
        <3> QED
            BY <1>2, <3>1, <3>2, Zenon DEF CredentialInv
    <2> QED
        BY <1>2, <2>1, <2>2, <2>3, <2>4, <2>5, <2>6, <2>7, <2>8, Zenon DEF CredentialNext
<1>3. CredentialInv => CredentialsAuthentic
    BY InvAuthentic
<1> QED
    BY <1>1, <1>2, <1>3, PTL DEF CredentialSpec
=============================================================================
