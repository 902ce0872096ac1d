-------------------------- MODULE EvaluatorProofs --------------------------
(* What a route decides, for every compiled route, every answer of the     *)
(* effects and every order in which the branches of its blocks end.        *)
EXTENDS Evaluator, SequenceTheorems, WellFoundedInduction, TLAPS

-----------------------------------------------------------------------------
(* The inductive invariant. D is the set of the effects dispatched so far: *)
(* since an effect sits in one place, it is dispatched once, and a branch  *)
(* is spawned once.                                                        *)

Active(t) == frame[t].status \in {"running", "joining"}

\* The positions of walk t that it has yet to dispatch.
Ahead(t) == {i \in DOMAIN frame[t].todo :
                ~frame[t].todo[i].stands /\ (frame[t].status = "joining" => i # 1)}
EffectAt(t, i) == frame[t].todo[i].effect

Placed(D, m) ==
    \/ \E n \in D : m \in Holds(prog, n)
    \/ m \in Range(PreList(prog))
    \/ phase # "pre" /\ m \in Range(PostList(prog))

AheadInv(D, t) ==
    \A i \in Ahead(t) : EffectAt(t, i) \notin D /\ Placed(D, EffectAt(t, i))

OnceInv(D) ==
    /\ \A m \in D : Placed(D, m)
    /\ \A b \in Effect : frame[b].status # "idle" => \E n \in D : b \in Holds(prog, n)
    /\ \A t \in Thread : frame[t].status = "joining" => This(t) \in D
    /\ \A t \in Thread : Active(t) => AheadInv(D, t)
    /\ \A t, u \in Thread : Active(t) /\ Active(u) =>
          \A i \in Ahead(t), j \in Ahead(u) : EffectAt(t, i) = EffectAt(u, j) => t = u /\ i = j

\* Walk t waits for branch b.
Awaits(t, b) == frame[t].status = "joining" /\ b \in Range(prog.body[This(t)])

BlockInv(t) ==
    frame[t].status = "joining" =>
        /\ frame[t].todo # << >> /\ ~Top(t).stands /\ prog.op[This(t)] = "parallel"
        /\ \A b \in Range(prog.body[This(t)]) : frame[b].status # "idle" /\ parent[b] = t

TodoInv(t) ==
    Active(t) => \A i \in DOMAIN frame[t].todo :
        /\ t <= EffectAt(t, i)
        /\ t # Root => ~ContainsMutation(prog)[EffectAt(t, i)]
        /\ frame[t].todo[i].stands => EffectAt(t, i) \in refused[t]

\* A walk that goes on after a refusal has the deny still before it.
RefusedInv(t) ==
    /\ frame[t].status = "idle" => refused[t] = {} /\ emitted[t] = {}
    /\ frame[t].status = "continue" => refused[t] = {}
    /\ Active(t) /\ refused[t] # {} => \E i \in DOMAIN frame[t].todo : frame[t].todo[i].stands

\* The halt of walk t has come up to it from an effect that refused.
Explains(t, S) ==
    /\ t \in S
    /\ \E u \in S : frame[t].cause \in refused[u]
    /\ \A x \in S : frame[x].status = "halt" /\ (x # t => x \in Effect /\ parent[x] \in S)

CauseInv(t) == frame[t].status = "halt" => \E S \in SUBSET Thread : Explains(t, S)

\* What walk t has accumulated; the route's own includes the earlier phase's.
Kept(t) == frame[t].taints \cup frame[t].constraints
               \cup (IF t = Root THEN decision.taints \cup decision.constraints ELSE {})

WalkInv(t) == BlockInv(t) /\ TodoInv(t) /\ RefusedInv(t) /\ CauseInv(t) /\ emitted[t] \subseteq Kept(t)

\* A branch that halted or was aborted is waited for by a walk that will halt,
\* unless that has halted or is gone itself.
BranchInv(b) ==
    LET t == parent[b]
    IN  /\ t < b /\ frame[t].status # "idle"
        /\ frame[b].status # "pending"
        /\ Active(b) => frame[t].status = "aborted" \/ Awaits(t, b)
        /\ frame[b].status \in {"halt", "aborted"} =>
              frame[t].status \in {"halt", "aborted"} \/ Awaits(t, b)
        /\ frame[b].status = "aborted" /\ Awaits(t, b) =>
              \E c \in Range(prog.body[This(t)]) : frame[c].status = "halt"
        /\ frame[b].status \in Completed =>
              frame[t].status = "aborted" \/ Awaits(t, b) \/ Kept(b) \subseteq Kept(t)

Changed(fields) == \E f \in fields : frame[Root].payload[f] \in {"rewritten", "removed"}

RouteInv ==
    LET f == frame[Root]
    IN  /\ ValidateParallelPurity(prog) /\ Tree(prog)
        /\ f.status \notin {"idle", "aborted", "panicked"}
        /\ phase = "pre" =>
              /\ decision.taints = {} /\ decision.constraints = {}
              /\ f.args_modified = Changed(ArgsField) /\ ~Changed(ResultField)
        /\ phase = "post" =>
              /\ decision.args_modified = Changed(ArgsField)
              /\ f.result_modified = Changed(ResultField)
        /\ phase = "done" =>
              /\ f.status \in Completed
              /\ f.taints \cup f.constraints \subseteq decision.taints \cup decision.constraints
              /\ decision.verdict = "deny" <=> f.status = "halt"
              /\ decision.pending <=> f.status = "pending"
              /\ decision.cause = f.cause
              /\ decision.args_modified = Changed(ArgsField)
              /\ decision.result_modified = Changed(ResultField)

IInv ==
    /\ TypeOK
    /\ RouteInv
    /\ \E D \in SUBSET Effect : OnceInv(D)
    /\ \A t \in Thread : WalkInv(t)
    /\ \A b \in Effect : BranchInv(b)

Mutating == {"field", "delegate", "elicit"}

\* The lists an effect holds are lists of effects.
LEMMA HoldsType ==
    ASSUME NEW p \in Program, NEW n \in Effect
    PROVE  /\ p.body[n] \in Seq(Effect) /\ p.on_deny[n] \in Seq(Effect)
           /\ Holds(p, n) \subseteq Effect
<1>1. p.body[n] \in Seq(Effect) /\ p.on_deny[n] \in Seq(Effect)
    BY DEF Program
<1>2. \A s \in Seq(Effect) : Range(s) \subseteq Effect
    BY ElementOfSeq, LenProperties DEF Range
<1> QED
    BY <1>1, <1>2 DEF Holds

\* contains_mutation finds a mutation at an effect or below it, at any depth.
LEMMA MutationUnfolds ==
    ASSUME NEW p \in Program, NEW n \in Effect
    PROVE  ContainsMutation(p)[n] <=> p.op[n] \in Mutating \/ \E m \in Holds(p, n) : ContainsMutation(p)[m]
<1> DEFINE Closed(S) == \A k \in S : p.op[k] \notin Mutating /\ Holds(p, k) \subseteq S
           Free(k) == \E S \in SUBSET Effect : k \in S /\ Closed(S)
           Body(f) == [k \in Effect |-> p.op[k] \in Mutating \/ \E m \in Holds(p, k) : f[m]]
           g == [k \in Effect |-> ~Free(k)]
<1>1. ASSUME NEW k \in Effect
      PROVE  ~Free(k) <=> (p.op[k] \in Mutating \/ \E m \in Holds(p, k) : ~Free(m))
    <2>1. ASSUME Free(k) PROVE p.op[k] \notin Mutating /\ \A m \in Holds(p, k) : Free(m)
        BY <2>1
    <2>2. ASSUME p.op[k] \notin Mutating, \A m \in Holds(p, k) : Free(m) PROVE Free(k)
        <3> DEFINE T == {k} \cup UNION {S \in SUBSET Effect : Closed(S)}
        <3>1. T \in SUBSET Effect /\ k \in T
            OBVIOUS
        <3>2. ASSUME NEW m \in T PROVE p.op[m] \notin Mutating /\ Holds(p, m) \subseteq T
            <4>1. CASE m = k
                BY <4>1, <2>2
            <4>2. CASE m # k
                <5>1. PICK S \in SUBSET Effect : m \in S /\ Closed(S)
                    BY <4>2
                <5>2. S \subseteq T
                    BY <5>1
                <5> QED
                    BY <5>1, <5>2
            <4> QED
                BY <4>1, <4>2
        <3> QED
            BY <3>1, <3>2
    <2> QED
        BY <2>1, <2>2
<1>2. g = Body(g)
    <2> HIDE DEF Free
    <2>1. \A k \in Effect : Holds(p, k) \subseteq Effect
        BY HoldsType
    <2> QED
        BY <1>1, <2>1
<1>3. ContainsMutation(p) = CHOOSE f : f = Body(f)
    BY DEF ContainsMutation, Mutating
<1> HIDE DEF g
<1>4. ContainsMutation(p) = Body(ContainsMutation(p))
    <2> HIDE DEF Body
    <2> QED
        BY <1>2, <1>3, Zenon
<1> QED
    BY <1>4, Zenon

-----------------------------------------------------------------------------
(* Lists and frames.                                                       *)

\* Effects and walks are numbers, and the route's own walk is none of the effects.
LEMMA EffectFacts ==
    /\ NumEffects \in Nat
    /\ \A n \in Effect : n \in Nat /\ n \in Thread /\ 0 < n /\ n # Root
    /\ Root \in Thread /\ Root = 0 /\ Root \notin Effect
    /\ \A t \in Thread : t \in Nat /\ (t # Root => t \in Effect)
BY EvaluatorAssumption DEF Effect, Root, Thread

\* The stack made of a list has the list's effects in its order, and no deny that
\* stands.
LEMMA ItemsFacts ==
    ASSUME NEW list \in Seq(Effect)
    PROVE  /\ Items(list) \in Seq(Item) /\ Len(Items(list)) = Len(list) /\ Len(list) \in Nat
           /\ DOMAIN list = 1 .. Len(list)
           /\ \A i \in 1 .. Len(list) :
                 list[i] \in Effect /\ Items(list)[i] = [effect |-> list[i], stands |-> FALSE]
<1>1. Len(list) \in Nat /\ DOMAIN list = 1 .. Len(list) /\ \A i \in 1 .. Len(list) : list[i] \in Effect
    BY LenProperties, ElementOfSeq
<1>2. \A i \in 1 .. Len(list) : [effect |-> list[i], stands |-> FALSE] \in Item
    BY <1>1 DEF Item
<1>3. Items(list) = [i \in 1 .. Len(list) |-> [effect |-> list[i], stands |-> FALSE]]
    BY <1>1 DEF Items
<1>4. Items(list) \in Seq(Item) /\ Len(Items(list)) = Len(list)
    BY <1>1, <1>2, <1>3, IsASeq, LenProperties
<1> QED
    BY <1>1, <1>3, <1>4

\* What becomes of the stack `old` when its first item is replaced by the list
\* L and, if stand, by the deny of n that stands behind it.
Follows(old, new, L, off, stand, n) ==
    /\ new \in Seq(Item)
    /\ \A i \in DOMAIN new :
          \/ i \in DOMAIN L /\ new[i] = [effect |-> L[i], stands |-> FALSE]
          \/ stand /\ new[i] = [effect |-> n, stands |-> TRUE]
          \/ \E j \in DOMAIN old : j > 1 /\ i = j + off /\ i > Len(L) /\ new[i] = old[j]
    /\ \A j \in DOMAIN old : j > 1 => j + off \in DOMAIN new /\ new[j + off] = old[j]
    /\ stand => \E i \in DOMAIN new : new[i].stands

\* A stack without its first item.
LEMMA TailFacts ==
    ASSUME NEW s \in Seq(Item), s # << >>
    PROVE  /\ Tail(s) \in Seq(Item) /\ Len(Tail(s)) = Len(s) - 1 /\ Len(s) \in Nat /\ Len(s) >= 1
           /\ DOMAIN s = 1 .. Len(s) /\ DOMAIN Tail(s) = 1 .. Len(s) - 1
           /\ \A i \in 1 .. Len(s) - 1 : Tail(s)[i] = s[i + 1]
           /\ Head(s) = s[1] /\ s[1] \in Item
<1>1. Len(s) \in Nat /\ Len(s) # 0 /\ DOMAIN s = 1 .. Len(s)
    BY EmptySeq, LenProperties
<1>2. Tail(s) \in Seq(Item) /\ Len(Tail(s)) = Len(s) - 1 /\ Head(s) \in Item
      /\ \A i \in 1 .. Len(s) - 1 : Tail(s)[i] = s[i + 1]
    BY <1>1, HeadTailProperties
<1>3. DOMAIN Tail(s) = 1 .. Len(s) - 1
    BY <1>2, LenProperties
<1>4. Head(s) = s[1]
    BY <1>1
<1> QED
    BY <1>1, <1>2, <1>3, <1>4

\* Two stacks, one before the other.
LEMMA ConcatFacts ==
    ASSUME NEW s \in Seq(Item), NEW u \in Seq(Item)
    PROVE  /\ s \o u \in Seq(Item) /\ Len(s \o u) = Len(s) + Len(u)
           /\ Len(s) \in Nat /\ Len(u) \in Nat
           /\ DOMAIN (s \o u) = 1 .. Len(s) + Len(u)
           /\ \A i \in 1 .. Len(s) + Len(u) : (s \o u)[i] = IF i <= Len(s) THEN s[i] ELSE u[i - Len(s)]
<1>1. /\ s \o u \in Seq(Item) /\ Len(s \o u) = Len(s) + Len(u)
      /\ \A i \in 1 .. Len(s) + Len(u) : (s \o u)[i] = IF i <= Len(s) THEN s[i] ELSE u[i - Len(s)]
    BY ConcatProperties
<1>2. Len(s) \in Nat /\ Len(u) \in Nat /\ DOMAIN (s \o u) = 1 .. Len(s \o u)
    BY <1>1, LenProperties
<1> QED
    BY <1>1, <1>2

\* An effect that passes leaves the stack.
LEMMA TailFollows ==
    ASSUME NEW s \in Seq(Item), s # << >>, NEW n
    PROVE  Follows(s, Tail(s), << >>, -1, FALSE, n)
<1>1. DOMAIN << >> = {} /\ Len(<< >>) = 0
    OBVIOUS
<1>2. \A i \in DOMAIN Tail(s) : i + 1 \in DOMAIN s /\ i + 1 > 1 /\ i = (i + 1) + (-1) /\ i > 0 /\ Tail(s)[i] = s[i + 1]
    BY TailFacts
<1>3. \A j \in DOMAIN s : j > 1 => j + (-1) \in DOMAIN Tail(s) /\ Tail(s)[j + (-1)] = s[j]
    BY TailFacts
<1> QED
    BY <1>1, <1>2, <1>3, TailFacts DEF Follows

\* An effect that is walked in place is replaced by the list it holds.
LEMMA WalkFollows ==
    ASSUME NEW s \in Seq(Item), s # << >>, NEW L \in Seq(Effect), NEW n
    PROVE  Follows(s, Items(L) \o Tail(s), L, Len(L) - 1, FALSE, n)
<1> DEFINE new == Items(L) \o Tail(s)
<1>1. /\ new \in Seq(Item) /\ DOMAIN new = 1 .. Len(L) + Len(s) - 1 /\ Len(L) \in Nat /\ Len(s) \in Nat
      /\ \A i \in DOMAIN new : new[i] = IF i <= Len(L) THEN Items(L)[i] ELSE s[i - Len(L) + 1]
      /\ DOMAIN s = 1 .. Len(s) /\ DOMAIN L = 1 .. Len(L)
    <2>1. /\ Items(L) \in Seq(Item) /\ Len(Items(L)) = Len(L) /\ Len(L) \in Nat
          /\ Tail(s) \in Seq(Item) /\ Len(Tail(s)) = Len(s) - 1 /\ Len(s) \in Nat /\ Len(s) >= 1
          /\ \A i \in 1 .. Len(s) - 1 : Tail(s)[i] = s[i + 1]
          /\ DOMAIN s = 1 .. Len(s) /\ DOMAIN L = 1 .. Len(L)
        BY ItemsFacts, TailFacts
    <2>2. /\ new \in Seq(Item) /\ DOMAIN new = 1 .. Len(L) + (Len(s) - 1)
          /\ \A i \in 1 .. Len(L) + (Len(s) - 1) :
                new[i] = IF i <= Len(L) THEN Items(L)[i] ELSE Tail(s)[i - Len(L)]
        <3> DEFINE a == Items(L)
                   b == Tail(s)
        <3>1. a \in Seq(Item) /\ b \in Seq(Item) /\ Len(a) = Len(L) /\ Len(b) = Len(s) - 1
            BY <2>1
        <3> HIDE DEF a, b
        <3>2. /\ a \o b \in Seq(Item) /\ DOMAIN (a \o b) = 1 .. Len(L) + (Len(s) - 1)
              /\ \A i \in 1 .. Len(L) + (Len(s) - 1) : (a \o b)[i] = IF i <= Len(L) THEN a[i] ELSE b[i - Len(L)]
            BY <3>1, ConcatFacts
        <3> QED
            BY <3>2 DEF a, b
    <2> QED
        BY <2>1, <2>2
<1>2. \A i \in DOMAIN L : Items(L)[i] = [effect |-> L[i], stands |-> FALSE]
    BY ItemsFacts
<1> HIDE DEF new
<1>3. ASSUME NEW i \in DOMAIN new
      PROVE  \/ i \in DOMAIN L /\ new[i] = [effect |-> L[i], stands |-> FALSE]
             \/ \E j \in DOMAIN s : j > 1 /\ i = j + (Len(L) - 1) /\ i > Len(L) /\ new[i] = s[j]
    <2>1. CASE i <= Len(L)
        <3>1. i \in DOMAIN L /\ new[i] = Items(L)[i]
            BY <1>1, <2>1
        <3> QED
            BY <1>2, <3>1, Zenon
    <2>2. CASE i > Len(L)
        <3>1. i - Len(L) + 1 \in DOMAIN s /\ i - Len(L) + 1 > 1 /\ i = (i - Len(L) + 1) + (Len(L) - 1)
              /\ new[i] = s[i - Len(L) + 1]
            BY <1>1, <2>2
        <3> QED
            BY <2>2, <3>1
    <2> QED
        BY <1>1, <2>1, <2>2
<1>4. \A j \in DOMAIN s : j > 1 => j + (Len(L) - 1) \in DOMAIN new /\ new[j + (Len(L) - 1)] = s[j]
    BY <1>1
<1>5. Follows(s, new, L, Len(L) - 1, FALSE, n)
    BY <1>1, <1>3, <1>4 DEF Follows
<1> QED
    BY <1>5 DEF new

\* The deny of a decision point stands behind its reactions.
LEMMA DeniedFollows ==
    ASSUME NEW s \in Seq(Item), s # << >>, NEW L \in Seq(Effect), NEW n \in Effect
    PROVE  Follows(s, Items(L) \o <<[effect |-> n, stands |-> TRUE]>> \o Tail(s), L, Len(L), TRUE, n)
<1> DEFINE it == [effect |-> n, stands |-> TRUE]
           a == Items(L) \o <<it>>
           new == a \o Tail(s)
<1>0. it \in Item
    BY DEF Item
<1> HIDE DEF it
<1>1. /\ a \in Seq(Item) /\ Len(a) = Len(L) + 1 /\ Len(L) \in Nat
      /\ \A i \in 1 .. Len(L) + 1 : a[i] = IF i <= Len(L) THEN Items(L)[i] ELSE it
      /\ DOMAIN L = 1 .. Len(L)
    <2>1. <<it>> \in Seq(Item) /\ Len(<<it>>) = 1 /\ <<it>>[1] = it
        BY <1>0
    <2>2. Items(L) \in Seq(Item) /\ Len(Items(L)) = Len(L) /\ Len(L) \in Nat /\ DOMAIN L = 1 .. Len(L)
        BY ItemsFacts
    <2>3. /\ a \in Seq(Item) /\ Len(a) = Len(L) + 1
          /\ \A i \in 1 .. Len(L) + 1 : a[i] = IF i <= Len(L) THEN Items(L)[i] ELSE <<it>>[i - Len(L)]
        BY <2>1, <2>2, ConcatFacts
    <2>4. \A i \in 1 .. Len(L) + 1 : ~(i <= Len(L)) => i - Len(L) = 1
        BY <2>2
    <2> QED
        BY <2>1, <2>2, <2>3, <2>4
<1> HIDE DEF a
<1>2. /\ new \in Seq(Item) /\ DOMAIN new = 1 .. Len(L) + Len(s) /\ Len(s) \in Nat /\ DOMAIN s = 1 .. Len(s)
      /\ \A i \in DOMAIN new : new[i] = IF i <= Len(L) THEN Items(L)[i]
                                        ELSE IF i = Len(L) + 1 THEN it ELSE s[i - Len(L)]
    <2>1. /\ Tail(s) \in Seq(Item) /\ Len(Tail(s)) = Len(s) - 1 /\ Len(s) \in Nat /\ Len(s) >= 1
          /\ \A i \in 1 .. Len(s) - 1 : Tail(s)[i] = s[i + 1]
          /\ DOMAIN s = 1 .. Len(s)
        BY TailFacts
    <2>2. /\ new \in Seq(Item) /\ DOMAIN new = 1 .. (Len(L) + 1) + (Len(s) - 1)
          /\ \A i \in 1 .. (Len(L) + 1) + (Len(s) - 1) :
                new[i] = IF i <= Len(L) + 1 THEN a[i] ELSE Tail(s)[i - (Len(L) + 1)]
        <3> DEFINE b == Tail(s)
        <3>1. b \in Seq(Item) /\ Len(b) = Len(s) - 1
            BY <2>1
        <3> HIDE DEF b
        <3>2. /\ a \o b \in Seq(Item) /\ DOMAIN (a \o b) = 1 .. Len(a) + Len(b)
              /\ \A i \in 1 .. Len(a) + Len(b) : (a \o b)[i] = IF i <= Len(a) THEN a[i] ELSE b[i - Len(a)]
            BY <1>1, <3>1, ConcatFacts
        <3> QED
            BY <1>1, <3>1, <3>2 DEF b
    <2> QED
        BY <1>1, <2>1, <2>2
<1>3. \A i \in DOMAIN L : Items(L)[i] = [effect |-> L[i], stands |-> FALSE]
    BY ItemsFacts
<1> HIDE DEF new
<1>4. ASSUME NEW i \in DOMAIN new
      PROVE  \/ i \in DOMAIN L /\ new[i] = [effect |-> L[i], stands |-> FALSE]
             \/ new[i] = it
             \/ \E j \in DOMAIN s : j > 1 /\ i = j + Len(L) /\ i > Len(L) /\ new[i] = s[j]
    <2>1. CASE i <= Len(L)
        <3>1. i \in DOMAIN L /\ new[i] = Items(L)[i]
            BY <1>1, <1>2, <2>1
        <3> QED
            BY <1>3, <3>1, Zenon
    <2>2. CASE i = Len(L) + 1
        BY <1>1, <1>2, <2>2
    <2>3. CASE i > Len(L) + 1
        <3>1. i - Len(L) \in DOMAIN s /\ i - Len(L) > 1 /\ i = (i - Len(L)) + Len(L) /\ i > Len(L)
            BY <1>1, <1>2, <2>3
        <3>2. new[i] = s[i - Len(L)]
            BY <1>1, <1>2, <2>3
        <3> QED
            BY <3>1, <3>2, Zenon
    <2> QED
        BY <1>1, <1>2, <2>1, <2>2, <2>3
<1>5. \A j \in DOMAIN s : j > 1 => j + Len(L) \in DOMAIN new /\ new[j + Len(L)] = s[j]
    BY <1>1, <1>2
<1>6. Len(L) + 1 \in DOMAIN new /\ new[Len(L) + 1] = it
    <2>1. Len(s) >= 1
        BY TailFacts
    <2> QED
        BY <1>1, <1>2, <2>1
<1>7. it.stands
    BY DEF it
<1>8. Follows(s, new, L, Len(L), TRUE, n)
    BY <1>2, <1>4, <1>5, <1>6, <1>7 DEF Follows, it
<1> QED
    BY <1>8 DEF new, a, it

\* The fields of a frame have their types.
LEMMA FrameFields ==
    ASSUME NEW f \in Frame
    PROVE  /\ f.status \in {"idle", "running", "joining", "continue", "halt", "pending", "aborted", "panicked"}
           /\ f.todo \in Seq(Item) /\ f.bag \in SUBSET Key /\ f.payload \in [Field -> FieldState]
           /\ f.taints \in SUBSET Effect /\ f.constraints \in SUBSET Effect
           /\ f.args_modified \in BOOLEAN /\ f.result_modified \in BOOLEAN /\ f.cause \in Thread
BY DEF Frame

\* Frames g and f agree in what only field pipelines change, and g lacks
\* nothing that f has accumulated.
Keeps(f, g) ==
    /\ g \in Frame /\ g.payload = f.payload
    /\ g.args_modified = f.args_modified /\ g.result_modified = f.result_modified
    /\ f.taints \cup f.constraints \subseteq g.taints \cup g.constraints

\* EffectOutcome::Continue changes the stack only.
LEMMA ContinueFacts ==
    ASSUME NEW f \in Frame, f.todo # << >>
    PROVE  Keeps(f, Continue(f)) /\ Continue(f).status = f.status /\ Continue(f).cause = f.cause
           /\ Continue(f).todo = Tail(f.todo)
<1>1. Tail(f.todo) \in Seq(Item)
    BY FrameFields, TailFacts
<1>2. Continue(f) \in Frame
    BY <1>1 DEF Continue, Frame
<1> QED
    BY <1>2 DEF Continue, Keeps, Frame

\* Walking a list in place changes the stack only.
LEMMA WalkFacts ==
    ASSUME NEW f \in Frame, f.todo # << >>, NEW list \in Seq(Effect)
    PROVE  Keeps(f, Walk(f, list)) /\ Walk(f, list).status = f.status /\ Walk(f, list).cause = f.cause
           /\ Walk(f, list).todo = Items(list) \o Tail(f.todo)
<1>1. Items(list) \o Tail(f.todo) \in Seq(Item)
    BY FrameFields, TailFacts, ItemsFacts, ConcatFacts
<1>2. Walk(f, list) \in Frame
    BY <1>1 DEF Walk, Frame
<1> QED
    BY <1>2 DEF Walk, Keeps, Frame

\* So do the reactions to a deny.
LEMMA PdpDeniedFacts ==
    ASSUME NEW f \in Frame, f.todo # << >>, NEW n \in Effect, prog \in Program
    PROVE  Keeps(f, PdpDenied(f, n)) /\ PdpDenied(f, n).status = f.status /\ PdpDenied(f, n).cause = f.cause
           /\ PdpDenied(f, n).todo = Items(prog.on_deny[n]) \o <<[effect |-> n, stands |-> TRUE]>> \o Tail(f.todo)
<1> DEFINE new == Items(prog.on_deny[n]) \o <<[effect |-> n, stands |-> TRUE]>> \o Tail(f.todo)
<1>1. new \in Seq(Item)
    BY FrameFields, HoldsType, DeniedFollows DEF Follows
<1>2. PdpDenied(f, n) = [f EXCEPT !.todo = new]
    BY DEF PdpDenied
<1> HIDE DEF new
<1>3. PdpDenied(f, n) \in Frame
    BY <1>1, <1>2 DEF Frame
<1>4. Keeps(f, PdpDenied(f, n)) /\ PdpDenied(f, n).status = f.status /\ PdpDenied(f, n).cause = f.cause
      /\ PdpDenied(f, n).todo = new
    BY <1>2, <1>3 DEF Keeps, Frame
<1> QED
    BY <1>4 DEF new

\* A halt and a suspension keep what was accumulated, and name their cause.
LEMMA StopFacts ==
    ASSUME NEW f \in Frame, NEW n \in Effect
    PROVE  /\ Keeps(f, Halt(f, n)) /\ Halt(f, n).status = "halt" /\ Halt(f, n).cause = n
           /\ Keeps(f, Suspend(f, n)) /\ Suspend(f, n).status = "pending" /\ Suspend(f, n).cause = n
<1>0. n \in Thread
    BY EffectFacts
<1>1. Halt(f, n) \in Frame
    BY <1>0 DEF Halt, Frame
<1>2. Suspend(f, n) \in Frame
    BY <1>0 DEF Suspend, Frame
<1>3. Keeps(f, Halt(f, n)) /\ Halt(f, n).status = "halt" /\ Halt(f, n).cause = n
    BY <1>1 DEF Halt, Keeps, Frame
<1>4. Keeps(f, Suspend(f, n)) /\ Suspend(f, n).status = "pending" /\ Suspend(f, n).cause = n
    BY <1>2 DEF Suspend, Keeps, Frame
<1> QED
    BY <1>3, <1>4

\* A label is added to the accumulator or nothing is.
LEMMA TaintedFacts ==
    ASSUME NEW f \in Frame, NEW n \in Effect, NEW emits \in BOOLEAN
    PROVE  /\ Keeps(f, Tainted(f, n, emits)) /\ Tainted(f, n, emits).status = f.status
           /\ Tainted(f, n, emits).cause = f.cause /\ Tainted(f, n, emits).todo = f.todo
           /\ emits => n \in Tainted(f, n, emits).taints
<1>1. CASE emits
    <2>1. Tainted(f, n, emits) = [f EXCEPT !.taints = @ \cup {n}]
        BY <1>1 DEF Tainted
    <2>2. Tainted(f, n, emits) \in Frame
        BY <2>1 DEF Frame
    <2> QED
        BY <2>1, <2>2 DEF Keeps, Frame
<1>2. CASE ~emits
    BY <1>2 DEF Tainted, Keeps
<1> QED
    BY <1>1, <1>2

\* Frames may be chained.
LEMMA KeepsTrans ==
    ASSUME NEW f, NEW g, NEW h, Keeps(f, g), Keeps(g, h)
    PROVE  Keeps(f, h)
BY DEF Keeps

-----------------------------------------------------------------------------
(* What an effect that is no `parallel:` block may do to its walk.         *)

\* Only walk t moves, and it loses nothing.
Alone(t) ==
    /\ frame' \in [Thread -> Frame] /\ \A u \in Thread \ {t} : frame'[u] = frame[u]
    /\ refused' \in [Thread -> SUBSET Effect] /\ refused[t] \subseteq refused'[t]
    /\ \A u \in Thread \ {t} : refused'[u] = refused[u]
    /\ emitted' \in [Thread -> SUBSET Effect]
    /\ emitted'[t] \subseteq emitted[t] \cup frame'[t].taints \cup frame'[t].constraints
    /\ \A u \in Thread \ {t} : emitted'[u] = emitted[u]
    /\ frame[t].taints \cup frame[t].constraints \subseteq frame'[t].taints \cup frame'[t].constraints
    /\ prog' = prog /\ phase' = phase /\ parent' = parent /\ decision' = decision

Unpiped(t) ==
    /\ frame'[t].payload = frame[t].payload
    /\ frame'[t].args_modified = frame[t].args_modified
    /\ frame'[t].result_modified = frame[t].result_modified

Piped(t) ==
    \E f \in Field, state \in {"rewritten", "removed"} :
        /\ InPhase(f)
        /\ frame'[t].payload = [frame[t].payload EXCEPT ![f] = state]
        /\ frame'[t].args_modified = (frame[t].args_modified \/ f \in ArgsField)
        /\ frame'[t].result_modified = (frame[t].result_modified \/ f \in ResultField)

\* The walk goes on: the effect is replaced by what it holds.
GoesOn(t, L, off, stand) ==
    /\ ~Top(t).stands
    /\ frame'[t].status = "running" /\ frame'[t].cause = frame[t].cause
    /\ Follows(frame[t].todo, frame'[t].todo, L, off, stand, This(t))
    /\ refused'[t] = IF stand THEN refused[t] \cup {This(t)} ELSE refused[t]

Lists(n) == {<< >>, prog.body[n], prog.on_deny[n]}

Goes(t) == \E L \in Lists(This(t)), off \in Int, stand \in BOOLEAN : GoesOn(t, L, off, stand)

Stops(t) ==
    /\ frame'[t].status \in {"halt", "pending"} /\ frame'[t].cause = This(t)
    /\ This(t) \in refused'[t]
    /\ frame'[t].status = "pending" => prog.op[This(t)] = "elicit"

Local(t) == AtItem(t) /\ Alone(t) /\ (Unpiped(t) \/ Piped(t)) /\ (Goes(t) \/ Stops(t))

\* The effect on top of a stack.
LEMMA ItemFacts ==
    ASSUME TypeOK, NEW t \in Thread, frame[t].todo # << >>
    PROVE  /\ frame[t] \in Frame /\ frame[t].todo \in Seq(Item) /\ frame[t].todo # << >>
           /\ Top(t) \in Item /\ Top(t) = frame[t].todo[1] /\ This(t) \in Effect /\ prog \in Program
           /\ 1 \in DOMAIN frame[t].todo /\ EffectAt(t, 1) = This(t)
           /\ DOMAIN frame[t].todo = 1 .. Len(frame[t].todo) /\ Len(frame[t].todo) \in Nat
<1>1. frame[t] \in Frame /\ prog \in Program
    BY DEF TypeOK
<1>2. frame[t].todo \in Seq(Item)
    BY <1>1, FrameFields
<1>3. Top(t) = frame[t].todo[1] /\ frame[t].todo[1] \in Item /\ 1 \in DOMAIN frame[t].todo
      /\ DOMAIN frame[t].todo = 1 .. Len(frame[t].todo) /\ Len(frame[t].todo) \in Nat
    BY <1>2, TailFacts DEF Top
<1> QED
    BY <1>1, <1>2, <1>3 DEF This, Item, EffectAt

\* A walk that ends its effect moves alone and loses nothing.
LEMMA BecomesFacts ==
    ASSUME TypeOK, NEW t \in Thread, AtItem(t), NEW g \in Frame,
           frame[t].taints \cup frame[t].constraints \subseteq g.taints \cup g.constraints,
           NEW refuses \in BOOLEAN, NEW emits \in BOOLEAN, emits => This(t) \in g.taints \cup g.constraints,
           Becomes(t, g, refuses, emits)
    PROVE  Alone(t) /\ frame'[t] = g /\ refused'[t] = IF refuses THEN refused[t] \cup {This(t)} ELSE refused[t]
<1>1. This(t) \in Effect
    BY ItemFacts DEF AtItem
<1>2. frame'[t] = g /\ frame' \in [Thread -> Frame] /\ \A u \in Thread \ {t} : frame'[u] = frame[u]
    BY DEF TypeOK, Becomes
<1>3. /\ refused' \in [Thread -> SUBSET Effect]
      /\ refused'[t] = IF refuses THEN refused[t] \cup {This(t)} ELSE refused[t]
      /\ \A u \in Thread \ {t} : refused'[u] = refused[u]
    BY <1>1 DEF TypeOK, Becomes
<1>4. /\ emitted' \in [Thread -> SUBSET Effect]
      /\ emitted'[t] = IF emits THEN emitted[t] \cup {This(t)} ELSE emitted[t]
      /\ \A u \in Thread \ {t} : emitted'[u] = emitted[u]
    BY <1>1 DEF TypeOK, Becomes
<1>5. prog' = prog /\ phase' = phase /\ parent' = parent /\ decision' = decision
    BY DEF Becomes
<1> QED
    BY <1>2, <1>3, <1>4, <1>5 DEF Alone

\* An effect that passes.
LEMMA PassFacts ==
    ASSUME TypeOK, NEW t \in Thread, AtItem(t), ~Top(t).stands,
           NEW f \in Frame, f.status = "running", f.cause = frame[t].cause, f.todo = frame[t].todo,
           frame[t].taints \cup frame[t].constraints \subseteq f.taints \cup f.constraints,
           NEW emits \in BOOLEAN, emits => This(t) \in f.taints \cup f.constraints,
           Becomes(t, Continue(f), FALSE, emits)
    PROVE  Alone(t) /\ Goes(t) /\ frame'[t] = Continue(f)
<1>1. frame[t].todo \in Seq(Item) /\ frame[t].todo # << >>
    BY ItemFacts DEF AtItem
<1>2. /\ Keeps(f, Continue(f)) /\ Continue(f).status = "running" /\ Continue(f).cause = frame[t].cause
      /\ Continue(f).todo = Tail(frame[t].todo)
    BY <1>1, ContinueFacts
<1>3. /\ Continue(f) \in Frame
      /\ f.taints \cup f.constraints \subseteq Continue(f).taints \cup Continue(f).constraints
    BY <1>2 DEF Keeps
<1>4. Alone(t) /\ frame'[t] = Continue(f) /\ refused'[t] = refused[t]
    <2>1. frame[t].taints \cup frame[t].constraints \subseteq Continue(f).taints \cup Continue(f).constraints
        BY <1>3
    <2>2. emits => This(t) \in Continue(f).taints \cup Continue(f).constraints
        BY <1>3
    <2> QED
        BY <1>3, <2>1, <2>2, BecomesFacts
<1>5. GoesOn(t, << >>, -1, FALSE)
    BY <1>1, <1>2, <1>4, TailFollows DEF GoesOn
<1>6. Goes(t)
    <2>1. << >> \in Lists(This(t)) /\ -1 \in Int /\ FALSE \in BOOLEAN
        BY DEF Lists
    <2> QED
        BY <1>5, <2>1, Zenon DEF Goes
<1> QED
    BY <1>4, <1>6

\* An effect that is replaced by a list.
LEMMA WalksFacts ==
    ASSUME TypeOK, NEW t \in Thread, AtItem(t), ~Top(t).stands,
           NEW L \in {prog.body[This(t)], prog.on_deny[This(t)]},
           Becomes(t, Walk(frame[t], L), FALSE, FALSE)
    PROVE  Local(t)
<1>1. frame[t].todo \in Seq(Item) /\ frame[t].todo # << >> /\ frame[t] \in Frame
      /\ This(t) \in Effect /\ prog \in Program
    BY ItemFacts DEF AtItem
<1>2. L \in Seq(Effect)
    BY <1>1, HoldsType
<1> DEFINE g == Walk(frame[t], L)
<1>3. /\ Keeps(frame[t], g) /\ g.status = "running" /\ g.cause = frame[t].cause
      /\ g.todo = Items(L) \o Tail(frame[t].todo)
    BY <1>1, <1>2, WalkFacts DEF AtItem
<1> HIDE DEF g
<1>4. Alone(t) /\ frame'[t] = g /\ refused'[t] = refused[t]
    <2>1. g \in Frame /\ frame[t].taints \cup frame[t].constraints \subseteq g.taints \cup g.constraints
        BY <1>3 DEF Keeps
    <2>2. Becomes(t, g, FALSE, FALSE)
        BY DEF g
    <2> QED
        BY <2>1, <2>2, BecomesFacts
<1>5. GoesOn(t, L, Len(L) - 1, FALSE)
    BY <1>1, <1>2, <1>3, <1>4, WalkFollows DEF GoesOn
<1>6. Goes(t)
    <2>1. Len(L) - 1 \in Int
        BY <1>2, LenProperties
    <2> QED
        BY <1>5, <2>1 DEF Goes, Lists
<1> QED
    BY <1>3, <1>4, <1>6 DEF Local, Unpiped, Keeps

\* An effect that refuses, or a deny that stands.
LEMMA StopsFacts ==
    ASSUME TypeOK, NEW t \in Thread, AtItem(t),
           NEW f, Keeps(frame[t], f), NEW g \in {Halt(f, This(t)), Suspend(f, This(t))},
           g = Suspend(f, This(t)) => prog.op[This(t)] = "elicit",
           NEW refuses \in BOOLEAN, refuses \/ This(t) \in refused[t],
           NEW emits \in BOOLEAN, emits => This(t) \in f.taints \cup f.constraints,
           Becomes(t, g, refuses, emits)
    PROVE  Local(t)
<1>1. This(t) \in Effect
    BY ItemFacts DEF AtItem
<1>2. f \in Frame
    BY DEF Keeps
<1>3. Keeps(f, g) /\ g.cause = This(t) /\ g.status \in {"halt", "pending"}
      /\ (g.status = "pending" => prog.op[This(t)] = "elicit")
    <2>1. CASE g = Halt(f, This(t))
        BY <1>1, <1>2, <2>1, StopFacts
    <2>2. CASE g = Suspend(f, This(t))
        BY <1>1, <1>2, <2>2, StopFacts
    <2> QED
        BY <2>1, <2>2
<1>4. Keeps(frame[t], g)
    BY <1>3, KeepsTrans
<1>5. Alone(t) /\ frame'[t] = g /\ This(t) \in refused'[t]
    <2>1. g \in Frame /\ frame[t].taints \cup frame[t].constraints \subseteq g.taints \cup g.constraints
        BY <1>4 DEF Keeps
    <2>2. emits => This(t) \in g.taints \cup g.constraints
        BY <1>3 DEF Keeps
    <2>3. CASE refuses
        <3>1. Becomes(t, g, TRUE, emits)
            BY <2>3
        <3>2. Alone(t) /\ frame'[t] = g /\ refused'[t] = refused[t] \cup {This(t)}
            <4>1. CASE emits
                <5>1. Becomes(t, g, TRUE, TRUE)
                    BY <3>1, <4>1
                <5> QED
                    BY <2>1, <2>2, <4>1, <5>1, BecomesFacts
            <4>2. CASE ~emits
                <5>1. Becomes(t, g, TRUE, FALSE)
                    BY <3>1, <4>2
                <5> QED
                    BY <2>1, <2>2, <5>1, BecomesFacts
            <4> QED
                BY <4>1, <4>2
        <3> QED
            BY <3>2
    <2>4. CASE ~refuses
        <3>1. Becomes(t, g, FALSE, emits)
            BY <2>4
        <3>2. Alone(t) /\ frame'[t] = g /\ refused'[t] = refused[t]
            <4>1. CASE emits
                <5>1. Becomes(t, g, FALSE, TRUE) /\ This(t) \in g.taints \cup g.constraints
                    BY <2>2, <3>1, <4>1
                <5> QED
                    BY <2>1, <5>1, BecomesFacts
            <4>2. CASE ~emits
                <5>1. Becomes(t, g, FALSE, FALSE)
                    BY <3>1, <4>2
                <5> QED
                    BY <2>1, <5>1, BecomesFacts
            <4> QED
                BY <4>1, <4>2
        <3> QED
            BY <2>4, <3>2
    <2> QED
        BY <2>3, <2>4
<1>6. Stops(t)
    BY <1>3, <1>5 DEF Stops
<1> QED
    BY <1>4, <1>5, <1>6 DEF Local, Unpiped, Keeps

\* A rewritten field raises the flag of its side and changes nothing else.
LEMMA RewriteFacts ==
    ASSUME NEW g \in Frame, NEW f \in Field, NEW state \in {"rewritten", "removed"}
    PROVE  LET r == Rewrite(g, f, state)
           IN  /\ r \in Frame /\ r.status = g.status /\ r.cause = g.cause /\ r.todo = g.todo
               /\ r.taints = g.taints /\ r.constraints = g.constraints
               /\ r.payload = [g.payload EXCEPT ![f] = state]
               /\ r.args_modified = (g.args_modified \/ f \in ArgsField)
               /\ r.result_modified = (g.result_modified \/ f \in ResultField)
<1> DEFINE pay == [g.payload EXCEPT ![f] = state]
           am == g.args_modified \/ f \in ArgsField
           rm == g.result_modified \/ f \in ResultField
<1>1. pay \in [Field -> FieldState] /\ am \in BOOLEAN /\ rm \in BOOLEAN
    BY FrameFields DEF FieldState
<1>2. Rewrite(g, f, state) = [g EXCEPT !.payload = pay, !.args_modified = am, !.result_modified = rm]
    BY DEF Rewrite
<1> HIDE DEF pay, am, rm
<1>3. [g EXCEPT !.payload = pay, !.args_modified = am, !.result_modified = rm] \in Frame
    BY <1>1 DEF Frame
<1>4. LET r == [g EXCEPT !.payload = pay, !.args_modified = am, !.result_modified = rm]
      IN  /\ r.status = g.status /\ r.cause = g.cause /\ r.todo = g.todo
          /\ r.taints = g.taints /\ r.constraints = g.constraints
          /\ r.payload = pay /\ r.args_modified = am /\ r.result_modified = rm
    BY DEF Frame
<1> QED
    BY <1>2, <1>3, <1>4 DEF pay, am, rm

\* The labels of a pipeline are recorded once it has run; in which order makes
\* no difference to the frame.
LEMMA TaintedContinue ==
    ASSUME NEW f \in Frame, NEW n \in Effect, NEW emits \in BOOLEAN
    PROVE  /\ Tainted(Continue(f), n, emits) = Continue(Tainted(f, n, emits))
           /\ Tainted(Halt(f, n), n, emits) = Halt(Tainted(f, n, emits), n)
<1>1. CASE emits
    BY <1>1 DEF Tainted, Continue, Halt, Frame
<1>2. CASE ~emits
    BY <1>2 DEF Tainted
<1> QED
    BY <1>1, <1>2

\* A field pipeline passes, rewrites a field of the current phase or denies.
LEMMA FieldOpLocal ==
    ASSUME TypeOK, NEW t \in Thread, FieldOp(t)
    PROVE  Local(t)
<1>1. AtItem(t) /\ ~Top(t).stands
    BY DEF FieldOp, At
<1>2. frame[t] \in Frame /\ This(t) \in Effect /\ prog \in Program /\ frame[t].status = "running"
    BY <1>1, ItemFacts DEF AtItem
<1> DEFINE f == prog.field[This(t)]
<1>3. f \in Field
    BY <1>2 DEF Program
<1>4. CASE InPhase(f) /\ frame[t].payload[f] \in {"original", "rewritten"}
    <2>1. PICK outcome \in {"pass", "replace", "omit", "deny"}, emits \in BOOLEAN :
            Becomes(t, Tainted(FieldOutcome(t, outcome), This(t), emits), outcome = "deny", emits)
        BY <1>4 DEF FieldOp
    <2>2. CASE outcome = "pass"
        <3> DEFINE g == Tainted(frame[t], This(t), emits)
        <3>1. Keeps(frame[t], g) /\ g.status = "running" /\ g.cause = frame[t].cause /\ g.todo = frame[t].todo
              /\ (emits => This(t) \in g.taints)
            BY <1>2, TaintedFacts
        <3>2. Becomes(t, Continue(g), FALSE, emits)
            <4>1. FieldOutcome(t, outcome) = Continue(frame[t])
                BY <2>2 DEF FieldOutcome
            <4>2. (outcome = "deny") = FALSE
                BY <2>2
            <4> QED
                BY <1>2, <2>1, <4>1, <4>2, TaintedContinue
        <3> HIDE DEF g
        <3>3. g \in Frame /\ frame[t].taints \cup frame[t].constraints \subseteq g.taints \cup g.constraints
            BY <3>1 DEF Keeps
        <3>4. Alone(t) /\ Goes(t) /\ frame'[t] = Continue(g)
            BY <1>1, <3>1, <3>2, <3>3, PassFacts
        <3>5. Keeps(g, Continue(g))
            BY <1>1, <3>1, <3>3, ContinueFacts DEF AtItem
        <3> QED
            BY <1>1, <3>1, <3>4, <3>5 DEF Local, Unpiped, Keeps
    <2>3. CASE outcome \in {"replace", "omit"}
        <3> DEFINE state == IF outcome = "replace" THEN "rewritten" ELSE "removed"
                   r == Rewrite(frame[t], f, state)
                   g == Tainted(r, This(t), emits)
        <3>1. state \in {"rewritten", "removed"}
            OBVIOUS
        <3>2. FieldOutcome(t, outcome) = Continue(r)
            BY <2>3 DEF FieldOutcome
        <3>3. /\ r \in Frame /\ r.status = "running" /\ r.cause = frame[t].cause /\ r.todo = frame[t].todo
              /\ r.taints = frame[t].taints /\ r.constraints = frame[t].constraints
              /\ r.payload = [frame[t].payload EXCEPT ![f] = state]
              /\ r.args_modified = (frame[t].args_modified \/ f \in ArgsField)
              /\ r.result_modified = (frame[t].result_modified \/ f \in ResultField)
            BY <1>2, <1>3, <3>1, RewriteFacts
        <3> HIDE DEF r, state, f
        <3>4. Keeps(r, g) /\ g.status = "running" /\ g.cause = frame[t].cause /\ g.todo = frame[t].todo
              /\ (emits => This(t) \in g.taints)
            BY <1>2, <3>3, TaintedFacts
        <3>5. Becomes(t, Continue(g), FALSE, emits)
            <4>2. (outcome = "deny") = FALSE
                BY <2>3
            <4> QED
                BY <1>2, <2>1, <3>2, <3>3, <4>2, TaintedContinue
        <3> HIDE DEF g
        <3>6. g \in Frame /\ frame[t].taints \cup frame[t].constraints \subseteq g.taints \cup g.constraints
            BY <3>3, <3>4 DEF Keeps
        <3>7. Alone(t) /\ Goes(t) /\ frame'[t] = Continue(g)
            BY <1>1, <3>4, <3>5, <3>6, PassFacts
        <3>8. Keeps(g, Continue(g))
            BY <1>1, <3>4, <3>6, ContinueFacts DEF AtItem
        <3>9. Keeps(r, frame'[t])
            BY <3>4, <3>7, <3>8, KeepsTrans
        <3>10. Piped(t)
            BY <1>3, <1>4, <3>1, <3>3, <3>9 DEF Piped, Keeps
        <3> QED
            BY <1>1, <3>7, <3>10 DEF Local
    <2>4. CASE outcome = "deny"
        <3> DEFINE g == Tainted(frame[t], This(t), emits)
        <3>1. Keeps(frame[t], g) /\ (emits => This(t) \in g.taints \cup g.constraints)
            BY <1>2, TaintedFacts
        <3>2. Becomes(t, Halt(g, This(t)), TRUE, emits)
            <4>1. FieldOutcome(t, outcome) = Halt(frame[t], This(t))
                BY <2>4 DEF FieldOutcome
            <4> QED
                BY <1>2, <2>1, <2>4, <4>1, TaintedContinue
        <3> HIDE DEF g
        <3>3. Halt(g, This(t)) # Suspend(g, This(t))
            <4>1. g \in Frame
                BY <3>1 DEF Keeps
            <4> QED
                BY <1>2, <4>1, StopFacts
        <3> QED
            BY <1>1, <3>1, <3>2, <3>3, StopsFacts
    <2> QED
        BY <2>2, <2>3, <2>4
<1>5. CASE ~(InPhase(f) /\ frame[t].payload[f] \in {"original", "rewritten"})
    <2>1. Becomes(t, Continue(frame[t]), FALSE, FALSE)
        BY <1>5 DEF FieldOp
    <2>2. Alone(t) /\ Goes(t) /\ frame'[t] = Continue(frame[t])
        BY <1>1, <1>2, <2>1, PassFacts
    <2>3. Keeps(frame[t], Continue(frame[t]))
        BY <1>1, <1>2, ContinueFacts DEF AtItem
    <2> QED
        BY <1>1, <2>2, <2>3 DEF Local, Unpiped, Keeps
<1> QED
    BY <1>4, <1>5

\* An effect that only accumulates is local to its walk.
LEMMA PassLocal ==
    ASSUME TypeOK, NEW t \in Thread, AtItem(t), ~Top(t).stands,
           NEW f, Keeps(frame[t], f), f.status = frame[t].status, f.cause = frame[t].cause, f.todo = frame[t].todo,
           NEW emits \in BOOLEAN, emits => This(t) \in f.taints \cup f.constraints,
           Becomes(t, Continue(f), FALSE, emits)
    PROVE  Local(t)
<1>1. f \in Frame /\ frame[t].taints \cup frame[t].constraints \subseteq f.taints \cup f.constraints
    BY DEF Keeps
<1>2. f.status = "running" /\ f.todo # << >>
    BY DEF AtItem
<1>3. Alone(t) /\ Goes(t) /\ frame'[t] = Continue(f)
    BY <1>1, <1>2, PassFacts
<1>4. Keeps(frame[t], Continue(f))
    BY <1>1, <1>2, ContinueFacts, KeepsTrans
<1> QED
    BY <1>3, <1>4 DEF Local, Unpiped, Keeps

\* A frame keeps what it has.
LEMMA KeepsSelf ==
    ASSUME TypeOK, NEW t \in Thread
    PROVE  Keeps(frame[t], frame[t])
BY DEF Keeps, TypeOK

\* An effect that refuses is local to its walk.
LEMMA HaltLocal ==
    ASSUME TypeOK, NEW t \in Thread, AtItem(t),
           NEW f, Keeps(frame[t], f),
           NEW emits \in BOOLEAN, emits => This(t) \in f.taints \cup f.constraints,
           Becomes(t, Halt(f, This(t)), TRUE, emits)
    PROVE  Local(t)
<1>1. f \in Frame /\ This(t) \in Effect
    BY ItemFacts DEF AtItem, Keeps
<1>2. Halt(f, This(t)) # Suspend(f, This(t))
    BY <1>1, StopFacts
<1> QED
    BY <1>2, StopsFacts

\* The effects that hold no list are local to their walk.
LEMMA BasicLocal ==
    ASSUME TypeOK, NEW t \in Thread,
           Allow(t) \/ Deny(t) \/ Plugin(t) \/ Delegate(t) \/ Taint(t) \/ RestrictEffect(t)
    PROVE  Local(t)
<1>0. AtItem(t) /\ ~Top(t).stands
    BY DEF Allow, Deny, Plugin, Delegate, Taint, RestrictEffect, At
<1>1. frame[t] \in Frame /\ This(t) \in Effect /\ Keeps(frame[t], frame[t])
    BY <1>0, ItemFacts, KeepsSelf DEF AtItem
<1>2. ASSUME NEW emits \in BOOLEAN
      PROVE  LET f == Tainted(frame[t], This(t), emits)
             IN  /\ Keeps(frame[t], f) /\ f.status = frame[t].status /\ f.cause = frame[t].cause
                 /\ f.todo = frame[t].todo /\ (emits => This(t) \in f.taints \cup f.constraints)
    BY <1>1, TaintedFacts
<1>3. CASE Allow(t)
    BY <1>0, <1>1, <1>3, PassLocal DEF Allow
<1>4. CASE Deny(t)
    BY <1>0, <1>1, <1>4, HaltLocal DEF Deny
<1>5. CASE Plugin(t)
    <2>1. PICK answer \in {"allow", "deny", "error"}, emits \in BOOLEAN :
            LET f == Tainted(frame[t], This(t), emits)
            IN  Becomes(t, IF answer = "allow" THEN Continue(f) ELSE Halt(f, This(t)), answer # "allow", emits)
        BY <1>5 DEF Plugin
    <2> DEFINE f == Tainted(frame[t], This(t), emits)
    <2>2. /\ Keeps(frame[t], f) /\ f.status = frame[t].status /\ f.cause = frame[t].cause
          /\ f.todo = frame[t].todo /\ (emits => This(t) \in f.taints \cup f.constraints)
        BY <1>2
    <2>3. CASE answer = "allow"
        <3>1. Becomes(t, Continue(f), FALSE, emits)
            BY <2>1, <2>3
        <3> HIDE DEF f
        <3> QED
            BY <1>0, <2>2, <3>1, PassLocal
    <2>4. CASE answer # "allow"
        <3>1. Becomes(t, Halt(f, This(t)), TRUE, emits)
            BY <2>1, <2>4
        <3> HIDE DEF f
        <3> QED
            BY <1>0, <2>2, <3>1, HaltLocal
    <2> QED
        BY <2>3, <2>4
<1>6. CASE Delegate(t)
    <2> DEFINE granted == [frame[t] EXCEPT !.bag = @ \cup {Granted}]
               lenient == This(t) \in prog.lenient
    <2>1. PICK answer \in {"allow", "deny", "error"} :
            Becomes(t, IF answer = "allow" THEN Continue(granted)
                       ELSE IF lenient THEN Continue(frame[t])
                       ELSE Halt(frame[t], This(t)), answer # "allow" /\ ~lenient, FALSE)
        BY <1>6 DEF Delegate
    <2>2. /\ Keeps(frame[t], granted) /\ granted.status = frame[t].status /\ granted.cause = frame[t].cause
          /\ granted.todo = frame[t].todo
        <3>1. granted \in Frame
            BY <1>1, EvaluatorAssumption DEF Frame
        <3> QED
            BY <1>1, <3>1 DEF Keeps, Frame
    <2> HIDE DEF granted, lenient
    <2>3. CASE answer = "allow"
        <3>1. Becomes(t, Continue(granted), FALSE, FALSE)
            BY <2>1, <2>3
        <3> QED
            BY <1>0, <2>2, <3>1, PassLocal
    <2>4. CASE answer # "allow" /\ lenient
        <3>1. Becomes(t, Continue(frame[t]), FALSE, FALSE)
            BY <2>1, <2>4
        <3> QED
            BY <1>0, <1>1, <3>1, PassLocal
    <2>5. CASE answer # "allow" /\ ~lenient
        <3>1. Becomes(t, Halt(frame[t], This(t)), TRUE, FALSE)
            BY <2>1, <2>5
        <3> QED
            BY <1>0, <1>1, <3>1, HaltLocal
    <2> QED
        BY <2>3, <2>4, <2>5
<1>7. CASE Taint(t)
    <2> DEFINE f == Tainted(frame[t], This(t), TRUE)
    <2>1. Becomes(t, Continue(f), FALSE, TRUE)
        BY <1>7 DEF Taint
    <2>2. /\ Keeps(frame[t], f) /\ f.status = frame[t].status /\ f.cause = frame[t].cause
          /\ f.todo = frame[t].todo /\ This(t) \in f.taints \cup f.constraints
        BY <1>2
    <2> HIDE DEF f
    <2> QED
        BY <1>0, <2>1, <2>2, PassLocal
<1>8. CASE RestrictEffect(t)
    <2>1. PICK resolved \in {"constraint", "empty", "error"} :
            LET f == [frame[t] EXCEPT !.constraints = IF resolved = "constraint" THEN @ \cup {This(t)} ELSE @]
            IN  Becomes(t, IF resolved = "error" THEN Halt(f, This(t)) ELSE Continue(f),
                        resolved = "error", resolved = "constraint")
        BY <1>8 DEF RestrictEffect
    <2> DEFINE more == IF resolved = "constraint" THEN frame[t].constraints \cup {This(t)} ELSE frame[t].constraints
               f == [frame[t] EXCEPT !.constraints = more]
    <2>2. more \in SUBSET Effect /\ frame[t].constraints \subseteq more /\ (resolved = "constraint" => This(t) \in more)
        BY <1>1, FrameFields
    <2>3. Becomes(t, IF resolved = "error" THEN Halt(f, This(t)) ELSE Continue(f),
                  resolved = "error", resolved = "constraint")
        BY <2>1
    <2> HIDE DEF more
    <2>4. f \in Frame
        BY <1>1, <2>2 DEF Frame
    <2>5. /\ f.status = frame[t].status /\ f.cause = frame[t].cause /\ f.todo = frame[t].todo
          /\ f.constraints = more /\ f.taints = frame[t].taints /\ f.payload = frame[t].payload
          /\ f.args_modified = frame[t].args_modified /\ f.result_modified = frame[t].result_modified
        BY <1>1 DEF Frame
    <2> HIDE DEF f
    <2>6. Keeps(frame[t], f)
        BY <2>2, <2>4, <2>5 DEF Keeps
    <2>7. CASE resolved = "constraint"
        <3>1. Becomes(t, Continue(f), FALSE, TRUE)
            BY <2>3, <2>7
        <3> QED
            BY <1>0, <2>2, <2>5, <2>6, <2>7, <3>1, PassLocal
    <2>8. CASE resolved = "empty"
        <3>1. Becomes(t, Continue(f), FALSE, FALSE)
            BY <2>3, <2>8
        <3> QED
            BY <1>0, <2>5, <2>6, <3>1, PassLocal
    <2>9. CASE resolved = "error"
        <3>1. Becomes(t, Halt(f, This(t)), TRUE, FALSE)
            BY <2>3, <2>9
        <3> QED
            BY <1>0, <2>6, <3>1, HaltLocal
    <2> QED
        BY <2>7, <2>8, <2>9
<1> QED
    BY <1>3, <1>4, <1>5, <1>6, <1>7, <1>8

\* So is an elicitation, the only effect that suspends a walk.
LEMMA ElicitLocal ==
    ASSUME TypeOK, NEW t \in Thread, Elicit(t)
    PROVE  Local(t)
<1>0. AtItem(t) /\ ~Top(t).stands /\ prog.op[This(t)] = "elicit"
    BY DEF Elicit, At
<1>1. frame[t] \in Frame /\ This(t) \in Effect /\ Keeps(frame[t], frame[t])
    BY <1>0, ItemFacts, KeepsSelf DEF AtItem
<1>2. PICK answer \in {"approved", "denied", "failed", "pending"} :
          LET lenient == answer = "failed" /\ This(t) \in prog.lenient
          IN  Becomes(t, IF answer = "approved" \/ lenient THEN Continue(frame[t])
                         ELSE IF answer = "pending" THEN Suspend(frame[t], This(t))
                         ELSE Halt(frame[t], This(t)),
                      answer # "approved" /\ ~lenient, FALSE)
    BY DEF Elicit
<1>3. CASE answer = "approved" \/ (answer = "failed" /\ This(t) \in prog.lenient)
    <2>1. Becomes(t, Continue(frame[t]), FALSE, FALSE)
        BY <1>2, <1>3
    <2> QED
        BY <1>0, <1>1, <2>1, PassLocal
<1>4. CASE answer = "pending"
    <2>1. Becomes(t, Suspend(frame[t], This(t)), TRUE, FALSE)
        BY <1>2, <1>4
    <2> QED
        BY <1>0, <1>1, <2>1, StopsFacts
<1>5. CASE answer \notin {"approved", "pending"} /\ ~(answer = "failed" /\ This(t) \in prog.lenient)
    <2>1. Becomes(t, Halt(frame[t], This(t)), TRUE, FALSE)
        BY <1>2, <1>5
    <2> QED
        BY <1>0, <1>1, <2>1, HaltLocal
<1> QED
    BY <1>3, <1>4, <1>5

\* So are the effects that are walked in place, and the deny that stands.
LEMMA NestedLocal ==
    ASSUME TypeOK, NEW t \in Thread, TodoInv(t), Sequential(t) \/ When(t) \/ Pdp(t) \/ PdpDenyStands(t)
    PROVE  Local(t)
<1>0. AtItem(t) /\ (~PdpDenyStands(t) => ~Top(t).stands)
    BY DEF Sequential, When, Pdp, PdpDenyStands, At
<1>1. frame[t] \in Frame /\ This(t) \in Effect /\ Keeps(frame[t], frame[t]) /\ prog \in Program
      /\ frame[t].todo \in Seq(Item) /\ frame[t].todo # << >>
    BY <1>0, ItemFacts, KeepsSelf DEF AtItem
<1>2. CASE Sequential(t)
    BY <1>0, <1>2, WalksFacts DEF Sequential, At
<1>3. CASE When(t)
    <2>0. ~Top(t).stands
        BY <1>3 DEF When, At
    <2>1. CASE prog.key[This(t)] \in frame[t].bag
        <3>1. Becomes(t, Walk(frame[t], prog.body[This(t)]), FALSE, FALSE)
            BY <1>3, <2>1 DEF When
        <3> QED
            BY <1>0, <2>0, <3>1, WalksFacts
    <2>2. CASE prog.key[This(t)] \notin frame[t].bag
        <3>1. Becomes(t, Continue(frame[t]), FALSE, FALSE)
            BY <1>3, <2>2 DEF When
        <3> QED
            BY <1>0, <1>1, <2>0, <3>1, PassLocal
    <2> QED
        BY <2>1, <2>2
<1>4. CASE Pdp(t)
    <2>0. ~Top(t).stands
        BY <1>4 DEF Pdp, At
    <2>1. PICK answer \in {"allow", "deny", "error"} :
             Becomes(t, CASE answer = "allow" -> Walk(frame[t], prog.body[This(t)])
                          [] answer = "deny" -> PdpDenied(frame[t], This(t))
                          [] answer = "error" -> Halt(frame[t], This(t)), answer # "allow", FALSE)
        BY <1>4 DEF Pdp
    <2>2. CASE answer = "allow"
        <3>1. Becomes(t, Walk(frame[t], prog.body[This(t)]), FALSE, FALSE)
            BY <2>1, <2>2
        <3> QED
            BY <1>0, <2>0, <3>1, WalksFacts
    <2>3. CASE answer = "deny"
        <3> DEFINE g == PdpDenied(frame[t], This(t))
                   L == prog.on_deny[This(t)]
        <3>1. Becomes(t, g, TRUE, FALSE)
            BY <2>1, <2>3
        <3>2. /\ Keeps(frame[t], g) /\ g.status = frame[t].status /\ g.cause = frame[t].cause
              /\ g.todo = Items(L) \o <<[effect |-> This(t), stands |-> TRUE]>> \o Tail(frame[t].todo)
            BY <1>1, PdpDeniedFacts
        <3>3. L \in Seq(Effect) /\ Len(L) \in Int
            BY <1>1, HoldsType, LenProperties
        <3> HIDE DEF g
        <3>4. g \in Frame /\ frame[t].taints \cup frame[t].constraints \subseteq g.taints \cup g.constraints
            BY <3>2 DEF Keeps
        <3>5. Alone(t) /\ frame'[t] = g /\ refused'[t] = refused[t] \cup {This(t)}
            BY <1>0, <3>1, <3>4, BecomesFacts
        <3> HIDE DEF L
        <3>6. GoesOn(t, L, Len(L), TRUE)
            <4>1. Follows(frame[t].todo, frame'[t].todo, L, Len(L), TRUE, This(t))
                BY <1>1, <3>2, <3>3, <3>5, DeniedFollows
            <4> QED
                BY <1>0, <2>0, <3>2, <3>5, <4>1 DEF GoesOn, AtItem
        <3>7. Goes(t)
            <4>1. L \in Lists(This(t)) /\ TRUE \in BOOLEAN
                BY DEF Lists, L
            <4> QED
                BY <3>3, <3>6, <4>1, Zenon DEF Goes
        <3> QED
            BY <1>0, <3>2, <3>5, <3>7 DEF Local, Unpiped, Keeps
    <2>4. CASE answer = "error"
        <3>1. Becomes(t, Halt(frame[t], This(t)), TRUE, FALSE)
            BY <2>1, <2>4
        <3> QED
            BY <1>0, <1>1, <3>1, HaltLocal
    <2> QED
        BY <2>2, <2>3, <2>4
<1>5. CASE PdpDenyStands(t)
    <2>1. Top(t).stands /\ Becomes(t, Halt(frame[t], This(t)), FALSE, FALSE)
        BY <1>5 DEF PdpDenyStands
    <2>2. This(t) \in refused[t]
        <3>1. Top(t) = frame[t].todo[1] /\ 1 \in DOMAIN frame[t].todo /\ EffectAt(t, 1) = This(t)
            BY <1>1, ItemFacts
        <3> QED
            BY <1>0, <2>1, <3>1 DEF TodoInv, Active, AtItem
    <2>3. Halt(frame[t], This(t)) # Suspend(frame[t], This(t))
        BY <1>1, StopFacts
    <2> QED
        BY <1>0, <1>1, <2>1, <2>2, <2>3, StopsFacts
<1> QED
    BY <1>2, <1>3, <1>4, <1>5

-----------------------------------------------------------------------------
(* A step of one walk leaves the others standing.                          *)

\* Halted walks stay as they are.
HaltsStand ==
    \A x \in Thread : frame[x].status = "halt" =>
        frame'[x] = frame[x] /\ refused[x] \subseteq refused'[x] /\ (x \in Effect => parent'[x] = parent[x])

\* A walk whose frame does not move keeps its invariant.
LEMMA OtherWalk ==
    ASSUME TypeOK, NEW u \in Thread, WalkInv(u), prog' = prog,
           frame'[u] = frame[u], refused'[u] = refused[u], emitted'[u] = emitted[u], Kept(u) \subseteq Kept(u)',
           HaltsStand,
           \A b \in Effect : frame[b].status # "idle" => frame'[b].status # "idle" /\ parent'[b] = parent[b]
    PROVE  WalkInv(u)'
<1>1. BlockInv(u)'
    <2> SUFFICES ASSUME frame[u].status = "joining" PROVE BlockInv(u)'
        BY DEF BlockInv
    <2>1. /\ frame[u].todo # << >> /\ ~Top(u).stands /\ prog.op[This(u)] = "parallel"
          /\ \A b \in Range(prog.body[This(u)]) : frame[b].status # "idle" /\ parent[b] = u
        BY DEF WalkInv, BlockInv
    <2>2. This(u) \in Effect /\ prog \in Program
        BY <2>1, ItemFacts
    <2>3. \A b \in Range(prog.body[This(u)]) : b \in Effect
        BY <2>2, HoldsType DEF Holds
    <2>4. \A b \in Range(prog.body[This(u)]) : frame'[b].status # "idle" /\ parent'[b] = u
        BY <2>1, <2>3
    <2> QED
        BY <2>1, <2>4 DEF BlockInv, Top, This
<1>2. TodoInv(u)'
    BY DEF WalkInv, TodoInv, Active, EffectAt
<1>3. RefusedInv(u)'
    BY DEF WalkInv, RefusedInv, Active
<1>4. CauseInv(u)'
    <2> SUFFICES ASSUME frame[u].status = "halt" PROVE CauseInv(u)'
        BY DEF CauseInv
    <2>1. PICK S \in SUBSET Thread : Explains(u, S)
        BY DEF WalkInv, CauseInv
    <2>2. PICK x \in S : frame[u].cause \in refused[x]
        BY <2>1 DEF Explains
    <2>3. frame'[u].cause \in refused'[x]
        BY <2>1, <2>2 DEF Explains, HaltsStand
    <2>4. \A y \in S : frame'[y].status = "halt" /\ (y # u => y \in Effect /\ parent'[y] \in S)
        BY <2>1 DEF Explains, HaltsStand
    <2>5. Explains(u, S)'
        BY <2>1, <2>2, <2>3, <2>4 DEF Explains
    <2> QED
        BY <2>5 DEF CauseInv
<1>5. (emitted[u] \subseteq Kept(u))'
    BY DEF WalkInv
<1> QED
    BY <1>1, <1>2, <1>3, <1>4, <1>5 DEF WalkInv

\* A branch is spawned by a walk with a smaller number.
LEMMA ParentType ==
    ASSUME TypeOK, NEW b \in Effect, BranchInv(b)
    PROVE  /\ b \in Thread /\ b # Root /\ b \in Nat
           /\ parent[b] \in Thread /\ parent[b] \in Nat /\ parent[b] < b /\ parent[b] # b
<1>1. b \in Thread /\ b # Root /\ b \in Nat
    BY EffectFacts
<1>2. parent[b] \in Thread
    BY DEF TypeOK
<1>3. parent[b] \in Nat
    BY <1>2, EffectFacts
<1>4. parent[b] < b
    BY DEF BranchInv
<1> QED
    BY <1>1, <1>2, <1>3, <1>4

\* What a walk waits for are the effects of its block.
LEMMA AwaitsType ==
    ASSUME TypeOK, NEW t \in Thread, WalkInv(t), frame[t].status = "joining"
    PROVE  /\ This(t) \in Effect /\ frame[t].todo # << >> /\ ~Top(t).stands /\ prog.op[This(t)] = "parallel"
           /\ Range(prog.body[This(t)]) \subseteq Effect /\ Range(prog.body[This(t)]) \subseteq Thread
<1>1. frame[t].todo # << >> /\ ~Top(t).stands /\ prog.op[This(t)] = "parallel"
    BY DEF WalkInv, BlockInv
<1>2. This(t) \in Effect /\ prog \in Program
    BY <1>1, ItemFacts
<1>3. Range(prog.body[This(t)]) \subseteq Effect
    BY <1>2, HoldsType DEF Holds
<1> QED
    BY <1>1, <1>2, <1>3, EffectFacts

\* Branch b stands if neither it nor the walk that owns it moves.
LEMMA OtherBranch ==
    ASSUME TypeOK, NEW b \in Effect, BranchInv(b), WalkInv(parent[b]), prog' = prog,
           frame'[b] = frame[b], parent'[b] = parent[b], frame'[parent[b]] = frame[parent[b]],
           Kept(parent[b]) \subseteq Kept(parent[b])', HaltsStand
    PROVE  BranchInv(b)'
<1> DEFINE t == parent[b]
<1>0. t \in Thread /\ b # Root
    BY EffectFacts DEF TypeOK
<1>1. Awaits(t, b)' <=> Awaits(t, b)
    BY DEF Awaits, This, Top
<1>2. Kept(b)' = Kept(b)
    BY <1>0 DEF Kept
<1>3. ASSUME frame[b].status = "aborted", Awaits(t, b)
      PROVE  \E c \in Range(prog.body[This(t)]) : frame'[c].status = "halt"
    <2>1. PICK c \in Range(prog.body[This(t)]) : frame[c].status = "halt"
        BY <1>3 DEF BranchInv
    <2>2. c \in Thread
        BY <1>0, <1>3, <2>1, AwaitsType DEF Awaits
    <2> QED
        BY <2>1, <2>2 DEF HaltsStand
<1>4. This(t)' = This(t)
    BY DEF This, Top
<1> QED
    BY <1>1, <1>2, <1>3, <1>4 DEF BranchInv, Active

\* A step of one walk keeps every type.
LEMMA LocalType ==
    ASSUME TypeOK, NEW t \in Thread, Local(t)
    PROVE  TypeOK'
<1>1. This(t) \in Effect /\ frame[t].status = "running"
    BY ItemFacts DEF Local, AtItem
<1>2. frame' \in [Thread -> Frame] /\ \A u \in Thread \ {t} : frame'[u] = frame[u]
    BY DEF Local, Alone
<1>3. frame'[t].status \in {"halt", "pending"} <=> frame'[t].cause \in Effect
    <2>1. CASE Goes(t)
        <3>1. frame'[t].status = "running" /\ frame'[t].cause = frame[t].cause
            BY <2>1 DEF Goes, GoesOn
        <3> QED
            BY <1>1, <3>1 DEF TypeOK
    <2>2. CASE Stops(t)
        BY <1>1, <2>2 DEF Stops
    <2> QED
        BY <2>1, <2>2 DEF Local
<1>4. \A u \in Thread : frame'[u].status \in {"halt", "pending"} <=> frame'[u].cause \in Effect
    BY <1>2, <1>3 DEF TypeOK
<1> QED
    BY <1>2, <1>4 DEF TypeOK, Local, Alone

\* The walk that moves.
LEMMA LocalWalk ==
    ASSUME TypeOK, Tree(prog), NEW t \in Thread, WalkInv(t), Local(t)
    PROVE  WalkInv(t)'
<1>0. /\ AtItem(t) /\ frame[t].todo \in Seq(Item) /\ This(t) \in Effect /\ prog \in Program
      /\ 1 \in DOMAIN frame[t].todo /\ EffectAt(t, 1) = This(t) /\ Top(t) = frame[t].todo[1]
    BY ItemFacts DEF Local, AtItem
<1>1. prog' = prog /\ frame'[t] \in Frame /\ refused[t] \subseteq refused'[t]
    BY DEF Local, Alone
<1>2. t \in Nat /\ This(t) \in Nat /\ t <= This(t) /\ (t # Root => ~ContainsMutation(prog)[This(t)])
    BY <1>0, EffectFacts DEF WalkInv, TodoInv, Active, AtItem
<1>3. (emitted[t] \subseteq Kept(t))'
    <2>1. emitted'[t] \subseteq emitted[t] \cup frame'[t].taints \cup frame'[t].constraints
          /\ frame[t].taints \cup frame[t].constraints \subseteq frame'[t].taints \cup frame'[t].constraints
          /\ decision' = decision
        BY DEF Local, Alone
    <2> QED
        BY <2>1 DEF WalkInv, Kept
<1>4. CASE Goes(t)
    <2>1. PICK L \in Lists(This(t)), off \in Int, stand \in BOOLEAN : GoesOn(t, L, off, stand)
        BY <1>4 DEF Goes
    <2>2. /\ frame'[t].status = "running" /\ Follows(frame[t].todo, frame'[t].todo, L, off, stand, This(t))
          /\ refused'[t] = IF stand THEN refused[t] \cup {This(t)} ELSE refused[t]
          /\ ~Top(t).stands
        BY <2>1 DEF GoesOn
    <2>3. \A i \in DOMAIN L : L[i] \in Holds(prog, This(t))
        BY <1>0 DEF Lists, Holds, Range
    <2>4. BlockInv(t)' /\ CauseInv(t)'
        BY <2>2 DEF BlockInv, CauseInv
    <2>5. ASSUME NEW i \in DOMAIN frame'[t].todo
          PROVE  /\ t <= frame'[t].todo[i].effect
                 /\ t # Root => ~ContainsMutation(prog)[frame'[t].todo[i].effect]
                 /\ frame'[t].todo[i].stands => frame'[t].todo[i].effect \in refused'[t]
        <3>1. CASE i \in DOMAIN L /\ frame'[t].todo[i] = [effect |-> L[i], stands |-> FALSE]
            <4>1. L[i] \in Holds(prog, This(t)) /\ L[i] \in Effect
                BY <1>0, <2>3, <3>1, HoldsType
            <4>2. t <= L[i]
                BY <1>0, <1>2, <4>1, EffectFacts DEF Tree
            <4>3. t # Root => ~ContainsMutation(prog)[L[i]]
                BY <1>0, <1>2, <4>1, MutationUnfolds
            <4> QED
                BY <3>1, <4>2, <4>3
        <3>2. CASE stand /\ frame'[t].todo[i] = [effect |-> This(t), stands |-> TRUE]
            BY <1>2, <2>2, <3>2
        <3>3. CASE \E j \in DOMAIN frame[t].todo : frame'[t].todo[i] = frame[t].todo[j]
            BY <1>0, <1>1, <3>3 DEF WalkInv, TodoInv, Active, AtItem, EffectAt
        <3> QED
            BY <2>2, <3>1, <3>2, <3>3 DEF Follows
    <2>6. TodoInv(t)'
        BY <1>1, <2>5 DEF TodoInv, EffectAt
    <2>7. refused'[t] # {} => \E i \in DOMAIN frame'[t].todo : frame'[t].todo[i].stands
        <3>1. CASE stand
            BY <2>2, <3>1 DEF Follows
        <3>2. CASE ~stand
            <4> SUFFICES ASSUME refused[t] # {} PROVE \E i \in DOMAIN frame'[t].todo : frame'[t].todo[i].stands
                BY <2>2, <3>2
            <4>1. PICK j \in DOMAIN frame[t].todo : frame[t].todo[j].stands
                BY <1>0 DEF WalkInv, RefusedInv, Active, AtItem
            <4>2. j # 1
                BY <1>0, <2>2, <4>1
            <4>3. j > 1
                BY <1>0, <4>1, <4>2, LenProperties
            <4> QED
                BY <2>2, <4>1, <4>3 DEF Follows
        <3> QED
            BY <3>1, <3>2
    <2>8. RefusedInv(t)'
        BY <2>2, <2>7 DEF RefusedInv
    <2> QED
        BY <1>3, <2>4, <2>6, <2>8 DEF WalkInv
<1>5. CASE Stops(t)
    <2>1. frame'[t].status \in {"halt", "pending"} /\ frame'[t].cause = This(t) /\ This(t) \in refused'[t]
        BY <1>5 DEF Stops
    <2>2. BlockInv(t)' /\ TodoInv(t)' /\ RefusedInv(t)'
        BY <2>1 DEF BlockInv, TodoInv, RefusedInv, Active
    <2>3. CauseInv(t)'
        <3>1. ASSUME frame'[t].status = "halt" PROVE Explains(t, {t})'
            BY <2>1, <3>1 DEF Explains
        <3>2. {t} \in SUBSET Thread
            OBVIOUS
        <3> QED
            BY <3>1, <3>2 DEF CauseInv
    <2> QED
        BY <1>3, <2>2, <2>3 DEF WalkInv
<1> QED
    BY <1>4, <1>5 DEF Local

\* A step of one walk leaves halted walks and spawned branches standing, and loses
\* no label and no constraint.
LEMMA LocalHalts ==
    ASSUME TypeOK, NEW t \in Thread, Local(t)
    PROVE  /\ HaltsStand
           /\ \A b \in Effect : frame[b].status # "idle" => frame'[b].status # "idle" /\ parent'[b] = parent[b]
           /\ frame'[t].status \in {"running", "halt", "pending"}
           /\ Kept(t) \subseteq Kept(t)' /\ \A u \in Thread \ {t} : Kept(u)' = Kept(u)
<1>1. frame[t].status = "running" /\ frame'[t].status \in {"running", "halt", "pending"}
    BY DEF Local, AtItem, Goes, GoesOn, Stops
<1>2. \A u \in Thread \ {t} : frame'[u] = frame[u] /\ refused'[u] = refused[u]
    BY DEF Local, Alone
<1>3. parent' = parent /\ decision' = decision
      /\ frame[t].taints \cup frame[t].constraints \subseteq frame'[t].taints \cup frame'[t].constraints
    BY DEF Local, Alone
<1>4. HaltsStand
    BY <1>1, <1>2, <1>3 DEF HaltsStand
<1>5. \A b \in Effect : frame[b].status # "idle" => frame'[b].status # "idle" /\ parent'[b] = parent[b]
    BY <1>1, <1>2, <1>3, EffectFacts
<1>6. Kept(t) \subseteq Kept(t)' /\ \A u \in Thread \ {t} : Kept(u)' = Kept(u)
    BY <1>2, <1>3 DEF Kept
<1> QED
    BY <1>1, <1>4, <1>5, <1>6

\* A step of one walk breaks no promise between a branch and its owner.
LEMMA LocalBranches ==
    ASSUME TypeOK, NEW t \in Thread, \A u \in Thread : WalkInv(u), Local(t),
           NEW b \in Effect, BranchInv(b)
    PROVE  BranchInv(b)'
<1>0. parent[b] \in Thread /\ b \in Thread /\ b # Root /\ b \in Nat /\ parent[b] \in Nat /\ parent[b] # b
    BY ParentType
<1>1. /\ HaltsStand /\ Kept(t) \subseteq Kept(t)' /\ \A u \in Thread \ {t} : Kept(u)' = Kept(u)
      /\ frame'[t].status \in {"running", "halt", "pending"}
    BY LocalHalts
<1>2. /\ \A u \in Thread \ {t} : frame'[u] = frame[u]
      /\ prog' = prog /\ parent' = parent /\ decision' = decision /\ frame[t].status = "running"
    BY DEF Local, Alone, AtItem
<1>3. CASE b # t /\ parent[b] # t
    BY <1>0, <1>1, <1>2, <1>3, OtherBranch
<1>4. CASE b # t /\ parent[b] = t
    <2>1. /\ frame[b].status \notin {"running", "joining", "halt", "aborted", "pending"}
          /\ frame[b].status \in Completed => Kept(b) \subseteq Kept(t)
        BY <1>2, <1>4 DEF BranchInv, Active, Awaits
    <2>2. frame'[b] = frame[b] /\ Kept(b)' = Kept(b)
        BY <1>0, <1>1, <1>2, <1>4
    <2> QED
        BY <1>1, <1>2, <1>4, <2>1, <2>2 DEF BranchInv, Active
<1>5. CASE b = t
    <2>1. frame'[parent[b]] = frame[parent[b]] /\ (Awaits(parent[b], b)' <=> Awaits(parent[b], b))
        BY <1>0, <1>2, <1>5 DEF Awaits, This, Top
    <2>2. frame[parent[b]].status = "aborted" \/ Awaits(parent[b], b)
        BY <1>2, <1>5 DEF BranchInv, Active
    <2>3. frame'[t].status # "pending"
        <3> SUFFICES ASSUME frame'[t].status = "pending" PROVE FALSE
            OBVIOUS
        <3>1. prog.op[This(t)] = "elicit"
            BY DEF Local, Goes, GoesOn, Stops
        <3>2. This(t) \in Effect /\ prog \in Program /\ 1 \in DOMAIN frame[t].todo /\ EffectAt(t, 1) = This(t)
            BY ItemFacts DEF Local, AtItem
        <3>3. ~ContainsMutation(prog)[This(t)]
            BY <1>0, <1>2, <1>5, <3>2 DEF WalkInv, TodoInv, Active
        <3> QED
            BY <3>1, <3>2, <3>3, MutationUnfolds DEF Mutating
    <2> QED
        BY <1>1, <1>2, <1>5, <2>1, <2>2, <2>3 DEF BranchInv, Active
<1> QED
    BY <1>3, <1>4, <1>5

-----------------------------------------------------------------------------
(* An effect is dispatched once.                                           *)

\* What an undispatched effect holds has not been reached yet.
LEMMA HeldIsNew ==
    ASSUME TypeOK, Tree(prog), NEW D \in SUBSET Effect, NEW n \in Effect, n \notin D,
           NEW m \in Holds(prog, n)
    PROVE  ~Placed(D, m) /\ m # n /\ Placed(D \cup {n}, m)
<1>1. prog \in Program /\ m \in Effect
    BY HoldsType DEF TypeOK
<1>2. \A k \in Effect \ {n} : m \notin Holds(prog, k)
    BY DEF Tree
<1>3. m \notin Range(PreList(prog)) /\ m \notin Range(PostList(prog)) /\ n < m
    BY DEF Tree
<1>4. ~Placed(D, m)
    BY <1>2, <1>3 DEF Placed
<1>5. m # n
    BY <1>1, <1>3, EffectFacts
<1>6. Placed(D \cup {n}, m)
    BY DEF Placed
<1> QED
    BY <1>4, <1>5, <1>6

\* What is placed stays placed.
LEMMA PlacedMonotone ==
    ASSUME NEW D, NEW E, D \subseteq E, NEW m, Placed(D, m)
    PROVE  Placed(E, m)
BY DEF Placed

\* Where the walk stands after its first effect was replaced by list L.
LEMMA GoesAhead ==
    ASSUME TypeOK, Tree(prog), NEW D \in SUBSET Effect, OnceInv(D), NEW t \in Thread, AtItem(t),
           NEW L \in Lists(This(t)), NEW off \in Int, NEW stand \in BOOLEAN, GoesOn(t, L, off, stand),
           NEW i \in Ahead(t)'
    PROVE  \/ i \in DOMAIN L /\ EffectAt(t, i)' = L[i] /\ L[i] \in Holds(prog, This(t))
           \/ \E j \in Ahead(t) : j > 1 /\ i = j + off /\ i \notin DOMAIN L /\ EffectAt(t, i)' = EffectAt(t, j)
<1>1. /\ i \in DOMAIN frame'[t].todo /\ ~frame'[t].todo[i].stands
      /\ Follows(frame[t].todo, frame'[t].todo, L, off, stand, This(t)) /\ frame[t].status = "running"
    BY DEF GoesOn, AtItem, Ahead
<1>2. This(t) \in Effect /\ prog \in Program
    BY ItemFacts DEF AtItem
<1>3. L \in Seq(Effect) /\ DOMAIN L = 1 .. Len(L) /\ Len(L) \in Nat
    <2>1. L \in Seq(Effect)
        <3>1. << >> \in Seq(Effect)
            BY EmptySeq
        <3> QED
            BY <1>2, <3>1, HoldsType DEF Lists
    <2> QED
        BY <2>1, LenProperties
<1>4. CASE i \in DOMAIN L /\ frame'[t].todo[i] = [effect |-> L[i], stands |-> FALSE]
    <2>1. L[i] \in Holds(prog, This(t))
        BY <1>4 DEF Lists, Holds, Range
    <2> QED
        BY <1>4, <2>1 DEF EffectAt
<1>5. CASE frame'[t].todo[i] = [effect |-> This(t), stands |-> TRUE]
    BY <1>1, <1>5
<1>6. CASE \E j \in DOMAIN frame[t].todo :
                j > 1 /\ i = j + off /\ i > Len(L) /\ frame'[t].todo[i] = frame[t].todo[j]
    <2>1. PICK j \in DOMAIN frame[t].todo :
                j > 1 /\ i = j + off /\ i > Len(L) /\ frame'[t].todo[i] = frame[t].todo[j]
        BY <1>6
    <2>2. i \notin DOMAIN L
        BY <1>3, <2>1
    <2>3. j \in Ahead(t)
        BY <1>1, <2>1 DEF Ahead
    <2> QED
        BY <2>1, <2>2, <2>3 DEF EffectAt
<1> QED
    BY <1>1, <1>4, <1>5, <1>6 DEF Follows

\* An effect that is replaced by what it holds has now been dispatched, and what it
\* holds has not.
LEMMA GoesOnce ==
    ASSUME TypeOK, Tree(prog), NEW D \in SUBSET Effect, OnceInv(D), NEW t \in Thread, Local(t), Goes(t)
    PROVE  \E E \in SUBSET Effect : OnceInv(E)'
<1>a. PICK n \in Effect : n = This(t)
    BY ItemFacts DEF Local, AtItem
<1> DEFINE E == D \cup {n}
<1>0. AtItem(t) /\ frame[t].status = "running" /\ n = This(t) /\ prog \in Program
      /\ 1 \in DOMAIN frame[t].todo /\ EffectAt(t, 1) = n /\ Top(t) = frame[t].todo[1]
    BY <1>a, ItemFacts DEF Local, AtItem
<1>1. PICK L \in Lists(n), off \in Int, stand \in BOOLEAN : GoesOn(t, L, off, stand)
    BY <1>a DEF Goes
<1>2. ~Top(t).stands /\ frame'[t].status = "running"
    BY <1>1 DEF GoesOn
<1>3. /\ \A u \in Thread \ {t} : frame'[u] = frame[u]
      /\ prog' = prog /\ phase' = phase /\ parent' = parent
    BY DEF Local, Alone
<1>4. 1 \in Ahead(t) /\ Active(t)
    BY <1>0, <1>2 DEF Ahead, Active
<1>5. n \notin D /\ Placed(D, n)
    BY <1>0, <1>4 DEF OnceInv, AheadInv
<1>6. \A u \in Thread : Active(u) => \A i \in Ahead(u) : EffectAt(u, i) = n => u = t /\ i = 1
    BY <1>0, <1>4 DEF OnceInv
<1>7. \A u \in Thread : Active(u) => \A i \in Ahead(u) : EffectAt(u, i) \notin D /\ Placed(D, EffectAt(u, i))
    BY DEF OnceInv, AheadInv
<1>8. \A u \in Thread : Active(u)' => Active(u)
    BY <1>3, <1>4 DEF Active
<1>9. IsInjective(L)
    BY <1>0 DEF Lists, Tree, IsInjective
\* Where an effect that is ahead after the step comes from.
<1> DEFINE Held(u, i) == u = t /\ i \in DOMAIN L /\ EffectAt(t, i)' = L[i] /\ L[i] \in Holds(prog, n)
           Old(u, i, j) == /\ j \in Ahead(u) /\ EffectAt(u, i)' = EffectAt(u, j)
                           /\ i = IF u = t THEN j + off ELSE j
                           /\ u = t => j > 1 /\ i \notin DOMAIN L
<1>10. ASSUME NEW u \in Thread, Active(u)', NEW i \in Ahead(u)'
       PROVE  Held(u, i) \/ \E j \in Ahead(u) : Old(u, i, j)
    <2>1. CASE u = t
        <3>1. \/ i \in DOMAIN L /\ EffectAt(t, i)' = L[i] /\ L[i] \in Holds(prog, n)
              \/ \E j \in Ahead(t) : j > 1 /\ i = j + off /\ i \notin DOMAIN L /\ EffectAt(t, i)' = EffectAt(t, j)
            BY <1>0, <1>1, <1>10, <2>1, GoesAhead
        <3> QED
            BY <2>1, <3>1
    <2>2. CASE u # t
        <3>1. frame'[u] = frame[u]
            BY <1>3, <2>2
        <3>2. i \in Ahead(u) /\ EffectAt(u, i)' = EffectAt(u, i)
            BY <1>10, <3>1 DEF Ahead, EffectAt
        <3> QED
            BY <2>2, <3>2
    <2> QED
        BY <2>1, <2>2
<1>11. ASSUME NEW m \in Holds(prog, n) PROVE ~Placed(D, m) /\ m # n /\ Placed(E, m)
    BY <1>0, <1>5, HeldIsNew
<1>12. \A m \in E : Placed(E, m)'
    <2>1. \A m \in D : Placed(D, m)
        BY DEF OnceInv
    <2>2. \A m \in E : Placed(E, m)
        BY <1>5, <2>1, PlacedMonotone
    <2> QED
        BY <1>3, <2>2 DEF Placed
<1>13. ASSUME NEW b \in Effect, frame'[b].status # "idle" PROVE \E k \in E : b \in Holds(prog', k)
    <2>1. frame[b].status # "idle"
        BY <1>0, <1>3, <1>13, EffectFacts
    <2> QED
        BY <1>3, <2>1 DEF OnceInv
<1>14. ASSUME NEW u \in Thread, frame'[u].status = "joining" PROVE This(u)' \in E
    <2>1. u # t
        BY <1>2, <1>14
    <2>2. frame'[u] = frame[u]
        BY <1>3, <2>1
    <2> QED
        BY <1>14, <2>2 DEF OnceInv, This, Top
<1>15. ASSUME NEW u \in Thread, Active(u)', NEW i \in Ahead(u)'
       PROVE  EffectAt(u, i)' \notin E /\ Placed(E, EffectAt(u, i)')
    <2>0. Held(u, i) \/ \E j \in Ahead(u) : Old(u, i, j)
        BY <1>10, <1>15
    <2>1. CASE Held(u, i)
        <3>1. EffectAt(u, i)' = L[i] /\ ~Placed(D, L[i]) /\ L[i] # n /\ Placed(E, L[i])
            BY <1>11, <2>1
        <3>2. L[i] \notin D
            BY <3>1 DEF OnceInv
        <3> QED
            BY <3>1, <3>2
    <2>2. CASE \E j \in Ahead(u) : Old(u, i, j)
        <3>1. PICK j \in Ahead(u) : Old(u, i, j)
            BY <2>2
        <3>2. EffectAt(u, j) \notin D /\ Placed(D, EffectAt(u, j))
            BY <1>7, <1>8, <1>15
        <3>3. EffectAt(u, j) # n
            BY <1>6, <1>8, <1>15, <3>1
        <3>4. Placed(E, EffectAt(u, j))
            BY <3>2, PlacedMonotone
        <3> QED
            BY <3>1, <3>2, <3>3, <3>4
    <2> QED
        BY <2>0, <2>1, <2>2
<1>16. \A u \in Thread : Active(u)' => AheadInv(E, u)'
    <2>1. \A m : Placed(E, m) => Placed(E, m)'
        BY <1>3 DEF Placed
    <2> QED
        BY <1>15, <2>1 DEF AheadInv
<1>17. ASSUME NEW u \in Thread, NEW v \in Thread, Active(u)', Active(v)', NEW i \in Ahead(u)', NEW j \in Ahead(v)',
              EffectAt(u, i)' = EffectAt(v, j)'
       PROVE  u = v /\ i = j
    <2>1. Held(u, i) \/ \E k \in Ahead(u) : Old(u, i, k)
        BY <1>10, <1>17
    <2>2. Held(v, j) \/ \E k \in Ahead(v) : Old(v, j, k)
        BY <1>10, <1>17
    <2>3. \A w \in Thread : Active(w)' => \A k \in Ahead(w) : Placed(D, EffectAt(w, k))
        BY <1>7, <1>8
    <2>4. CASE Held(u, i) /\ Held(v, j)
        BY <1>9, <1>17, <2>4 DEF IsInjective
    <2>5. CASE Held(u, i) /\ \E k \in Ahead(v) : Old(v, j, k)
        BY <1>11, <1>17, <2>3, <2>5
    <2>6. CASE Held(v, j) /\ \E k \in Ahead(u) : Old(u, i, k)
        BY <1>11, <1>17, <2>3, <2>6
    <2>7. CASE (\E k \in Ahead(u) : Old(u, i, k)) /\ (\E k \in Ahead(v) : Old(v, j, k))
        <3>1. PICK k \in Ahead(u) : Old(u, i, k)
            BY <2>7
        <3>2. PICK l \in Ahead(v) : Old(v, j, l)
            BY <2>7
        <3>3. EffectAt(u, k) = EffectAt(v, l) /\ Active(u) /\ Active(v)
            BY <1>8, <1>17, <3>1, <3>2
        <3>4. u = v /\ k = l
            BY <3>3 DEF OnceInv
        <3> QED
            BY <3>1, <3>2, <3>4
    <2> QED
        BY <2>1, <2>2, <2>4, <2>5, <2>6, <2>7
<1>18. OnceInv(E)'
    BY <1>12, <1>13, <1>14, <1>16, <1>17 DEF OnceInv
<1> QED
    BY <1>18

\* A walk that leaves the running takes nothing new on.
LEMMA StopOnce ==
    ASSUME TypeOK, NEW D \in SUBSET Effect, OnceInv(D), NEW t \in Thread, Active(t), ~Active(t)',
           frame'[t].status # "idle", prog' = prog, phase' = phase, \A u \in Thread \ {t} : frame'[u] = frame[u]
    PROVE  OnceInv(D)'
<1>1. \A u \in Thread : Active(u)' => u # t /\ Active(u) /\ frame'[u] = frame[u]
    BY DEF Active
<1>2. \A u \in Thread : Active(u)' => Ahead(u)' = Ahead(u) /\ \A i \in Ahead(u) : EffectAt(u, i)' = EffectAt(u, i)
    BY <1>1 DEF Ahead, EffectAt
<1>3. \A m : Placed(D, m) <=> Placed(D, m)'
    BY DEF Placed
<1>4. \A m \in D : Placed(D, m)'
    BY <1>3 DEF OnceInv
<1>5. \A b \in Effect : frame'[b].status # "idle" => \E n \in D : b \in Holds(prog', n)
    <2> SUFFICES ASSUME NEW b \in Effect, frame'[b].status # "idle" PROVE \E n \in D : b \in Holds(prog', n)
        OBVIOUS
    <2>1. frame[b].status # "idle"
        BY EffectFacts DEF Active
    <2> QED
        BY <2>1 DEF OnceInv
<1>6. \A u \in Thread : frame'[u].status = "joining" => This(u)' \in D
    <2> SUFFICES ASSUME NEW u \in Thread, frame'[u].status = "joining" PROVE This(u)' \in D
        OBVIOUS
    <2>1. frame'[u] = frame[u]
        BY <1>1 DEF Active
    <2> QED
        BY <2>1 DEF OnceInv, This, Top
<1>7. \A u \in Thread : Active(u)' => AheadInv(D, u)'
    BY <1>1, <1>2, <1>3 DEF OnceInv, AheadInv
<1>8. \A u, v \in Thread : Active(u)' /\ Active(v)' =>
          \A i \in Ahead(u)', j \in Ahead(v)' : EffectAt(u, i)' = EffectAt(v, j)' => u = v /\ i = j
    BY <1>1, <1>2 DEF OnceInv
<1> QED
    BY <1>4, <1>5, <1>6, <1>7, <1>8 DEF OnceInv

-----------------------------------------------------------------------------
(* Every step preserves the invariant.                                     *)

\* The flags follow the payload.
LEMMA LocalRoute ==
    ASSUME TypeOK, RouteInv, NEW t \in Thread, Local(t)
    PROVE  RouteInv'
<1>1. /\ prog' = prog /\ phase' = phase /\ decision' = decision /\ frame[t].status = "running"
      /\ \A u \in Thread \ {t} : frame'[u] = frame[u]
    BY DEF Local, Alone, AtItem
<1>2. frame'[t].status \in {"running", "halt", "pending"}
    BY LocalHalts
<1>3. CASE t # Root
    <2>1. frame'[Root] = frame[Root]
        BY <1>1, <1>3, EffectFacts
    <2>2. \A fields : Changed(fields)' <=> Changed(fields)
        BY <2>1 DEF Changed
    <2> QED
        BY <1>1, <2>1, <2>2 DEF RouteInv
<1>4. CASE t = Root
    <2>1. phase \in {"pre", "post"}
        BY <1>1, <1>4 DEF RouteInv, Completed, TypeOK
    <2>2. /\ phase = "pre" => frame'[Root].args_modified = Changed(ArgsField)' /\ ~Changed(ResultField)'
          /\ phase = "post" => /\ decision.args_modified = Changed(ArgsField)'
                               /\ frame'[Root].result_modified = Changed(ResultField)'
        <3>1. CASE Unpiped(t)
            <4>1. \A fields : Changed(fields)' <=> Changed(fields)
                BY <1>4, <3>1 DEF Changed, Unpiped
            <4> QED
                BY <1>4, <3>1, <4>1 DEF RouteInv, Unpiped
        <3>2. CASE Piped(t)
            <4>1. PICK f \in Field, state \in {"rewritten", "removed"} :
                    /\ InPhase(f)
                    /\ frame'[t].payload = [frame[t].payload EXCEPT ![f] = state]
                    /\ frame'[t].args_modified = (frame[t].args_modified \/ f \in ArgsField)
                    /\ frame'[t].result_modified = (frame[t].result_modified \/ f \in ResultField)
                BY <3>2 DEF Piped
            <4>2. frame[t].payload \in [Field -> FieldState]
                BY FrameFields DEF TypeOK
            <4>3. /\ frame'[t].payload[f] \in {"rewritten", "removed"}
                  /\ \A g \in Field \ {f} : frame'[t].payload[g] = frame[t].payload[g]
                BY <4>1, <4>2
            <4>4. \A fields \in SUBSET Field : f \in fields => Changed(fields)'
                BY <1>4, <4>3 DEF Changed
            <4>5. \A fields \in SUBSET Field : f \notin fields => (Changed(fields)' <=> Changed(fields))
                BY <1>4, <4>3 DEF Changed
            <4>6. ArgsField \in SUBSET Field /\ ResultField \in SUBSET Field /\ ArgsField \cap ResultField = {}
                BY EvaluatorAssumption DEF Field
            <4>7. CASE phase = "pre"
                <5>1. f \in ArgsField /\ f \notin ResultField
                    BY <4>1, <4>6, <4>7 DEF InPhase
                <5>2. Changed(ArgsField)' /\ (Changed(ResultField)' <=> Changed(ResultField))
                    BY <4>4, <4>5, <4>6, <5>1
                <5>3. frame'[Root].args_modified
                    BY <1>4, <4>1, <5>1
                <5>4. ~Changed(ResultField)
                    BY <4>7 DEF RouteInv
                <5> QED
                    BY <4>7, <5>2, <5>3, <5>4
            <4>8. CASE phase = "post"
                <5>1. f \notin ArgsField /\ f \in ResultField
                    BY <4>1, <4>6, <4>8 DEF InPhase, Field
                <5>2. Changed(ResultField)' /\ (Changed(ArgsField)' <=> Changed(ArgsField))
                    BY <4>4, <4>5, <4>6, <5>1
                <5>3. frame'[Root].result_modified = TRUE
                    BY <1>4, <4>1, <5>1
                <5>4. decision.args_modified = Changed(ArgsField)
                    BY <4>8 DEF RouteInv
                <5>5. Changed(ArgsField)' = Changed(ArgsField) /\ Changed(ResultField)' = TRUE
                    BY <5>2 DEF Changed
                <5> QED
                    BY <4>8, <5>3, <5>4, <5>5, Zenon
            <4> QED
                BY <2>1, <4>7, <4>8
        <3> QED
            BY <3>1, <3>2 DEF Local
    <2> QED
        BY <1>1, <1>2, <1>4, <2>1, <2>2 DEF RouteInv
<1> QED
    BY <1>3, <1>4

\* Every effect but a `parallel:` preserves the invariant.
LEMMA LocalStep ==
    ASSUME IInv, NEW t \in Thread, Local(t)
    PROVE  IInv'
<1>1. /\ TypeOK /\ RouteInv /\ Tree(prog)
      /\ \A u \in Thread : WalkInv(u)
      /\ \A b \in Effect : BranchInv(b)
    BY DEF IInv, RouteInv
<1>2. TypeOK' /\ RouteInv'
    BY <1>1, LocalType, LocalRoute
<1>3. \E E \in SUBSET Effect : OnceInv(E)'
    <2>1. PICK D \in SUBSET Effect : OnceInv(D)
        BY DEF IInv
    <2>2. CASE Goes(t)
        BY <1>1, <2>1, <2>2, GoesOnce
    <2>3. CASE Stops(t)
        <3>1. Active(t) /\ ~Active(t)' /\ frame'[t].status # "idle"
            BY <2>3 DEF Active, Local, AtItem, Stops
        <3>2. prog' = prog /\ phase' = phase /\ \A u \in Thread \ {t} : frame'[u] = frame[u]
            BY DEF Local, Alone
        <3>3. OnceInv(D)'
            BY <1>1, <2>1, <3>1, <3>2, StopOnce
        <3> QED
            BY <3>3
    <2> QED
        BY <2>2, <2>3 DEF Local
<1>4. ASSUME NEW u \in Thread PROVE WalkInv(u)'
    <2>1. CASE u = t
        BY <1>1, <2>1, LocalWalk
    <2>2. CASE u # t
        <3>1. prog' = prog /\ frame'[u] = frame[u] /\ refused'[u] = refused[u] /\ emitted'[u] = emitted[u]
            BY <2>2 DEF Local, Alone
        <3>2. /\ HaltsStand /\ Kept(u) \subseteq Kept(u)'
              /\ \A b \in Effect : frame[b].status # "idle" => frame'[b].status # "idle" /\ parent'[b] = parent[b]
            BY <1>1, <2>2, LocalHalts
        <3> QED
            BY <1>1, <3>1, <3>2, OtherWalk
    <2> QED
        BY <2>1, <2>2
<1>5. ASSUME NEW b \in Effect PROVE BranchInv(b)'
    BY <1>1, LocalBranches
<1> QED
    BY <1>2, <1>3, <1>4, <1>5 DEF IInv

-----------------------------------------------------------------------------
(* A walk ends, panics or is aborted.                                      *)

Becoming(t, st) ==
    /\ frame' = [frame EXCEPT ![t].status = st]
    /\ UNCHANGED <<prog, phase, parent, decision, refused, emitted>>

\* A walk that ends, panics or is aborted changes its status only.
LEMMA BecomingFacts ==
    ASSUME TypeOK, NEW t \in Thread, Active(t), NEW st \in {"continue", "panicked", "aborted"}, Becoming(t, st)
    PROVE  /\ TypeOK' /\ HaltsStand
           /\ frame'[t].status = st /\ frame'[t].taints = frame[t].taints
           /\ frame'[t].constraints = frame[t].constraints /\ frame'[t].payload = frame[t].payload
           /\ frame'[t].args_modified = frame[t].args_modified
           /\ frame'[t].result_modified = frame[t].result_modified
           /\ \A u \in Thread \ {t} : frame'[u] = frame[u]
           /\ prog' = prog /\ phase' = phase /\ parent' = parent /\ decision' = decision
           /\ refused' = refused /\ emitted' = emitted
           /\ \A u \in Thread : Kept(u)' = Kept(u)
           /\ \A b \in Effect : frame[b].status # "idle" => frame'[b].status # "idle"
<1>1. frame[t] \in Frame /\ frame \in [Thread -> Frame]
    BY DEF TypeOK
<1>2. [frame[t] EXCEPT !.status = st] \in Frame
    BY <1>1 DEF Frame
<1>3. frame' = [frame EXCEPT ![t] = [frame[t] EXCEPT !.status = st]]
    BY <1>1 DEF Becoming
<1>4. frame' \in [Thread -> Frame] /\ frame'[t] = [frame[t] EXCEPT !.status = st]
      /\ \A u \in Thread \ {t} : frame'[u] = frame[u]
    BY <1>1, <1>2, <1>3
<1>5. /\ frame'[t].status = st /\ frame'[t].taints = frame[t].taints
      /\ frame'[t].constraints = frame[t].constraints /\ frame'[t].payload = frame[t].payload
      /\ frame'[t].args_modified = frame[t].args_modified
      /\ frame'[t].result_modified = frame[t].result_modified /\ frame'[t].cause = frame[t].cause
    BY <1>1, <1>4 DEF Frame
<1>6. prog' = prog /\ phase' = phase /\ parent' = parent /\ decision' = decision
      /\ refused' = refused /\ emitted' = emitted
    BY DEF Becoming
<1>7. \A u \in Thread : frame'[u].status \in {"halt", "pending"} <=> frame'[u].cause \in Effect
    BY <1>4, <1>5 DEF TypeOK, Active
<1>8. TypeOK'
    BY <1>4, <1>6, <1>7 DEF TypeOK
<1>9. HaltsStand
    BY <1>4, <1>6 DEF HaltsStand, Active
<1>10. \A u \in Thread : Kept(u)' = Kept(u)
    BY <1>4, <1>5, <1>6 DEF Kept
<1>11. \A b \in Effect : frame[b].status # "idle" => frame'[b].status # "idle"
    BY <1>4, <1>5, EffectFacts
<1> QED
    BY <1>4, <1>5, <1>6, <1>8, <1>9, <1>10, <1>11

\* A walk may end when it has refused nothing that it still has to answer for.
LEMMA BecomingStep ==
    ASSUME IInv, NEW t \in Thread, Active(t), NEW st \in {"continue", "panicked", "aborted"}, Becoming(t, st),
           st = "continue" => frame[t].status = "running" /\ refused[t] = {},
           st = "panicked" => frame[t].status = "running",
           st # "continue" => t # Root,
           st = "aborted" => \/ \E c \in Effect : Sibling(t, c) /\ frame[c].status = "halt"
                             \/ frame[parent[t]].status = "aborted"
    PROVE  IInv'
<1>1. /\ TypeOK /\ RouteInv
      /\ \A u \in Thread : WalkInv(u)
      /\ \A b \in Effect : BranchInv(b)
    BY DEF IInv
<1>2. /\ TypeOK' /\ HaltsStand
      /\ frame'[t].status = st /\ \A u \in Thread \ {t} : frame'[u] = frame[u]
      /\ prog' = prog /\ phase' = phase /\ parent' = parent /\ decision' = decision
      /\ refused' = refused /\ emitted' = emitted
      /\ \A u \in Thread : Kept(u)' = Kept(u)
      /\ \A b \in Effect : frame[b].status # "idle" => frame'[b].status # "idle"
    BY <1>1, BecomingFacts
<1>3. frame'[t].payload = frame[t].payload /\ frame'[t].args_modified = frame[t].args_modified
      /\ frame'[t].result_modified = frame[t].result_modified
    BY <1>1, BecomingFacts
<1>4. RouteInv'
    <2>1. \A fields : Changed(fields)' <=> Changed(fields)
        BY <1>2, <1>3, EffectFacts DEF Changed
    <2>2. CASE t = Root
        <3>1. st = "continue" /\ phase # "done"
            BY <1>1, <2>2 DEF RouteInv, Active, Completed
        <3> QED
            BY <1>1, <1>2, <1>3, <2>1, <2>2, <3>1 DEF RouteInv
    <2>3. CASE t # Root
        <3>1. frame'[Root] = frame[Root]
            BY <1>2, <2>3, EffectFacts
        <3> QED
            BY <1>1, <1>2, <2>1, <3>1 DEF RouteInv
    <2> QED
        BY <2>2, <2>3
<1>5. \E E \in SUBSET Effect : OnceInv(E)'
    <2>1. PICK D \in SUBSET Effect : OnceInv(D)
        BY DEF IInv
    <2>2. ~Active(t)' /\ frame'[t].status # "idle"
        BY <1>2 DEF Active
    <2>3. OnceInv(D)'
        BY <1>1, <1>2, <2>1, <2>2, StopOnce
    <2> QED
        BY <2>3
<1>6. ASSUME NEW u \in Thread PROVE WalkInv(u)'
    <2>1. CASE u = t
        <3>1. BlockInv(t)' /\ TodoInv(t)' /\ RefusedInv(t)' /\ CauseInv(t)'
            BY <1>2 DEF BlockInv, TodoInv, RefusedInv, CauseInv, Active
        <3>2. (emitted[t] \subseteq Kept(t))'
            BY <1>1, <1>2 DEF WalkInv
        <3> QED
            BY <2>1, <3>1, <3>2 DEF WalkInv
    <2>2. CASE u # t
        BY <1>1, <1>2, <2>2, OtherWalk
    <2> QED
        BY <2>1, <2>2
<1>7. ASSUME NEW b \in Effect PROVE BranchInv(b)'
    <2> DEFINE p == parent[b]
    <2>0. p \in Thread /\ b \in Thread /\ b # Root /\ p # b /\ BranchInv(b) /\ WalkInv(p) /\ p < b
        BY <1>1, ParentType
    <2>1. CASE b # t /\ p # t
        BY <1>1, <1>2, <2>0, <2>1, OtherBranch
    <2>2. CASE b # t /\ p = t
        <3>1. frame'[b] = frame[b] /\ frame'[p].status = st /\ ~Awaits(p, b)'
            BY <1>2, <2>0, <2>2 DEF Awaits
        <3>2. CASE st = "aborted"
            BY <1>2, <2>0, <3>1, <3>2 DEF BranchInv, Active
        <3>3. CASE st # "aborted"
            <4>1. frame[p].status = "running"
                BY <2>2, <3>3
            <4> QED
                BY <1>2, <2>0, <3>1, <3>3, <4>1 DEF BranchInv, Active, Awaits
        <3> QED
            BY <3>2, <3>3
    <2>3. CASE b = t
        <3>1. frame'[p] = frame[p] /\ (Awaits(p, b)' <=> Awaits(p, b)) /\ This(p)' = This(p)
            BY <1>2, <2>0, <2>3 DEF Awaits, This, Top
        <3>2. frame[p].status = "aborted" \/ Awaits(p, b)
            BY <2>0, <2>3 DEF BranchInv
        <3>3. ASSUME st = "aborted", Awaits(p, b)
              PROVE  \E c \in Range(prog.body[This(p)]) : frame'[c].status = "halt"
            <4>1. PICK c \in Effect : Sibling(t, c) /\ frame[c].status = "halt"
                BY <2>3, <3>3 DEF Awaits
            <4>2. parent[c] = p /\ BranchInv(c)
                BY <1>1, <2>3, <4>1 DEF Sibling
            <4>3. Awaits(p, c)
                BY <3>3, <4>1, <4>2 DEF BranchInv, Awaits
            <4>4. frame'[c].status = "halt"
                BY <1>2, <4>1, EffectFacts DEF HaltsStand
            <4> QED
                BY <4>3, <4>4 DEF Awaits
        <3> QED
            BY <1>2, <2>0, <2>3, <3>1, <3>2, <3>3 DEF BranchInv, Active
    <2> QED
        BY <2>1, <2>2, <2>3
<1> QED
    BY <1>2, <1>4, <1>5, <1>6, <1>7 DEF IInv

\* A list that is done has nothing left to answer for.
LEMMA ListEndsStep ==
    ASSUME IInv, NEW t \in Thread, ListEnds(t)
    PROVE  IInv'
<1>1. WalkInv(t) /\ frame[t].status = "running" /\ frame[t].todo = << >> /\ Active(t)
    BY DEF IInv, ListEnds, Active
<1>2. refused[t] = {}
    BY <1>1 DEF WalkInv, RefusedInv
<1>3. Becoming(t, "continue")
    BY DEF ListEnds, Becoming
<1> QED
    BY <1>1, <1>2, <1>3, BecomingStep

\* A panic leaves a branch without an outcome; nobody waits for its halt.
LEMMA PanicStep ==
    ASSUME IInv, NEW b \in Effect, Panic(b)
    PROVE  IInv'
<1>1. b \in Thread /\ b # Root /\ frame[b].status = "running" /\ Active(b)
    BY EffectFacts DEF Panic, At, AtItem, Active
<1>2. Becoming(b, "panicked")
    BY DEF Panic, Becoming
<1> QED
    BY <1>1, <1>2, BecomingStep

\* A branch is aborted only under a halt that its owner will report.
LEMMA AbortStep ==
    ASSUME IInv, NEW b \in Effect, Abort(b)
    PROVE  IInv'
<1>1. b \in Thread /\ b # Root /\ Active(b)
    BY EffectFacts DEF Abort, Active
<1>2. Becoming(b, "aborted")
    BY DEF Abort, Becoming
<1>3. \/ \E c \in Effect : Sibling(b, c) /\ frame[c].status = "halt"
      \/ frame[parent[b]].status = "aborted"
    BY DEF Abort
<1> QED
    BY <1>1, <1>2, <1>3, BecomingStep

-----------------------------------------------------------------------------
(* A block is spawned.                                                     *)

\* The stack of a new branch.
Single(todo, b) == DOMAIN todo = {1} /\ todo[1].effect = b /\ ~todo[1].stands

\* The frames after the block of walk t has been spawned.
LEMMA ParallelFacts ==
    ASSUME IInv, NEW t \in Thread, Parallel(t)
    PROVE  /\ AtItem(t) /\ ~Top(t).stands /\ prog.op[This(t)] = "parallel" /\ This(t) \in Effect /\ prog \in Program
           /\ Range(prog.body[This(t)]) \subseteq Effect
           /\ frame' \in [Thread -> Frame]
           /\ frame'[t].status = "joining" /\ frame'[t].todo = frame[t].todo /\ frame'[t].cause = frame[t].cause
           /\ Keeps(frame[t], frame'[t])
           /\ \A b \in Range(prog.body[This(t)]) :
                 /\ b # t /\ b \in Thread /\ frame[b].status = "idle"
                 /\ frame'[b].status = "running" /\ Single(frame'[b].todo, b)
                 /\ frame'[b].taints = {} /\ frame'[b].constraints = {} /\ frame'[b].cause = Root
                 /\ parent'[b] = t /\ This(t) < b
           /\ \A x \in Thread : x # t /\ x \notin Range(prog.body[This(t)]) => frame'[x] = frame[x]
           /\ parent' \in [Effect -> Thread]
           /\ \A b \in Effect : b \notin Range(prog.body[This(t)]) => parent'[b] = parent[b]
           /\ prog' = prog /\ phase' = phase /\ decision' = decision /\ refused' = refused /\ emitted' = emitted
<1> DEFINE B == Range(prog.body[This(t)])
           New(b) == Fresh("running", Items(<<b>>), frame[t].bag, frame[t].payload)
           joining == [frame[t] EXCEPT !.status = "joining"]
<1>1. TypeOK /\ Tree(prog) /\ \E D \in SUBSET Effect : OnceInv(D)
    BY DEF IInv, RouteInv
<1>2. AtItem(t) /\ ~Top(t).stands /\ prog.op[This(t)] = "parallel"
    BY DEF Parallel, At
<1>3. frame[t] \in Frame /\ This(t) \in Effect /\ prog \in Program
    BY <1>1, <1>2, ItemFacts DEF AtItem
<1>4. B \subseteq Effect /\ B \subseteq Holds(prog, This(t))
    BY <1>3, HoldsType DEF Holds
<1>5. ASSUME NEW b \in B
      PROVE  /\ b # t /\ b \in Thread /\ frame[b].status = "idle" /\ This(t) < b
    <2>1. PICK D \in SUBSET Effect : OnceInv(D)
        BY <1>1
    <2>2. This(t) \notin D
        <3>1. 1 \in Ahead(t) /\ EffectAt(t, 1) = This(t) /\ Active(t)
            BY <1>1, <1>2, ItemFacts DEF Ahead, AtItem, Active
        <3> QED
            BY <2>1, <3>1 DEF OnceInv, AheadInv
    <2>3. ~Placed(D, b)
        BY <1>1, <1>3, <1>4, <2>2, HeldIsNew
    <2>4. frame[b].status = "idle"
        BY <1>4, <2>1, <2>3 DEF OnceInv, Placed
    <2>5. This(t) < b
        BY <1>1, <1>3, <1>4 DEF Tree
    <2> QED
        BY <1>2, <1>4, <2>4, <2>5, EffectFacts DEF AtItem
<1>6. joining \in Frame
    BY <1>3 DEF Frame
<1>7. /\ joining.status = "joining" /\ joining.todo = frame[t].todo /\ joining.cause = frame[t].cause
      /\ Keeps(frame[t], joining)
    BY <1>3, <1>6 DEF Keeps, Frame
<1>8. ASSUME NEW b \in B
      PROVE  /\ New(b) \in Frame /\ New(b).status = "running" /\ Single(New(b).todo, b)
             /\ New(b).taints = {} /\ New(b).constraints = {} /\ New(b).cause = Root
    <2>1. <<b>> \in Seq(Effect) /\ Len(<<b>>) = 1 /\ <<b>>[1] = b
        BY <1>4
    <2>2. Items(<<b>>) \in Seq(Item) /\ Single(Items(<<b>>), b)
        <3> DEFINE s == <<b>>
        <3>1. s \in Seq(Effect) /\ Len(s) = 1 /\ s[1] = b
            BY <2>1
        <3> HIDE DEF s
        <3>2. Items(s) \in Seq(Item) /\ Len(Items(s)) = 1 /\ Items(s)[1] = [effect |-> s[1], stands |-> FALSE]
            BY <3>1, ItemsFacts
        <3>3. DOMAIN Items(s) = 1 .. 1
            BY <3>2, LenProperties
        <3>4. Items(s) \in Seq(Item) /\ Single(Items(s), b)
            BY <3>1, <3>2, <3>3 DEF Single
        <3> QED
            BY <3>4 DEF s
    <2>3. frame[t].bag \in SUBSET Key /\ frame[t].payload \in [Field -> FieldState]
        BY <1>3, FrameFields
    <2> DEFINE it == Items(<<b>>)
    <2>4. it \in Seq(Item) /\ Single(it, b)
        BY <2>2
    <2> HIDE DEF it
    <2>5. Root \in Thread
        BY EffectFacts
    <2>6. \A f : f = Fresh("running", it, frame[t].bag, frame[t].payload) =>
              /\ f \in Frame /\ f.status = "running" /\ f.todo = it
              /\ f.taints = {} /\ f.constraints = {} /\ f.cause = Root
        BY <2>3, <2>4, <2>5 DEF Fresh, Frame
    <2>7. New(b) = Fresh("running", it, frame[t].bag, frame[t].payload)
        BY DEF it
    <2> HIDE DEF New
    <2> QED
        BY <2>4, <2>6, <2>7
<1>9. frame' = [x \in Thread |-> IF x = t THEN joining ELSE IF x \in B THEN New(x) ELSE frame[x]]
    BY DEF Parallel
<1>10. parent' = [b \in Effect |-> IF b \in B THEN t ELSE parent[b]]
    BY DEF Parallel
<1>11. prog' = prog /\ phase' = phase /\ decision' = decision /\ refused' = refused /\ emitted' = emitted
    BY DEF Parallel
<1> HIDE DEF New, joining, B
<1>12. frame' \in [Thread -> Frame]
    BY <1>1, <1>6, <1>8, <1>9 DEF TypeOK
<1>13. frame'[t] = joining /\ \A b \in B : frame'[b] = New(b)
    BY <1>5, <1>9
<1>14. \A x \in Thread : x # t /\ x \notin B => frame'[x] = frame[x]
    BY <1>9
<1>15. /\ parent' \in [Effect -> Thread] /\ \A b \in B : parent'[b] = t
       /\ \A b \in Effect : b \notin B => parent'[b] = parent[b]
    BY <1>1, <1>4, <1>10 DEF TypeOK
<1>16. B = Range(prog.body[This(t)])
    BY DEF B
<1> QED
    BY <1>2, <1>3, <1>4, <1>5, <1>7, <1>8, <1>11, <1>12, <1>13, <1>14, <1>15, <1>16

\* The branches of a block have not been spawned before.
LEMMA ParallelOnce ==
    ASSUME IInv, NEW t \in Thread, Parallel(t)
    PROVE  \E E \in SUBSET Effect : OnceInv(E)'
<1>1. PICK n \in Effect : n = This(t)
    BY ParallelFacts
<1>2. PICK B \in SUBSET Effect : B = Range(prog.body[This(t)])
    BY ParallelFacts
<1>3. /\ AtItem(t) /\ ~Top(t).stands /\ prog \in Program
      /\ frame'[t].status = "joining" /\ frame'[t].todo = frame[t].todo
      /\ \A x \in Thread : x # t /\ x \notin B => frame'[x] = frame[x]
      /\ prog' = prog /\ phase' = phase
    BY <1>2, ParallelFacts
<1>4. \A b \in B : /\ b # t /\ b \in Thread /\ frame[b].status = "idle"
                   /\ frame'[b].status = "running" /\ Single(frame'[b].todo, b)
    BY <1>2, ParallelFacts
<1>5. TypeOK /\ Tree(prog)
    BY DEF IInv, RouteInv
<1>6. PICK D \in SUBSET Effect : OnceInv(D)
    BY DEF IInv
<1>7. 1 \in Ahead(t) /\ EffectAt(t, 1) = n /\ Active(t) /\ frame[t].todo # << >>
    BY <1>1, <1>3, <1>5, ItemFacts DEF Ahead, AtItem, Active
<1>8. n \notin D /\ Placed(D, n)
    BY <1>6, <1>7 DEF OnceInv, AheadInv
<1>9. \A b \in B : b \in Holds(prog, n)
    BY <1>1, <1>2 DEF Holds
<1>10. \A b \in B : ~Placed(D, b) /\ b # n /\ Placed(D \cup {n}, b)
    BY <1>5, <1>8, <1>9, HeldIsNew
<1> DEFINE E == D \cup {n}
           New(u, i) == u \in B /\ i = 1
           Old(u, i) == Active(u) /\ i \in Ahead(u) /\ EffectAt(u, i) # n
<1>11. \A u \in Thread : \A i : Active(u) /\ i \in Ahead(u) /\ EffectAt(u, i) = n => u = t /\ i = 1
    BY <1>6, <1>7 DEF OnceInv
<1>12. ASSUME NEW u \in Thread, Active(u)', NEW i \in Ahead(u)'
       PROVE  \/ New(u, i) /\ EffectAt(u, i)' = u
              \/ Old(u, i) /\ EffectAt(u, i)' = EffectAt(u, i)
    <2>1. CASE u \in B
        <3>1. frame'[u].status = "running" /\ Single(frame'[u].todo, u)
            BY <1>4, <2>1
        <3>2. i \in DOMAIN frame'[u].todo
            BY <1>12 DEF Ahead
        <3> QED
            BY <2>1, <3>1, <3>2 DEF Single, EffectAt
    <2>2. CASE u = t
        <3>1. i # 1 /\ i \in Ahead(u)
            BY <1>3, <1>12, <2>2 DEF Ahead, AtItem
        <3>2. EffectAt(u, i) # n
            BY <1>7, <1>11, <2>2, <3>1
        <3>3. EffectAt(u, i)' = EffectAt(u, i)
            BY <1>3, <2>2 DEF EffectAt
        <3> QED
            BY <1>7, <2>2, <3>1, <3>2, <3>3
    <2>3. CASE u \notin B /\ u # t
        <3>1. frame'[u] = frame[u]
            BY <1>3, <2>3
        <3>2. Active(u) /\ i \in Ahead(u) /\ EffectAt(u, i)' = EffectAt(u, i)
            BY <1>12, <3>1 DEF Active, Ahead, EffectAt
        <3>3. EffectAt(u, i) # n
            BY <1>11, <2>3, <3>2
        <3> QED
            BY <3>2, <3>3
    <2> QED
        BY <2>1, <2>2, <2>3
<1>13. \A m : Placed(E, m)' <=> Placed(E, m)
    BY <1>3 DEF Placed
<1>14. \A m \in E : Placed(E, m)'
    BY <1>6, <1>8, <1>13, PlacedMonotone DEF OnceInv
<1>15. ASSUME NEW b \in Effect, frame'[b].status # "idle" PROVE \E k \in E : b \in Holds(prog', k)
    <2>1. CASE b \in B
        BY <1>3, <1>9, <2>1
    <2>2. CASE b \notin B
        <3>1. frame[b].status # "idle"
            BY <1>3, <1>15, <2>2, EffectFacts DEF AtItem
        <3> QED
            BY <1>3, <1>6, <3>1 DEF OnceInv
    <2> QED
        BY <2>1, <2>2
<1>16. ASSUME NEW u \in Thread, frame'[u].status = "joining" PROVE This(u)' \in E
    <2>1. CASE u = t
        BY <1>1, <1>3, <2>1 DEF This, Top
    <2>2. CASE u # t
        <3>1. frame'[u] = frame[u]
            BY <1>3, <1>4, <1>16, <2>2
        <3> QED
            BY <1>6, <1>16, <3>1 DEF OnceInv, This, Top
    <2> QED
        BY <2>1, <2>2
<1>17. ASSUME NEW u \in Thread, Active(u)' PROVE AheadInv(E, u)'
    <2> SUFFICES ASSUME NEW i \in Ahead(u)'
                 PROVE  EffectAt(u, i)' \notin E /\ Placed(E, EffectAt(u, i)')
        BY <1>13 DEF AheadInv
    <2>1. CASE New(u, i) /\ EffectAt(u, i)' = u
        <3>1. u \notin D
            BY <1>6, <1>10, <2>1 DEF OnceInv
        <3> QED
            BY <1>10, <2>1, <3>1
    <2>2. CASE Old(u, i) /\ EffectAt(u, i)' = EffectAt(u, i)
        <3>1. EffectAt(u, i) \notin D /\ Placed(D, EffectAt(u, i))
            BY <1>6, <2>2 DEF OnceInv, AheadInv
        <3>2. Placed(E, EffectAt(u, i))
            BY <3>1, PlacedMonotone
        <3> QED
            BY <2>2, <3>1, <3>2
    <2> QED
        BY <1>12, <1>17, <2>1, <2>2
<1>18. ASSUME NEW u \in Thread, NEW v \in Thread, Active(u)', Active(v)', NEW i \in Ahead(u)', NEW j \in Ahead(v)',
              EffectAt(u, i)' = EffectAt(v, j)'
       PROVE  u = v /\ i = j
    <2>1. \A w \in Thread : \A k : Old(w, k) => Placed(D, EffectAt(w, k))
        BY <1>6 DEF OnceInv, AheadInv
    <2>2. (New(u, i) /\ EffectAt(u, i)' = u) \/ (Old(u, i) /\ EffectAt(u, i)' = EffectAt(u, i))
        BY <1>12, <1>18
    <2>3. (New(v, j) /\ EffectAt(v, j)' = v) \/ (Old(v, j) /\ EffectAt(v, j)' = EffectAt(v, j))
        BY <1>12, <1>18
    <2>4. CASE New(u, i) /\ EffectAt(u, i)' = u
        BY <1>10, <1>18, <2>1, <2>3, <2>4
    <2>5. CASE New(v, j) /\ EffectAt(v, j)' = v
        BY <1>10, <1>18, <2>1, <2>2, <2>5
    <2>6. CASE (Old(u, i) /\ EffectAt(u, i)' = EffectAt(u, i)) /\ (Old(v, j) /\ EffectAt(v, j)' = EffectAt(v, j))
        <3>1. Active(u) /\ Active(v) /\ i \in Ahead(u) /\ j \in Ahead(v) /\ EffectAt(u, i) = EffectAt(v, j)
            BY <1>18, <2>6
        <3> QED
            BY <1>6, <3>1 DEF OnceInv
    <2> QED
        BY <2>2, <2>3, <2>4, <2>5, <2>6
<1>19. OnceInv(E)'
    BY <1>14, <1>15, <1>16, <1>17, <1>18 DEF OnceInv
<1> QED
    BY <1>19

\* Spawning a block preserves the invariant.
LEMMA ParallelStep ==
    ASSUME IInv, NEW t \in Thread, Parallel(t)
    PROVE  IInv'
<1>1. PICK n \in Effect : n = This(t)
    BY ParallelFacts
<1>2. PICK B \in SUBSET Effect : B = Range(prog.body[n])
    BY <1>1, ParallelFacts
<1>3. /\ AtItem(t) /\ ~Top(t).stands /\ prog.op[n] = "parallel" /\ prog \in Program
      /\ frame' \in [Thread -> Frame]
      /\ frame'[t].status = "joining" /\ frame'[t].todo = frame[t].todo /\ frame'[t].cause = frame[t].cause
      /\ Keeps(frame[t], frame'[t])
      /\ \A x \in Thread : x # t /\ x \notin B => frame'[x] = frame[x]
      /\ parent' \in [Effect -> Thread]
      /\ \A b \in Effect : b \notin B => parent'[b] = parent[b]
      /\ prog' = prog /\ phase' = phase /\ decision' = decision /\ refused' = refused /\ emitted' = emitted
    BY <1>1, <1>2, ParallelFacts
<1>4. \A b \in B : /\ b # t /\ b \in Thread /\ frame[b].status = "idle"
                   /\ frame'[b].status = "running" /\ Single(frame'[b].todo, b)
                   /\ frame'[b].cause = Root /\ parent'[b] = t /\ n < b
    BY <1>1, <1>2, ParallelFacts
<1>5. /\ TypeOK /\ RouteInv
      /\ \A u \in Thread : WalkInv(u)
      /\ \A b \in Effect : BranchInv(b)
    BY DEF IInv
<1>6. frame[t].status = "running" /\ frame[t].todo # << >>
    BY <1>3 DEF AtItem
<1>7. TypeOK'
    <2>1. ASSUME NEW u \in Thread PROVE frame'[u].status \in {"halt", "pending"} <=> frame'[u].cause \in Effect
        <3>1. frame[u].status \in {"halt", "pending"} <=> frame[u].cause \in Effect
            BY <1>5 DEF TypeOK
        <3>2. CASE u = t
            BY <1>3, <1>6, <3>1, <3>2
        <3>3. CASE u \in B
            BY <1>4, <3>3, EffectFacts
        <3>4. CASE u # t /\ u \notin B
            BY <1>3, <3>1, <3>4
        <3> QED
            BY <3>2, <3>3, <3>4
    <2> QED
        BY <1>3, <1>5, <2>1 DEF TypeOK
<1>8. Kept(t) \subseteq Kept(t)'
    BY <1>3 DEF Kept, Keeps
<1>9. \A u \in Thread : u \notin B => Kept(u) \subseteq Kept(u)'
    BY <1>3 DEF Kept, Keeps
<1>10. HaltsStand
    <2> SUFFICES ASSUME NEW x \in Thread, frame[x].status = "halt"
                 PROVE  frame'[x] = frame[x] /\ (x \in Effect => parent'[x] = parent[x])
        BY <1>3 DEF HaltsStand
    <2>1. x # t /\ x \notin B
        BY <1>4, <1>6
    <2> QED
        BY <1>3, <2>1
<1>11. \A b \in Effect : frame[b].status # "idle" => frame'[b].status # "idle" /\ parent'[b] = parent[b]
    <2> SUFFICES ASSUME NEW b \in Effect, frame[b].status # "idle"
                 PROVE  frame'[b].status # "idle" /\ parent'[b] = parent[b]
        OBVIOUS
    <2>1. b \notin B /\ b \in Thread
        BY <1>4, EffectFacts
    <2> QED
        BY <1>3, <2>1
<1>12. Root \notin B
    BY EffectFacts
<1>13. RouteInv'
    <2>1. CASE t = Root
        <3>1. /\ frame'[Root].payload = frame[Root].payload /\ frame'[Root].args_modified = frame[Root].args_modified
              /\ frame'[Root].result_modified = frame[Root].result_modified /\ phase # "done"
            BY <1>3, <1>5, <1>6, <2>1 DEF Keeps, RouteInv, Completed
        <3>2. \A fields : Changed(fields)' <=> Changed(fields)
            BY <3>1 DEF Changed
        <3> QED
            BY <1>3, <1>5, <2>1, <3>1, <3>2 DEF RouteInv
    <2>2. CASE t # Root
        <3>1. frame'[Root] = frame[Root]
            BY <1>3, <1>12, <2>2, EffectFacts
        <3>2. \A fields : Changed(fields)' <=> Changed(fields)
            BY <3>1 DEF Changed
        <3> QED
            BY <1>3, <1>5, <3>1, <3>2 DEF RouteInv
    <2> QED
        BY <2>1, <2>2
<1>14. ASSUME NEW u \in Thread PROVE WalkInv(u)'
    <2>1. CASE u = t
        <3>1. This(t)' = n /\ Top(t)' = Top(t)
            BY <1>1, <1>3 DEF This, Top
        <3>2. BlockInv(t)'
            <4>1. \A b \in B : frame'[b].status # "idle" /\ parent'[b] = t
                BY <1>4
            <4>2. frame'[t].todo # << >> /\ ~Top(t)'.stands /\ prog'.op[This(t)'] = "parallel"
                  /\ Range(prog'.body[This(t)']) = B
                BY <1>2, <1>3, <1>6, <3>1
            <4> QED
                BY <4>1, <4>2 DEF BlockInv
        <3>3. TodoInv(t)' /\ RefusedInv(t)'
            BY <1>3, <1>5, <1>6 DEF WalkInv, TodoInv, RefusedInv, Active, EffectAt
        <3>4. CauseInv(t)'
            BY <1>3 DEF CauseInv
        <3>5. (emitted[t] \subseteq Kept(t))'
            BY <1>3, <1>5, <1>8 DEF WalkInv
        <3> QED
            BY <2>1, <3>2, <3>3, <3>4, <3>5 DEF WalkInv
    <2>2. CASE u \in B
        <3>1. frame'[u].status = "running" /\ Single(frame'[u].todo, u) /\ frame[u].status = "idle"
            BY <1>4, <2>2
        <3>2. refused[u] = {} /\ emitted[u] = {}
            BY <1>5, <3>1 DEF WalkInv, RefusedInv
        <3>3. ~ContainsMutation(prog)[u]
            BY <1>2, <1>3, <1>5, <2>2 DEF RouteInv, ValidateParallelPurity
        <3>4. BlockInv(u)' /\ RefusedInv(u)' /\ CauseInv(u)'
            BY <1>3, <3>1, <3>2 DEF BlockInv, RefusedInv, CauseInv
        <3>5. TodoInv(u)'
            <4>1. u \in Nat
                BY EffectFacts
            <4>2. \A i \in DOMAIN frame'[u].todo : frame'[u].todo[i].effect = u /\ ~frame'[u].todo[i].stands
                BY <3>1 DEF Single
            <4> QED
                BY <1>3, <3>3, <4>1, <4>2 DEF TodoInv, EffectAt
        <3>6. (emitted[u] \subseteq Kept(u))'
            BY <1>3, <3>2
        <3> QED
            BY <3>4, <3>5, <3>6 DEF WalkInv
    <2>3. CASE u # t /\ u \notin B
        BY <1>3, <1>5, <1>9, <1>10, <1>11, <2>3, OtherWalk
    <2> QED
        BY <2>1, <2>2, <2>3
<1>15. ASSUME NEW b \in Effect PROVE BranchInv(b)'
    <2>0. /\ parent[b] \in Thread /\ b \in Thread /\ b # Root /\ b \in Nat /\ parent[b] \in Nat /\ parent[b] # b
          /\ parent[b] < b /\ frame[parent[b]].status # "idle" /\ BranchInv(b)
        BY <1>5, ParentType DEF BranchInv
    <2>1. CASE b \in B
        <3>1. t < b
            <4>1. t <= n
                BY <1>1, <1>5, <1>6, ItemFacts DEF WalkInv, TodoInv, Active
            <4> QED
                BY <1>4, <2>1, <4>1, EffectFacts
        <3>2. This(t)' = n /\ Awaits(t, b)'
            BY <1>1, <1>2, <1>3, <2>1 DEF This, Top, Awaits
        <3> QED
            BY <1>3, <1>4, <2>1, <3>1, <3>2 DEF BranchInv, Active, Completed
    <2>2. CASE b = t
        <3>1. parent[b] # t /\ parent[b] \notin B /\ b \notin B
            BY <1>4, <2>0, <2>2
        <3>2. frame'[parent[b]] = frame[parent[b]] /\ parent'[b] = parent[b] /\ frame'[b].status = "joining"
            BY <1>3, <2>0, <2>2, <3>1
        <3>3. Awaits(parent[b], b)' <=> Awaits(parent[b], b)
            BY <1>3, <3>2 DEF Awaits, This, Top
        <3>4. frame[parent[b]].status = "aborted" \/ Awaits(parent[b], b)
            BY <1>6, <2>0, <2>2 DEF BranchInv, Active
        <3> QED
            BY <2>0, <3>2, <3>3, <3>4 DEF BranchInv, Active, Completed
    <2>3. CASE b # t /\ b \notin B /\ parent[b] = t
        <3>1. /\ frame[b].status \notin {"running", "joining", "halt", "aborted", "pending"}
              /\ frame[b].status \in Completed => Kept(b) \subseteq Kept(t)
            BY <1>6, <2>0, <2>3 DEF BranchInv, Active, Awaits
        <3>2. frame'[b] = frame[b] /\ parent'[b] = t /\ Kept(b)' = Kept(b) /\ Kept(t) \subseteq Kept(t)'
            BY <1>3, <1>8, <2>0, <2>3 DEF Kept
        <3> QED
            BY <1>3, <2>0, <2>3, <3>1, <3>2 DEF BranchInv, Active
    <2>4. CASE b # t /\ b \notin B /\ parent[b] # t
        <3>1. parent[b] \notin B
            BY <1>4, <2>0
        <3>2. frame'[b] = frame[b] /\ parent'[b] = parent[b] /\ frame'[parent[b]] = frame[parent[b]]
              /\ Kept(parent[b]) \subseteq Kept(parent[b])'
            BY <1>3, <1>9, <2>0, <2>4, <3>1
        <3> QED
            BY <1>3, <1>5, <1>10, <2>0, <3>2, OtherBranch
    <2> QED
        BY <2>1, <2>2, <2>3, <2>4
<1>16. \E E \in SUBSET Effect : OnceInv(E)'
    BY ParallelOnce
<1> QED
    BY <1>7, <1>13, <1>14, <1>15, <1>16 DEF IInv

-----------------------------------------------------------------------------
(* A block is joined.                                                      *)

\* The first halting branch is a halting branch.
LEMMA MinFacts ==
    ASSUME NEW S \in SUBSET Nat, S # {}
    PROVE  Min(S) \in S
<1>1. PICK x \in S : \A y \in S : ~(<<y, x>> \in OpToRel(<, Nat))
    BY NatLessThanWellFounded, WFMin, Zenon
<1>2. \A y \in S : ~(y < x)
    BY <1>1, Zenon DEF OpToRel
<1>3. \A y \in S : x <= y
    BY <1>2
<1> QED
    BY <1>3, Zenon DEF Min

\* What the branches that completed accumulated is merged into their owner.
LEMMA MergedFacts ==
    ASSUME TypeOK, NEW t \in Thread, Range(prog.body[This(t)]) \subseteq Thread
    PROVE  /\ Keeps(frame[t], Merged(t)) /\ Merged(t).status = "running"
           /\ Merged(t).todo = frame[t].todo /\ Merged(t).cause = frame[t].cause
           /\ \A b \in Range(prog.body[This(t)]) : frame[b].status \in Completed =>
                 frame[b].taints \cup frame[b].constraints \subseteq Merged(t).taints \cup Merged(t).constraints
<1> DEFINE C == {b \in Range(prog.body[This(t)]) : frame[b].status \in Completed}
           T == frame[t].taints \cup UNION {frame[b].taints : b \in C}
           K == frame[t].constraints \cup UNION {frame[b].constraints : b \in C}
<1>1. \A b \in Thread : frame[b] \in Frame /\ frame[b].taints \subseteq Effect /\ frame[b].constraints \subseteq Effect
    BY FrameFields DEF TypeOK
<1>2. C \subseteq Thread
    OBVIOUS
<1>3. T \subseteq Effect /\ K \subseteq Effect
    BY <1>1, <1>2
<1>4. \A b \in C : frame[b].taints \subseteq T /\ frame[b].constraints \subseteq K
    OBVIOUS
<1>5. Merged(t) = [frame[t] EXCEPT !.status = "running", !.taints = T, !.constraints = K]
    BY <1>1 DEF Merged, Frame
<1>6. frame[t].taints \subseteq T /\ frame[t].constraints \subseteq K
    OBVIOUS
<1>7. \A b \in Range(prog.body[This(t)]) : frame[b].status \in Completed => b \in C
    OBVIOUS
<1> HIDE DEF C, T, K
<1>8. Merged(t) \in Frame
    BY <1>1, <1>3, <1>5 DEF Frame
<1>9. /\ Merged(t).status = "running" /\ Merged(t).todo = frame[t].todo /\ Merged(t).cause = frame[t].cause
      /\ Merged(t).payload = frame[t].payload /\ Merged(t).args_modified = frame[t].args_modified
      /\ Merged(t).result_modified = frame[t].result_modified /\ Merged(t).taints = T /\ Merged(t).constraints = K
    BY <1>1, <1>5 DEF Frame
<1> QED
    BY <1>4, <1>6, <1>7, <1>8, <1>9 DEF Keeps

\* The frame of walk t after its block has been joined.
LEMMA JoinFacts ==
    ASSUME IInv, NEW t \in Thread, Join(t)
    PROVE  /\ frame[t].status = "joining" /\ This(t) \in Effect /\ frame[t].todo # << >> /\ ~Top(t).stands
           /\ \A b \in Range(prog.body[This(t)]) :
                 /\ b \in Effect /\ parent[b] = t /\ frame[b].status \in Ended
                 /\ frame[b].status \in Completed =>
                       frame[b].taints \cup frame[b].constraints \subseteq frame'[t].taints \cup frame'[t].constraints
           /\ frame' \in [Thread -> Frame] /\ \A u \in Thread \ {t} : frame'[u] = frame[u]
           /\ Keeps(frame[t], frame'[t])
           /\ \/ /\ frame'[t].status = "halt"
                 /\ \E c \in Range(prog.body[This(t)]) : frame[c].status = "halt" /\ frame'[t].cause = frame[c].cause
              \/ /\ frame'[t].status = "running" /\ frame'[t].cause = frame[t].cause
                 /\ frame'[t].todo = Tail(frame[t].todo)
                 /\ \A b \in Range(prog.body[This(t)]) : frame[b].status # "halt"
           /\ prog' = prog /\ phase' = phase /\ parent' = parent /\ decision' = decision
           /\ refused' = refused /\ emitted' = emitted
<1> DEFINE body == prog.body[This(t)]
           halting == {i \in DOMAIN body : frame[body[i]].status = "halt"}
           m == Merged(t)
<1>1. TypeOK /\ WalkInv(t) /\ frame[t].status = "joining"
    BY DEF IInv, Join
<1>2. /\ This(t) \in Effect /\ frame[t].todo # << >> /\ ~Top(t).stands
      /\ Range(body) \subseteq Effect /\ Range(body) \subseteq Thread
    BY <1>1, AwaitsType
<1>3. \A b \in Range(body) : parent[b] = t
    BY <1>1 DEF WalkInv, BlockInv
<1>4. \A b \in Range(body) : frame[b].status \in Ended
    BY DEF Join, AllJoined
<1>5. prog' = prog /\ phase' = phase /\ parent' = parent /\ decision' = decision
      /\ refused' = refused /\ emitted' = emitted
    BY DEF Join
<1>6. /\ Keeps(frame[t], m) /\ m.status = "running" /\ m.todo = frame[t].todo /\ m.cause = frame[t].cause
      /\ \A b \in Range(body) : frame[b].status \in Completed =>
            frame[b].taints \cup frame[b].constraints \subseteq m.taints \cup m.constraints
    BY <1>1, <1>2, MergedFacts
<1>7. frame' = [frame EXCEPT ![t] = IF halting # {} THEN Halt(m, BlockCause(t, halting)) ELSE Continue(m)]
    BY DEF Join
<1>8. body \in Seq(Effect) /\ DOMAIN body \subseteq Nat
    <2>1. body \in Seq(Effect)
        BY <1>1, <1>2, HoldsType DEF TypeOK
    <2>2. Len(body) \in Nat /\ DOMAIN body = 1 .. Len(body)
        BY <2>1, LenProperties
    <2> QED
        BY <2>1, <2>2
<1>9. \A i \in DOMAIN body : body[i] \in Range(body)
    BY DEF Range
<1>10. \A b \in Range(body) : \E i \in DOMAIN body : body[i] = b
    BY DEF Range
<1>11. frame \in [Thread -> Frame] /\ m \in Frame
    BY <1>1, <1>6 DEF TypeOK, Keeps
<1> DEFINE g == frame'[t]
<1>12. CASE halting # {}
    <2>1. Min(halting) \in halting
        BY <1>8, <1>12, MinFacts
    <2> DEFINE c == body[Min(halting)]
    <2>2. c \in Range(body) /\ frame[c].status = "halt"
        BY <1>9, <2>1
    <2>3. frame[c].cause \in Effect
        BY <1>1, <1>2, <2>2 DEF TypeOK
    <2>4. BlockCause(t, halting) = frame[c].cause
        BY DEF BlockCause
    <2> HIDE DEF c
    <2>5. frame' = [frame EXCEPT ![t] = Halt(m, frame[c].cause)]
        BY <1>7, <1>12, <2>4
    <2> HIDE DEF m
    <2>6. Keeps(m, Halt(m, frame[c].cause)) /\ Halt(m, frame[c].cause).cause = frame[c].cause
          /\ Halt(m, frame[c].cause).status = "halt"
        BY <1>11, <2>3, StopFacts
    <2>7. g = Halt(m, frame[c].cause) /\ \A u \in Thread \ {t} : frame'[u] = frame[u]
        BY <1>11, <2>5
    <2>8. Keeps(m, g) /\ g.cause = frame[c].cause /\ g.status = "halt" /\ g \in Frame
        BY <2>6, <2>7 DEF Keeps
    <2>9. frame' \in [Thread -> Frame]
        BY <1>11, <2>5, <2>7, <2>8
    <2>10. Keeps(frame[t], g)
        BY <1>6, <2>8, KeepsTrans
    <2>11. m.taints \cup m.constraints \subseteq g.taints \cup g.constraints
        BY <2>8 DEF Keeps
    <2> HIDE DEF g
    <2>12. \A b \in Range(body) : frame[b].status \in Completed =>
               frame[b].taints \cup frame[b].constraints \subseteq g.taints \cup g.constraints
        BY <1>6, <2>11
    <2> HIDE DEF body
    <2>13. \E d \in Range(body) : frame[d].status = "halt" /\ g.cause = frame[d].cause
        BY <2>2, <2>8
    <2> QED
        BY <1>1, <1>2, <1>3, <1>4, <1>5, <2>7, <2>8, <2>9, <2>10, <2>12, <2>13 DEF g, body
<1>13. CASE halting = {}
    <2>1. frame' = [frame EXCEPT ![t] = Continue(m)]
        BY <1>7, <1>13
    <2>2. \A b \in Range(body) : frame[b].status # "halt"
        BY <1>10, <1>13
    <2>3. m.todo # << >>
        BY <1>2, <1>6
    <2> HIDE DEF m, halting
    <2>4. Keeps(m, Continue(m)) /\ Continue(m).status = "running" /\ Continue(m).cause = frame[t].cause
          /\ Continue(m).todo = Tail(frame[t].todo)
        BY <1>6, <1>11, <2>3, ContinueFacts
    <2>5. g = Continue(m) /\ \A u \in Thread \ {t} : frame'[u] = frame[u]
        BY <1>11, <2>1
    <2>6. Keeps(m, g) /\ g.cause = frame[t].cause /\ g.status = "running" /\ g.todo = Tail(frame[t].todo)
        BY <2>4, <2>5
    <2>7. frame' \in [Thread -> Frame]
        BY <1>11, <2>1, <2>5, <2>6 DEF Keeps
    <2>8. Keeps(frame[t], g)
        BY <1>6, <2>6, KeepsTrans
    <2>9. m.taints \cup m.constraints \subseteq g.taints \cup g.constraints
        BY <2>6 DEF Keeps
    <2> HIDE DEF g
    <2>10. \A b \in Range(body) : frame[b].status \in Completed =>
               frame[b].taints \cup frame[b].constraints \subseteq g.taints \cup g.constraints
        BY <1>6, <2>9
    <2> HIDE DEF body
    <2> QED
        BY <1>1, <1>2, <1>3, <1>4, <1>5, <2>2, <2>5, <2>6, <2>7, <2>8, <2>10 DEF g, body
<1> QED
    BY <1>12, <1>13

\* A joined block leaves the stack; nothing new is dispatched.
LEMMA JoinOnce ==
    ASSUME TypeOK, NEW D \in SUBSET Effect, OnceInv(D), NEW t \in Thread,
           frame[t].status = "joining", frame[t].todo # << >>,
           frame'[t].status = "running", frame'[t].todo = Tail(frame[t].todo),
           prog' = prog, phase' = phase, \A u \in Thread \ {t} : frame'[u] = frame[u]
    PROVE  OnceInv(D)'
<1>1. /\ DOMAIN frame[t].todo = 1 .. Len(frame[t].todo) /\ Len(frame[t].todo) \in Nat
      /\ DOMAIN frame'[t].todo = 1 .. Len(frame[t].todo) - 1
      /\ \A i \in 1 .. Len(frame[t].todo) - 1 : frame'[t].todo[i] = frame[t].todo[i + 1]
    <2>1. frame[t].todo \in Seq(Item)
        BY ItemFacts
    <2> QED
        BY <2>1, TailFacts
<1>2. \A i \in Ahead(t)' : i \in Nat /\ i + 1 \in Ahead(t) /\ EffectAt(t, i)' = EffectAt(t, i + 1)
    <2> SUFFICES ASSUME NEW i \in Ahead(t)'
                 PROVE  i \in Nat /\ i + 1 \in Ahead(t) /\ EffectAt(t, i)' = EffectAt(t, i + 1)
        OBVIOUS
    <2>1. i \in 1 .. Len(frame[t].todo) - 1 /\ ~frame'[t].todo[i].stands
        BY <1>1 DEF Ahead
    <2>2. i \in Nat /\ i + 1 \in DOMAIN frame[t].todo /\ i + 1 # 1 /\ frame'[t].todo[i] = frame[t].todo[i + 1]
        BY <1>1, <2>1
    <2> QED
        BY <2>1, <2>2 DEF Ahead, EffectAt
<1>3. \A u \in Thread \ {t} : Active(u)' =>
          Active(u) /\ Ahead(u)' = Ahead(u) /\ \A i \in Ahead(u) : EffectAt(u, i)' = EffectAt(u, i)
    BY DEF Active, Ahead, EffectAt
<1>4. Active(t)
    BY DEF Active
<1>5. \A m : Placed(D, m)' <=> Placed(D, m)
    BY DEF Placed
<1>6. \A m \in D : Placed(D, m)'
    BY <1>5 DEF OnceInv
<1>7. ASSUME NEW b \in Effect, frame'[b].status # "idle" PROVE \E n \in D : b \in Holds(prog', n)
    <2>1. frame[b].status # "idle"
        BY <1>7, EffectFacts
    <2> QED
        BY <2>1 DEF OnceInv
<1>8. ASSUME NEW u \in Thread, frame'[u].status = "joining" PROVE This(u)' \in D
    <2>1. frame'[u] = frame[u]
        BY <1>8
    <2> QED
        BY <1>8, <2>1 DEF OnceInv, This, Top
<1>9. ASSUME NEW u \in Thread, Active(u)' PROVE AheadInv(D, u)'
    <2>1. CASE u = t
        <3>1. \A i \in Ahead(t) : EffectAt(t, i) \notin D /\ Placed(D, EffectAt(t, i))
            BY <1>4 DEF OnceInv, AheadInv
        <3> QED
            BY <1>2, <1>5, <2>1, <3>1 DEF AheadInv
    <2>2. CASE u # t
        BY <1>3, <1>5, <1>9, <2>2 DEF OnceInv, AheadInv
    <2> QED
        BY <2>1, <2>2
<1>10. ASSUME NEW u \in Thread, NEW v \in Thread, Active(u)', Active(v)', NEW i \in Ahead(u)', NEW j \in Ahead(v)',
              EffectAt(u, i)' = EffectAt(v, j)'
       PROVE  u = v /\ i = j
    <2>0. \A x, y \in Thread : Active(x) /\ Active(y) =>
              \A k \in Ahead(x), l \in Ahead(y) : EffectAt(x, k) = EffectAt(y, l) => x = y /\ k = l
        BY DEF OnceInv
    <2>1. CASE u = t /\ v = t
        <3>1. i \in Nat /\ j \in Nat /\ i + 1 \in Ahead(t) /\ j + 1 \in Ahead(t)
              /\ EffectAt(t, i + 1) = EffectAt(t, j + 1)
            BY <1>2, <1>10, <2>1
        <3>2. i + 1 = j + 1
            BY <1>4, <2>0, <3>1
        <3> QED
            BY <2>1, <3>1, <3>2
    <2>2. CASE u = t /\ v # t
        BY <1>2, <1>3, <1>4, <1>10, <2>0, <2>2
    <2>3. CASE u # t /\ v = t
        BY <1>2, <1>3, <1>4, <1>10, <2>0, <2>3
    <2>4. CASE u # t /\ v # t
        BY <1>3, <1>10, <2>0, <2>4
    <2> QED
        BY <2>1, <2>2, <2>3, <2>4
<1> QED
    BY <1>6, <1>7, <1>8, <1>9, <1>10 DEF OnceInv

\* Joining a block preserves the invariant: a halt is handed up with its cause, and
\* a block passes only if no branch halted or was aborted.
LEMMA JoinStep ==
    ASSUME IInv, NEW t \in Thread, Join(t)
    PROVE  IInv'
<1>1. PICK n \in Effect : n = This(t)
    BY JoinFacts
<1>2. PICK B \in SUBSET Effect : B = Range(prog.body[n])
    BY <1>1, JoinFacts
<1>3. /\ frame[t].status = "joining" /\ frame[t].todo # << >> /\ ~Top(t).stands
      /\ frame' \in [Thread -> Frame] /\ \A u \in Thread \ {t} : frame'[u] = frame[u]
      /\ Keeps(frame[t], frame'[t])
      /\ prog' = prog /\ phase' = phase /\ parent' = parent /\ decision' = decision
      /\ refused' = refused /\ emitted' = emitted
    BY JoinFacts
<1>4. \A b \in B : /\ parent[b] = t /\ frame[b].status \in Ended
                   /\ frame[b].status \in Completed =>
                        frame[b].taints \cup frame[b].constraints \subseteq frame'[t].taints \cup frame'[t].constraints
    BY <1>1, <1>2, JoinFacts
<1>5. \/ /\ frame'[t].status = "halt"
         /\ \E c \in B : frame[c].status = "halt" /\ frame'[t].cause = frame[c].cause
      \/ /\ frame'[t].status = "running" /\ frame'[t].cause = frame[t].cause
         /\ frame'[t].todo = Tail(frame[t].todo)
         /\ \A b \in B : frame[b].status # "halt"
    BY <1>1, <1>2, JoinFacts
<1>6. /\ TypeOK /\ RouteInv
      /\ \A u \in Thread : WalkInv(u)
      /\ \A b \in Effect : BranchInv(b)
    BY DEF IInv
<1>7. TypeOK'
    <2>1. frame'[t].status \in {"halt", "pending"} <=> frame'[t].cause \in Effect
        <3>1. CASE frame'[t].status = "halt"
            BY <1>5, <1>6, <3>1, EffectFacts DEF TypeOK
        <3>2. CASE frame'[t].status = "running"
            BY <1>3, <1>5, <1>6, <3>2 DEF TypeOK
        <3> QED
            BY <1>5, <3>1, <3>2
    <2>2. \A u \in Thread : frame'[u].status \in {"halt", "pending"} <=> frame'[u].cause \in Effect
        BY <1>3, <1>6, <2>1 DEF TypeOK
    <2> QED
        BY <1>3, <1>6, <2>2 DEF TypeOK
<1>8. \A u \in Thread : Kept(u) \subseteq Kept(u)'
    BY <1>3 DEF Kept, Keeps
<1>9. HaltsStand
    BY <1>3 DEF HaltsStand
<1>10. frame'[t].status \in {"halt", "running"}
    BY <1>5
<1>11. \A b \in Effect : frame[b].status # "idle" => frame'[b].status # "idle" /\ parent'[b] = parent[b]
    BY <1>3, <1>10, EffectFacts
<1>12. RouteInv'
    <2>1. CASE t = Root
        <3>1. /\ frame'[Root].payload = frame[Root].payload /\ frame'[Root].args_modified = frame[Root].args_modified
              /\ frame'[Root].result_modified = frame[Root].result_modified /\ phase # "done"
            BY <1>3, <1>6, <2>1 DEF Keeps, RouteInv, Completed
        <3>2. \A fields : Changed(fields)' <=> Changed(fields)
            BY <3>1 DEF Changed
        <3> QED
            BY <1>3, <1>6, <1>10, <2>1, <3>1, <3>2 DEF RouteInv
    <2>2. CASE t # Root
        <3>1. frame'[Root] = frame[Root]
            BY <1>3, <2>2, EffectFacts
        <3>2. \A fields : Changed(fields)' <=> Changed(fields)
            BY <3>1 DEF Changed
        <3> QED
            BY <1>3, <1>6, <3>1, <3>2 DEF RouteInv
    <2> QED
        BY <2>1, <2>2
<1>13. \E E \in SUBSET Effect : OnceInv(E)'
    <2>1. PICK D \in SUBSET Effect : OnceInv(D)
        BY DEF IInv
    <2>2. CASE frame'[t].status = "halt"
        <3>1. Active(t) /\ ~Active(t)' /\ frame'[t].status # "idle"
            BY <1>3, <2>2 DEF Active
        <3>2. OnceInv(D)'
            BY <1>3, <1>6, <2>1, <3>1, StopOnce
        <3> QED
            BY <3>2
    <2>3. CASE frame'[t].status = "running"
        <3>1. frame'[t].todo = Tail(frame[t].todo)
            BY <1>5, <2>3
        <3>2. OnceInv(D)'
            BY <1>3, <1>6, <2>1, <2>3, <3>1, JoinOnce
        <3> QED
            BY <3>2
    <2> QED
        BY <1>10, <2>2, <2>3
<1>14. WalkInv(t)'
    <2>1. (emitted[t] \subseteq Kept(t))'
        BY <1>3, <1>6, <1>8 DEF WalkInv
    <2>2. CASE frame'[t].status = "halt"
        <3>1. PICK c \in B : frame[c].status = "halt" /\ frame'[t].cause = frame[c].cause
            BY <1>5, <2>2
        <3>2. c \in Thread /\ parent[c] = t
            BY <1>4, EffectFacts
        <3>3. PICK S \in SUBSET Thread : Explains(c, S)
            BY <1>6, <3>1, <3>2 DEF WalkInv, CauseInv
        <3> DEFINE R == S \cup {t}
        <3>4. \E u \in R : frame'[t].cause \in refused'[u]
            BY <1>3, <3>1, <3>3 DEF Explains
        <3>5. ASSUME NEW x \in R PROVE frame'[x].status = "halt" /\ (x # t => x \in Effect /\ parent'[x] \in R)
            <4>1. CASE x = t
                BY <2>2, <4>1
            <4>2. CASE x # t /\ x = c
                BY <1>3, <3>1, <3>2, <4>2
            <4>3. CASE x # t /\ x # c
                BY <1>3, <3>3, <4>3 DEF Explains
            <4> QED
                BY <4>1, <4>2, <4>3
        <3>6. Explains(t, R)'
            BY <3>4, <3>5 DEF Explains
        <3>7. CauseInv(t)'
            BY <3>6 DEF CauseInv
        <3>8. BlockInv(t)' /\ TodoInv(t)' /\ RefusedInv(t)'
            BY <2>2 DEF BlockInv, TodoInv, RefusedInv, Active
        <3> QED
            BY <2>1, <3>7, <3>8 DEF WalkInv
    <2>3. CASE frame'[t].status = "running"
        <3>1. BlockInv(t)' /\ CauseInv(t)'
            BY <2>3 DEF BlockInv, CauseInv
        <3>2. frame[t].todo \in Seq(Item) /\ Top(t) = frame[t].todo[1]
            BY <1>3, <1>6, ItemFacts
        <3>3. /\ DOMAIN frame[t].todo = 1 .. Len(frame[t].todo) /\ Len(frame[t].todo) \in Nat
              /\ DOMAIN Tail(frame[t].todo) = 1 .. Len(frame[t].todo) - 1
              /\ \A i \in 1 .. Len(frame[t].todo) - 1 : Tail(frame[t].todo)[i] = frame[t].todo[i + 1]
            BY <1>3, <3>2, TailFacts
        <3>4. frame'[t].todo = Tail(frame[t].todo)
            BY <1>5, <2>3
        <3>5. \A i \in DOMAIN frame'[t].todo :
                  i + 1 \in DOMAIN frame[t].todo /\ frame'[t].todo[i] = frame[t].todo[i + 1]
            BY <3>3, <3>4
        <3>6. \A i \in DOMAIN frame[t].todo :
                  i # 1 => i - 1 \in DOMAIN frame'[t].todo /\ frame'[t].todo[i - 1] = frame[t].todo[i]
            BY <3>3, <3>4
        <3>7. Active(t) /\ TodoInv(t) /\ RefusedInv(t)
            BY <1>3, <1>6 DEF Active, WalkInv
        <3>8. TodoInv(t)'
            BY <1>3, <3>5, <3>7 DEF TodoInv, EffectAt
        <3>9. RefusedInv(t)'
            <4> SUFFICES ASSUME refused[t] # {} PROVE \E i \in DOMAIN frame'[t].todo : frame'[t].todo[i].stands
                BY <1>3, <2>3 DEF RefusedInv
            <4>1. PICK i \in DOMAIN frame[t].todo : frame[t].todo[i].stands
                BY <3>7 DEF RefusedInv
            <4>2. i # 1
                BY <1>3, <3>2, <4>1
            <4> QED
                BY <3>6, <4>1, <4>2
        <3> QED
            BY <2>1, <3>1, <3>8, <3>9 DEF WalkInv
    <2> QED
        BY <1>10, <2>2, <2>3
<1>15. ASSUME NEW u \in Thread PROVE WalkInv(u)'
    <2>1. CASE u # t
        BY <1>3, <1>6, <1>8, <1>9, <1>11, <2>1, OtherWalk
    <2> QED
        BY <1>14, <2>1
<1>16. ASSUME NEW b \in Effect PROVE BranchInv(b)'
    <2>0. /\ parent[b] \in Thread /\ b \in Thread /\ b # Root /\ b \in Nat /\ parent[b] \in Nat /\ parent[b] # b
          /\ parent[b] < b /\ frame[parent[b]].status # "idle" /\ BranchInv(b)
        BY <1>6, ParentType DEF BranchInv
    <2>1. CASE b = t
        <3>1. frame'[parent[b]] = frame[parent[b]] /\ parent'[b] = parent[b]
            BY <1>3, <2>0, <2>1
        <3>2. Awaits(parent[b], b)' <=> Awaits(parent[b], b)
            BY <1>3, <3>1 DEF Awaits, This, Top
        <3>3. frame[parent[b]].status = "aborted" \/ Awaits(parent[b], b)
            BY <1>3, <2>0, <2>1 DEF BranchInv, Active
        <3> QED
            BY <1>10, <2>0, <2>1, <3>1, <3>2, <3>3 DEF BranchInv
    <2>2. CASE b # t /\ parent[b] = t
        <3>1. /\ frame'[b] = frame[b] /\ parent'[b] = t
              /\ Kept(b)' = Kept(b) /\ Kept(b) = frame[b].taints \cup frame[b].constraints
            BY <1>3, <2>0, <2>2 DEF Kept
        <3>2. Awaits(t, b) <=> b \in B
            BY <1>1, <1>2, <1>3 DEF Awaits
        <3>3. frame'[t].taints \cup frame'[t].constraints \subseteq Kept(t)'
            BY DEF Kept
        <3>4. frame[b].status \in Completed => Kept(b) \subseteq Kept(t)'
            <4>1. CASE b \in B
                BY <1>4, <3>1, <3>3, <4>1
            <4>2. CASE b \notin B
                BY <1>3, <1>8, <2>0, <2>2, <3>2, <4>2 DEF BranchInv
            <4> QED
                BY <4>1, <4>2
        <3>5. ~Active(b)
            BY <1>3, <1>4, <2>0, <2>2, <3>2 DEF BranchInv, Active, Ended, Completed
        <3>6. frame'[t].status = "running" => frame[b].status \notin {"halt", "aborted"}
            <4> SUFFICES ASSUME frame'[t].status = "running", frame[b].status \in {"halt", "aborted"} PROVE FALSE
                OBVIOUS
            <4>1. \A c \in B : frame[c].status # "halt"
                BY <1>5
            <4>2. Awaits(t, b) /\ b \in B
                BY <1>3, <2>0, <2>2, <3>2 DEF BranchInv
            <4>3. frame[b].status = "aborted"
                BY <4>1, <4>2
            <4>4. \E c \in Range(prog.body[This(t)]) : frame[c].status = "halt"
                BY <2>0, <2>2, <4>2, <4>3 DEF BranchInv
            <4> QED
                BY <1>1, <1>2, <4>1, <4>4
        <3>7. ~Awaits(t, b)'
            BY <1>10 DEF Awaits
        <3>8. frame[b].status # "pending"
            BY <2>0 DEF BranchInv
        <3> QED
            BY <1>10, <2>0, <2>2, <3>1, <3>4, <3>5, <3>6, <3>7, <3>8 DEF BranchInv, Active
    <2>3. CASE b # t /\ parent[b] # t
        BY <1>3, <1>6, <1>8, <1>9, <2>0, <2>3, OtherBranch
    <2> QED
        BY <2>1, <2>2, <2>3
<1> QED
    BY <1>7, <1>12, <1>13, <1>15, <1>16 DEF IInv

-----------------------------------------------------------------------------
(* A phase ends.                                                           *)

\* The route is decided and its frames stay as they are.
LEMMA DecidedStep ==
    ASSUME IInv, TypeOK', RouteInv', phase' = "done",
           frame' = frame, prog' = prog, parent' = parent, refused' = refused, emitted' = emitted,
           decision.taints \cup decision.constraints \subseteq decision'.taints \cup decision'.constraints
    PROVE  IInv'
<1>1. /\ TypeOK
      /\ \A u \in Thread : WalkInv(u)
      /\ \A b \in Effect : BranchInv(b)
    BY DEF IInv
<1>2. HaltsStand
    BY DEF HaltsStand
<1>3. \A u \in Thread : Kept(u) \subseteq Kept(u)'
    BY DEF Kept
<1>4. \A u \in Thread : WalkInv(u)'
    BY <1>1, <1>2, <1>3, OtherWalk
<1>5. ASSUME NEW b \in Effect PROVE BranchInv(b)'
    <2>1. parent[b] \in Thread
        BY <1>1, ParentType
    <2> QED
        BY <1>1, <1>2, <1>3, <2>1, OtherBranch
<1>6. PICK D \in SUBSET Effect : OnceInv(D)
    BY DEF IInv
<1>7. \A m : Placed(D, m) => Placed(D, m)'
    BY DEF Placed
<1>8. OnceInv(D)'
    <2>1. \A m \in D : Placed(D, m)'
        BY <1>6, <1>7 DEF OnceInv
    <2>2. \A b \in Effect : frame'[b].status # "idle" => \E n \in D : b \in Holds(prog', n)
        BY <1>6 DEF OnceInv
    <2>3. \A u \in Thread : frame'[u].status = "joining" => This(u)' \in D
        BY <1>6 DEF OnceInv, This, Top
    <2>4. \A u \in Thread : /\ Active(u)' <=> Active(u)
                            /\ Ahead(u)' = Ahead(u)
                            /\ \A i : EffectAt(u, i)' = EffectAt(u, i)
        BY DEF Active, Ahead, EffectAt
    <2>5. \A u \in Thread : Active(u)' => AheadInv(D, u)'
        BY <1>6, <1>7, <2>4 DEF OnceInv, AheadInv
    <2>6. \A u, v \in Thread : Active(u)' /\ Active(v)' =>
              \A i \in Ahead(u)', j \in Ahead(v)' : EffectAt(u, i)' = EffectAt(v, j)' => u = v /\ i = j
        BY <1>6, <2>4 DEF OnceInv
    <2> QED
        BY <2>1, <2>2, <2>3, <2>5, <2>6 DEF OnceInv
<1> QED
    BY <1>4, <1>5, <1>8 DEF IInv

\* The sections of a route are lists of effects.
LEMMA SectionFacts ==
    ASSUME NEW p \in Program
    PROVE  PreList(p) \in Seq(Effect) /\ PostList(p) \in Seq(Effect)
<1>1. p.args \in Seq(Effect) /\ p.policy \in Seq(Effect) /\ p.result \in Seq(Effect) /\ p.post_policy \in Seq(Effect)
    BY DEF Program
<1> QED
    BY <1>1, ConcatProperties DEF PreList, PostList

\* The decision that a phase returns has its type, and a cause if it is none.
LEMMA EndType ==
    ASSUME TypeOK, NEW T \in SUBSET Effect, NEW C \in SUBSET Effect, NEW a \in BOOLEAN, NEW r \in BOOLEAN,
           frame[Root].status \in Completed,
           decision' = [verdict |-> Verdict(frame[Root]), cause |-> frame[Root].cause,
                        pending |-> frame[Root].status = "pending", taints |-> T, constraints |-> C,
                        args_modified |-> a, result_modified |-> r]
    PROVE  /\ decision' \in RouteDecision
           /\ decision'.verdict = "deny" \/ decision'.pending <=> decision'.cause \in Effect
           /\ decision'.verdict = "deny" <=> frame[Root].status = "halt"
           /\ decision'.pending <=> frame[Root].status = "pending"
           /\ decision'.cause = frame[Root].cause
           /\ decision'.taints = T /\ decision'.constraints = C
           /\ decision'.args_modified = a /\ decision'.result_modified = r
<1>1. Root \in Thread
    BY EffectFacts
<1>2. frame[Root] \in Frame /\ (frame[Root].status \in {"halt", "pending"} <=> frame[Root].cause \in Effect)
    BY <1>1 DEF TypeOK
<1>3. frame[Root].cause \in Thread
    BY <1>2, FrameFields
<1>4. Verdict(frame[Root]) \in {"allow", "deny"} /\ (Verdict(frame[Root]) = "deny" <=> frame[Root].status = "halt")
    BY DEF Verdict
<1>5. decision' \in RouteDecision
    BY <1>3, <1>4 DEF RouteDecision
<1> QED
    BY <1>2, <1>4, <1>5

\* The decision that evaluate_pre returns.
LEMMA EndPreType ==
    ASSUME IInv, EndPre
    PROVE  /\ decision' \in RouteDecision
           /\ decision'.verdict = "deny" \/ decision'.pending <=> decision'.cause \in Effect
           /\ decision'.verdict = "deny" <=> frame[Root].status = "halt"
           /\ decision'.pending <=> frame[Root].status = "pending"
           /\ decision'.cause = frame[Root].cause
           /\ decision'.taints = frame[Root].taints /\ decision'.constraints = frame[Root].constraints
           /\ decision'.args_modified = frame[Root].args_modified /\ decision'.result_modified = FALSE
<1>1. TypeOK /\ frame[Root] \in Frame
    BY EffectFacts DEF IInv, TypeOK
<1>2. frame[Root].taints \in SUBSET Effect /\ frame[Root].constraints \in SUBSET Effect
      /\ frame[Root].args_modified \in BOOLEAN
    BY <1>1, FrameFields
<1>3. frame[Root].status \in Completed
    BY DEF EndPre
<1>4. decision' = [verdict |-> Verdict(frame[Root]), cause |-> frame[Root].cause,
                   pending |-> frame[Root].status = "pending",
                   taints |-> frame[Root].taints, constraints |-> frame[Root].constraints,
                   args_modified |-> frame[Root].args_modified, result_modified |-> FALSE]
    BY DEF EndPre
<1> QED
    BY <1>1, <1>2, <1>3, <1>4, EndType

\* evaluate_post adds its phase to the decision of the first.
LEMMA EndPostStep ==
    ASSUME IInv, EndPost
    PROVE  IInv'
<1>1. TypeOK /\ RouteInv /\ frame[Root] \in Frame /\ decision \in RouteDecision
    BY EffectFacts DEF IInv, TypeOK
<1> DEFINE T == decision.taints \cup frame[Root].taints
           C == decision.constraints \cup frame[Root].constraints
<1>2. T \in SUBSET Effect /\ C \in SUBSET Effect /\ frame[Root].result_modified \in BOOLEAN
      /\ decision.args_modified \in BOOLEAN
    BY <1>1, FrameFields DEF RouteDecision
<1>3. phase = "post" /\ phase' = "done" /\ frame[Root].status \in Completed
      /\ prog' = prog /\ frame' = frame /\ parent' = parent /\ refused' = refused /\ emitted' = emitted
    BY DEF EndPost
<1>4. decision' = [verdict |-> Verdict(frame[Root]), cause |-> frame[Root].cause,
                   pending |-> frame[Root].status = "pending", taints |-> T, constraints |-> C,
                   args_modified |-> decision.args_modified, result_modified |-> frame[Root].result_modified]
    BY DEF EndPost
<1>5. decision.taints \cup decision.constraints \subseteq T \cup C
      /\ frame[Root].taints \cup frame[Root].constraints \subseteq T \cup C
    OBVIOUS
<1> HIDE DEF T, C
<1>6. /\ decision' \in RouteDecision
      /\ decision'.verdict = "deny" \/ decision'.pending <=> decision'.cause \in Effect
      /\ decision'.verdict = "deny" <=> frame[Root].status = "halt"
      /\ decision'.pending <=> frame[Root].status = "pending"
      /\ decision'.cause = frame[Root].cause
      /\ decision'.taints = T /\ decision'.constraints = C
      /\ decision'.args_modified = decision.args_modified
      /\ decision'.result_modified = frame[Root].result_modified
    BY <1>1, <1>2, <1>3, <1>4, EndType
<1>7. TypeOK'
    BY <1>1, <1>3, <1>6 DEF TypeOK
<1>8. Changed(ArgsField)' = Changed(ArgsField) /\ Changed(ResultField)' = Changed(ResultField)
    BY <1>3 DEF Changed
<1>9. decision.args_modified = Changed(ArgsField) /\ frame[Root].result_modified = Changed(ResultField)
      /\ ValidateParallelPurity(prog) /\ Tree(prog)
    BY <1>1, <1>3 DEF RouteInv
<1>10. RouteInv'
    BY <1>3, <1>5, <1>6, <1>8, <1>9 DEF RouteInv, Completed
<1> QED
    BY <1>3, <1>5, <1>6, <1>7, <1>10, DecidedStep

\* The stack a section starts with.
LEMMA SectionItems ==
    ASSUME NEW list \in Seq(Effect)
    PROVE  /\ Items(list) \in Seq(Item) /\ DOMAIN Items(list) = DOMAIN list
           /\ \A i \in DOMAIN list : /\ Items(list)[i].effect = list[i] /\ ~Items(list)[i].stands
                                     /\ list[i] \in Effect /\ list[i] \in Range(list)
<1>1. /\ Items(list) \in Seq(Item) /\ Len(Items(list)) = Len(list)
      /\ DOMAIN list = 1 .. Len(list)
      /\ \A i \in 1 .. Len(list) : list[i] \in Effect /\ Items(list)[i] = [effect |-> list[i], stands |-> FALSE]
    BY ItemsFacts
<1>2. DOMAIN Items(list) = 1 .. Len(list)
    BY <1>1, LenProperties
<1>3. \A i \in DOMAIN list : list[i] \in Range(list)
    BY DEF Range
<1> QED
    BY <1>1, <1>2, <1>3

\* The frame of the route when the second phase starts.
LEMMA PostFacts ==
    ASSUME IInv, EndPre, frame[Root].status = "continue"
    PROVE  /\ frame' \in [Thread -> Frame] /\ \A u \in Thread \ {Root} : frame'[u] = frame[u]
           /\ frame'[Root].status = "running" /\ frame'[Root].cause = Root
           /\ DOMAIN frame'[Root].todo = DOMAIN PostList(prog)
           /\ \A i \in DOMAIN PostList(prog) :
                 /\ frame'[Root].todo[i].effect = PostList(prog)[i] /\ ~frame'[Root].todo[i].stands
                 /\ PostList(prog)[i] \in Effect /\ PostList(prog)[i] \in Range(PostList(prog))
           /\ frame'[Root].payload = frame[Root].payload /\ frame'[Root].result_modified = FALSE
           /\ phase = "pre" /\ phase' = "post"
           /\ prog' = prog /\ parent' = parent /\ refused' = refused /\ emitted' = emitted
<1> DEFINE it == Items(PostList(prog))
           g == Fresh("running", it, frame[Root].bag, frame[Root].payload)
<1>1. TypeOK /\ frame \in [Thread -> Frame] /\ Root \in Thread /\ frame[Root] \in Frame /\ prog \in Program
    BY EffectFacts DEF IInv, TypeOK
<1>2. PostList(prog) \in Seq(Effect)
    BY <1>1, SectionFacts
<1>3. /\ it \in Seq(Item) /\ DOMAIN it = DOMAIN PostList(prog)
      /\ \A i \in DOMAIN PostList(prog) :
            /\ it[i].effect = PostList(prog)[i] /\ ~it[i].stands
            /\ PostList(prog)[i] \in Effect /\ PostList(prog)[i] \in Range(PostList(prog))
    BY <1>2, SectionItems
<1>4. frame' = [frame EXCEPT ![Root] = g]
    BY DEF EndPre
<1>5. phase = "pre" /\ phase' = "post" /\ prog' = prog /\ parent' = parent /\ refused' = refused /\ emitted' = emitted
    BY DEF EndPre
<1>6. frame[Root].bag \in SUBSET Key /\ frame[Root].payload \in [Field -> FieldState]
    BY <1>1, FrameFields
<1> HIDE DEF it
<1>7. /\ g \in Frame /\ g.status = "running" /\ g.cause = Root /\ g.todo = it
      /\ g.payload = frame[Root].payload /\ g.result_modified = FALSE
    BY <1>1, <1>3, <1>6 DEF Fresh, Frame
<1> HIDE DEF g
<1>8. frame'[Root] = g /\ frame' \in [Thread -> Frame] /\ \A u \in Thread \ {Root} : frame'[u] = frame[u]
    BY <1>1, <1>4, <1>7
<1> QED
    BY <1>3, <1>5, <1>7, <1>8

\* The effects of the second phase are reached for the first time.
LEMMA PostOnce ==
    ASSUME IInv, EndPre, frame[Root].status = "continue"
    PROVE  \E E \in SUBSET Effect : OnceInv(E)'
<1>1. PICK D \in SUBSET Effect : OnceInv(D)
    BY DEF IInv
<1>2. TypeOK /\ Tree(prog) /\ prog \in Program /\ Root \in Thread
    BY EffectFacts DEF IInv, RouteInv, TypeOK
<1>3. PICK L : L = PostList(prog)
    OBVIOUS
<1>4. /\ \A u \in Thread \ {Root} : frame'[u] = frame[u]
      /\ frame'[Root].status = "running" /\ DOMAIN frame'[Root].todo = DOMAIN L
      /\ \A i \in DOMAIN L :
            /\ frame'[Root].todo[i].effect = L[i] /\ ~frame'[Root].todo[i].stands
            /\ L[i] \in Effect /\ L[i] \in Range(L)
      /\ phase = "pre" /\ phase' = "post" /\ prog' = prog
    BY <1>3, PostFacts
<1>5. \A m \in Range(L) : ~Placed(D, m) /\ Placed(D, m)'
    <2> SUFFICES ASSUME NEW m \in Range(L) PROVE ~Placed(D, m) /\ Placed(D, m)'
        OBVIOUS
    <2>1. m \notin Range(PreList(prog))
        BY <1>2, <1>3 DEF Tree
    <2>2. \A n \in Effect : m \notin Holds(prog, n)
        BY <1>2, <1>3 DEF Tree
    <2> QED
        BY <1>3, <1>4, <2>1, <2>2 DEF Placed
<1>6. \A m : Placed(D, m) => Placed(D, m)'
    BY <1>4 DEF Placed
<1>7. \A i \in Ahead(Root)' : i \in DOMAIN L /\ EffectAt(Root, i)' = L[i] /\ L[i] \in Range(L)
    BY <1>4 DEF Ahead, EffectAt
<1>8. \A u \in Thread \ {Root} : Active(u)' =>
          Active(u) /\ Ahead(u)' = Ahead(u) /\ \A i \in Ahead(u) : EffectAt(u, i)' = EffectAt(u, i)
    BY <1>4 DEF Active, Ahead, EffectAt
<1>9. \A m \in D : Placed(D, m) /\ Placed(D, m)'
    BY <1>1, <1>6 DEF OnceInv
<1>10. ASSUME NEW b \in Effect, frame'[b].status # "idle" PROVE \E n \in D : b \in Holds(prog', n)
    <2>1. frame[b].status # "idle"
        BY <1>4, <1>10, EffectFacts
    <2> QED
        BY <1>1, <1>4, <2>1 DEF OnceInv
<1>11. ASSUME NEW u \in Thread, frame'[u].status = "joining" PROVE This(u)' \in D
    <2>1. frame'[u] = frame[u]
        BY <1>4, <1>11
    <2> QED
        BY <1>1, <1>11, <2>1 DEF OnceInv, This, Top
<1>12. \A u \in Thread : Active(u) => \A i \in Ahead(u) : EffectAt(u, i) \notin D /\ Placed(D, EffectAt(u, i))
    BY <1>1 DEF OnceInv, AheadInv
<1>13. ASSUME NEW u \in Thread, Active(u)' PROVE AheadInv(D, u)'
    <2>1. CASE u = Root
        BY <1>5, <1>7, <1>9, <2>1 DEF AheadInv
    <2>2. CASE u # Root
        BY <1>6, <1>8, <1>12, <1>13, <2>2 DEF AheadInv
    <2> QED
        BY <2>1, <2>2
<1>14. IsInjective(L)
    BY <1>2, <1>3 DEF Tree
<1>15. ASSUME NEW u \in Thread, NEW v \in Thread, Active(u)', Active(v)', NEW i \in Ahead(u)', NEW j \in Ahead(v)',
              EffectAt(u, i)' = EffectAt(v, j)'
       PROVE  u = v /\ i = j
    <2>1. CASE u = Root /\ v = Root
        BY <1>7, <1>14, <1>15, <2>1 DEF IsInjective
    <2>2. CASE u = Root /\ v # Root
        BY <1>5, <1>7, <1>8, <1>12, <1>15, <2>2
    <2>3. CASE u # Root /\ v = Root
        BY <1>5, <1>7, <1>8, <1>12, <1>15, <2>3
    <2>4. CASE u # Root /\ v # Root
        BY <1>1, <1>8, <1>15, <2>4 DEF OnceInv
    <2> QED
        BY <2>1, <2>2, <2>3, <2>4
<1>16. OnceInv(D)'
    BY <1>9, <1>10, <1>11, <1>13, <1>15 DEF OnceInv
<1> QED
    BY <1>16

\* The second phase starts with the first one's bag, payload and accumulators.
LEMMA PostStep ==
    ASSUME IInv, EndPre, frame[Root].status = "continue"
    PROVE  IInv'
<1>1. /\ TypeOK /\ RouteInv /\ Root \in Thread
      /\ \A u \in Thread : WalkInv(u)
      /\ \A b \in Effect : BranchInv(b)
    BY EffectFacts DEF IInv
<1>2. /\ frame' \in [Thread -> Frame] /\ \A u \in Thread \ {Root} : frame'[u] = frame[u]
      /\ frame'[Root].status = "running" /\ frame'[Root].cause = Root
      /\ phase = "pre" /\ phase' = "post"
      /\ prog' = prog /\ parent' = parent /\ refused' = refused /\ emitted' = emitted
    BY PostFacts
<1>3. \A i \in DOMAIN frame'[Root].todo : frame'[Root].todo[i].effect \in Effect /\ ~frame'[Root].todo[i].stands
    BY PostFacts
<1>4. frame'[Root].payload = frame[Root].payload /\ frame'[Root].result_modified = FALSE
    BY PostFacts
<1>5. /\ decision' \in RouteDecision
      /\ decision'.verdict = "deny" \/ decision'.pending <=> decision'.cause \in Effect
      /\ decision'.taints = frame[Root].taints /\ decision'.constraints = frame[Root].constraints
      /\ decision'.args_modified = frame[Root].args_modified
    BY EndPreType
<1>6. TypeOK'
    <2>1. \A u \in Thread : frame'[u].status \in {"halt", "pending"} <=> frame'[u].cause \in Effect
        BY <1>1, <1>2, EffectFacts DEF TypeOK
    <2> QED
        BY <1>1, <1>2, <1>5, <2>1 DEF TypeOK
<1>7. RouteInv'
    <2>1. Changed(ArgsField)' = Changed(ArgsField) /\ Changed(ResultField)' = Changed(ResultField)
        BY <1>4 DEF Changed
    <2>2. frame[Root].args_modified = Changed(ArgsField) /\ ~Changed(ResultField)
          /\ ValidateParallelPurity(prog) /\ Tree(prog)
        BY <1>1, <1>2 DEF RouteInv
    <2>3. Changed(ResultField) = FALSE
        BY <2>2 DEF Changed
    <2> QED
        BY <1>2, <1>4, <1>5, <2>1, <2>2, <2>3 DEF RouteInv
<1>8. Kept(Root) \subseteq Kept(Root)' /\ \A u \in Thread \ {Root} : Kept(u)' = Kept(u)
    <2>1. decision.taints = {} /\ decision.constraints = {}
        BY <1>1, <1>2 DEF RouteInv
    <2> QED
        BY <1>2, <1>5, <2>1 DEF Kept
<1>9. HaltsStand
    BY <1>2 DEF HaltsStand
<1>10. \A b \in Effect : frame[b].status # "idle" => frame'[b].status # "idle" /\ parent'[b] = parent[b]
    BY <1>2, EffectFacts
<1>11. WalkInv(Root)'
    <2>1. refused[Root] = {} /\ emitted[Root] \subseteq Kept(Root)
        BY <1>1 DEF WalkInv, RefusedInv
    <2>2. BlockInv(Root)' /\ CauseInv(Root)' /\ RefusedInv(Root)'
        BY <1>2, <2>1 DEF BlockInv, CauseInv, RefusedInv
    <2>3. TodoInv(Root)'
        <3>1. \A n \in Effect : Root <= n
            BY EffectFacts
        <3> QED
            BY <1>2, <1>3, <3>1 DEF TodoInv, EffectAt
    <2>4. (emitted[Root] \subseteq Kept(Root))'
        BY <1>2, <1>8, <2>1
    <2> QED
        BY <2>2, <2>3, <2>4 DEF WalkInv
<1>12. ASSUME NEW u \in Thread PROVE WalkInv(u)'
    <2>1. CASE u # Root
        BY <1>1, <1>2, <1>8, <1>9, <1>10, <2>1, OtherWalk
    <2> QED
        BY <1>11, <2>1
<1>13. ASSUME NEW b \in Effect PROVE BranchInv(b)'
    <2>0. /\ parent[b] \in Thread /\ b \in Thread /\ b # Root /\ parent[b] < b /\ BranchInv(b)
          /\ frame'[b] = frame[b] /\ parent'[b] = parent[b] /\ Kept(b)' = Kept(b)
        BY <1>1, <1>2, <1>8, ParentType
    <2>1. CASE parent[b] = Root
        <3>1. /\ frame[b].status \notin {"running", "joining", "halt", "aborted", "pending"}
              /\ frame[b].status \in Completed => Kept(b) \subseteq Kept(Root)
            BY <2>0, <2>1 DEF BranchInv, Active, Awaits
        <3> QED
            BY <1>2, <1>8, <2>0, <2>1, <3>1 DEF BranchInv, Active
    <2>2. CASE parent[b] # Root
        BY <1>1, <1>2, <1>8, <1>9, <2>0, <2>2, OtherBranch
    <2> QED
        BY <2>1, <2>2
<1>14. \E E \in SUBSET Effect : OnceInv(E)'
    BY PostOnce
<1> QED
    BY <1>6, <1>7, <1>12, <1>13, <1>14 DEF IInv

\* The end of the first phase preserves the invariant.
LEMMA EndPreStep ==
    ASSUME IInv, EndPre
    PROVE  IInv'
<1>1. CASE frame[Root].status = "continue"
    BY <1>1, PostStep
<1>2. CASE frame[Root].status # "continue"
    <2>1. TypeOK /\ RouteInv
        BY DEF IInv
    <2>2. phase = "pre" /\ phase' = "done" /\ frame[Root].status \in Completed
          /\ prog' = prog /\ frame' = frame /\ parent' = parent /\ refused' = refused /\ emitted' = emitted
        BY <1>2 DEF EndPre
    <2>3. /\ decision' \in RouteDecision
          /\ decision'.verdict = "deny" \/ decision'.pending <=> decision'.cause \in Effect
          /\ decision'.verdict = "deny" <=> frame[Root].status = "halt"
          /\ decision'.pending <=> frame[Root].status = "pending"
          /\ decision'.cause = frame[Root].cause
          /\ decision'.taints = frame[Root].taints /\ decision'.constraints = frame[Root].constraints
          /\ decision'.args_modified = frame[Root].args_modified /\ decision'.result_modified = FALSE
        BY EndPreType
    <2>4. TypeOK'
        BY <2>1, <2>2, <2>3 DEF TypeOK
    <2>5. Changed(ArgsField)' = Changed(ArgsField) /\ Changed(ResultField)' = Changed(ResultField)
        BY <2>2 DEF Changed
    <2>6. /\ frame[Root].args_modified = Changed(ArgsField) /\ ~Changed(ResultField)
          /\ decision.taints = {} /\ decision.constraints = {}
          /\ ValidateParallelPurity(prog) /\ Tree(prog)
        BY <2>1, <2>2 DEF RouteInv
    <2>7. Changed(ResultField) = FALSE
        BY <2>6 DEF Changed
    <2>8. RouteInv'
        BY <2>2, <2>3, <2>5, <2>6, <2>7 DEF RouteInv, Completed
    <2>9. decision.taints \cup decision.constraints \subseteq decision'.taints \cup decision'.constraints
        BY <2>6
    <2> QED
        BY <2>2, <2>4, <2>8, <2>9, DecidedStep
<1> QED
    BY <1>1, <1>2

-----------------------------------------------------------------------------
(* The invariant holds.                                                    *)

\* The frames a route starts with.
LEMMA InitFacts ==
    ASSUME Init
    PROVE  /\ prog \in Program /\ Tree(prog) /\ ValidateParallelPurity(prog) /\ phase = "pre"
           /\ frame \in [Thread -> Frame]
           /\ frame[Root].status = "running" /\ DOMAIN frame[Root].todo = DOMAIN PreList(prog)
           /\ \A i \in DOMAIN PreList(prog) :
                 /\ frame[Root].todo[i].effect = PreList(prog)[i] /\ ~frame[Root].todo[i].stands
                 /\ PreList(prog)[i] \in Effect /\ PreList(prog)[i] \in Range(PreList(prog))
           /\ \A b \in Effect : frame[b].status = "idle"
           /\ \A t \in Thread : frame[t].cause = Root
           /\ frame[Root].args_modified = FALSE
           /\ \A f \in Field : frame[Root].payload[f] \in {"original", "absent"}
<1>1. prog \in Programs /\ prog \in Program /\ Tree(prog) /\ ValidateParallelPurity(prog) /\ phase = "pre"
    BY EvaluatorAssumption DEF Init
<1>2. PICK bag \in SUBSET (Key \ {Granted}), present \in SUBSET Field :
          frame = [t \in Thread |->
                      IF t = Root
                      THEN Fresh("running", Items(PreList(prog)), bag,
                                 [f \in Field |-> IF f \in present THEN "original" ELSE "absent"])
                      ELSE Fresh("idle", << >>, {},
                                 [f \in Field |-> IF f \in present THEN "original" ELSE "absent"])]
    BY DEF Init
<1> DEFINE pay == [f \in Field |-> IF f \in present THEN "original" ELSE "absent"]
           it == Items(PreList(prog))
           run == Fresh("running", it, bag, pay)
           idle == Fresh("idle", << >>, {}, pay)
<1>3. pay \in [Field -> FieldState] /\ \A f \in Field : pay[f] \in {"original", "absent"}
    BY DEF FieldState
<1>4. PreList(prog) \in Seq(Effect)
    BY <1>1, SectionFacts
<1>5. /\ it \in Seq(Item) /\ DOMAIN it = DOMAIN PreList(prog)
      /\ \A i \in DOMAIN PreList(prog) :
            /\ it[i].effect = PreList(prog)[i] /\ ~it[i].stands
            /\ PreList(prog)[i] \in Effect /\ PreList(prog)[i] \in Range(PreList(prog))
    BY <1>4, SectionItems
<1>6. bag \in SUBSET Key /\ Root \in Thread /\ << >> \in Seq(Item)
    BY EffectFacts
<1>7. frame = [t \in Thread |-> IF t = Root THEN run ELSE idle]
    BY <1>2
<1> HIDE DEF pay, it
<1>8. /\ run \in Frame /\ run.status = "running" /\ run.todo = it /\ run.cause = Root
      /\ run.args_modified = FALSE /\ run.payload = pay
    BY <1>3, <1>5, <1>6 DEF Fresh, Frame
<1>9. idle \in Frame /\ idle.status = "idle" /\ idle.cause = Root
    BY <1>3, <1>6 DEF Fresh, Frame
<1> HIDE DEF run, idle
<1>10. frame \in [Thread -> Frame] /\ frame[Root] = run
    BY <1>6, <1>7, <1>8, <1>9
<1>11. \A b \in Effect : frame[b] = idle
    BY <1>7, EffectFacts
<1>12. \A t \in Thread : frame[t].cause = Root
    BY <1>7, <1>8, <1>9
<1> QED
    BY <1>1, <1>3, <1>5, <1>8, <1>9, <1>10, <1>11, <1>12

\* A route starts in the invariant.
LEMMA InitInv ==
    ASSUME Init
    PROVE  IInv
<1>1. /\ prog \in Program /\ Tree(prog) /\ ValidateParallelPurity(prog) /\ phase = "pre"
      /\ frame \in [Thread -> Frame] /\ frame[Root].status = "running"
      /\ \A b \in Effect : frame[b].status = "idle"
      /\ \A t \in Thread : frame[t].cause = Root
    BY InitFacts
<1>2. PICK L : L = PreList(prog)
    OBVIOUS
<1>3. /\ DOMAIN frame[Root].todo = DOMAIN L
      /\ \A i \in DOMAIN L : /\ frame[Root].todo[i].effect = L[i] /\ ~frame[Root].todo[i].stands
                             /\ L[i] \in Effect /\ L[i] \in Range(L)
    BY <1>2, InitFacts
<1>4. /\ parent = [b \in Effect |-> Root]
      /\ decision = [verdict |-> "allow", cause |-> Root, pending |-> FALSE, taints |-> {},
                     constraints |-> {}, args_modified |-> FALSE, result_modified |-> FALSE]
      /\ refused = [t \in Thread |-> {}] /\ emitted = [t \in Thread |-> {}]
    BY DEF Init
<1>5. Root \in Thread /\ Root \notin Effect /\ (\A t \in Thread : t # Root => t \in Effect)
      /\ \A n \in Effect : Root < n /\ Root <= n
    BY EffectFacts
<1>6. /\ decision \in RouteDecision /\ decision.verdict = "allow" /\ decision.pending = FALSE
      /\ decision.cause = Root /\ decision.taints = {} /\ decision.constraints = {}
    BY <1>4, <1>5 DEF RouteDecision
<1>7. TypeOK
    <2>1. \A t \in Thread : frame[t].status \in {"halt", "pending"} <=> frame[t].cause \in Effect
        BY <1>1, <1>5
    <2>2. decision.verdict = "deny" \/ decision.pending <=> decision.cause \in Effect
        BY <1>5, <1>6
    <2>3. /\ parent \in [Effect -> Thread]
          /\ refused \in [Thread -> SUBSET Effect] /\ emitted \in [Thread -> SUBSET Effect]
        BY <1>4, <1>5
    <2> QED
        BY <1>1, <1>6, <2>1, <2>2, <2>3 DEF TypeOK
<1>8. RouteInv
    <2>1. frame[Root].args_modified = FALSE /\ \A f \in Field : frame[Root].payload[f] \in {"original", "absent"}
        BY InitFacts
    <2>2. Changed(ArgsField) = FALSE /\ Changed(ResultField) = FALSE
        BY <2>1 DEF Changed, Field
    <2> QED
        BY <1>1, <1>6, <2>1, <2>2 DEF RouteInv
<1>9. OnceInv({})
    <2>1. \A t \in Thread : Active(t) => t = Root
        BY <1>1, <1>5 DEF Active
    <2>2. \A i \in Ahead(Root) : i \in DOMAIN L /\ EffectAt(Root, i) = L[i] /\ L[i] \in Range(L)
        BY <1>3 DEF Ahead, EffectAt
    <2>3. IsInjective(L)
        BY <1>1, <1>2 DEF Tree
    <2>4. AheadInv({}, Root)
        BY <1>2, <2>2 DEF AheadInv, Placed
    <2>5. \A i, j \in Ahead(Root) : EffectAt(Root, i) = EffectAt(Root, j) => i = j
        BY <2>2, <2>3 DEF IsInjective
    <2>6. \A t \in Thread : frame[t].status # "joining"
        BY <1>1, <1>5
    <2>7. \A t, u \in Thread : Active(t) /\ Active(u) =>
              \A i \in Ahead(t), j \in Ahead(u) : EffectAt(t, i) = EffectAt(u, j) => t = u /\ i = j
        BY <2>1, <2>5
    <2>8. \A t \in Thread : Active(t) => AheadInv({}, t)
        BY <2>1, <2>4
    <2> QED
        BY <1>1, <2>6, <2>7, <2>8 DEF OnceInv
<1>10. ASSUME NEW t \in Thread PROVE WalkInv(t)
    <2>1. frame[t].status \in {"running", "idle"} /\ refused[t] = {} /\ emitted[t] = {}
        BY <1>1, <1>4, <1>5
    <2>2. BlockInv(t) /\ RefusedInv(t) /\ CauseInv(t)
        BY <2>1 DEF BlockInv, RefusedInv, CauseInv
    <2>3. TodoInv(t)
        <3>1. CASE t = Root
            BY <1>3, <1>5, <3>1 DEF TodoInv, EffectAt
        <3>2. CASE t # Root
            BY <1>1, <1>5, <3>2 DEF TodoInv, Active
        <3> QED
            BY <3>1, <3>2
    <2> QED
        BY <2>1, <2>2, <2>3 DEF WalkInv
<1>11. ASSUME NEW b \in Effect PROVE BranchInv(b)
    <2>1. parent[b] = Root /\ frame[b].status = "idle"
        BY <1>1, <1>4
    <2> QED
        BY <1>1, <1>5, <2>1 DEF BranchInv, Active, Completed
<1>12. \E D \in SUBSET Effect : OnceInv(D)
    BY <1>9
<1> QED
    BY <1>7, <1>8, <1>10, <1>11, <1>12 DEF IInv

\* dispatch_effect preserves the invariant.
LEMMA DispatchStep ==
    ASSUME IInv, NEW t \in Thread, Dispatch(t)
    PROVE  IInv'
<1>1. TypeOK /\ TodoInv(t)
    BY DEF IInv, WalkInv
<1>2. CASE Allow(t) \/ Deny(t) \/ Plugin(t) \/ Delegate(t) \/ Taint(t) \/ RestrictEffect(t)
    BY <1>1, <1>2, BasicLocal, LocalStep
<1>3. CASE Elicit(t)
    BY <1>1, <1>3, ElicitLocal, LocalStep
<1>4. CASE FieldOp(t)
    BY <1>1, <1>4, FieldOpLocal, LocalStep
<1>5. CASE Sequential(t) \/ When(t) \/ Pdp(t) \/ PdpDenyStands(t)
    BY <1>1, <1>5, NestedLocal, LocalStep
<1>6. CASE ListEnds(t)
    BY <1>6, ListEndsStep
<1>7. CASE Parallel(t)
    BY <1>7, ParallelStep
<1>8. CASE Join(t)
    BY <1>8, JoinStep
<1> QED
    BY <1>2, <1>3, <1>4, <1>5, <1>6, <1>7, <1>8 DEF Dispatch

\* A step that changes nothing preserves the invariant.
LEMMA StutterInv ==
    ASSUME IInv, UNCHANGED vars
    PROVE  IInv'
<1>1. prog' = prog /\ phase' = phase /\ frame' = frame /\ parent' = parent /\ decision' = decision
      /\ refused' = refused /\ emitted' = emitted
    BY DEF vars
<1>2. /\ TypeOK /\ RouteInv
      /\ \A u \in Thread : WalkInv(u)
      /\ \A b \in Effect : BranchInv(b)
    BY DEF IInv
<1>3. HaltsStand
    BY <1>1 DEF HaltsStand
<1>4. \A u : Kept(u)' = Kept(u)
    BY <1>1 DEF Kept
<1>5. \A u \in Thread : WalkInv(u)'
    BY <1>1, <1>2, <1>3, <1>4, OtherWalk
<1>6. ASSUME NEW b \in Effect PROVE BranchInv(b)'
    <2>1. parent[b] \in Thread
        BY <1>2, ParentType
    <2> QED
        BY <1>1, <1>2, <1>3, <1>4, <2>1, OtherBranch
<1>7. TypeOK' /\ RouteInv'
    BY <1>1, <1>2 DEF TypeOK, RouteInv, Changed
<1>8. \E E \in SUBSET Effect : OnceInv(E)'
    <2>1. PICK D \in SUBSET Effect : OnceInv(D)
        BY DEF IInv
    <2>2. OnceInv(D)'
        BY <1>1, <2>1 DEF OnceInv, AheadInv, Ahead, EffectAt, Placed, Active, This, Top
    <2> QED
        BY <2>2
<1> QED
    BY <1>5, <1>6, <1>7, <1>8 DEF IInv

\* The inductive invariant holds in every state of every evaluation.
THEOREM Invariance == Spec => []IInv
<1>1. Init => IInv
    BY InitInv
<1>2. IInv /\ [Next]_vars => IInv'
    <2> SUFFICES ASSUME IInv, [Next]_vars PROVE IInv'
        OBVIOUS
    <2>1. CASE \E t \in Thread : Dispatch(t)
        BY <2>1, DispatchStep
    <2>2. CASE \E b \in Effect : Panic(b) \/ Abort(b)
        BY <2>2, PanicStep, AbortStep
    <2>3. CASE EndPre
        BY <2>3, EndPreStep
    <2>4. CASE EndPost
        BY <2>4, EndPostStep
    <2>5. CASE UNCHANGED vars
        BY <2>5, StutterInv
    <2> QED
        BY <2>1, <2>2, <2>3, <2>4, <2>5 DEF Next
<1> QED
    BY <1>1, <1>2, PTL DEF Spec

-----------------------------------------------------------------------------
(* What the invariant says of a decision.                                  *)

\* A branch was spawned by a walk with a smaller number, so that whatever
\* passes from branches to their owners passes to the route.
LEMMA LeastThread ==
    ASSUME NEW S \in SUBSET Thread, S # {}
    PROVE  \E x \in S : \A y \in S : ~(y < x)
<1>1. S \subseteq Nat
    BY EffectFacts
<1>2. PICK x \in S : \A y \in S : ~(<<y, x>> \in OpToRel(<, Nat))
    BY <1>1, NatLessThanWellFounded, WFMin, Zenon
<1>3. \A y \in S : ~(y < x)
    BY <1>1, <1>2, Zenon DEF OpToRel
<1> QED
    BY <1>3

\* A refusal leaves a halt on its way to the route, unless its branch panicked.
LEMMA NoRefusalLemma == IInv => ForwardedMeansNoRefusal
<1> SUFFICES ASSUME IInv, Forwarded PROVE \A t \in Thread : refused[t] # {} => frame[t].status = "panicked"
    BY DEF ForwardedMeansNoRefusal
<1>1. /\ TypeOK /\ RouteInv /\ Root \in Thread
      /\ \A u \in Thread : WalkInv(u)
      /\ \A b \in Effect : BranchInv(b)
    BY EffectFacts DEF IInv
<1>2. frame[Root].status = "continue"
    BY <1>1 DEF RouteInv, Forwarded, Done, Completed
<1> DEFINE Bad == {x \in Thread : frame[x].status \in {"running", "joining", "halt", "aborted"}}
<1>3. Bad = {}
    <2> SUFFICES ASSUME Bad # {} PROVE FALSE
        OBVIOUS
    <2>1. PICK x \in Bad : \A y \in Bad : ~(y < x)
        BY LeastThread
    <2>2. x # Root /\ x \in Effect
        BY <1>2, EffectFacts
    <2>3. parent[x] \in Thread /\ parent[x] < x /\ BranchInv(x)
        BY <1>1, <2>2, ParentType
    <2>4. parent[x] \in Bad
        BY <2>1, <2>3 DEF BranchInv, Active, Awaits
    <2> QED
        BY <2>1, <2>3, <2>4
<1>4. ASSUME NEW t \in Thread, refused[t] # {} PROVE frame[t].status = "panicked"
    <2>1. frame[t].status \notin {"idle", "continue"}
        BY <1>1, <1>4 DEF WalkInv, RefusedInv
    <2>2. frame[t].status # "pending"
        BY <1>1, <1>2, EffectFacts DEF BranchInv
    <2>3. frame[t].status \notin {"running", "joining", "halt", "aborted"}
        BY <1>3
    <2>4. frame[t].status \in {"idle", "running", "joining", "continue", "halt", "pending", "aborted", "panicked"}
        BY <1>1, FrameFields DEF TypeOK
    <2> QED
        BY <2>1, <2>2, <2>3, <2>4
<1> QED
    BY <1>4

\* An outcome is reported if it is not lost and its owner's outcome is reported.
LEMMA ReportedUnfolds ==
    ASSUME TypeOK, NEW t \in Thread
    PROVE  Reported[t] <=> /\ frame[t].status \notin {"aborted", "panicked"}
                           /\ t # Root /\ frame[t].status # "idle" => Reported[parent[t]]
<1> DEFINE Up(x) == x # Root /\ frame[x].status # "idle"
           Closed(S) == \A x \in S : /\ frame[x].status \notin {"aborted", "panicked"}
                                     /\ Up(x) => parent[x] \in S
           Chained(x) == \E S \in SUBSET Thread : x \in S /\ Closed(S)
           Body(f) == [x \in Thread |-> /\ frame[x].status \notin {"aborted", "panicked"}
                                        /\ x # Root /\ frame[x].status # "idle" => f[parent[x]]]
           g == [x \in Thread |-> Chained(x)]
<1>0. \A x \in Thread : x # Root => parent[x] \in Thread
    BY EffectFacts DEF TypeOK
<1>1. ASSUME NEW x \in Thread
      PROVE  Chained(x) <=> /\ frame[x].status \notin {"aborted", "panicked"}
                            /\ Up(x) => Chained(parent[x])
    <2>1. ASSUME Chained(x)
          PROVE  frame[x].status \notin {"aborted", "panicked"} /\ (Up(x) => Chained(parent[x]))
        BY <2>1
    <2>2. ASSUME frame[x].status \notin {"aborted", "panicked"}, Up(x) => Chained(parent[x]) PROVE Chained(x)
        <3>1. CASE ~Up(x)
            <4>1. {x} \in SUBSET Thread /\ x \in {x} /\ Closed({x})
                BY <2>2, <3>1
            <4> QED
                BY <4>1
        <3>2. CASE Up(x)
            <4>1. PICK S \in SUBSET Thread : parent[x] \in S /\ Closed(S)
                BY <2>2, <3>2
            <4>2. S \cup {x} \in SUBSET Thread /\ x \in S \cup {x} /\ Closed(S \cup {x})
                BY <2>2, <4>1
            <4> QED
                BY <4>2
        <3> QED
            BY <3>1, <3>2
    <2> QED
        BY <2>1, <2>2
<1>2. g = Body(g)
    <2> HIDE DEF Chained
    <2>1. ASSUME NEW x \in Thread
          PROVE  Chained(x) = (/\ frame[x].status \notin {"aborted", "panicked"}
                               /\ x # Root /\ frame[x].status # "idle" => g[parent[x]])
        <3>1. CASE Up(x)
            <4>1. g[parent[x]] = Chained(parent[x])
                BY <1>0, <3>1
            <4> QED
                BY <1>1, <3>1, <4>1 DEF Chained
        <3>2. CASE ~Up(x)
            BY <1>1, <3>2 DEF Chained
        <3> QED
            BY <3>1, <3>2
    <2> QED
        BY <2>1, Zenon
<1>3. Reported = CHOOSE f : f = Body(f)
    BY DEF Reported
<1> HIDE DEF g
<1>4. Reported = Body(Reported)
    <2> HIDE DEF Body
    <2> QED
        BY <1>2, <1>3, Zenon
<1> QED
    BY <1>4, Zenon

\* The chain of halts behind a deny leads to a reported walk that refused.
LEMMA ExplainedLemma == IInv => DenyIsExplained
<1> SUFFICES ASSUME IInv, Done, decision.verdict = "deny"
             PROVE  \E t \in Thread : Reported[t] /\ decision.cause \in refused[t]
    BY DEF DenyIsExplained
<1>1. /\ TypeOK /\ RouteInv /\ Root \in Thread
      /\ WalkInv(Root) /\ \A b \in Effect : BranchInv(b)
    BY EffectFacts DEF IInv
<1>2. frame[Root].status = "halt" /\ decision.cause = frame[Root].cause
    BY <1>1 DEF RouteInv, Done
<1>3. PICK S \in SUBSET Thread : Explains(Root, S)
    BY <1>1, <1>2 DEF WalkInv, CauseInv
<1>4. \A x \in S : frame[x].status = "halt" /\ (x # Root => x \in Effect /\ parent[x] \in S)
    BY <1>3 DEF Explains
<1>5. \A x \in S : Reported[x]
    <2> DEFINE Un == {x \in S : ~Reported[x]}
    <2> SUFFICES ASSUME Un # {} PROVE FALSE
        OBVIOUS
    <2>1. PICK x \in Un : \A y \in Un : ~(y < x)
        <3>1. Un \in SUBSET Thread
            OBVIOUS
        <3> HIDE DEF Un
        <3> QED
            BY <3>1, LeastThread
    <2>2. x # Root /\ ~Reported[parent[x]]
        BY <1>1, <1>4, <2>1, ReportedUnfolds
    <2>3. x \in Effect /\ parent[x] \in Un
        BY <1>4, <2>1, <2>2
    <2>4. parent[x] < x
        BY <1>1, <2>3, ParentType
    <2> QED
        BY <2>1, <2>3, <2>4
<1>6. \E u \in S : frame[Root].cause \in refused[u]
    BY <1>3 DEF Explains
<1> QED
    BY <1>2, <1>5, <1>6

\* Accumulators pass from each reported branch to its owner, up to the route.
LEMMA WholeLemma == IInv => DecisionIsWhole
<1> SUFFICES ASSUME IInv, Done PROVE DecisionIsWhole
    BY DEF DecisionIsWhole, EmissionsKept, ModifiedReported
<1>1. /\ TypeOK /\ RouteInv /\ Root \in Thread
      /\ \A u \in Thread : WalkInv(u)
      /\ \A b \in Effect : BranchInv(b)
    BY EffectFacts DEF IInv
<1>2. /\ frame[Root].status \in Completed
      /\ frame[Root].taints \cup frame[Root].constraints \subseteq decision.taints \cup decision.constraints
      /\ decision.args_modified = Changed(ArgsField) /\ decision.result_modified = Changed(ResultField)
    BY <1>1 DEF RouteInv, Done
<1>3. ModifiedReported
    BY <1>2 DEF ModifiedReported, Changed
<1>4. Kept(Root) \subseteq decision.taints \cup decision.constraints
    BY <1>2 DEF Kept
<1> DEFINE Open == {x \in Thread : Reported[x] /\ Active(x)}
           Lost == {x \in Thread : Reported[x] /\ frame[x].status # "idle" /\ ~(Kept(x) \subseteq Kept(Root))}
<1>5. ASSUME NEW x \in Thread, Reported[x], x # Root, frame[x].status # "idle"
      PROVE  /\ x \in Effect /\ parent[x] \in Thread /\ parent[x] < x /\ BranchInv(x)
             /\ Reported[parent[x]] /\ frame[parent[x]].status \notin {"aborted", "idle"}
             /\ frame[x].status \notin {"aborted", "panicked"}
    <2>1. x \in Effect
        BY <1>5, EffectFacts
    <2>2. parent[x] \in Thread /\ parent[x] < x /\ BranchInv(x)
        BY <1>1, <2>1, ParentType
    <2>3. Reported[parent[x]] /\ frame[x].status \notin {"aborted", "panicked"}
        BY <1>1, <1>5, ReportedUnfolds
    <2>4. frame[parent[x]].status # "aborted"
        BY <1>1, <2>2, <2>3, ReportedUnfolds
    <2>5. frame[parent[x]].status # "idle"
        BY <2>2 DEF BranchInv
    <2> QED
        BY <2>1, <2>2, <2>3, <2>4, <2>5
<1>6. Open = {}
    <2> SUFFICES ASSUME Open # {} PROVE FALSE
        OBVIOUS
    <2>1. PICK x \in Open : \A y \in Open : ~(y < x)
        <3>1. Open \in SUBSET Thread
            OBVIOUS
        <3> HIDE DEF Open
        <3> QED
            BY <3>1, LeastThread
    <2>2. x # Root /\ frame[x].status # "idle"
        BY <1>2, <2>1 DEF Active, Completed
    <2>3. /\ parent[x] \in Thread /\ parent[x] < x /\ BranchInv(x)
          /\ Reported[parent[x]] /\ frame[parent[x]].status # "aborted"
        BY <1>5, <2>1, <2>2
    <2>4. Active(parent[x])
        BY <2>1, <2>3 DEF BranchInv, Awaits, Active
    <2> QED
        BY <2>1, <2>3, <2>4
<1>7. Lost = {}
    <2> SUFFICES ASSUME Lost # {} PROVE FALSE
        OBVIOUS
    <2>1. PICK x \in Lost : \A y \in Lost : ~(y < x)
        <3>1. Lost \in SUBSET Thread
            OBVIOUS
        <3> HIDE DEF Lost
        <3> QED
            BY <3>1, LeastThread
    <2>2. x # Root /\ frame[x].status # "idle"
        BY <2>1
    <2>3. /\ parent[x] \in Thread /\ parent[x] < x /\ BranchInv(x) /\ Reported[parent[x]]
          /\ frame[parent[x]].status \notin {"aborted", "idle"} /\ frame[x].status \notin {"aborted", "panicked"}
        BY <1>5, <2>1, <2>2
    <2>4. ~Active(x) /\ ~Active(parent[x])
        BY <1>6, <2>1, <2>3
    <2>5. frame[x].status \in Completed
        <3>1. frame[x].status \in {"idle", "running", "joining", "continue", "halt", "pending", "aborted", "panicked"}
            BY <1>1, FrameFields DEF TypeOK
        <3> QED
            BY <2>2, <2>3, <2>4, <3>1 DEF Active, Completed
    <2>6. Kept(x) \subseteq Kept(parent[x])
        BY <2>3, <2>4, <2>5 DEF BranchInv, Awaits, Active
    <2>7. parent[x] \in Lost
        BY <2>1, <2>3, <2>6
    <2> QED
        BY <2>1, <2>3, <2>7
<1>8. ASSUME NEW t \in Thread, Reported[t]
      PROVE  emitted[t] \subseteq decision.taints \cup decision.constraints
    <2>1. CASE frame[t].status = "idle"
        BY <1>1, <2>1 DEF WalkInv, RefusedInv
    <2>2. CASE frame[t].status # "idle"
        <3>1. emitted[t] \subseteq Kept(t)
            BY <1>1 DEF WalkInv
        <3>2. Kept(t) \subseteq Kept(Root)
            BY <1>7, <1>8, <2>2
        <3> QED
            BY <1>4, <3>1, <3>2
    <2> QED
        BY <2>1, <2>2
<1>9. EmissionsKept
    BY <1>8 DEF EmissionsKept
<1> QED
    BY <1>3, <1>9 DEF DecisionIsWhole

\* Every walk, decision and accumulator keeps its shape, and a halt or suspension
\* always has a cause (evaluate_route).
THEOREM TypeCorrect == Spec => []TypeOK
<1>1. IInv => TypeOK
    BY DEF IInv
<1> QED
    BY <1>1, Invariance, PTL

\* A request is forwarded only if no effect refused it, but for a branch that
\* panicked: for every route, however deep its blocks nest, and every order in which
\* branches end and abort each other (dispatch_effect, dispatch_parallel).
THEOREM NoRefusalForwarded == Spec => []ForwardedMeansNoRefusal
BY NoRefusalLemma, Invariance, PTL

\* A deny names an effect that refused, in a walk whose outcome reached the route
\* (the violation that dispatch_parallel and evaluate_effects hand up).
THEOREM DenyExplained == Spec => []DenyIsExplained
BY ExplainedLemma, Invariance, PTL

\* The decision holds every label and constraint that a reported walk emitted, and
\* its flags say exactly which side of the payload changed (evaluate_route).
THEOREM DecisionWhole == Spec => []DecisionIsWhole
BY WholeLemma, Invariance, PTL
=============================================================================
