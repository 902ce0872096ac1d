-------------------------- MODULE LifecycleProofs --------------------------
(* The registry's index, initialize and shutdown, for any number of        *)
(* plugins, hooks, host tasks and background tasks.                        *)
EXTENDS Lifecycle, SequenceTheorems, WellFoundedInduction, TLAPS

-----------------------------------------------------------------------------
(* The inductive invariant.                                                *)

\* An instance that was never registered has seen no call.
RegisteredInv ==
    /\ Range(names) \subseteq hist.past
    /\ \A p \in Plugin \ hist.past : life[p] = "new"
    /\ \A c \in Caller : call[c].todo \subseteq hist.past /\ Range(call[c].done) \subseteq hist.past

\* Without overlap one call at a time is in progress; it knows every
\* registered plugin that is up and that it must still account for.
UpWithin(S) == \A p \in Range(names) : life[p] = "up" => p \in S

CallInv(c) ==
    /\ call[c].pc \in {"init", "rollback"} => ~initialized /\ UpWithin(Range(call[c].done))
    /\ call[c].pc = "init" => \A p \in Range(call[c].done) : life[p] = "up"
    /\ call[c].pc = "teardown" => UpWithin(call[c].todo)

SequentialInv ==
    ~hist.overlap =>
        /\ \A c, d \in Busy : c = d
        /\ \A c \in Caller : CallInv(c)
        /\ Busy = {} => IF initialized THEN \A p \in hist.booted : life[p] = "up"
                        ELSE \A p \in Range(names) : life[p] # "up"

\* The tasks spawned since the drain are among the ones that run.
DrainInv ==
    /\ tasks.late <= tasks.running
    /\ (\E c \in Caller : call[c].pc = "teardown") => tasks.running = tasks.late

\* IndexExact with the positions in the order of registration named: `entries`
\* is the list of hook h when `order` is the order of registration.
Exact(order, entries, h) ==
    /\ Range(entries) = {p \in Range(order) : h \in Serves[p]}
    /\ \A i, j \in DOMAIN entries, k, l \in DOMAIN order :
          i < j /\ order[k] = entries[i] /\ order[l] = entries[j] =>
              \/ Priority[entries[i]] < Priority[entries[j]]
              \/ Priority[entries[i]] = Priority[entries[j]] /\ k < l

Once(s) == \A i, j \in DOMAIN s : s[i] = s[j] => i = j

IndexInv == Once(names) /\ \A h \in Hook : Exact(names, index[h], h)

IInv == TypeOK /\ RegisteredInv /\ SequentialInv /\ DrainInv /\ IndexInv

-----------------------------------------------------------------------------
(* Sequences.                                                              *)

LEMMA MinFacts ==
    ASSUME NEW S \in SUBSET Nat, S # {}
    PROVE  Min(S) \in S /\ \A y \in S : Min(S) <= y
<1>1. PICK x \in S : \A y \in S : ~(<<y, x>> \in OpToRel(<, Nat))
    BY NatLessThanWellFounded, WFMin, Zenon
<1>2. \A y \in S : ~(y < x)
    BY <1>1, Zenon DEF OpToRel
<1>3. \A y \in S : x <= y
    BY <1>2
<1> QED
    BY <1>3, Zenon DEF Min

LEMMA InsertFacts ==
    ASSUME NEW s \in Seq(Plugin), NEW k \in 1 .. Len(s) + 1, NEW p \in Plugin
    PROVE  /\ InsertAt(s, k, p) \in Seq(Plugin) /\ Len(InsertAt(s, k, p)) = Len(s) + 1
           /\ \A i \in 1 .. Len(s) + 1 :
                 InsertAt(s, k, p)[i] = IF i < k THEN s[i] ELSE IF i = k THEN p ELSE s[i - 1]
<1> DEFINE a == SubSeq(s, 1, k - 1)
           b == SubSeq(s, k, Len(s))
<1>1. /\ a \in Seq(Plugin) /\ Len(a) = k - 1
      /\ \A i \in 1 .. k - 1 : a[i] = s[i]
    BY SubSeqProperties
<1>2. /\ b \in Seq(Plugin) /\ Len(b) = Len(s) - k + 1
      /\ \A i \in 1 .. Len(s) - k + 1 : b[i] = s[k + i - 1]
    BY SubSeqProperties
<1>3. <<p>> \in Seq(Plugin) /\ Len(<<p>>) = 1 /\ <<p>>[1] = p
    OBVIOUS
<1>4. InsertAt(s, k, p) = (a \o <<p>>) \o b
    BY DEF InsertAt
<1> HIDE DEF a, b
<1>5. /\ a \o <<p>> \in Seq(Plugin) /\ Len(a \o <<p>>) = k
      /\ \A i \in 1 .. k : (a \o <<p>>)[i] = IF i < k THEN s[i] ELSE p
    BY <1>1, <1>3, ConcatProperties
<1>6. /\ (a \o <<p>>) \o b \in Seq(Plugin) /\ Len((a \o <<p>>) \o b) = k + Len(b)
      /\ \A i \in 1 .. k + Len(b) :
            ((a \o <<p>>) \o b)[i] = IF i <= k THEN (a \o <<p>>)[i] ELSE b[i - k]
    BY <1>2, <1>5, ConcatProperties
<1> QED
    BY <1>2, <1>4, <1>5, <1>6

LEMMA RemoveFacts ==
    ASSUME NEW s \in Seq(Plugin), NEW k \in 1 .. Len(s)
    PROVE  /\ RemoveAt(s, k) \in Seq(Plugin) /\ Len(RemoveAt(s, k)) = Len(s) - 1
           /\ \A i \in 1 .. Len(s) - 1 : RemoveAt(s, k)[i] = IF i < k THEN s[i] ELSE s[i + 1]
<1> DEFINE a == SubSeq(s, 1, k - 1)
           b == SubSeq(s, k + 1, Len(s))
<1>1. /\ a \in Seq(Plugin) /\ Len(a) = k - 1
      /\ \A i \in 1 .. k - 1 : a[i] = s[i]
    BY SubSeqProperties
<1>2. /\ b \in Seq(Plugin) /\ Len(b) = Len(s) - k
      /\ \A i \in 1 .. Len(s) - k : b[i] = s[k + i]
    BY SubSeqProperties
<1>3. RemoveAt(s, k) = a \o b
    BY DEF RemoveAt
<1> HIDE DEF a, b
<1>4. /\ a \o b \in Seq(Plugin) /\ Len(a \o b) = Len(a) + Len(b)
      /\ \A i \in 1 .. Len(a) + Len(b) : (a \o b)[i] = IF i <= Len(a) THEN a[i] ELSE b[i - Len(a)]
    BY <1>1, <1>2, ConcatProperties
<1> QED
    BY <1>1, <1>2, <1>3, <1>4

LEMMA SeqFacts ==
    ASSUME NEW s \in Seq(Plugin)
    PROVE  /\ Len(s) \in Nat /\ DOMAIN s = 1 .. Len(s) /\ \A i \in DOMAIN s : s[i] \in Plugin
           /\ Range(s) \subseteq Plugin
<1>1. Len(s) \in Nat /\ DOMAIN s = 1 .. Len(s) /\ \A i \in DOMAIN s : s[i] \in Plugin
    BY LenProperties, ElementOfSeq
<1> QED
    BY <1>1 DEF Range

\* A list without p is the old one, closed up: in the same order.
LEMMA WithoutFacts ==
    ASSUME NEW s \in Seq(Plugin), Once(s), NEW p \in Plugin
    PROVE  /\ Without(s, p) \in Seq(Plugin)
           /\ Range(Without(s, p)) = Range(s) \ {p}
           /\ \E f \in [DOMAIN Without(s, p) -> DOMAIN s] :
                 /\ \A i \in DOMAIN Without(s, p) : Without(s, p)[i] = s[f[i]]
                 /\ \A i, j \in DOMAIN Without(s, p) : i < j => f[i] < f[j]
<1>0. Len(s) \in Nat /\ DOMAIN s = 1 .. Len(s)
    BY SeqFacts
<1>1. CASE p \in Range(s)
    <2> DEFINE k == CHOOSE i \in DOMAIN s : s[i] = p
               w == RemoveAt(s, k)
               f == [i \in 1 .. Len(s) - 1 |-> IF i < k THEN i ELSE i + 1]
    <2>1. k \in DOMAIN s /\ s[k] = p
        BY <1>1 DEF Range
    <2>2. Without(s, p) = w
        BY <1>1 DEF Without
    <2> HIDE DEF k
    <2>3. /\ w \in Seq(Plugin) /\ Len(w) = Len(s) - 1
          /\ \A i \in 1 .. Len(s) - 1 : w[i] = IF i < k THEN s[i] ELSE s[i + 1]
        BY <1>0, <2>1, RemoveFacts
    <2>4. DOMAIN w = 1 .. Len(s) - 1
        BY <2>3, SeqFacts
    <2> HIDE DEF w
    <2>5. /\ f \in [DOMAIN w -> DOMAIN s]
          /\ \A i \in DOMAIN w : w[i] = s[f[i]] /\ f[i] # k
          /\ \A i, j \in DOMAIN w : i < j => f[i] < f[j]
        BY <1>0, <2>1, <2>3, <2>4
    <2>6. \A i \in DOMAIN s \ {k} : \E j \in DOMAIN w : f[j] = i
        <3> SUFFICES ASSUME NEW i \in DOMAIN s \ {k} PROVE \E j \in DOMAIN w : f[j] = i
            OBVIOUS
        <3>1. CASE i < k
            <4>1. i \in DOMAIN w /\ f[i] = i
                BY <1>0, <2>1, <2>4, <3>1
            <4> QED
                BY <4>1, Zenon
        <3>2. CASE i > k
            <4>1. i - 1 \in DOMAIN w /\ f[i - 1] = i
                BY <1>0, <2>1, <2>4, <3>2
            <4> QED
                BY <4>1, Zenon
        <3>3. i < k \/ i > k
            BY <1>0, <2>1
        <3> QED
            BY <3>1, <3>2, <3>3, Zenon
    <2> HIDE DEF f
    <2>7. Range(w) = Range(s) \ {p}
        BY <2>1, <2>5, <2>6 DEF Range, Once
    <2> QED
        BY <2>2, <2>3, <2>5, <2>7
<1>2. CASE p \notin Range(s)
    <2>1. Without(s, p) = s
        BY <1>2 DEF Without
    <2> DEFINE f == [i \in DOMAIN s |-> i]
    <2>2. /\ f \in [DOMAIN s -> DOMAIN s] /\ \A i \in DOMAIN s : s[i] = s[f[i]]
          /\ \A i, j \in DOMAIN s : i < j => f[i] < f[j]
        OBVIOUS
    <2> QED
        BY <1>2, <2>1, <2>2
<1> QED
    BY <1>1, <1>2

\* An exact list holds each plugin once, by priority.
LEMMA ExactFacts ==
    ASSUME NEW order \in Seq(Plugin), NEW entries \in Seq(Plugin), NEW h \in Hook,
           Exact(order, entries, h)
    PROVE  /\ Once(entries)
           /\ \A i, j \in DOMAIN entries : i < j => Priority[entries[i]] <= Priority[entries[j]]
<1>1. /\ DOMAIN order = 1 .. Len(order) /\ Len(order) \in Nat
      /\ DOMAIN entries = 1 .. Len(entries) /\ Len(entries) \in Nat
      /\ \A i \in DOMAIN entries : entries[i] \in Plugin /\ Priority[entries[i]] \in Int
    BY SeqFacts, LifecycleAssumption
<1>2. \A i \in DOMAIN entries : \E k \in DOMAIN order : order[k] = entries[i]
    <2>1. \A i \in DOMAIN entries : entries[i] \in Range(entries)
        BY DEF Range
    <2>2. \A i \in DOMAIN entries : entries[i] \in Range(order)
        BY <2>1 DEF Exact
    <2> QED
        BY <2>2 DEF Range
<1>3. ASSUME NEW i \in DOMAIN entries, NEW j \in DOMAIN entries, i < j
      PROVE  entries[i] # entries[j] /\ Priority[entries[i]] <= Priority[entries[j]]
    <2>1. PICK k \in DOMAIN order, l \in DOMAIN order : order[k] = entries[i] /\ order[l] = entries[j]
        BY <1>2
    <2>2. \/ Priority[entries[i]] < Priority[entries[j]]
          \/ Priority[entries[i]] = Priority[entries[j]] /\ k < l
        BY <1>3, <2>1 DEF Exact
    <2>3. entries[i] = entries[j] => k < k
        BY <1>1, <1>3, <2>1, <2>2 DEF Exact
    <2> QED
        BY <1>1, <2>1, <2>2, <2>3
<1> QED
    BY <1>1, <1>3 DEF Once

\* The new entry is put behind its equals and before the later ones.
LEMMA PushedFacts ==
    ASSUME NEW s \in Seq(Plugin), NEW p \in Plugin,
           \A i, j \in DOMAIN s : i < j => Priority[s[i]] <= Priority[s[j]]
    PROVE  /\ Pushed(s, p) \in Seq(Plugin) /\ Len(Pushed(s, p)) = Len(s) + 1
           /\ \E k \in 1 .. Len(s) + 1 :
                 /\ \A i \in 1 .. Len(s) + 1 :
                       Pushed(s, p)[i] = IF i < k THEN s[i] ELSE IF i = k THEN p ELSE s[i - 1]
                 /\ \A i \in DOMAIN s : IF i < k THEN Priority[s[i]] <= Priority[p]
                                                 ELSE Priority[s[i]] > Priority[p]
<1>0. /\ Len(s) \in Nat /\ DOMAIN s = 1 .. Len(s) /\ Priority[p] \in Int
      /\ \A i \in DOMAIN s : Priority[s[i]] \in Int
    BY SeqFacts, LifecycleAssumption
<1> DEFINE later == {i \in DOMAIN s : Priority[s[i]] > Priority[p]}
           k == Min(later \cup {Len(s) + 1})
<1>1. k \in later \cup {Len(s) + 1} /\ \A i \in later \cup {Len(s) + 1} : k <= i
    <2>1. later \cup {Len(s) + 1} \in SUBSET Nat /\ later \cup {Len(s) + 1} # {}
        BY <1>0
    <2> QED
        BY <2>1, MinFacts
<1>2. Pushed(s, p) = InsertAt(s, k, p)
    BY DEF Pushed
<1> HIDE DEF k
<1>3. k \in 1 .. Len(s) + 1
    BY <1>0, <1>1
<1>4. \A i \in DOMAIN s : i < k => Priority[s[i]] <= Priority[p]
    BY <1>0, <1>1
<1>5. \A i \in DOMAIN s : ~(i < k) => Priority[s[i]] > Priority[p]
    BY <1>0, <1>1
<1>6. /\ Pushed(s, p) \in Seq(Plugin) /\ Len(Pushed(s, p)) = Len(s) + 1
      /\ \A i \in 1 .. Len(s) + 1 :
            Pushed(s, p)[i] = IF i < k THEN s[i] ELSE IF i = k THEN p ELSE s[i - 1]
    <2>1. /\ InsertAt(s, k, p) \in Seq(Plugin) /\ Len(InsertAt(s, k, p)) = Len(s) + 1
          /\ \A i \in 1 .. Len(s) + 1 :
                InsertAt(s, k, p)[i] = IF i < k THEN s[i] ELSE IF i = k THEN p ELSE s[i - 1]
        BY <1>3, InsertFacts
    <2> QED
        BY <1>2, <2>1, Zenon
<1>7. \A i \in DOMAIN s : IF i < k THEN Priority[s[i]] <= Priority[p] ELSE Priority[s[i]] > Priority[p]
    BY <1>4, <1>5
<1> QED
    BY <1>3, <1>6, <1>7

LEMMA RegisterKeepsExact ==
    ASSUME NEW order \in Seq(Plugin), NEW entries \in Seq(Plugin), NEW h \in Hook,
           Exact(order, entries, h), NEW p \in Plugin \ Range(order)
    PROVE  LET new == IF h \in Serves[p] THEN Pushed(entries, p) ELSE entries
           IN  new \in Seq(Plugin) /\ Exact(Append(order, p), new, h)
<1>1. /\ DOMAIN order = 1 .. Len(order) /\ Len(order) \in Nat
      /\ DOMAIN entries = 1 .. Len(entries) /\ Len(entries) \in Nat
      /\ Priority[p] \in Int
      /\ \A i \in DOMAIN entries : entries[i] \in Plugin /\ Priority[entries[i]] \in Int
    BY SeqFacts, LifecycleAssumption
<1> DEFINE after == Append(order, p)
<1>2. /\ after \in Seq(Plugin) /\ DOMAIN after = 1 .. Len(order) + 1
      /\ \A k \in 1 .. Len(order) : after[k] = order[k]
      /\ after[Len(order) + 1] = p
    BY AppendProperties, <1>1
<1>3. Range(after) = Range(order) \cup {p}
    BY <1>1, <1>2 DEF Range
<1> HIDE DEF after
<1>4. \A i \in DOMAIN entries : entries[i] \in Range(order) /\ entries[i] # p
    <2>1. \A i \in DOMAIN entries : entries[i] \in Range(entries)
        BY DEF Range
    <2> QED
        BY <2>1 DEF Exact
<1>5. \A k \in DOMAIN after : after[k] # p => k \in DOMAIN order /\ order[k] = after[k]
    BY <1>1, <1>2
<1>6. \A k \in DOMAIN after : after[k] = p => k = Len(order) + 1
    BY <1>1, <1>2 DEF Range
<1>7. CASE h \notin Serves[p]
    <2>1. Range(entries) = {q \in Range(after) : h \in Serves[q]}
        BY <1>3, <1>7 DEF Exact
    <2>2. Exact(after, entries, h)
        BY <1>4, <1>5, <2>1 DEF Exact
    <2> QED
        BY <1>7, <2>2 DEF after
<1>8. CASE h \in Serves[p]
    <2> DEFINE new == Pushed(entries, p)
    <2>1. \A i, j \in DOMAIN entries : i < j => Priority[entries[i]] <= Priority[entries[j]]
        BY ExactFacts
    <2>2. new \in Seq(Plugin) /\ Len(new) = Len(entries) + 1
        BY <2>1, PushedFacts
    <2>3. PICK m \in 1 .. Len(entries) + 1 :
            /\ \A i \in 1 .. Len(entries) + 1 :
                  new[i] = IF i < m THEN entries[i] ELSE IF i = m THEN p ELSE entries[i - 1]
            /\ \A i \in DOMAIN entries : IF i < m THEN Priority[entries[i]] <= Priority[p]
                                                  ELSE Priority[entries[i]] > Priority[p]
        BY <2>1, PushedFacts
    <2>4. DOMAIN new = 1 .. Len(entries) + 1
        BY <2>2, SeqFacts
    <2> HIDE DEF new
    <2>5. Range(new) = Range(entries) \cup {p}
        <3>1. \A i \in DOMAIN new : new[i] \in Range(entries) \cup {p}
            BY <1>1, <2>3, <2>4 DEF Range
        <3>2. \A i \in DOMAIN entries : \E j \in DOMAIN new : new[j] = entries[i]
            <4> SUFFICES ASSUME NEW i \in DOMAIN entries PROVE \E j \in DOMAIN new : new[j] = entries[i]
                OBVIOUS
            <4>1. CASE i < m
                <5>1. i \in DOMAIN new /\ new[i] = entries[i]
                    BY <1>1, <2>3, <2>4, <4>1
                <5> QED
                    BY <5>1, Zenon
            <4>2. CASE ~(i < m)
                <5>1. i + 1 \in DOMAIN new /\ new[i + 1] = entries[i]
                    BY <1>1, <2>3, <2>4, <4>2
                <5> QED
                    BY <5>1
            <4> QED
                BY <4>1, <4>2
        <3>3. m \in DOMAIN new /\ new[m] = p
            BY <1>1, <2>3, <2>4
        <3> QED
            BY <3>1, <3>2, <3>3 DEF Range
    <2>6. Range(new) = {q \in Range(after) : h \in Serves[q]}
        BY <1>3, <1>8, <2>5 DEF Exact
    <2>7. ASSUME NEW i \in DOMAIN new, NEW j \in DOMAIN new, i < j,
                 NEW k \in DOMAIN after, NEW l \in DOMAIN after, after[k] = new[i], after[l] = new[j]
          PROVE  \/ Priority[new[i]] < Priority[new[j]]
                 \/ Priority[new[i]] = Priority[new[j]] /\ k < l
        <3>1. CASE i # m /\ j # m
            <4> DEFINE a == IF i < m THEN i ELSE i - 1
                       b == IF j < m THEN j ELSE j - 1
            <4>1. /\ a \in DOMAIN entries /\ b \in DOMAIN entries /\ a < b
                  /\ new[i] = entries[a] /\ new[j] = entries[b]
                BY <1>1, <2>3, <2>4, <2>7, <3>1
            <4> HIDE DEF a, b
            <4>2. k \in DOMAIN order /\ l \in DOMAIN order /\ order[k] = entries[a] /\ order[l] = entries[b]
                BY <1>4, <1>5, <2>7, <4>1
            <4> QED
                BY <4>1, <4>2 DEF Exact
        <3>2. CASE i = m
            <4>1. j - 1 \in DOMAIN entries /\ ~(j - 1 < m) /\ new[j] = entries[j - 1] /\ new[i] = p
                BY <1>1, <2>3, <2>4, <2>7, <3>2
            <4> QED
                BY <1>1, <2>3, <4>1
        <3>3. CASE j = m
            <4>1. i \in DOMAIN entries /\ i < m /\ new[i] = entries[i] /\ new[j] = p
                BY <1>1, <2>3, <2>4, <2>7, <3>3
            <4>2. k \in DOMAIN order /\ l = Len(order) + 1
                BY <1>4, <1>5, <1>6, <2>7, <4>1
            <4>3. Priority[new[i]] <= Priority[new[j]] /\ k < l
                BY <1>1, <2>3, <4>1, <4>2
            <4> QED
                BY <1>1, <4>1, <4>3
        <3> QED
            BY <3>1, <3>2, <3>3
    <2>8. Exact(after, new, h)
        BY <2>6, <2>7 DEF Exact
    <2> QED
        BY <1>8, <2>2, <2>8 DEF after, new
<1> QED
    BY <1>7, <1>8

LEMMA UnregisterKeepsExact ==
    ASSUME NEW order \in Seq(Plugin), NEW entries \in Seq(Plugin), NEW h \in Hook, NEW p \in Plugin,
           Once(order), Exact(order, entries, h)
    PROVE  Exact(Without(order, p), Without(entries, p), h)
<1> DEFINE o == Without(order, p)
           e == Without(entries, p)
<1>1. Once(entries)
    BY ExactFacts
<1>2. Range(o) = Range(order) \ {p} /\ Range(e) = Range(entries) \ {p}
    BY <1>1, WithoutFacts
<1>3. PICK f \in [DOMAIN e -> DOMAIN entries] :
          /\ \A i \in DOMAIN e : e[i] = entries[f[i]]
          /\ \A i, j \in DOMAIN e : i < j => f[i] < f[j]
    BY <1>1, WithoutFacts
<1>4. PICK g \in [DOMAIN o -> DOMAIN order] :
          /\ \A i \in DOMAIN o : o[i] = order[g[i]]
          /\ \A i, j \in DOMAIN o : i < j => g[i] < g[j]
    BY WithoutFacts
<1>5. DOMAIN o \subseteq Nat /\ DOMAIN order \subseteq Nat
    BY SeqFacts, WithoutFacts
<1> HIDE DEF o, e
<1>6. Range(e) = {q \in Range(o) : h \in Serves[q]}
    BY <1>2 DEF Exact
<1>7. ASSUME NEW i \in DOMAIN e, NEW j \in DOMAIN e, i < j,
             NEW k \in DOMAIN o, NEW l \in DOMAIN o, o[k] = e[i], o[l] = e[j]
      PROVE  \/ Priority[e[i]] < Priority[e[j]]
             \/ Priority[e[i]] = Priority[e[j]] /\ k < l
    <2>1. /\ f[i] \in DOMAIN entries /\ f[j] \in DOMAIN entries /\ f[i] < f[j]
          /\ g[k] \in DOMAIN order /\ g[l] \in DOMAIN order
          /\ order[g[k]] = entries[f[i]] /\ order[g[l]] = entries[f[j]]
        BY <1>3, <1>4, <1>7
    <2>2. \/ Priority[e[i]] < Priority[e[j]]
          \/ Priority[e[i]] = Priority[e[j]] /\ g[k] < g[l]
        BY <1>3, <1>7, <2>1 DEF Exact
    <2>3. g[k] < g[l] => k < l
        BY <1>4, <1>5, <2>1
    <2> QED
        BY <2>2, <2>3
<1> QED
    BY <1>6, <1>7 DEF Exact, o, e

-----------------------------------------------------------------------------
(* The registry's steps.                                                   *)

LEMMA NamesFacts ==
    ASSUME TypeOK
    PROVE  /\ names \in Seq(Plugin) /\ Range(names) \subseteq Plugin
           /\ \A c \in Caller : /\ call[c] \in CallRecord /\ call[c].done \in Seq(Plugin)
                                /\ call[c].todo \subseteq Plugin /\ Range(call[c].done) \subseteq Plugin
    BY SeqFacts DEF TypeOK, CallRecord

\* A registration adds a plugin that nobody has called yet.
LEMMA RegisterStep ==
    ASSUME IInv, NEW p \in Plugin, Register(p)
    PROVE  IInv'
<1>1. /\ TypeOK /\ RegisteredInv /\ SequentialInv /\ DrainInv /\ IndexInv
      /\ p \notin hist.past /\ names' = Append(names, p)
      /\ UNCHANGED <<life, initialized, closed, tasks, call>>
    BY DEF IInv, Register
<1>2. names \in Seq(Plugin) /\ p \notin Range(names) /\ Len(names) \in Nat /\ DOMAIN names = 1 .. Len(names)
    BY <1>1, NamesFacts, SeqFacts DEF RegisteredInv
<1>3. /\ names' \in Seq(Plugin) /\ DOMAIN names' = 1 .. Len(names) + 1
      /\ \A i \in 1 .. Len(names) : names'[i] = names[i]
      /\ names'[Len(names) + 1] = p
    BY <1>1, <1>2, AppendProperties
<1>4. Range(names)' = Range(names) \cup {p}
    BY <1>2, <1>3 DEF Range
<1>5. /\ hist'.past = hist.past \cup {p} /\ hist'.overlap = hist.overlap /\ hist'.booted = hist.booted
      /\ hist' \in [past : SUBSET Plugin, overlap : BOOLEAN, booted : SUBSET Plugin]
    BY <1>1 DEF Register, TypeOK
<1>6. \A h \in Hook : index'[h] \in Seq(Plugin) /\ Exact(names', index'[h], h)
    <2> SUFFICES ASSUME NEW h \in Hook PROVE index'[h] \in Seq(Plugin) /\ Exact(names', index'[h], h)
        OBVIOUS
    <2>1. index[h] \in Seq(Plugin) /\ Exact(names, index[h], h)
        BY <1>1 DEF TypeOK, IndexInv
    <2>2. index'[h] = IF h \in Serves[p] THEN Pushed(index[h], p) ELSE index[h]
        BY DEF Register
    <2> QED
        BY <1>1, <1>2, <2>1, <2>2, RegisterKeepsExact
<1>7. TypeOK'
    <2>1. index' \in [Hook -> Seq(Plugin)]
        BY <1>6 DEF Register
    <2>2. override' \in [Overriding -> {"none", "own", "base", "absent"}]
        BY DEF Register
    <2> QED
        BY <1>1, <1>3, <1>5, <2>1, <2>2 DEF TypeOK
<1>8. RegisteredInv'
    BY <1>1, <1>4, <1>5 DEF RegisteredInv
<1>9. SequentialInv'
    <2>1. life[p] = "new"
        BY <1>1 DEF RegisteredInv
    <2>2. Busy' = Busy
        BY <1>1 DEF Busy
    <2>3. \A c \in Caller : CallInv(c) => CallInv(c)'
        BY <1>1, <1>4, <2>1 DEF CallInv, UpWithin
    <2> QED
        BY <1>1, <1>4, <1>5, <2>1, <2>2, <2>3 DEF SequentialInv
<1>10. DrainInv'
    BY <1>1 DEF DrainInv
<1>11. IndexInv'
    <2>1. Once(names)'
        BY <1>1, <1>2, <1>3 DEF IndexInv, Once, Range
    <2> QED
        BY <1>6, <2>1 DEF IndexInv
<1> QED
    BY <1>7, <1>8, <1>9, <1>10, <1>11 DEF IInv

\* An unregistered plugin is forgotten: fewer plugins to account for.
LEMMA UnregisterStep ==
    ASSUME IInv, NEW p \in Plugin, Unregister(p)
    PROVE  IInv'
<1>1. /\ TypeOK /\ RegisteredInv /\ SequentialInv /\ DrainInv /\ IndexInv
      /\ names' = Without(names, p) /\ index' = [h \in Hook |-> Without(index[h], p)]
      /\ UNCHANGED <<life, initialized, closed, tasks, call>>
    BY DEF IInv, Unregister
<1>2. names \in Seq(Plugin) /\ Once(names)
    BY <1>1, NamesFacts DEF IndexInv
<1>3. names' \in Seq(Plugin) /\ Range(names)' = Range(names) \ {p}
    BY <1>1, <1>2, WithoutFacts
<1>4. Once(names)'
    <2>0. \E f \in [DOMAIN Without(names, p) -> DOMAIN names] :
            /\ \A i \in DOMAIN Without(names, p) : Without(names, p)[i] = names[f[i]]
            /\ \A i, j \in DOMAIN Without(names, p) : i < j => f[i] < f[j]
        BY <1>2, WithoutFacts
    <2>1. PICK f \in [DOMAIN names' -> DOMAIN names] :
            /\ \A i \in DOMAIN names' : names'[i] = names[f[i]]
            /\ \A i, j \in DOMAIN names' : i < j => f[i] < f[j]
        BY <1>1, <2>0, Zenon
    <2>2. DOMAIN names' \subseteq Nat /\ DOMAIN names \subseteq Nat
        BY <1>2, <1>3, SeqFacts
    <2>3. \A i, j \in DOMAIN names' : f[i] = f[j] => i = j
        BY <2>1, <2>2
    <2> QED
        BY <1>2, <2>1, <2>3 DEF Once
<1>5. /\ hist'.past = hist.past /\ hist'.overlap = hist.overlap /\ hist'.booted = hist.booted \ {p}
      /\ hist' \in [past : SUBSET Plugin, overlap : BOOLEAN, booted : SUBSET Plugin]
    BY <1>1 DEF Unregister, TypeOK
<1>6. \A h \in Hook : index'[h] \in Seq(Plugin) /\ Exact(names', index'[h], h)
    <2> SUFFICES ASSUME NEW h \in Hook PROVE index'[h] \in Seq(Plugin) /\ Exact(names', index'[h], h)
        OBVIOUS
    <2>1. index[h] \in Seq(Plugin) /\ Exact(names, index[h], h) /\ Once(index[h])
        BY <1>1, <1>2, ExactFacts DEF TypeOK, IndexInv
    <2> QED
        BY <1>1, <1>2, <2>1, WithoutFacts, UnregisterKeepsExact
<1>7. TypeOK'
    <2>1. index' \in [Hook -> Seq(Plugin)]
        BY <1>1, <1>6
    <2>2. override' \in [Overriding -> {"none", "own", "base", "absent"}]
        BY DEF Unregister
    <2> QED
        BY <1>1, <1>3, <1>5, <2>1, <2>2 DEF TypeOK
<1>8. RegisteredInv'
    BY <1>1, <1>3, <1>5 DEF RegisteredInv
<1>9. SequentialInv'
    <2>1. Busy' = Busy
        BY <1>1 DEF Busy
    <2>2. \A c \in Caller : CallInv(c) => CallInv(c)'
        BY <1>1, <1>3 DEF CallInv, UpWithin
    <2> QED
        BY <1>1, <1>3, <1>5, <2>1, <2>2 DEF SequentialInv
<1>10. DrainInv'
    BY <1>1 DEF DrainInv
<1> QED
    BY <1>4, <1>6, <1>7, <1>8, <1>9, <1>10 DEF IInv, IndexInv

-----------------------------------------------------------------------------
(* initialize and shutdown. A step of caller c leaves the registry alone.  *)

\* What a call of c must leave behind, apart from the registry and the index.
LEMMA CallerStep ==
    ASSUME IInv, NEW c \in Caller, NEW r \in CallRecord, call' = [call EXCEPT ![c] = r],
           UNCHANGED <<names, index, override>>,
           life' \in [Plugin -> {"new", "up", "down"}], initialized' \in BOOLEAN, closed' \in BOOLEAN,
           tasks' \in [running : 0 .. MaxTasks, late : 0 .. MaxTasks], DrainInv',
           hist' \in [past : SUBSET Plugin, overlap : BOOLEAN, booted : SUBSET Plugin],
           hist'.past = hist.past, r.todo \cup Range(r.done) \subseteq hist.past,
           \A p \in Plugin \ hist.past : life'[p] = "new",
           SequentialInv'
    PROVE  IInv'
<1>1. TypeOK /\ RegisteredInv /\ IndexInv
    BY DEF IInv
<1>2. TypeOK'
    BY <1>1 DEF TypeOK
<1>3. RegisteredInv'
    <2>1. \A d \in Caller : call'[d] = IF d = c THEN r ELSE call[d]
        BY <1>1 DEF TypeOK
    <2> QED
        BY <1>1, <2>1 DEF RegisteredInv
<1>4. IndexInv'
    BY <1>1 DEF IndexInv
<1> QED
    BY <1>2, <1>3, <1>4 DEF IInv

\* Without overlap, c was and is the only one in progress.
LEMMA OnlyCaller ==
    ASSUME TypeOK, SequentialInv, NEW c \in Caller, NEW r \in CallRecord, call' = [call EXCEPT ![c] = r],
           hist'.overlap \in BOOLEAN, ~hist'.overlap => ~hist.overlap /\ Busy \subseteq {c},
           ~hist'.overlap => CallInv(c)',
           ~hist'.overlap /\ r.pc = "idle" =>
              IF initialized' THEN \A p \in hist'.booted : life'[p] = "up"
              ELSE \A p \in Range(names') : life'[p] # "up"
    PROVE  SequentialInv'
<1>1. \A d \in Caller : call'[d] = IF d = c THEN r ELSE call[d]
    BY DEF TypeOK
<1> SUFFICES ASSUME ~hist'.overlap
             PROVE  /\ \A d, e \in Busy' : d = e
                    /\ \A d \in Caller : CallInv(d)'
                    /\ Busy' = {} => IF initialized' THEN \A p \in hist'.booted : life'[p] = "up"
                                     ELSE \A p \in Range(names') : life'[p] # "up"
    BY DEF SequentialInv
<1>2. \A d \in Caller \ {c} : call'[d].pc = "idle"
    BY <1>1 DEF Busy
<1>3. Busy' \subseteq {c} /\ (Busy' = {} => r.pc = "idle")
    BY <1>1, <1>2 DEF Busy
<1>4. \A d \in Caller : CallInv(d)'
    BY <1>2 DEF CallInv
<1> QED
    BY <1>3, <1>4

LEMMA DrainKept ==
    ASSUME TypeOK, DrainInv, NEW c \in Caller, NEW r \in CallRecord, call' = [call EXCEPT ![c] = r],
           tasks' = tasks, r.pc = "teardown" => call[c].pc = "teardown"
    PROVE  DrainInv'
<1>1. \A d \in Caller : call'[d] = IF d = c THEN r ELSE call[d]
    BY DEF TypeOK
<1> QED
    BY <1>1 DEF DrainInv

LEMMA EmptyRange ==
    Range(<< >>) = {}
    BY DEF Range

\* initialize and shutdown begin: alone, or the overlap is on record.
LEMMA BeginStep ==
    ASSUME IInv, NEW c \in Caller, InitializeBegins(c) \/ ShutdownBegins(c)
    PROVE  IInv'
<1>1. /\ TypeOK /\ RegisteredInv /\ SequentialInv /\ DrainInv
      /\ UNCHANGED <<names, index, life, initialized, tasks, override>>
      /\ closed' \in BOOLEAN
    BY DEF IInv, InitializeBegins, ShutdownBegins, TypeOK
<1>2. PICK r \in CallRecord :
          /\ call' = [call EXCEPT ![c] = r] /\ r.done = << >> /\ r.todo \subseteq Range(names)
          /\ r.pc \in {"drain", "init"} /\ (r.pc = "init" => ~initialized)
    <2>1. CASE InitializeBegins(c)
        <3> DEFINE r == [pc |-> "init", todo |-> Range(names), done |-> << >>]
        <3>1. r \in CallRecord /\ r.pc = "init" /\ r.done = << >> /\ r.todo = Range(names)
            BY <1>1, NamesFacts DEF CallRecord
        <3>2. call' = [call EXCEPT ![c] = r] /\ ~initialized
            BY <2>1 DEF InitializeBegins
        <3> HIDE DEF r
        <3> QED
            BY <3>1, <3>2
    <2>2. CASE ShutdownBegins(c)
        <3> DEFINE r == [pc |-> "drain", todo |-> {}, done |-> << >>]
        <3>1. r \in CallRecord /\ r.pc = "drain" /\ r.done = << >> /\ r.todo = {}
            BY DEF CallRecord
        <3>2. call' = [call EXCEPT ![c] = r]
            BY <2>2 DEF ShutdownBegins
        <3> HIDE DEF r
        <3> QED
            BY <3>1, <3>2
    <2> QED
        BY <2>1, <2>2
<1>3. /\ hist' \in [past : SUBSET Plugin, overlap : BOOLEAN, booted : SUBSET Plugin]
      /\ hist'.past = hist.past /\ hist'.overlap \in BOOLEAN
      /\ ~hist'.overlap => ~hist.overlap /\ Busy = {}
    <2>1. hist' = [hist EXCEPT !.overlap = hist.overlap \/ Busy # {}]
        BY DEF InitializeBegins, ShutdownBegins
    <2>2. (hist.overlap \/ Busy # {}) \in BOOLEAN /\ hist.overlap \in BOOLEAN
        BY <1>1 DEF TypeOK
    <2> QED
        BY <1>1, <2>1, <2>2 DEF TypeOK
<1>4. call'[c] = r
    BY <1>1, <1>2 DEF TypeOK
<1>5. ~hist'.overlap => CallInv(c)'
    BY <1>1, <1>2, <1>3, <1>4, EmptyRange DEF CallInv, UpWithin, SequentialInv
<1>6. SequentialInv'
    BY <1>1, <1>2, <1>3, <1>5, OnlyCaller
<1>7. DrainInv'
    BY <1>1, <1>2, DrainKept
<1>8. r.todo \cup Range(r.done) \subseteq hist.past
    BY <1>1, <1>2, EmptyRange DEF RegisteredInv
<1>9. /\ \A p \in Plugin \ hist.past : life'[p] = "new"
      /\ life' \in [Plugin -> {"new", "up", "down"}] /\ initialized' \in BOOLEAN
      /\ tasks' \in [running : 0 .. MaxTasks, late : 0 .. MaxTasks]
    BY <1>1 DEF RegisteredInv, TypeOK
<1> QED
    BY <1>1, <1>2, <1>3, <1>6, <1>7, <1>8, <1>9, CallerStep

\* A step in the middle of a call: the record r, and what becomes of the plugins.
LEMMA MiddleStep ==
    ASSUME IInv, NEW c \in Caller, NEW r \in CallRecord, call' = [call EXCEPT ![c] = r],
           call[c].pc # "idle", r.pc # "idle", UNCHANGED <<names, index, override, initialized, closed, tasks, hist>>,
           life' \in [Plugin -> {"new", "up", "down"}],
           \A p \in Plugin \ hist.past : life'[p] = "new",
           r.todo \cup Range(r.done) \subseteq hist.past,
           DrainInv', CallInv(c) => CallInv(c)'
    PROVE  IInv'
<1>1. TypeOK /\ RegisteredInv /\ SequentialInv /\ DrainInv
    BY DEF IInv
<1>2. /\ initialized \in BOOLEAN /\ closed \in BOOLEAN /\ hist.overlap \in BOOLEAN
      /\ tasks \in [running : 0 .. MaxTasks, late : 0 .. MaxTasks]
      /\ hist \in [past : SUBSET Plugin, overlap : BOOLEAN, booted : SUBSET Plugin]
    BY <1>1 DEF TypeOK
<1>3. ~hist.overlap => Busy \subseteq {c} /\ CallInv(c)
    BY <1>1 DEF SequentialInv, Busy
<1>4. SequentialInv'
    BY <1>1, <1>2, <1>3, OnlyCaller
<1> QED
    BY <1>1, <1>2, <1>4, CallerStep

LEMMA InitializePluginStep ==
    ASSUME IInv, NEW c \in Caller, NEW p \in Plugin, InitializePlugin(c, p)
    PROVE  IInv'
<1>1. /\ TypeOK /\ RegisteredInv /\ DrainInv /\ call[c].pc = "init" /\ p \in call[c].todo
      /\ life' = [life EXCEPT ![p] = "up"]
      /\ UNCHANGED <<names, index, initialized, closed, tasks, override, hist>>
    BY DEF IInv, InitializePlugin
<1> DEFINE done == Append(call[c].done, p)
           r == [call[c] EXCEPT !.todo = call[c].todo \ {p}, !.done = done]
<1>2. done \in Seq(Plugin) /\ Range(done) = Range(call[c].done) \cup {p}
    <2>1. call[c].done \in Seq(Plugin)
        BY <1>1, NamesFacts
    <2>2. /\ done \in Seq(Plugin) /\ Len(done) = Len(call[c].done) + 1 /\ Len(call[c].done) \in Nat
          /\ DOMAIN call[c].done = 1 .. Len(call[c].done)
          /\ \A i \in 1 .. Len(call[c].done) : done[i] = call[c].done[i]
          /\ done[Len(call[c].done) + 1] = p
        BY <2>1, AppendProperties, SeqFacts
    <2>3. DOMAIN done = 1 .. Len(call[c].done) + 1
        BY <2>2, SeqFacts
    <2> QED
        BY <2>2, <2>3 DEF Range
<1> HIDE DEF done
<1>3. r \in CallRecord /\ r.pc = "init" /\ r.todo = call[c].todo \ {p} /\ r.done = done
    BY <1>1, <1>2, NamesFacts DEF CallRecord
<1>4. call' = [call EXCEPT ![c] = r]
    BY <1>1, NamesFacts DEF InitializePlugin, TypeOK, done
<1> HIDE DEF r
<1>5. call'[c] = r
    BY <1>1, <1>4 DEF TypeOK
<1>6. /\ life' \in [Plugin -> {"new", "up", "down"}] /\ p \in hist.past /\ life'[p] = "up"
      /\ \A q \in Plugin \ {p} : life'[q] = life[q]
    BY <1>1 DEF TypeOK, RegisteredInv
<1>7. r.todo \cup Range(r.done) \subseteq hist.past
    BY <1>1, <1>2, <1>3 DEF RegisteredInv
<1>8. CallInv(c) => CallInv(c)'
    <2>1. Range(names) \subseteq Plugin /\ Range(call[c].done) \subseteq Plugin
        BY <1>1, NamesFacts
    <2> QED
        BY <1>1, <1>2, <1>3, <1>5, <1>6, <2>1 DEF CallInv, UpWithin
<1>9. DrainInv'
    BY <1>1, <1>3, <1>4, DrainKept
<1>10. \A q \in Plugin \ hist.past : life'[q] = "new"
    BY <1>1, <1>6 DEF RegisteredInv
<1> QED
    BY <1>1, <1>3, <1>4, <1>6, <1>7, <1>8, <1>9, <1>10, MiddleStep

\* The plugins that are up are the ones the rollback starts from.
LEMMA PluginFailsStep ==
    ASSUME IInv, NEW c \in Caller, PluginFails(c)
    PROVE  IInv'
<1>1. /\ TypeOK /\ RegisteredInv /\ DrainInv /\ call[c].pc = "init"
      /\ UNCHANGED <<names, index, life, initialized, closed, tasks, override, hist>>
    BY DEF IInv, PluginFails
<1> DEFINE r == [call[c] EXCEPT !.pc = "rollback", !.todo = {}]
<1>2. r \in CallRecord /\ r.pc = "rollback" /\ r.todo = {} /\ r.done = call[c].done
    BY <1>1, NamesFacts DEF CallRecord
<1>3. call' = [call EXCEPT ![c] = r]
    BY <1>1, NamesFacts DEF PluginFails, TypeOK
<1> HIDE DEF r
<1>4. call'[c] = r
    BY <1>1, <1>3 DEF TypeOK
<1>5. /\ life' \in [Plugin -> {"new", "up", "down"}] /\ r.todo \cup Range(r.done) \subseteq hist.past
      /\ \A p \in Plugin \ hist.past : life'[p] = "new"
    BY <1>1, <1>2 DEF TypeOK, RegisteredInv
<1>6. CallInv(c) => CallInv(c)'
    BY <1>1, <1>2, <1>4 DEF CallInv, UpWithin
<1>7. DrainInv'
    BY <1>1, <1>2, <1>3, DrainKept
<1> QED
    BY <1>1, <1>2, <1>3, <1>5, <1>6, <1>7, MiddleStep

\* The rollback shuts down what the call has brought up.
LEMMA RollBackStep ==
    ASSUME IInv, NEW c \in Caller, RollBack(c)
    PROVE  IInv'
<1> DEFINE done == call[c].done
<1>1. /\ TypeOK /\ RegisteredInv /\ SequentialInv /\ DrainInv /\ call[c].pc = "rollback"
      /\ UNCHANGED <<names, index, initialized, closed, tasks, override, hist>>
    BY DEF IInv, RollBack
<1>2. /\ done \in Seq(Plugin) /\ Len(done) \in Nat /\ DOMAIN done = 1 .. Len(done)
      /\ Range(done) \subseteq hist.past /\ call[c].todo \subseteq hist.past
    BY <1>1, NamesFacts, SeqFacts DEF RegisteredInv
<1>3. CASE done = << >>
    <2>1. NoCall \in CallRecord /\ NoCall.pc = "idle" /\ NoCall.todo = {} /\ NoCall.done = << >>
        BY DEF NoCall, CallRecord
    <2>2. call' = [call EXCEPT ![c] = NoCall] /\ life' = life
        BY <1>3 DEF RollBack
    <2>3. call'[c] = NoCall
        BY <1>1, <2>2 DEF TypeOK
    <2>4. /\ initialized \in BOOLEAN /\ closed \in BOOLEAN /\ hist.overlap \in BOOLEAN
          /\ tasks \in [running : 0 .. MaxTasks, late : 0 .. MaxTasks]
          /\ hist \in [past : SUBSET Plugin, overlap : BOOLEAN, booted : SUBSET Plugin]
          /\ life \in [Plugin -> {"new", "up", "down"}]
        BY <1>1 DEF TypeOK
    <2>5. ~hist.overlap => /\ Busy \subseteq {c}
                           /\ ~initialized /\ \A p \in Range(names) : life[p] # "up"
        BY <1>1, <1>3, EmptyRange DEF SequentialInv, Busy, CallInv, UpWithin
    <2>6. SequentialInv'
        <3>1. CallInv(c)'
            BY <2>1, <2>3 DEF CallInv
        <3> QED
            BY <1>1, <2>1, <2>2, <2>4, <2>5, <3>1, OnlyCaller
    <2>7. DrainInv'
        BY <1>1, <2>1, <2>2, DrainKept
    <2>8. NoCall.todo \cup Range(NoCall.done) \subseteq hist.past
        BY <2>1, EmptyRange
    <2> QED
        BY <1>1, <2>1, <2>2, <2>4, <2>6, <2>7, <2>8, CallerStep DEF RegisteredInv
<1>4. CASE done # << >>
    <2> DEFINE last == done[Len(done)]
               rest == SubSeq(done, 1, Len(done) - 1)
               r == [call[c] EXCEPT !.done = rest]
    <2>1. Len(done) > 0
        BY <1>2, <1>4, EmptySeq
    <2>2. last \in Plugin /\ last \in Range(done)
        BY <1>2, <2>1, SeqFacts DEF Range
    <2>3. rest \in Seq(Plugin) /\ Range(rest) \subseteq Range(done) /\ Range(done) \subseteq Range(rest) \cup {last}
        <3>1. \A i \in 1 .. Len(done) - 1 : done[i] \in Plugin
            BY <1>2, SeqFacts
        <3>2. /\ rest \in Seq(Plugin) /\ Len(rest) = Len(done) - 1
              /\ \A i \in 1 .. Len(done) - 1 : rest[i] = done[i]
            BY <1>2, <2>1, <3>1, SubSeqProperties
        <3>3. DOMAIN rest = 1 .. Len(done) - 1
            BY <3>2, SeqFacts
        <3> HIDE DEF rest
        <3>4. \A i \in DOMAIN rest : rest[i] \in Range(done)
            BY <1>2, <3>2, <3>3 DEF Range
        <3>5. \A i \in DOMAIN done : i # Len(done) => i \in DOMAIN rest /\ rest[i] = done[i]
            BY <1>2, <3>2, <3>3
        <3> HIDE DEF done
        <3> QED
            BY <3>2, <3>4, <3>5 DEF Range, last
    <2> HIDE DEF last, rest
    <2>4. r \in CallRecord /\ r.pc = "rollback" /\ r.todo = call[c].todo /\ r.done = rest
        BY <1>1, <2>3, NamesFacts DEF CallRecord
    <2>5. call' = [call EXCEPT ![c] = r] /\ life' = [life EXCEPT ![last] = "down"]
        BY <1>1, <1>4, NamesFacts DEF RollBack, TypeOK, last, rest
    <2> HIDE DEF r
    <2>6. /\ call'[c] = r /\ life' \in [Plugin -> {"new", "up", "down"}] /\ life'[last] = "down"
          /\ \A q \in Plugin \ {last} : life'[q] = life[q]
        BY <1>1, <2>2, <2>5 DEF TypeOK
    <2>7. r.todo \cup Range(r.done) \subseteq hist.past /\ \A q \in Plugin \ hist.past : life'[q] = "new"
        BY <1>1, <1>2, <2>2, <2>3, <2>4, <2>6 DEF RegisteredInv
    <2>8. CallInv(c) => CallInv(c)'
        <3>1. Range(names) \subseteq Plugin
            BY <1>1, NamesFacts
        <3> QED
            BY <1>1, <2>3, <2>4, <2>6, <3>1 DEF CallInv, UpWithin
    <2>9. DrainInv'
        BY <1>1, <2>4, <2>5, DrainKept
    <2> QED
        BY <1>1, <2>4, <2>5, <2>6, <2>7, <2>8, <2>9, MiddleStep
<1> QED
    BY <1>3, <1>4

\* initialize ends: the plugins it has brought up are the ones booted.
LEMMA InitializeEndsStep ==
    ASSUME IInv, NEW c \in Caller, InitializeEnds(c)
    PROVE  IInv'
<1>1. /\ TypeOK /\ RegisteredInv /\ SequentialInv /\ DrainInv /\ call[c].pc = "init"
      /\ initialized' = TRUE /\ call' = [call EXCEPT ![c] = NoCall]
      /\ UNCHANGED <<names, index, life, closed, tasks, override>>
    BY DEF IInv, InitializeEnds
<1>2. NoCall \in CallRecord /\ NoCall.pc = "idle" /\ NoCall.todo = {} /\ NoCall.done = << >>
    BY DEF NoCall, CallRecord
<1>3. /\ hist' \in [past : SUBSET Plugin, overlap : BOOLEAN, booted : SUBSET Plugin]
      /\ hist'.past = hist.past /\ hist'.overlap = hist.overlap /\ hist'.overlap \in BOOLEAN
      /\ hist'.booted = Range(call[c].done) \cap Range(names)
    <2>1. Range(call[c].done) \cap Range(names) \in SUBSET Plugin
        BY <1>1, NamesFacts
    <2> QED
        BY <1>1, <2>1 DEF TypeOK, InitializeEnds
<1>4. ~hist.overlap => Busy \subseteq {c} /\ \A p \in hist'.booted : life[p] = "up"
    BY <1>1, <1>3 DEF SequentialInv, Busy, CallInv
<1>5. SequentialInv'
    <2>1. CallInv(c)'
        <3>1. call'[c] = NoCall
            BY <1>1 DEF TypeOK
        <3> QED
            BY <1>2, <3>1 DEF CallInv
    <2> QED
        BY <1>1, <1>2, <1>3, <1>4, <2>1, OnlyCaller
<1>6. DrainInv'
    BY <1>1, <1>2, DrainKept
<1>7. NoCall.todo \cup Range(NoCall.done) \subseteq hist.past
    BY <1>2, EmptyRange
<1>8. /\ life' \in [Plugin -> {"new", "up", "down"}] /\ closed' \in BOOLEAN
      /\ tasks' \in [running : 0 .. MaxTasks, late : 0 .. MaxTasks]
      /\ \A p \in Plugin \ hist.past : life'[p] = "new"
    BY <1>1 DEF TypeOK, RegisteredInv
<1> QED
    BY <1>1, <1>2, <1>3, <1>5, <1>6, <1>7, <1>8, CallerStep

\* shutdown waited until no task runs.
LEMMA DrainedStep ==
    ASSUME IInv, NEW c \in Caller, Drained(c)
    PROVE  IInv'
<1>1. /\ TypeOK /\ RegisteredInv /\ DrainInv /\ call[c].pc = "drain" /\ tasks.running = 0
      /\ UNCHANGED <<names, index, life, initialized, closed, tasks, override, hist>>
    BY DEF IInv, Drained, TrackerEmpty
<1> DEFINE r == [call[c] EXCEPT !.pc = "teardown", !.todo = Range(names)]
<1>2. r \in CallRecord /\ r.pc = "teardown" /\ r.todo = Range(names) /\ r.done = call[c].done
    BY <1>1, NamesFacts DEF CallRecord
<1>3. call' = [call EXCEPT ![c] = r]
    BY <1>1, NamesFacts DEF Drained, TypeOK
<1> HIDE DEF r
<1>4. call'[c] = r
    BY <1>1, <1>3 DEF TypeOK
<1>5. /\ life' \in [Plugin -> {"new", "up", "down"}] /\ r.todo \cup Range(r.done) \subseteq hist.past
      /\ \A p \in Plugin \ hist.past : life'[p] = "new"
    BY <1>1, <1>2 DEF TypeOK, RegisteredInv
<1>6. CallInv(c)'
    BY <1>1, <1>2, <1>4 DEF CallInv, UpWithin
<1>7. DrainInv'
    <2>1. tasks.late \in Nat
        BY <1>1, LifecycleAssumption DEF TypeOK
    <2> QED
        BY <1>1, <2>1 DEF DrainInv
<1> QED
    BY <1>1, <1>2, <1>3, <1>5, <1>6, <1>7, MiddleStep

LEMMA TearDownStep ==
    ASSUME IInv, NEW c \in Caller, NEW p \in Plugin, TearDown(c, p)
    PROVE  IInv'
<1>1. /\ TypeOK /\ RegisteredInv /\ DrainInv /\ call[c].pc = "teardown" /\ p \in call[c].todo
      /\ life' = [life EXCEPT ![p] = "down"]
      /\ UNCHANGED <<names, index, initialized, closed, tasks, override, hist>>
    BY DEF IInv, TearDown
<1> DEFINE r == [call[c] EXCEPT !.todo = call[c].todo \ {p}]
<1>2. r \in CallRecord /\ r.pc = "teardown" /\ r.todo = call[c].todo \ {p} /\ r.done = call[c].done
    BY <1>1, NamesFacts DEF CallRecord
<1>3. call' = [call EXCEPT ![c] = r]
    BY <1>1, NamesFacts DEF TearDown, TypeOK
<1> HIDE DEF r
<1>4. /\ call'[c] = r /\ life' \in [Plugin -> {"new", "up", "down"}] /\ life'[p] = "down"
      /\ \A q \in Plugin \ {p} : life'[q] = life[q]
    BY <1>1, <1>3 DEF TypeOK
<1>5. r.todo \cup Range(r.done) \subseteq hist.past /\ \A q \in Plugin \ hist.past : life'[q] = "new"
    BY <1>1, <1>2, <1>4 DEF RegisteredInv
<1>6. CallInv(c) => CallInv(c)'
    <2>1. Range(names) \subseteq Plugin
        BY <1>1, NamesFacts
    <2> QED
        BY <1>1, <1>2, <1>4, <2>1 DEF CallInv, UpWithin
<1>7. DrainInv'
    BY <1>1, <1>2, <1>3, DrainKept
<1> QED
    BY <1>1, <1>2, <1>3, <1>4, <1>5, <1>6, <1>7, MiddleStep

LEMMA TasksType ==
    ASSUME TypeOK
    PROVE  tasks.running \in 0 .. MaxTasks /\ tasks.late \in 0 .. MaxTasks /\ MaxTasks \in Nat
    BY LifecycleAssumption DEF TypeOK

\* Another call may still be tearing down; the tasks then remain late ones.
LEMMA ShutdownEndsStep ==
    ASSUME IInv, NEW c \in Caller, ShutdownEnds(c)
    PROVE  IInv'
<1>1. /\ TypeOK /\ RegisteredInv /\ SequentialInv /\ DrainInv
      /\ call[c].pc = "teardown" /\ call[c].todo = {}
      /\ initialized' = FALSE /\ call' = [call EXCEPT ![c] = NoCall]
      /\ UNCHANGED <<names, index, life, closed, override>>
    BY DEF IInv, ShutdownEnds
<1>2. NoCall \in CallRecord /\ NoCall.pc = "idle" /\ NoCall.todo = {} /\ NoCall.done = << >>
    BY DEF NoCall, CallRecord
<1>3. \A d \in Caller : call'[d] = IF d = c THEN NoCall ELSE call[d]
    BY <1>1 DEF TypeOK
<1>4. /\ hist' \in [past : SUBSET Plugin, overlap : BOOLEAN, booted : SUBSET Plugin]
      /\ hist'.past = hist.past /\ hist'.overlap = hist.overlap /\ hist'.overlap \in BOOLEAN
    BY <1>1 DEF TypeOK, ShutdownEnds
<1>5. /\ tasks' \in [running : 0 .. MaxTasks, late : 0 .. MaxTasks]
      /\ tasks'.running = tasks.running
      /\ tasks'.late = IF \E d \in Caller \ {c} : call[d].pc = "teardown" THEN tasks.late ELSE 0
    <2> DEFINE late == IF \E d \in Caller \ {c} : call[d].pc = "teardown" THEN tasks.late ELSE 0
    <2>1. late \in 0 .. MaxTasks
        BY <1>1, TasksType
    <2>2. tasks' = [tasks EXCEPT !.late = late]
        BY DEF ShutdownEnds
    <2> HIDE DEF late
    <2>3. tasks'.running = tasks.running /\ tasks'.late = late
          /\ tasks' \in [running : 0 .. MaxTasks, late : 0 .. MaxTasks]
        BY <1>1, <2>1, <2>2 DEF TypeOK
    <2> QED
        BY <2>3 DEF late
<1>6. ~hist.overlap => Busy \subseteq {c} /\ \A p \in Range(names) : life[p] # "up"
    BY <1>1 DEF SequentialInv, Busy, CallInv, UpWithin
<1>7. SequentialInv'
    <2>1. CallInv(c)'
        BY <1>2, <1>3 DEF CallInv
    <2> QED
        BY <1>1, <1>2, <1>4, <1>6, <2>1, OnlyCaller
<1>8. DrainInv'
    <2>1. (\E d \in Caller : call'[d].pc = "teardown") => \E d \in Caller \ {c} : call[d].pc = "teardown"
        BY <1>2, <1>3
    <2> QED
        BY <1>1, <1>5, <2>1, TasksType DEF DrainInv
<1>9. NoCall.todo \cup Range(NoCall.done) \subseteq hist.past
    BY <1>2, EmptyRange
<1>10. /\ life' \in [Plugin -> {"new", "up", "down"}] /\ closed' \in BOOLEAN
       /\ \A p \in Plugin \ hist.past : life'[p] = "new"
    BY <1>1 DEF TypeOK, RegisteredInv
<1> QED
    BY <1>1, <1>2, <1>4, <1>5, <1>7, <1>8, <1>9, <1>10, CallerStep

-----------------------------------------------------------------------------
(* Background tasks and override instances.                                *)

LEMMA TaskStep ==
    ASSUME IInv, Spawn \/ TaskEnds
    PROVE  IInv'
<1>1. /\ TypeOK /\ RegisteredInv /\ SequentialInv /\ DrainInv /\ IndexInv
      /\ UNCHANGED <<names, index, life, initialized, closed, call, override, hist>>
    BY DEF IInv, Spawn, TaskEnds
<1>2. tasks' \in [running : 0 .. MaxTasks, late : 0 .. MaxTasks] /\ DrainInv'
    <2>1. CASE Spawn
        <3>1. /\ tasks.running < MaxTasks /\ tasks'.running = tasks.running + 1
              /\ tasks'.late = IF \E c \in Caller : call[c].pc = "teardown" THEN tasks.late + 1
                               ELSE tasks.late
              /\ tasks' = [running |-> tasks'.running, late |-> tasks'.late]
            BY <2>1 DEF Spawn
        <3>2. tasks'.running \in 0 .. MaxTasks /\ tasks'.late \in 0 .. MaxTasks
            BY <1>1, <3>1, TasksType DEF DrainInv
        <3>3. DrainInv'
            BY <1>1, <3>1, TasksType DEF DrainInv
        <3> QED
            BY <3>1, <3>2, <3>3
    <2>2. CASE TaskEnds
        <3>1. /\ tasks.running > 0 /\ tasks'.running = tasks.running - 1
              /\ \/ tasks.late > 0 /\ tasks'.late = tasks.late - 1
                 \/ tasks.late < tasks.running /\ tasks'.late = tasks.late
              /\ tasks' = [running |-> tasks'.running, late |-> tasks'.late]
            BY <1>1, <2>2 DEF TaskEnds, TypeOK
        <3>2. tasks'.running \in 0 .. MaxTasks /\ tasks'.late \in 0 .. MaxTasks
            BY <1>1, <3>1, TasksType
        <3>3. DrainInv'
            BY <1>1, <3>1, TasksType DEF DrainInv
        <3> QED
            BY <3>1, <3>2, <3>3
    <2> QED
        BY <2>1, <2>2
<1>3. TypeOK'
    BY <1>1, <1>2 DEF TypeOK
<1>4. RegisteredInv' /\ IndexInv'
    BY <1>1 DEF RegisteredInv, IndexInv
<1>5. SequentialInv'
    BY <1>1 DEF SequentialInv, Busy, CallInv, UpWithin
<1> QED
    BY <1>2, <1>3, <1>4, <1>5 DEF IInv

LEMMA OverrideStep ==
    ASSUME IInv, NEW r \in Overriding, OverrideBuilt(r) \/ OverrideFails(r)
    PROVE  IInv'
<1>1. /\ TypeOK /\ RegisteredInv /\ SequentialInv /\ DrainInv /\ IndexInv
      /\ UNCHANGED <<names, index, life, initialized, closed, tasks, call, hist>>
    BY DEF IInv, OverrideBuilt, OverrideFails
<1>2. override' \in [Overriding -> {"none", "own", "base", "absent"}]
    BY <1>1 DEF TypeOK, OverrideBuilt, OverrideFails
<1>3. TypeOK'
    BY <1>1, <1>2 DEF TypeOK
<1>4. RegisteredInv' /\ IndexInv' /\ DrainInv'
    BY <1>1 DEF RegisteredInv, IndexInv, DrainInv
<1>5. SequentialInv'
    BY <1>1 DEF SequentialInv, Busy, CallInv, UpWithin
<1> QED
    BY <1>3, <1>4, <1>5 DEF IInv

-----------------------------------------------------------------------------
LEMMA Initially ==
    Init => IInv
<1> SUFFICES ASSUME Init PROVE IInv
    OBVIOUS
<1>1. NoCall \in CallRecord /\ NoCall.pc = "idle" /\ NoCall.todo = {} /\ NoCall.done = << >>
    BY DEF NoCall, CallRecord
<1>2. names = << >> /\ names \in Seq(Plugin) /\ Range(names) = {} /\ DOMAIN names = {}
    BY EmptyRange DEF Init
<1>3. TypeOK
    <2>1. call \in [Caller -> CallRecord] /\ index \in [Hook -> Seq(Plugin)]
        BY <1>1 DEF Init
    <2>2. tasks \in [running : 0 .. MaxTasks, late : 0 .. MaxTasks]
        BY LifecycleAssumption DEF Init
    <2>3. hist \in [past : SUBSET Plugin, overlap : BOOLEAN, booted : SUBSET Plugin]
        BY DEF Init
    <2> QED
        BY <1>2, <2>1, <2>2, <2>3 DEF Init, TypeOK
<1>4. RegisteredInv
    BY <1>1, <1>2, EmptyRange DEF Init, RegisteredInv
<1>5. SequentialInv
    <2>1. Busy = {}
        BY <1>1 DEF Init, Busy
    <2>2. \A c \in Caller : CallInv(c)
        BY <1>1 DEF Init, CallInv
    <2> QED
        BY <1>2, <2>1, <2>2 DEF Init, SequentialInv
<1>6. DrainInv
    BY <1>1 DEF Init, DrainInv
<1>7. IndexInv
    BY <1>2, EmptyRange DEF Init, IndexInv, Once, Exact
<1> QED
    BY <1>3, <1>4, <1>5, <1>6, <1>7 DEF IInv

LEMMA Inductive ==
    ASSUME IInv, [Next]_vars
    PROVE  IInv'
<1>1. ASSUME NEW p \in Plugin, Register(p) \/ Unregister(p) PROVE IInv'
    BY <1>1, RegisterStep, UnregisterStep
<1>2. ASSUME NEW c \in Caller,
             \/ InitializeBegins(c) \/ PluginFails(c) \/ RollBack(c) \/ InitializeEnds(c)
             \/ ShutdownBegins(c) \/ Drained(c) \/ ShutdownEnds(c)
             \/ \E p \in Plugin : InitializePlugin(c, p) \/ TearDown(c, p)
      PROVE  IInv'
    BY <1>2, BeginStep, PluginFailsStep, RollBackStep, InitializeEndsStep, DrainedStep,
       ShutdownEndsStep, InitializePluginStep, TearDownStep
<1>3. CASE Spawn \/ TaskEnds
    BY <1>3, TaskStep
<1>4. ASSUME NEW r \in Overriding, OverrideBuilt(r) \/ OverrideFails(r) PROVE IInv'
    BY <1>4, OverrideStep
<1>5. CASE UNCHANGED vars
    <2>1. TypeOK' /\ RegisteredInv' /\ IndexInv' /\ DrainInv'
        BY <1>5 DEF IInv, vars, TypeOK, RegisteredInv, IndexInv, DrainInv
    <2>2. SequentialInv'
        BY <1>5 DEF IInv, vars, SequentialInv, Busy, CallInv, UpWithin
    <2> QED
        BY <2>1, <2>2 DEF IInv
<1> QED
    BY <1>1, <1>2, <1>3, <1>4, <1>5 DEF Next

LEMMA Invariant ==
    Spec => []IInv
<1>1. IInv /\ [Next]_vars => IInv'
    BY Inductive
<1> QED
    BY <1>1, Initially, PTL DEF Spec

-----------------------------------------------------------------------------
\* The registry, the plugins' lives, the task tracker and the calls in progress
\* keep their shape (registry.rs, engine.rs: initialize, shutdown).
THEOREM TypeCorrect ==
    Spec => []TypeOK
<1>1. IInv => TypeOK
    BY DEF IInv
<1> QED
    BY <1>1, Invariant, PTL

\* After any sequence of registrations and removals, a hook lists exactly the
\* registered plugins that serve it, each once, by priority and then by order
\* of registration (register_for_names_inner, unregister).
THEOREM IndexStaysExact ==
    Spec => []IndexExact
<1>1. IInv => IndexExact
    <2> SUFFICES ASSUME IInv PROVE IndexExact
        OBVIOUS
    <2>1. \A h \in Hook : Exact(names, index[h], h)
        BY DEF IInv, IndexInv
    <2> DEFINE At(p) == CHOOSE i \in DOMAIN names : names[i] = p
    <2>2. \A p \in Range(names) : At(p) \in DOMAIN names /\ names[At(p)] = p
        BY DEF Range
    <2> HIDE DEF At
    <2>3. ASSUME NEW h \in Hook, NEW i \in DOMAIN index[h], NEW j \in DOMAIN index[h], i < j
          PROVE  \/ Priority[index[h][i]] < Priority[index[h][j]]
                 \/ /\ Priority[index[h][i]] = Priority[index[h][j]]
                    /\ At(index[h][i]) < At(index[h][j])
        <3>1. index[h][i] \in Range(index[h]) /\ index[h][j] \in Range(index[h])
            BY DEF Range
        <3>2. index[h][i] \in Range(names) /\ index[h][j] \in Range(names)
            BY <2>1, <3>1 DEF Exact
        <3> QED
            BY <2>1, <2>2, <2>3, <3>2 DEF Exact
    <2>4. \A h \in Hook : Range(index[h]) = {p \in Range(names) : h \in Serves[p]}
        BY <2>1 DEF Exact
    <2> QED
        BY <2>3, <2>4 DEF IndexExact, At
<1> QED
    BY <1>1, Invariant, PTL

\* Unless calls overlapped, initialize brings up all of the plugins it saw or
\* none, and a completed shutdown leaves no registered plugin up.
THEOREM NeverHalfStarted ==
    Spec => []AllOrNothing
<1>1. IInv => AllOrNothing
    BY DEF IInv, SequentialInv, AllOrNothing
<1> QED
    BY <1>1, Invariant, PTL

\* However many calls of shutdown overlap, none tears a plugin down while a task
\* spawned before its drain is running (task_tracker.close and wait).
THEOREM TasksDrainedFirst ==
    Spec => []DrainedBeforeTeardown
<1>1. IInv => DrainedBeforeTeardown
    BY DEF IInv, DrainInv, DrainedBeforeTeardown
<1> QED
    BY <1>1, Invariant, PTL
=============================================================================
