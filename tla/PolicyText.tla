----------------------------- MODULE PolicyText -----------------------------
(***************************************************************************)
(* The text of the policy language (parser.rs): predicates, rule lines,    *)
(* call arguments and pipe chains.  A text is the sequence of its symbols: *)
(* words, numerals, operators, brackets and quote marks (white space only  *)
(* separates).  A quoted string is therefore a run of symbols, so what a   *)
(* scanner does with a bracket or a colon inside quotes is visible here.   *)
(*                                                                         *)
(* Results of a parse are options: <<>> for an error, <<x>> for the value. *)
(***************************************************************************)
EXTENDS Integers, Sequences, FiniteSets, SequencesExt

CONSTANTS Numeral,     \* the numerals of the vocabulary, to their values
          Suffixed,    \* numerals with a k or M suffix: [n, mult]
          Dotted,      \* words that begin with a dot (they continue a path)
          MaxInt       \* i64::MAX, scaled down

Quotes == {"'", "\""}

AllOf(options) ==
    IF \E i \in DOMAIN options : options[i] = <<>> THEN <<>>
    ELSE << [i \in DOMAIN options |-> options[i][1]] >>

(* The `?` of the code: an error ends the parse, a value goes on to op. *)
Then(option, op(_)) == IF option = <<>> THEN <<>> ELSE op(option[1])

-----------------------------------------------------------------------------
(* Scanning: which symbols stand outside quotes and brackets. *)

Leftmost(places) == IF places = {} THEN 0 ELSE Min(places)

AfterUnquoted(st, c, opens, closes, escapes) ==
    [st EXCEPT !.depth = IF c \in opens THEN @ + 1 ELSE IF c \in closes THEN @ - 1 ELSE @]

After(st, c, opens, closes, escapes) ==
    CASE st.escaped -> [st EXCEPT !.escaped = FALSE]
      [] ~st.escaped /\ st.quote # "" ->
            [st EXCEPT !.escaped = escapes /\ c = "\\",
                       !.quote = IF c = st.quote THEN "" ELSE @]
      [] ~st.escaped /\ st.quote = "" ->
            [st EXCEPT !.quote = IF c \in Quotes THEN c ELSE "",
                       !.depth = IF c \in opens THEN @ + 1 ELSE IF c \in closes THEN @ - 1 ELSE @]

(* The scanner's state after each prefix of s. *)
Scan(s, opens, closes, escapes) ==
    LET st[i \in 0..Len(s)] ==
            IF i = 0 THEN [quote |-> "", depth |-> 0, escaped |-> FALSE]
            ELSE After(st[i-1], s[i], opens, closes, escapes)
    IN st

TopLevel(s, c, opens, closes, escapes) ==
    LET outside(st) == {i \in 1..Len(s) : s[i] = c /\ st[i-1].quote = "" /\ st[i-1].depth = 0}
    IN outside(Scan(s, opens, closes, escapes))

Pieces(s, cuts) ==
    LET between(ends) == [k \in 1..Len(ends) - 1 |-> SubSeq(s, ends[k] + 1, ends[k+1] - 1)]
    IN between(<<0>> \o SetToSortSeq(cuts, LAMBDA a, b : a < b) \o <<Len(s) + 1>>)

SplitTopLevel(s, delim) == Pieces(s, TopLevel(s, delim, {"(", "["}, {")", "]"}, FALSE))

(* split_top_level_commas, the only one to refuse unbalanced text. *)
SplitTopLevelCommas(s) ==
    LET opens == {"(", "[", "{"}
        closes == {")", "]", "}"}
        balanced(st) == /\ st[Len(s)].quote = "" /\ st[Len(s)].depth = 0
                        /\ \A i \in 1..Len(s) : st[i].depth >= 0
    IN IF ~balanced(Scan(s, opens, closes, TRUE)) THEN <<>>
       ELSE << Pieces(s, TopLevel(s, ",", opens, closes, TRUE)) >>

(* The last colon outside quotes and parentheses separates the action. *)
SplitPredicateAction(s) ==
    LET at(i) == << [predicate |-> SubSeq(s, 1, i - 1), action |-> SubSeq(s, i + 1, Len(s))] >>
        last(colons) == IF colons = {} THEN <<>> ELSE at(Max(colons))
    IN last(TopLevel(s, ":", {"("}, {")"}, FALSE))

(* The first single pipe at top level; a doubled one is passed over. *)
FindTopLevelPipe(s) ==
    LET single(pipes) ==
            LET skipped[i \in 0..Len(s)] == i > 1 /\ i - 1 \in pipes /\ ~skipped[i-1] /\ s[i] = "|"
                doubled(i) == i < Len(s) /\ s[i+1] = "|"
            IN {i \in pipes : ~skipped[i] /\ ~doubled(i)}
    IN Leftmost(single(TopLevel(s, "|", {"(", "["}, {")", "]"}, TRUE)))

(* Parentheses are matched without regard to quotes here. *)
Closing(s, open) ==
    LET depth[i \in (open-1)..Len(s)] ==
            IF i = open - 1 THEN 0
            ELSE depth[i-1] + (IF s[i] = "(" THEN 1 ELSE IF s[i] = ")" THEN -1 ELSE 0)
    IN Leftmost({i \in open..Len(s) : s[i] = ")" /\ depth[i] = 0})

IsCall(s, name) == Len(s) >= 2 /\ s[1] = name /\ s[2] = "("

(* name(args) and nothing after the matching parenthesis. *)
ExtractCallArgs(s, name) ==
    IF IsCall(s, name) /\ Closing(s, 2) = Len(s) THEN << SubSeq(s, 3, Len(s) - 1) >> ELSE <<>>

SplitHeadArgs(s) ==
    LET from(open) ==
            IF open = 0
            THEN IF s = <<>> THEN <<>> ELSE << [head |-> s, call |-> FALSE, args |-> <<>>] >>
            ELSE IF open = 1 \/ Closing(s, open) # Len(s) THEN <<>>
            ELSE << [head |-> SubSeq(s, 1, open - 1), call |-> TRUE,
                     args |-> SubSeq(s, open + 1, Len(s) - 1)] >>
    IN from(Leftmost({i \in 1..Len(s) : s[i] = "("}))

(* One pair of equal quotes around the text; a lone quote is no pair. *)
UnwrapQuotes(s) ==
    IF Len(s) >= 2 /\ s[1] \in Quotes /\ s[Len(s)] = s[1] THEN << SubSeq(s, 2, Len(s) - 1) >>
    ELSE <<>>
StripWrappingQuotes(s) == IF UnwrapQuotes(s) = <<>> THEN s ELSE UnwrapQuotes(s)[1]

-----------------------------------------------------------------------------
(* Tokens of a predicate. *)

Punctuation == {"(", ")", ",", "&", "|", "==", "!=", "!", ">", ">=", "<", "<="}
Keywords == {"contains", "require", "exists", "in"}
Stray == {"=", "[", "]", "{", "}", ":", "\\", ".."}

Tok(t, v) == [t |-> t, v |-> v]
NoTok == Tok("none", <<>>)

First(s, from, C) == Leftmost({i \in from..Len(s) : s[i] \in C})

RECURSIVE PathEnd(_, _)
(* A path goes on through [...] groups and what is dotted on to them; 0    *)
(* for a group that is nested or not closed.                               *)
PathEnd(s, i) ==
    IF i > Len(s) THEN i
    ELSE IF s[i] \in Dotted THEN PathEnd(s, i + 1)
    ELSE IF s[i] # "[" THEN i
    ELSE LET after(close) == IF close = 0 \/ s[close] = "[" THEN 0 ELSE PathEnd(s, close + 1)
         IN after(First(s, i + 1, {"[", "]"}))

LexIdentOrKeyword(s, i) ==
    LET until(end, path) ==
            IF end = 0 THEN <<>>
            ELSE << [next |-> end,
                     tok |-> CASE path \in {<<"true">>, <<"false">>} -> Tok("bool", path)
                               [] Len(path) = 1 /\ path[1] \in Keywords -> Tok(path[1], <<>>)
                               [] OTHER -> Tok("ident", path)] >>
        upTo(end) == until(end, SubSeq(s, i, end - 1))
    IN upTo(PathEnd(s, i + 1))

LexString(s, i) ==
    LET until(close) ==
            IF close = 0 THEN <<>>
            ELSE << [tok |-> Tok("string", SubSeq(s, i + 1, close - 1)), next |-> close + 1] >>
    IN until(First(s, i + 1, {s[i]}))

LexOne(s, i) ==
    CASE s[i] \in Quotes -> LexString(s, i)
      [] s[i] \in Punctuation -> << [tok |-> Tok(s[i], <<>>), next |-> i + 1] >>
      [] s[i] \in DOMAIN Numeral -> << [tok |-> Tok("number", <<s[i]>>), next |-> i + 1] >>
      [] s[i] \in Stray \cup Dotted \cup DOMAIN Suffixed -> <<>>
      [] OTHER -> LexIdentOrKeyword(s, i)

RECURSIVE Tokens(_, _)
Tokens(s, i) ==
    IF i > Len(s) THEN << <<>> >>
    ELSE Then(LexOne(s, i), LAMBDA one :
             Then(Tokens(s, one.next), LAMBDA rest : << <<one.tok>> \o rest >>))

TokenizeAll(s) == Tokens(s, 1)

-----------------------------------------------------------------------------
(* Expressions, and the recursive descent over the tokens. *)

Expression(op, key, arg, parts) == [op |-> op, key |-> key, arg |-> arg, parts |-> parts]
Condition(op, key, arg) == Expression(op, key, arg, <<>>)
IsTrue(key) == Condition("true", key, NoTok)
IsFalse(key) == Condition("false", key, NoTok)
Always == Condition("always", <<>>, NoTok)
Group(op, parts) == Expression(op, <<>>, NoTok, parts)

At(ts, p) == IF p <= Len(ts) THEN ts[p] ELSE NoTok
Yes(node, p) == [ok |-> TRUE, node |-> node, pos |-> p]
No(p) == [ok |-> FALSE, node |-> Always, pos |-> p]
OnYes(result, op(_)) == IF result.ok THEN op(result) ELSE result

CompareOps == {"==", "!=", ">", ">=", "<", "<=", "contains"}
Literals == {"string", "number", "bool"}

FinishInSet(ts, p, key, op) ==
    IF At(ts, p).t = "ident" THEN Yes(Condition(op, key, At(ts, p)), p + 1) ELSE No(p)

(* key, key in set, key not in set, or key op literal. *)
ParseIdentifierPredicate(ts, p) ==
    LET before(key, next) ==
            CASE next.t = "in" -> FinishInSet(ts, p + 2, key, "in")
              [] next = Tok("ident", <<"not">>) /\ At(ts, p + 2).t = "in" ->
                    FinishInSet(ts, p + 3, key, "not in")
              [] next.t \in CompareOps ->
                    IF At(ts, p + 2).t \in Literals
                    THEN Yes(Condition(next.t, key, At(ts, p + 2)), p + 3) ELSE No(p)
              [] OTHER -> Yes(IsTrue(key), p + 1)
    IN before(ts[p].v, At(ts, p + 1))

ParseExists(ts, p) ==
    IF At(ts, p + 1).t = "(" /\ At(ts, p + 2).t = "ident" /\ At(ts, p + 3).t = ")"
    THEN Yes(Condition("exists", ts[p + 2].v, NoTok), p + 4) ELSE No(p)

RECURSIVE ParseOr(_, _), ParseUnary(_, _), OrTail(_, _, _), AndTail(_, _, _)

ParseAtom(ts, p) ==
    LET close(inner) ==
            IF At(ts, inner.pos).t = ")" THEN Yes(inner.node, inner.pos + 1) ELSE No(p)
        from(t) == CASE t = "(" -> OnYes(ParseOr(ts, p + 1), close)
                     [] t = "exists" -> ParseExists(ts, p)
                     [] t = "ident" -> ParseIdentifierPredicate(ts, p)
                     [] OTHER -> No(p)
    IN from(At(ts, p).t)

ParseUnary(ts, p) ==
    IF At(ts, p).t = "!"
    THEN OnYes(ParseUnary(ts, p + 1), LAMBDA inner : Yes(Group("not", <<inner.node>>), inner.pos))
    ELSE ParseAtom(ts, p)

Joined(op, parts) == IF Len(parts) = 1 THEN parts[1] ELSE Group(op, parts)

AndTail(ts, p, parts) ==
    IF At(ts, p).t # "&" THEN Yes(Joined("and", parts), p)
    ELSE OnYes(ParseUnary(ts, p + 1), LAMBDA next : AndTail(ts, next.pos, Append(parts, next.node)))

ParseAnd(ts, p) ==
    OnYes(ParseUnary(ts, p), LAMBDA first : AndTail(ts, first.pos, <<first.node>>))

OrTail(ts, p, parts) ==
    IF At(ts, p).t # "|" THEN Yes(Joined("or", parts), p)
    ELSE OnYes(ParseAnd(ts, p + 1), LAMBDA next : OrTail(ts, next.pos, Append(parts, next.node)))

ParseOr(ts, p) ==
    OnYes(ParseAnd(ts, p), LAMBDA first : OrTail(ts, first.pos, <<first.node>>))

ParsePredicate(s) ==
    LET whole(ts, e) == IF e.ok /\ e.pos > Len(ts) THEN << e.node >> ELSE <<>>
    IN Then(TokenizeAll(s), LAMBDA ts : whole(ts, ParseOr(ts, 1)))

-----------------------------------------------------------------------------
(* Rule lines. *)

(* An effect: its kind, named texts, and, for those that have them, a      *)
(* condition and nested effects (`allow` holds a PDP call's on_allow).     *)
Effect(kind, args, cond, body, allow) ==
    [kind |-> kind, args |-> args, cond |-> cond, body |-> body, allow |-> allow]
Simple(kind, args) == Effect(kind, args, Always, <<>>, <<>>)
Allow == Simple("allow", {})
Rule(cond, effects) == [cond |-> cond, effects |-> effects]

(* require(a), require(a, b) and require(a | b): a rule that denies when   *)
(* the keys are not all, or not any, true.                                 *)
ParseRequireRule(s) ==
    LET rule(ts) ==
            LET n == Len(ts)
                seps == {ts[i].t : i \in {j \in 4..n-2 : j % 2 = 0}}
                falses == [k \in 1..(n - 2) \div 2 |-> IsFalse(ts[2 * k + 1].v)]
            IN IF \/ n < 4 \/ n % 2 # 0
                  \/ ts[2].t # "(" \/ ts[n].t # ")"
                  \/ \E i \in 3..n-1 : i % 2 = 1 /\ ts[i].t # "ident"
                  \/ ~(seps \subseteq {","} \/ seps \subseteq {"|"})
               THEN <<>>
               ELSE << IF Len(falses) = 1 THEN falses[1]
                       ELSE Group(IF seps = {"|"} THEN "and" ELSE "or", falses) >>
    IN Then(TokenizeAll(s), rule)

(* Lines that belong to parse_step. *)
DetectStepKind(s) ==
    /\ Len(s) >= 2
    /\ \/ s[1] \in {"taint", "plugin", "run", "opa", "authzen", "nemo"} /\ s[2] = "("
       \/ s[1] \in {"cedar", "cel", "sequential", "parallel"} /\ s[2] = ":"

TryBareAction(s) ==
    IF s = <<"deny">> THEN << Simple("deny", {}) >>
    ELSE IF s = <<"allow">> THEN << Allow >> ELSE <<>>

(* deny('reason') or deny('reason', 'code').  Note that `deny()` has one   *)
(* argument, an empty one, which is no quoted string.                      *)
TryParseDenyCall(s) ==
    LET literals(parts) ==
            IF Len(parts) > 2 THEN <<>> ELSE AllOf([i \in DOMAIN parts |-> UnwrapQuotes(parts[i])])
        deny(texts) == << Simple("deny", {<<<<"reason">>, texts[1]>>}
                              \cup {<<<<"code">>, texts[i]>> : i \in DOMAIN texts \ {1}}) >>
    IN Then(Then(Then(ExtractCallArgs(s, "deny"), SplitTopLevelCommas), literals), deny)

ParseAction(s) ==
    IF TryBareAction(s) # <<>> THEN TryBareAction(s)
    ELSE IF IsCall(s, "deny") THEN TryParseDenyCall(s) ELSE <<>>

RuleWhen(text, effects) == Then(ParsePredicate(text), LAMBDA cond : << Rule(cond, effects) >>)

ParseRule(s) ==
    LET denied == << Simple("deny", {}) >>
    IN CASE IsCall(s, "require") ->
              Then(ParseRequireRule(s), LAMBDA cond : << Rule(cond, denied) >>)
         [] ~IsCall(s, "require") /\ DetectStepKind(s) -> <<>>
         [] ~IsCall(s, "require") /\ ~DetectStepKind(s) /\ SplitPredicateAction(s) # <<>> ->
              Then(SplitPredicateAction(s), LAMBDA split :
                  Then(ParseAction(split.action), LAMBDA action : RuleWhen(split.predicate, <<action>>)))
         [] OTHER ->
              IF TryBareAction(s) # <<>> THEN << Rule(Always, TryBareAction(s)) >>
              ELSE IF IsCall(s, "deny") THEN Then(TryParseDenyCall(s), LAMBDA deny : << Rule(Always, <<deny>>) >>)
              ELSE RuleWhen(s, denied)

-----------------------------------------------------------------------------
(* Arguments of delegate(...) and of the elicitation verbs. *)

RECURSIVE ParseDelegateValue(_)
(* A list, a quoted string, a boolean, a number or a bare word. *)
ParseDelegateValue(s) ==
    LET items == SplitTopLevelCommas(SubSeq(s, 2, Len(s) - 1))
        given(parts) == SelectSeq(parts, LAMBDA t : t # <<>>)
        values(parts) == AllOf([i \in DOMAIN parts |-> ParseDelegateValue(parts[i])])
    IN CASE s = <<>> -> <<>>
         [] Len(s) >= 2 /\ s[1] = "[" /\ s[Len(s)] = "]" ->
              Then(Then(items, LAMBDA parts : values(given(parts))),
                   LAMBDA list : << <<"list">> \o FlattenSeq(list) >>)
         [] Len(s) >= 1 /\ UnwrapQuotes(s) # <<>> -> << <<"string">> \o UnwrapQuotes(s)[1] >>
         [] Len(s) = 1 /\ s[1] \in {"true", "false"} -> << <<"bool">> \o s >>
         [] Len(s) = 1 /\ s[1] \in DOMAIN Numeral -> << <<"number">> \o s >>
         [] OTHER -> << <<"string">> \o s >>

(* key: value, split at the first colon. *)
KwArg(s) ==
    LET colon == First(s, 1, {":"})
    IN IF colon < 2 THEN <<>>
       ELSE Then(ParseDelegateValue(SubSeq(s, colon + 1, Len(s))),
                 LAMBDA value : << [key |-> SubSeq(s, 1, colon - 1), value |-> value] >>)

(* What delegate(...) and the verbs share: a plugin name, then keyword     *)
(* arguments (empty ones are passed over), none of them `plugin`.          *)
CallArgs(inside) ==
    LET kwargs(given) == AllOf([i \in DOMAIN given |-> KwArg(given[i])])
        call(name, given) ==
            IF name = <<>> \/ \E i \in DOMAIN given : given[i].key = <<"plugin">> THEN <<>>
            ELSE << [name |-> name, kwargs |-> given] >>
    IN Then(SplitTopLevelCommas(inside), LAMBDA parts :
           Then(kwargs(SelectSeq(Tail(parts), LAMBDA t : t # <<>>)), LAMBDA given :
               call(StripWrappingQuotes(parts[1]), given)))

(* The last of the arguments with a key counts, under the key's own name. *)
Given(kwargs, renamed) ==
    {<<renamed[kwargs[i].key], kwargs[i].value>> :
        i \in {k \in DOMAIN kwargs : \A j \in k+1..Len(kwargs) :
                  renamed[kwargs[j].key] # renamed[kwargs[k].key]}}
Texts(kwargs, keys) ==
    \A i \in DOMAIN kwargs :
        kwargs[i].key \in {<<k>> : k \in keys} => kwargs[i].value[1] = "string"
Names(kwargs) == [k \in {kwargs[i].key : i \in DOMAIN kwargs} |->
                     IF k = <<"prompt">> THEN <<"purpose">> ELSE k]

ParseDelegateCallArgs(inside) ==
    Then(CallArgs(inside), LAMBDA call :
        IF ~Texts(call.kwargs, {"on_error"}) THEN <<>>
        ELSE << Simple("delegate", {<<<<"plugin">>, call.name>>}
                    \cup Given(call.kwargs, [k \in DOMAIN Names(call.kwargs) |-> k])) >>)

ElicitVerbs == {"require_approval", "confirm", "require_step_up", "require_attestation",
                "request_info", "require_review"}

ParseElicitCallArgs(verb, inside) ==
    LET elicit(call, args) ==
            IF \/ ~Texts(call.kwargs, {"from", "channel", "scope", "purpose", "prompt", "timeout",
                                       "on_error"})
               \/ ~\E a \in args : a[1] = <<"from">>
            THEN <<>>
            ELSE << Simple("elicit", {<<<<"verb">>, <<verb>>>>, <<<<"plugin">>, call.name>>} \cup args) >>
    IN Then(CallArgs(inside), LAMBDA call : elicit(call, Given(call.kwargs, Names(call.kwargs))))

-----------------------------------------------------------------------------
(* Pipe chains. *)

Stage(stage, args, cond, lo, hi) ==
    [stage |-> stage, args |-> args, cond |-> cond, lo |-> lo, hi |-> hi]
Plain(stage, args) == Stage(stage, args, Always, <<>>, <<>>)

(* A number, or one with a suffix whose product must fit. *)
ParseNumericWithSuffix(s) ==
    IF Len(s) # 1 THEN <<>>
    ELSE IF s[1] \in DOMAIN Numeral THEN << Numeral[s[1]] >>
    ELSE IF s[1] \notin DOMAIN Suffixed THEN <<>>
    ELSE LET v == Suffixed[s[1]].n * Suffixed[s[1]].mult
         IN IF v > MaxInt THEN <<>> ELSE << v >>

(* N..M, ..M or N.. *)
Bound(side) == IF side = <<>> THEN << <<>> >> ELSE Then(ParseNumericWithSuffix(side), LAMBDA n : << <<n>> >>)
Bounds(left, right) ==
    Then(Bound(left), LAMBDA lo : Then(Bound(right), LAMBDA hi : << [lo |-> lo, hi |-> hi] >>))
RangeAt(s, dots) ==
    IF dots = 0 \/ Len(s) = 1 THEN <<>>
    ELSE Bounds(SubSeq(s, 1, dots - 1), SubSeq(s, dots + 1, Len(s)))

ParseRangeInner(s) == RangeAt(s, First(s, 1, {".."}))

TryParseRange(s) ==
    IF s = <<>> THEN <<>>
    ELSE IF s[1] \notin DOMAIN Numeral \cup DOMAIN Suffixed \cup {".."} THEN <<>>
    ELSE Then(ParseRangeInner(s), LAMBDA r : << Stage("range", <<>>, Always, r.lo, r.hi) >>)

ParseTaintScope(s) == IF s \in {<<"session">>, <<"message">>} THEN << s[1] >> ELSE <<>>

(* taint(label), taint(label, scope) or taint(label, [scope, scope]). *)
ScopesWritten(rest) ==
    IF Len(rest) >= 2 /\ rest[1] = "[" /\ rest[Len(rest)] = "]"
    THEN SplitTopLevel(SubSeq(rest, 2, Len(rest) - 1), ",") ELSE <<rest>>
ParseTaintScopes(texts) == AllOf([i \in DOMAIN texts |-> ParseTaintScope(texts[i])])
Tainted(args, parts) ==
    IF parts[1] = <<>> THEN <<>>
    ELSE Then(IF Len(parts) = 1 THEN << <<"session">> >>
              ELSE ParseTaintScopes(ScopesWritten(SubSeq(args, Len(parts[1]) + 2, Len(args)))),
              LAMBDA scopes : << Plain("taint", parts[1] \o <<"@">> \o scopes) >>)

ParseTaint(args) == Tainted(args, SplitTopLevel(args, ","))

ParseStageMask(a) ==
    IF Len(a) = 1 /\ a[1] \in DOMAIN Numeral /\ Numeral[a[1]] >= 0
    THEN << Stage("mask", <<>>, Always, <<Numeral[a[1]]>>, <<>>) >> ELSE <<>>

ParseStageRedactCond(a) ==
    Then(ParsePredicate(a), LAMBDA cond : << Stage("redact", <<>>, cond, <<>>, <<>>) >>)

ParseStageLen(a) ==
    LET negative(bound) == bound # <<>> /\ bound[1] < 0
    IN Then(ParseRangeInner(a), LAMBDA r :
           IF negative(r.lo) \/ negative(r.hi) THEN <<>>
           ELSE << Stage("len", <<>>, Always, r.lo, r.hi) >>)

ParseStageEnum(a) ==
    LET values(parts) == SelectSeq([i \in DOMAIN parts |-> StripWrappingQuotes(parts[i])],
                                   LAMBDA v : v # <<>>)
        enum(given) == IF given = <<>> THEN <<>> ELSE << Plain("enum", FlattenSeq(given)) >>
    IN enum(values(SplitTopLevel(a, ",")))

ParseStageRegex(a) == << Plain("regex", StripWrappingQuotes(a)) >>

ParseStagePlugin(a) == IF a = <<>> THEN <<>> ELSE << Plain("plugin", a) >>

(* validate(name) is refused: the evaluator would let every value through. *)
ParseStageValidateRejected(a) == <<>>

BareStages == {"str", "int", "bool", "float", "email", "url", "uuid", "redact", "omit", "hash",
               "pii.redact", "pii.detect", "injection.scan"}

StageNamed(head, call, a) ==
    IF ~call THEN IF head \in BareStages THEN << Plain(head, <<>>) >> ELSE <<>>
    ELSE CASE head = "mask" -> ParseStageMask(a)
           [] head = "redact" -> ParseStageRedactCond(a)
           [] head = "len" -> ParseStageLen(a)
           [] head = "enum" -> ParseStageEnum(a)
           [] head = "regex" -> ParseStageRegex(a)
           [] head = "validate" -> ParseStageValidateRejected(a)
           [] head \in {"plugin", "run"} -> ParseStagePlugin(a)
           [] head = "taint" -> ParseTaint(a)
           [] OTHER -> <<>>

ParseStage(s) ==
    IF TryParseRange(s) # <<>> THEN TryParseRange(s)
    ELSE Then(SplitHeadArgs(s), LAMBDA p :
             IF Len(p.head) # 1 THEN <<>> ELSE StageNamed(p.head[1], p.call, p.args))

ParseStages(texts) == AllOf([i \in DOMAIN texts |-> ParseStage(texts[i])])
ParsePipeline(s) == ParseStages(SelectSeq(SplitTopLevel(s, "|"), LAMBDA t : t # <<>>))
=============================================================================
