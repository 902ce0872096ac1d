---------------------------- MODULE PolicyBlocks ----------------------------
(***************************************************************************)
(* Policy blocks (parser.rs): from the YAML of a route's authorization to  *)
(* its compiled effects, and the stacking of compiled layers (rules.rs).   *)
(*                                                                         *)
(* A YAML value is [y, text, items, entries]: a string has a text, a list  *)
(* items, a map entries of [key, value]; "other" is every further scalar.  *)
(***************************************************************************)
EXTENDS PolicyText

CONSTANT FieldPaths    \* the words that are paths under args or result

Yaml(y, text, items, entries) == [y |-> y, text |-> text, items |-> items, entries |-> entries]
Str(text) == Yaml("string", text, <<>>, <<>>)
List(items) == Yaml("list", <<>>, items, <<>>)
Map(entries) == Yaml("map", <<>>, <<>>, entries)
Null == Yaml("null", <<>>, <<>>, <<>>)
Other == Yaml("other", <<>>, <<>>, <<>>)
Entry(key, value) == [key |-> key, value |-> value]

HasKey(m, key) == \E i \in DOMAIN m.entries : m.entries[i].key = key
ValueOf(m, key) == m.entries[CHOOSE i \in DOMAIN m.entries : m.entries[i].key = key].value

-----------------------------------------------------------------------------
(* Parallel blocks hold nothing that would be lost with a branch. *)

MutationAtTopOnly(e) == e.kind \in {"field_op", "delegate", "elicit"}

RECURSIVE ContainsMutation(_), ParallelPure(_)
ContainsMutation(e) ==
    \/ e.kind \in {"field_op", "delegate", "elicit"}
    \/ /\ e.kind \in {"sequential", "parallel", "when", "pdp"}
       /\ \E i \in DOMAIN (e.body \o e.allow) : ContainsMutation((e.body \o e.allow)[i])

(* validate_parallel_purity *)
ParallelPure(e) ==
    \A i \in DOMAIN (e.body \o e.allow) :
        /\ e.kind = "parallel" => ~ContainsMutation((e.body \o e.allow)[i])
        /\ ParallelPure((e.body \o e.allow)[i])

-----------------------------------------------------------------------------
(* restrict *)

ParseStringList(v) ==
    IF v.y = "list" /\ v.items # <<>>
          /\ \A i \in DOMAIN v.items : v.items[i].y = "string" /\ v.items[i].text # <<>>
    THEN << <<"list">> \o FlattenSeq([i \in DOMAIN v.items |-> v.items[i].text]) >> ELSE <<>>

(* A literal list, or a reference resolved for each request. *)
ParseStringSetSpec(v) ==
    CASE v.y = "list" -> ParseStringList(v)
      [] v.y = "string" /\ v.text # <<>> -> << <<"ref">> \o v.text >>
      [] OTHER -> <<>>

(* Scalars of any kind become the label's text. *)
ScalarToString(v) == IF v.y \in {"string", "other"} THEN << v.text >> ELSE <<>>

ParseLabelMap(v) ==
    IF v.y # "map" \/ v.entries = <<>> THEN <<>>
    ELSE IF \E i \in DOMAIN v.entries :
               v.entries[i].key = <<>> \/ ScalarToString(v.entries[i].value) = <<>>
    THEN <<>>
    ELSE << <<"labels">> \o FlattenSeq([i \in DOMAIN v.entries |->
                v.entries[i].key \o <<"=">> \o v.entries[i].value.text]) >>

RestrictField(key, v) ==
    CASE key \in {<<"allow_models">>, <<"deny_models">>, <<"allow_regions">>, <<"allow_sites">>} ->
            ParseStringSetSpec(v)
      [] key = <<"max_cost_tier">> -> IF v.y = "string" /\ v.text # <<>> THEN << v.text >> ELSE <<>>
      [] key = <<"custom">> -> ParseLabelMap(v)
      [] key = <<"on_empty">> -> IF v.y = "string" /\ v.text \in {<<"deny">>, <<"fallback">>}
                                 THEN << v.text >> ELSE <<>>
      [] OTHER -> <<>>

(* An unknown field is an error, and so is a spec that constrains nothing. *)
ParseRestrictSpec(v) ==
    IF v.y # "map" \/ \A i \in DOMAIN v.entries : v.entries[i].key = <<"on_empty">> THEN <<>>
    ELSE Then(AllOf([i \in DOMAIN v.entries |-> RestrictField(v.entries[i].key, v.entries[i].value)]),
              LAMBDA fields :
                 << Simple("restrict", {<<v.entries[i].key, fields[i]>> : i \in DOMAIN v.entries}) >>)

-----------------------------------------------------------------------------
(* Steps: what a list of a phase may hold.  A step is an effect here; the  *)
(* kind "when" stands for Step::Rule.                                      *)

(* Any key that is no known dialect is a custom one. *)
IsKnownPdpDialect(key) ==
    key[1] \in {"cedar", "opa", "authzen", "nemo", "cel"} /\ (Len(key) > 1 => key[2] = "(")

LiftTaint(stage) == << Simple("taint", {<<<<"label">>, stage.args>>}) >>

StepOfRule(rule) == << Effect("when", {}, rule.cond, rule.effects, <<>>) >>

ParseStepString(s) ==
    LET called(name) == ExtractCallArgs(s, name)
        verb == CHOOSE v \in ElicitVerbs : IsCall(s, v)
        plugin(name) == IF name = <<>> THEN <<>> ELSE << Simple("plugin", {<<<<"plugin">>, name>>}) >>
    IN CASE IsCall(s, "taint") -> Then(Then(called("taint"), ParseTaint), LiftTaint)
         [] IsCall(s, "plugin") -> Then(called("plugin"), plugin)
         [] IsCall(s, "run") -> Then(called("run"), plugin)
         [] IsCall(s, "delegate") -> Then(called("delegate"), ParseDelegateCallArgs)
         [] \E v \in ElicitVerbs : IsCall(s, v) ->
              Then(called(verb), LAMBDA inside : ParseElicitCallArgs(verb, inside))
         [] OTHER -> Then(ParseRule(s), StepOfRule)

(* delegate: {plugin, config, on_error} *)
ParseDelegateStep(v) ==
    LET text(key) == HasKey(v, key) /\ ValueOf(v, key).y = "string"
    IN IF \/ v.y # "map" \/ ~text(<<"plugin">>)
          \/ (HasKey(v, <<"on_error">>) /\ ~text(<<"on_error">>))
       THEN <<>>
       ELSE IF ValueOf(v, <<"plugin">>).text = <<>> THEN <<>>
       ELSE << Simple("delegate", {<<k, ValueOf(v, k).text>> :
                   k \in {key \in {<<"plugin">>, <<"config">>, <<"on_error">>} : HasKey(v, key)}}) >>

(* A dotted path of identifiers is one word of the text here. *)
IsValidFieldPath(path) == Len(path) = 1 /\ path[1] \in FieldPaths

IsFieldOp(s) ==
    \E p \in 2..Len(s) - 1 : p = FindTopLevelPipe(s) /\ IsValidFieldPath(SubSeq(s, 1, p - 1))

FieldOpAt(s, pipe) ==
    Then(ParsePipeline(SubSeq(s, pipe + 1, Len(s))), LAMBDA stages :
        IF stages = <<>> THEN <<>>
        ELSE << Simple("field_op", {<<SubSeq(s, 1, pipe - 1),
                    FlattenSeq([i \in DOMAIN stages |-> <<stages[i].stage>>])>>}) >>)

TryParseFieldOp(s) == FieldOpAt(s, FindTopLevelPipe(s))

(* Inside a body only unconditional rules of one effect, and no PDP call. *)
StepToEffect(step) ==
    CASE step.kind = "pdp" -> <<>>
      [] step.kind = "when" -> IF step.cond = Always /\ Len(step.body) = 1 THEN step.body ELSE <<>>
      [] OTHER -> << step >>

ParseEffectString(s) ==
    IF TryBareAction(s) # <<>> THEN TryBareAction(s)
    ELSE IF IsCall(s, "deny") THEN TryParseDenyCall(s)
    ELSE IF IsFieldOp(s) THEN TryParseFieldOp(s)
    ELSE Then(ParseStepString(s), StepToEffect)

(* The entries of a phase are steps, those of a body effects; each may     *)
(* hold the other.                                                         *)
RECURSIVE ParseValue(_, _)
ParseStep(v) == ParseValue("step", v)
ParseEffectValue(v) == ParseValue("effect", v)

EffectList(v) ==
    IF v.y # "list" \/ v.items = <<>> THEN <<>>
    ELSE AllOf([i \in DOMAIN v.items |-> ParseEffectValue(v.items[i])])

ParseSequentialEffect(v) ==
    Then(EffectList(v), LAMBDA body : << Effect("sequential", {}, Always, body, <<>>) >>)

ParseParallelEffect(v) ==
    LET checked(effect) == IF ParallelPure(effect) THEN << effect >> ELSE <<>>
    IN Then(EffectList(v), LAMBDA body : checked(Effect("parallel", {}, Always, body, <<>>)))

ParseEffectMap(v) ==
    LET single == Len(v.entries) = 1
        key == v.entries[1].key
        body == v.entries[1].value
    IN CASE single /\ key = <<"sequential">> -> ParseSequentialEffect(body)
         [] single /\ key = <<"parallel">> -> ParseParallelEffect(body)
         [] single /\ key = <<"restrict">> -> ParseRestrictSpec(body)
         [] OTHER -> Then(ParseStep(v), StepToEffect)

ParseDoBody(v) ==
    CASE v.y \in {"string", "map"} -> Then(ParseEffectValue(v), LAMBDA effect : << <<effect>> >>)
      [] v.y = "list" -> AllOf([i \in DOMAIN v.items |-> ParseEffectValue(v.items[i])])
      [] OTHER -> <<>>

When(cond, body) ==
    Then(cond, LAMBDA c : Then(body, LAMBDA effects :
        IF effects = <<>> THEN <<>> ELSE << Effect("when", {}, c, effects, <<>>) >>))

(* when: X, do: Y, and no other key but id. *)
ParseWhenDoRule(v) ==
    LET when == ValueOf(v, <<"when">>)
    IN IF \/ \E i \in DOMAIN v.entries : v.entries[i].key \notin {<<"when">>, <<"do">>, <<"id">>}
          \/ when.y # "string"
       THEN <<>> ELSE When(ParsePredicate(when.text), ParseDoBody(ValueOf(v, <<"do">>)))

(* "predicate": [effects] *)
ParseShorthandMultiEffect(key, items) ==
    When(ParsePredicate(key), AllOf([i \in DOMAIN items |-> ParseEffectValue(items[i])]))

ParseSteps(items) == AllOf([i \in DOMAIN items |-> ParseStep(items[i])])

ParseReactionList(v) ==
    IF v.y # "list" THEN <<>> ELSE ParseSteps(v.items)

(* on_deny and on_allow are reactions; what is left is the call's input.   *)
(* A call with parentheses takes its input from them instead.              *)
ExtractPdpBody(key, v) ==
    LET reactions(k) == IF HasKey(v, k) THEN ParseReactionList(ValueOf(v, k)) ELSE << <<>> >>
        open == First(key, 1, {"("})
        close == CHOOSE i \in DOMAIN key : key[i] = ")" /\ \A j \in DOMAIN key : key[j] = ")" => j <= i
        rest == {v.entries[i].key : i \in DOMAIN v.entries} \ {<<"on_deny">>, <<"on_allow">>}
        args == IF open = 0 THEN {<<k, ValueOf(v, k).text>> : k \in rest}
                ELSE {<<<<"input">>, SubSeq(key, open + 1, close - 1)>>}
        dialect == IF open = 0 THEN key ELSE SubSeq(key, 1, open - 1)
    IN IF \/ v.y # "map"
          \/ open # 0 /\ ~\E i \in open..Len(key) : key[i] = ")"
       THEN <<>>
       ELSE Then(reactions(<<"on_deny">>), LAMBDA deny : Then(reactions(<<"on_allow">>), LAMBDA allow :
                << Effect("pdp", {<<<<"dialect">>, dialect>>} \cup args, Always, deny, allow) >>))

Orchestration == {<<"delegate">>, <<"sequential">>, <<"parallel">>}

Wrapped(effect) == << Effect("when", {}, Always, << effect >>, <<>>) >>

ParseStepMap(v) ==
    LET key == v.entries[1].key
        body == v.entries[1].value
        shorthand == body.y = "list" /\ key \notin Orchestration /\ ~IsKnownPdpDialect(key)
    IN CASE HasKey(v, <<"when">>) /\ HasKey(v, <<"do">>) -> ParseWhenDoRule(v)
         [] ~(HasKey(v, <<"when">>) /\ HasKey(v, <<"do">>)) /\ Len(v.entries) # 1 -> <<>>
         [] OTHER ->
              CASE shorthand -> ParseShorthandMultiEffect(key, body.items)
                [] ~shorthand /\ key = <<"delegate">> -> ParseDelegateStep(body)
                [] ~shorthand /\ key = <<"restrict">> -> ParseRestrictSpec(body)
                [] ~shorthand /\ key = <<"sequential">> -> Then(ParseSequentialEffect(body), Wrapped)
                [] ~shorthand /\ key = <<"parallel">> -> Then(ParseParallelEffect(body), Wrapped)
                [] OTHER -> ExtractPdpBody(key, body)

(* The steps of a reaction list become effects as they are: the conversion *)
(* of step_to_top_level_effect is the identity on this representation.     *)
ParseValue(as, v) ==
    CASE v.y = "string" /\ as = "step" -> ParseStepString(v.text)
      [] v.y = "string" /\ as = "effect" -> ParseEffectString(v.text)
      [] v.y = "map" /\ as = "step" -> ParseStepMap(v)
      [] v.y = "map" /\ as = "effect" -> ParseEffectMap(v)
      [] OTHER -> <<>>

-----------------------------------------------------------------------------
(* Blocks. *)

CompiledRoute(args, policy, result, post, overrides) ==
    [args |-> args, policy |-> policy, result |-> result, post_policy |-> post,
     plugin_overrides |-> overrides]
EmptyRoute == CompiledRoute({}, <<>>, {}, <<>>, {})

DeclaredPhases(route) ==
    {p \in {"args", "policy", "result", "post_policy"} :
        CASE p = "args" -> route.args # {} [] p = "policy" -> route.policy # <<>>
          [] p = "result" -> route.result # {} [] p = "post_policy" -> route.post_policy # <<>>}

RenamedFields == {"policy", "post_policy"}
RejectLegacyKeys(raw) == raw.other \cap RenamedFields # {}

(* authorization: denies unknown fields, so a legacy key under it is an error. *)
AuthorizationOk(raw) == raw.authorization = <<>> \/ raw.authorization[1].unknown = {}
Nested(raw, phase) == IF raw.authorization = <<>> THEN <<>> ELSE raw.authorization[1][phase]

FieldRules(chains) ==
    LET all(rules) ==
            IF \E r \in rules : r[2] = <<>> THEN <<>> ELSE << {<<r[1], r[2][1]>> : r \in rules} >>
    IN all({<<chain[1], ParsePipeline(chain[2])>> : chain \in chains})

(* A phase comes from one of its two forms, never from both: it would run  *)
(* twice.  Every entry is compiled, in order.                              *)
PhaseOf(raw, phase) ==
    IF Nested(raw, phase) # <<>> /\ raw[phase] # <<>> THEN <<>>
    ELSE ParseSteps(Nested(raw, phase) \o raw[phase])

CompileAplBlocks(raw) ==
    IF RejectLegacyKeys(raw) \/ ~AuthorizationOk(raw) THEN <<>>
    ELSE Then(PhaseOf(raw, "pre_invocation"), LAMBDA pre :
         Then(PhaseOf(raw, "post_invocation"), LAMBDA post :
         Then(FieldRules(raw.args), LAMBDA args :
         Then(FieldRules(raw.result), LAMBDA result :
            << CompiledRoute(args, pre, result, post, raw.plugins) >>))))

HasApl(raw) ==
    \/ raw.pre_invocation # <<>> \/ raw.post_invocation # <<>> \/ raw.args # {} \/ raw.result # {}
    \/ Nested(raw, "pre_invocation") # <<>> \/ Nested(raw, "post_invocation") # <<>>

(* A route without policy is left to the plugin chain; legacy keys are     *)
(* refused before that is decided.                                         *)
CompileRoute(raw) ==
    IF RejectLegacyKeys(raw) \/ ~AuthorizationOk(raw) THEN <<>>
    ELSE IF ~HasApl(raw) THEN << <<>> >>
    ELSE Then(CompileAplBlocks(raw), LAMBDA route : << <<route>> >>)

(* compile_config: one bad route fails the document. *)
CompileConfig(raws) ==
    LET routes(compiled) ==
            IF \E k \in DOMAIN raws : compiled[k] = <<>> THEN <<>>
            ELSE << [k \in {r \in DOMAIN raws : compiled[r][1] # <<>>} |-> compiled[k][1][1]] >>
    IN routes([k \in DOMAIN raws |-> CompileRoute(raws[k])])

(* compile_policy_block_value: a null block is an empty route. *)
CompilePolicyBlockValue(block) ==
    IF block = <<>> THEN << EmptyRoute >> ELSE CompileAplBlocks(block[1])

(* apply_layer: steps after those below, fields and overrides in place of  *)
(* those below; a custom denial response is never inherited.               *)
Over(below, above) == {b \in below : \A a \in above : a[1] # b[1]} \cup above
ApplyLayer(below, above) ==
    CompiledRoute(Over(below.args, above.args), below.policy \o above.policy,
                  Over(below.result, above.result), below.post_policy \o above.post_policy,
                  Over(below.plugin_overrides, above.plugin_overrides))

PluginDeclaration(name, capabilities, config, on_error) ==
    [name |-> name, capabilities |-> capabilities, config |-> config, on_error |-> on_error]
PluginOverride(config, capabilities, on_error) ==
    [config |-> config, capabilities |-> capabilities, on_error |-> on_error]

(* EffectivePlugin::resolve: each overridable key from the route if it     *)
(* says so, else from the declaration; hooks and kind never.               *)
EffectivePlugin(declared, override) ==
    [declared EXCEPT
        !.config = IF override.config # <<>> THEN override.config ELSE @,
        !.capabilities = IF override.capabilities # <<>> THEN override.capabilities[1] ELSE @,
        !.on_error = IF override.on_error # <<>> THEN override.on_error ELSE @]
=============================================================================
