-------------------------- MODULE MCConfiguration --------------------------
(***************************************************************************)
(* The configuration path on bounded documents.  A state is one document   *)
(* (with the request it is read for) and, after the one step that          *)
(* processes it, what the code made of it; the invariants compare the      *)
(* answer with a definition that does not follow the code's algorithm.     *)
(***************************************************************************)
EXTENDS RouteResolution, TLC

P == INSTANCE AplLayers WITH
        PdpFactories <- ("cedar-direct" :> "cedar"), StoreFactories <- {"valkey"},
        ModeOf <- (<<"scan">> :> "audit") @@ (<<"edit">> :> "transform"),
        Numeral <- ("3" :> 3) @@ ("9" :> 9), Suffixed <- ("9k" :> [n |-> 9, mult |-> 1000]),
        Dotted <- {".id"}, MaxInt <- 100, FieldPaths <- {"args.ssn", "result.ssn"}

-----------------------------------------------------------------------------
(* Documents about route matching: two routes, one request. *)

NoPlugins == [shape |-> "absent", refs |-> <<>>]
NoIdentity == [shape |-> "absent", steps |-> <<>>, replace |-> "absent", hasSteps |-> FALSE]
NoGroups == [g \in {} |-> NoPlugins]

Single(pattern, starred, covers) ==
    [list |-> FALSE, pattern |-> pattern, starred |-> starred, covers |-> covers, names |-> <<>>]
Listed(names) ==
    [list |-> TRUE, pattern |-> "", starred |-> FALSE, covers |-> {}, names |-> names]

Matchers == {Single("*", TRUE, {}), Single("get_*", TRUE, {"get_x", "get_y"}),
             Listed(<<"get_y", "get_x">>), Single("get_x", FALSE, {"get_x"}),
             Single("get_y", FALSE, {"get_y"})}

Only(type, matcher) == [t \in C!EntityTypes |-> IF t = type THEN <<matcher>> ELSE <<>>]

Route(matcher, scope, when) ==
    [matchers |-> Only("tool", matcher), scope |-> scope, tags |-> <<>>, groups |-> <<>>,
     when |-> when, plugins |-> NoPlugins, identity |-> NoIdentity, legacy |-> FALSE]

Document(routes) ==
    [global |-> [policies |-> NoGroups, defaults |-> NoGroups, identity |-> NoIdentity,
                 legacy |-> FALSE],
     plugins |-> <<[name |-> "audit"], [name |-> "scan"], [name |-> "jwt"], [name |-> "basic"]>>,
     groups |-> NoGroups, routes |-> routes, routing_enabled |-> TRUE]

Request(scope) ==
    [entity_type |-> <<"tool">>, entity_name |-> <<"get_x">>, scope |-> scope, tags |-> {"pii"}]

MatchRoutes == {Route(m, s, w) : m \in Matchers, s \in {<<>>, <<"s1">>, <<"s2">>},
                                 w \in {<<>>, <<"cond">>}}
MatchCases == {[kind |-> "request", doc |-> Document(<<r1, r2>>), ext |-> Request(s)] :
                  r1, r2 \in MatchRoutes, s \in {<<>>, <<"s1">>}}

-----------------------------------------------------------------------------
(* Documents about layers: plugins and authentication of the global block, *)
(* of bundles at both places a bundle may be written, and of the route.    *)

Name(n) == [shape |-> "name", name |-> n, config |-> <<>>]
Mapped(n) == [shape |-> "map", name |-> n, config |-> <<"override">>]
ListOf(steps) == [shape |-> "list", steps |-> steps, replace |-> "absent", hasSteps |-> TRUE]
Object(steps, replace) ==
    [shape |-> "map", steps |-> steps, replace |-> replace, hasSteps |-> TRUE]
Refs(refs) == [shape |-> "list", refs |-> refs]
Ref(n, o) == [name |-> n, overrides |-> o]

Group(refs, steps, legacy) == [plugins |-> refs, identity |-> steps, legacy |-> legacy]
Bundles(refs, steps) ==
    {NoGroups} \cup {(g :> Group(refs, steps, l)) : g \in {"pii", "all"}, l \in BOOLEAN}

RouteIdentities == {NoIdentity, ListOf(<<Mapped("basic")>>), Object(<<>>, "true"),
                    Object(<<Name("basic")>>, "true"), Object(<<Name("")>>, "false"),
                    [Object(<<>>, "other") EXCEPT !.hasSteps = FALSE],
                    [NoIdentity EXCEPT !.shape = "scalar"]}

LayeredRoute(tags, groups, identity, legacy) ==
    [Route(Single("get_x", FALSE, {"get_x"}), <<>>, <<"cond">>) EXCEPT
        !.tags = tags, !.groups = groups, !.identity = identity, !.legacy = legacy,
        !.plugins = Refs(<<Ref("scan", <<"route">>)>>)]

LayeredDocument(policies, groups, route, globalIdentity) ==
    [Document(<<route>>) EXCEPT
        !.global.policies = policies, !.groups = groups, !.global.identity = globalIdentity,
        !.global.defaults = ("tool" :> Group(Refs(<<Ref("audit", <<"default">>)>>), NoIdentity, FALSE))]

LayerCases ==
    {[kind |-> "request", doc |-> LayeredDocument(p, g, LayeredRoute(t, j, i, l), gi), ext |-> Request(<<>>)] :
        p \in Bundles(Refs(<<Ref("scan", <<"policy">>)>>), ListOf(<<Name("jwt")>>)),
        g \in Bundles(Refs(<<Ref("audit", <<>>)>>), ListOf(<<Name("basic"), Name("jwt")>>)),
        t \in {<<>>, <<"pii">>}, j \in {<<>>, <<Single("pii", FALSE, {"pii"})>>},
        i \in RouteIdentities, l \in BOOLEAN, gi \in {NoIdentity, ListOf(<<Name("jwt")>>)}}

Questions == MatchCases \cup LayerCases

(* Not every plugin can be created with the settings some layer gives it:  *)
(* scan with those of the route but not those of a bundle, audit with      *)
(* none, basic with those of a step.                                       *)
Registration(name, creates) == [name |-> name, conditions |-> <<>>, creates |-> creates]
RegisteredPlugins == <<Registration("jwt", {}), Registration("scan", {<<"route">>}),
                       Registration("basic", {<<"override">>}), Registration("audit", {})>>

-----------------------------------------------------------------------------
(* Policy text: expressions, and lines with quoted content. *)

Word(w) == P!Tok("ident", <<w>>)
Atoms == {P!IsTrue(<<"a">>), P!Condition("exists", <<"a", "[", "3", "]", ".id">>, P!NoTok),
          P!Condition("not in", <<"a">>, Word("set")),
          P!Condition("==", <<"b">>, P!Tok("string", <<"a", "&", ")">>))}
Over(S) == {P!Group("not", <<e>>) : e \in S} \cup
           {P!Group(op, <<e, f>>) : op \in {"and", "or"}, e, f \in S}
Trees == LET one == Atoms \cup Over(Atoms) IN one \cup Over(one)

(* Written with no more parentheses than the grammar needs. *)
RECURSIVE Printed(_)
Text(e, wrap) == IF e.op \in wrap THEN <<"(">> \o Printed(e) \o <<")">> ELSE Printed(e)
Printed(e) ==
    CASE e.op = "true" -> e.key
      [] e.op = "exists" -> <<"exists", "(">> \o e.key \o <<")">>
      [] e.op = "not in" -> e.key \o <<"not", "in">> \o e.arg.v
      [] e.op = "==" -> e.key \o <<"==", "'">> \o e.arg.v \o <<"'">>
      [] e.op = "not" -> <<"!">> \o Text(e.parts[1], {"and", "or"})
      [] e.op = "and" -> Text(e.parts[1], {"and", "or"}) \o <<"&">> \o Text(e.parts[2], {"and", "or"})
      [] e.op = "or" -> Text(e.parts[1], {"or"}) \o <<"|">> \o Text(e.parts[2], {"or"})

Marks == {"(", ")", ",", "|", ":", "[", "\"", "\\", "x"}
Contents == UNION {[1..n -> Marks] : n \in 1..3}
Quoted(c) == <<"'">> \o c \o <<"'">>

Line(form, c) ==
    CASE form = "deny" -> <<"a", ":", "deny", "(">> \o Quoted(c) \o <<")">>
      [] form = "code" -> <<"deny", "(", "'", "x", "'", ",">> \o Quoted(c) \o <<")">>
      [] form \in {"delegate", "body"} ->
            <<"delegate", "(", "p", ",", "audience", ":">> \o Quoted(c) \o <<")">>
      [] form = "enum" -> <<"str", "|", "enum", "(">> \o Quoted(c) \o <<",", "x", ")">>

Deny(args) == P!Simple("deny", args)
Meaning(form, c) ==
    CASE form = "deny" -> P!Effect("when", {}, P!IsTrue(<<"a">>), <<Deny({<<<<"reason">>, c>>})>>, <<>>)
      [] form = "code" -> P!Effect("when", {}, P!Always,
                             <<Deny({<<<<"reason">>, <<"x">>>>, <<<<"code">>, c>>})>>, <<>>)
      [] form \in {"delegate", "body"} -> P!Simple("delegate", {<<<<"plugin">>, <<"p">>>>,
                                                    <<<<"audience">>, <<"string">> \o c>>})
      [] form = "enum" -> <<P!Plain("str", <<>>), P!Plain("enum", c \o <<"x">>)>>

TreeCases == {[kind |-> "tree", tree |-> t] : t \in Trees}
LineCases == {[kind |-> "line", form |-> f, content |-> c] :
                 f \in {"deny", "code", "delegate", "body", "enum"}, c \in Contents}

(***************************************************************************)
(* What is written is what is read.  Printing any expression with the      *)
(* fewest parentheses and parsing it gives that expression back (the       *)
(* precedence of !, & and |, quoted operators, bracketed keys, `not in`);  *)
(* and quoted text in an argument is either refused or kept as it is: no   *)
(* bracket, comma, pipe or colon in it becomes structure, in a rule, in    *)
(* the argument list of a step or of an effect of a body, or in a pipe     *)
(* chain (split_predicate_action, split_top_level_commas,                  *)
(* find_top_level_pipe, split_top_level, extract_call_args).               *)
(***************************************************************************)
ReadsAsWritten ==
    answer # <<>> =>
        /\ input.kind = "tree" => answer[1] = <<input.tree>>
        /\ input.kind = "line" => answer[1] \in {<<>>, <<Meaning(input.form, input.content)>>}

-----------------------------------------------------------------------------
(* Policy blocks: entries in both forms of a phase, renamed keys, and      *)
(* bodies that nest.                                                       *)

S(words) == P!Str(words)
M(key, value) == P!Map(<<P!Entry(key, value)>>)
Plugin(name) == S(<<"plugin", "(", name, ")">>)
WhenDo(do) == P!Map(<<P!Entry(<<"when">>, S(<<"a">>)), P!Entry(<<"do">>, do)>>)

(* An entry as it is written, and what it means in a body and in a phase   *)
(* (no meaning: it is refused there).  The meanings are spelled out here;  *)
(* the code's parser has no part in them.                                  *)
Entry(yaml, effect, step) == [yaml |-> yaml, effect |-> effect, step |-> step]
Anywhere(yaml, effect) == Entry(yaml, <<effect>>, <<effect>>)
Given(name, value) == <<<<name>>, value>>
RuleOf(cond, effects) == P!Effect("when", {}, cond, effects, <<>>)

Scan == Anywhere(Plugin("scan"), P!Simple("plugin", {Given("plugin", <<"scan">>)}))
Edit == Entry(S(<<"args.ssn", "|", "mask", "(", "3", ")">>),
              <<P!Simple("field_op", {Given("args.ssn", <<"mask">>)})>>, <<>>)
Exchange == Anywhere(S(<<"delegate", "(", "idp", ")">>),
                     P!Simple("delegate", {Given("plugin", <<"idp">>)}))
Taint == Anywhere(S(<<"taint", "(", "x", ")">>),
                  P!Simple("taint", {Given("label", <<"x", "@", "session">>)}))
Refuse == Entry(S(<<"deny">>), <<Deny({})>>, <<RuleOf(P!Always, <<Deny({})>>)>>)
Ask == Anywhere(S(<<"require_approval", "(", "idp", ",", "from", ":", "boss", ")">>),
                P!Simple("elicit", {Given("verb", <<"require_approval">>), Given("plugin", <<"idp">>),
                                    Given("from", <<"string", "boss">>)}))
Narrow == Anywhere(M(<<"restrict">>, M(<<"allow_models">>, P!List(<<S(<<"m">>)>>))),
                   P!Simple("restrict", {Given("allow_models", <<"list", "m">>)}))

Leaves == {Edit, Exchange, Taint, Refuse, Ask, Narrow}
LostInBranch == {Edit, Exchange, Ask}

(* leaf under the given blocks, outermost first, behind a plugin in each. *)
Nested(keys, leaf) ==
    LET yaml == P!FoldRight(LAMBDA k, inner : M(<<k>>, P!List(<<Scan.yaml, inner>>)), keys, leaf.yaml)
        effect == P!FoldRight(LAMBDA k, inner : P!Effect(k, {}, P!Always, Scan.effect \o <<inner>>, <<>>),
                              keys, leaf.effect[1])
        lost == leaf \in LostInBranch /\ "parallel" \in C!Range(keys)
    IN Entry(yaml, <<effect>>, IF lost THEN <<>> ELSE <<RuleOf(P!Always, <<effect>>)>>)
Nestings == {Nested(k, l) : k \in UNION {[1..n -> {"sequential", "parallel"}] : n \in 1..3}, l \in Leaves}

Condition(key) == P!IsTrue(<<key>>)
Phased(yaml, step) == Entry(yaml, <<>>, <<step>>)
Refused(yaml) == Entry(yaml, <<>>, <<>>)
IfA == Phased(S(<<"a">>), RuleOf(Condition("a"), <<Deny({})>>))
Reacting(deny, allow) == M(<<"cedar">>, P!Map(<<P!Entry(<<"on_deny">>, P!List(<<deny.yaml>>)),
                                               P!Entry(<<"on_allow">>, P!List(<<allow.yaml>>))>>))
Others ==
    {IfA, Refused(WhenDo(P!List(<<>>))),
     Phased(WhenDo(P!List(<<Edit.yaml, Refuse.yaml>>)),
            RuleOf(Condition("a"), Edit.effect \o Refuse.effect)),
     Phased(M(<<"a", "|", "b">>, P!List(<<Scan.yaml, Exchange.yaml>>)),
            RuleOf(P!Group("or", <<Condition("a"), Condition("b")>>), Scan.effect \o Exchange.effect)),
     Phased(M(<<"restrict">>, P!List(<<Refuse.yaml>>)), RuleOf(Condition("restrict"), Refuse.effect)),
     Refused(M(<<"cedar">>, P!List(<<>>))), Refused(Reacting(Edit, Exchange)),
     Phased(Reacting(Taint, Exchange),
            P!Effect("pdp", {Given("dialect", <<"cedar">>)}, P!Always, Taint.step, Exchange.step)),
     Refused(P!Map(<<P!Entry(<<"opa">>, P!Null), P!Entry(<<"cel">>, P!Null)>>)), Refused(P!Other)}

(* A field's chain, with its pipeline. *)
Redacted == Entry(<<"str", "|", "redact">>, <<<<P!Plain("str", <<>>), P!Plain("redact", <<>>)>>>>, <<>>)
Unreadable == Entry(<<"validate", "(", "x", ")">>, <<>>, <<>>)

YamlOf(entries) == [i \in DOMAIN entries |-> entries[i].yaml]
StepsOf(entries) == P!AllOf([i \in DOMAIN entries |-> entries[i].step])
ChainsOf(fields) == {<<f[1], f[2].yaml>> : f \in fields}
PipelinesOf(fields) == {<<f[1], f[2].effect[1]>> : f \in fields}

Block(auth, pre, post, args, result, other) ==
    [P!NoBlock EXCEPT !.authorization = auth, !.pre_invocation = YamlOf(pre),
                      !.post_invocation = YamlOf(post), !.args = ChainsOf(args),
                      !.result = ChainsOf(result), !.other = other]
Auth(pre, post, unknown) ==
    <<[pre_invocation |-> YamlOf(pre), post_invocation |-> YamlOf(post), unknown |-> unknown]>>

(* What a block says, given the entries of its phases in both forms. *)
Says(pre, post, args, result) ==
    LET all == StepsOf(pre) # <<>> /\ StepsOf(post) # <<>> /\ \A f \in args \cup result : f[2].effect # <<>>
    IN IF ~all THEN <<>>
       ELSE <<[pre |-> StepsOf(pre)[1], post |-> StepsOf(post)[1],
               args |-> PipelinesOf(args), result |-> PipelinesOf(result)]>>
BlockCase(block, says) == [kind |-> "block", block |-> block, says |-> says]

BlockCases ==
    {BlockCase(Block(<<>>, <<e>>, <<>>, {}, {}, {}), Says(<<e>>, <<>>, {}, {})) : e \in Nestings \cup Leaves}
    \cup
    {BlockCase(Block(IF form.nested THEN Auth(form.pre, form.post, form.unknown) ELSE <<>>,
                     pre, post, args, result, other),
               IF \/ form.unknown # {} \/ "post_policy" \in other
                  \/ (form.pre # <<>> /\ pre # <<>>) \/ (form.post # <<>> /\ post # <<>>)
               THEN <<>> ELSE Says(form.pre \o pre, form.post \o post, args, result)) :
        form \in [nested : {TRUE}, pre : {<<>>, <<Scan, IfA>>}, post : {<<>>, <<Refuse>>},
                  unknown : {{}, {"policy"}}]
                \cup [nested : {FALSE}, pre : {<<>>}, post : {<<>>}, unknown : {{}}],
        pre \in {<<>>} \cup {<<e, Scan>> : e \in Others},
        post \in {<<>>, <<Refuse>>},
        args \in {{}, {<<"ssn", Redacted>>}, {<<"ssn", Unreadable>>}},
        result \in {{}, {<<"name", Redacted>>}},
        other \in {{}, {"post_policy"}, {"meta"}}}

(***************************************************************************)
(* Nothing written is dropped, and nothing unreadable is passed over.  A   *)
(* block is refused exactly when it uses a renamed key, an unknown key     *)
(* under authorization, both forms of a phase, or something that has no    *)
(* meaning where it stands, such as an effect that a parallel branch would *)
(* lose at any depth under a parallel block.  Any other block compiles, in *)
(* both phases and for arguments and results, to what its entries and      *)
(* chains mean, in order; and only one that says nothing in any of the     *)
(* four compiles to no policy at all (compile_route, compile_apl_blocks,   *)
(* validate_parallel_purity).                                              *)
(***************************************************************************)
NothingDropped ==
    (input.kind = "block" /\ answer # <<>>) =>
        IF input.says = <<>> THEN answer[1] = <<>>
        ELSE LET said == input.says[1]
                 silent == said = [pre |-> <<>>, post |-> <<>>, args |-> {}, result |-> {}]
             IN answer[1] = IF silent THEN << <<>> >>
                            ELSE << <<P!CompiledRoute(said.args, said.pre, said.result, said.post, {})>> >>

RECURSIVE Reachable(_)
Reachable(effects) ==
    UNION {{effects[i]} \cup Reachable(effects[i].body \o effects[i].allow) : i \in DOMAIN effects}

-----------------------------------------------------------------------------
(* Policy layers: one entry in every section, in either form. *)

Section(apl, wrapped, flat, response) ==
    [apl |-> apl, wrapped |-> wrapped, flat |-> flat, legacy |-> {}, response |-> response,
     nested |-> "absent"]
Silent == Section("absent", P!NoBlock, P!NoBlock, "absent")
Pre(steps, field) ==
    [P!NoBlock EXCEPT !.pre_invocation = steps, !.args = {<<"ssn", field>>}]
Flat(b, response) == Section("absent", P!NoBlock, b, response)
Wrapped(b, response) == Section("block", b, P!NoBlock, response)

Parsed(tags, groups) == [matchers |-> [t \in {"tool", "resource", "prompt", "llm"} |->
                                  IF t = "tool" THEN <<"get_x", "get_y">> ELSE <<>>],
                 scope |-> <<>>, tags |-> tags, groups |-> groups]
Declaration(n, caps) == P!PluginDeclaration(<<n>>, caps, <<>>, <<>>)
GlobalPlugins == <<Declaration("scan", {"read_labels"}), Declaration("edit", {"write_headers"}),
                   Declaration("idp", {"read_inbound_credentials"})>>
Grant(name, caps) == <<name, P!PluginOverride(<<>>, <<caps>>, <<>>)>>

GlobalSections ==
    {Silent, Flat(Pre(<<Plugin("scan")>>, <<"str">>), "teapot"),
     Flat([P!NoBlock EXCEPT !.post_invocation = <<S(<<"deny">>)>>], "teapot"),
     Wrapped([Pre(<<Exchange.yaml>>, <<"str">>) EXCEPT !.pdp = <<[kind |-> "cedar-direct", builds |-> TRUE]>>,
                 !.session_store = <<[kind |-> "valkey", builds |-> TRUE]>>,
                 !.attribute_files = <<[loads |-> TRUE]>>], "absent"),
     Wrapped([P!NoBlock EXCEPT !.pdp = <<[kind |-> "opa", builds |-> TRUE]>>], "absent"),
     [Silent EXCEPT !.legacy = {"policy"}]}
AtOnce(name) == Flat(Pre(<<M(<<"parallel">>, P!List(<<Plugin(name)>>))>>, <<"redact">>), "absent")
RouteSections ==
    {Silent, Flat(Pre(<<S(<<"a">>)>>, <<"redact">>), "absent"),
     Wrapped(Pre(<<S(<<"a">>)>>, <<"redact">>), "gone"),
     Flat([P!NoBlock EXCEPT !.plugins = {Grant(<<"idp">>, {"read_subject"})}], "malformed"),
     AtOnce("edit"), AtOnce("ghost"), AtOnce("scan")}
WalkCases ==
    {[kind |-> "stack", doc |-> [plugins |-> GlobalPlugins, global |-> g, defaults |-> d,
                                 policies |-> p, groups |-> j, routes |-> <<<<r, Parsed(t, m)>>>>],
      tree |-> tree, options |-> o] :
        g \in GlobalSections, r \in RouteSections,
        d \in {{}, {<<"tool", Flat(Pre(<<S(<<"b">>)>>, <<"int">>), "absent")>>,
                    <<"llm", Flat(Pre(<<S(<<"deny">>)>>, <<"int">>), "absent")>>}},
        p \in {{}, {<<"pii", Wrapped(Pre(<<S(<<"taint", "(", "x", ")">>)>>, <<"omit">>), "absent")>>}},
        j \in {{}, {<<"pii", Flat(Pre(<<Exchange.yaml>>, <<"hash">>), "absent")>>},
               {<<"pii", Silent>>, <<"pci", Flat(Pre(<<Plugin("scan")>>, <<"hash">>), "absent")>>}},
        t \in {<<>>, <<"pii">>, <<"pci", "pii">>, <<"none">>},
        m \in {<<>>, <<"pii">>}, tree \in {"empty", "injected"},
        o \in {[session_store |-> "memory", base_capabilities |-> <<>>,
                pdps |-> <<[dialect |-> "cedar", from |-> "code"]>>],
               [session_store |-> "memory", base_capabilities |-> <<{}>>, pdps |-> <<>>]}}

(* A document that names a group it does not have is refused before any    *)
(* walk (validate_config).                                                 *)
StackCases ==
    {c \in WalkCases : \A i \in DOMAIN c.doc.routes[1][2].groups :
        c.doc.routes[1][2].groups[i] \in {b[1] : b \in c.doc.policies \cup c.doc.groups}}

BlockOf(sec) == IF sec.apl = "block" THEN sec.wrapped ELSE sec.flat
SectionsOver(doc, tags) ==
    LET section(layers, n) == {l[2] : l \in {x \in layers : x[1] = n}}
        one(s) == IF s = {} THEN <<>> ELSE <<CHOOSE x \in s : TRUE>>
        bundle(i) == one(IF section(doc.groups, tags[i]) # {} THEN section(doc.groups, tags[i])
                         ELSE section(doc.policies, tags[i]))
    IN <<doc.global>> \o one(section(doc.defaults, "tool"))
       \o P!FlattenSeq([i \in DOMAIN tags |-> bundle(i)]) \o <<doc.routes[1][1]>>

(***************************************************************************)
(* Every layer is enforced.  After an accepted walk each entity of the     *)
(* route has a handler for both hooks whose policy is that of the global   *)
(* block, the default of its type, the bundles of its tags and the route,  *)
(* in that order and nothing else; the innermost layer's pipeline stands   *)
(* for a field; the handler holds the capabilities of every plugin some    *)
(* step reaches, so that nothing is stripped before it; requests without   *)
(* an entity are decided by the global block; and a denial renders only    *)
(* its own scope's response.  No plugin that edits, and none that is not   *)
(* registered, is on a handler under a parallel block (visit_global,       *)
(* visit_route, apply_layer, route_capability_union,                       *)
(* validate_parallel_plugin_modes).  A bundle the route joins only by      *)
(* `groups:` is not among these layers: GroupsStackLikeTags.               *)
(***************************************************************************)
EveryLayerEnforced ==
    (input.kind = "stack" /\ answer # <<>> /\ answer[1] # <<>>) =>
        LET doc == input.doc
            over == SectionsOver(doc, doc.routes[1][2].tags)
            blocks == [i \in DOMAIN over |-> BlockOf(over[i])]
            entries(f) == P!FlattenSeq([i \in DOMAIN over |-> blocks[i][f]])
            innermost == {i \in DOMAIN over : blocks[i].args # {} /\ \A j \in i+1..Len(over) : blocks[j].args = {}}
            steps(f) == [i \in DOMAIN entries(f) |-> P!ParseStep(entries(f)[i])[1]]
            says == entries("pre_invocation") # <<>> \/ entries("post_invocation") # <<>> \/ innermost # {}
            handlers == answer[1][1].handlers
            of(name) == {h \in handlers : h.key[2] = name}
            texts(v) == IF v.y = "map" THEN C!Range(v.entries[1].value.items) ELSE {v}
            uses(word) == \E i \in DOMAIN entries("pre_invocation") :
                             \E v \in texts(entries("pre_invocation")[i]) : v.text[1] = word
            given == {g \in {doc.global} : g.flat.pre_invocation # <<>> \/ g.wrapped.pre_invocation # <<>>}
        IN /\ doc.global.legacy = {}
           /\ (of("*") # {}) <=> (given # {})
           /\ \A h \in of("*") :
                 /\ h.response = IF doc.global.response = "absent" THEN <<>> ELSE <<doc.global.response>>
                 /\ h.route.policy = [i \in DOMAIN BlockOf(doc.global).pre_invocation |->
                                         P!ParseStep(BlockOf(doc.global).pre_invocation[i])[1]]
           /\ \A name \in {"get_x", "get_y"} :
                 /\ {h.key[4] : h \in of(name)} =
                       IF says THEN {"cmf.tool_pre_invoke", "cmf.tool_post_invoke"} ELSE {}
                 /\ \A h \in of(name) :
                       /\ h.route.policy = steps("pre_invocation")
                       /\ h.route.post_policy = steps("post_invocation")
                       /\ \A i \in innermost : h.route.args = {<<a[1], P!ParsePipeline(a[2])[1]>> : a \in blocks[i].args}
                       /\ h.response = IF doc.routes[1][1].response = "gone" THEN <<"gone">> ELSE <<>>
                       /\ \A e \in Reachable(h.route.policy) : \A f \in Reachable(e.body) :
                             (e.kind = "parallel" /\ f.kind = "plugin") => <<f>> = Scan.effect
                       /\ uses("plugin") => "read_labels" \in h.capabilities
                       /\ uses("delegate") => (IF doc.routes[1][1].flat.plugins # {} THEN "read_subject"
                                               ELSE "read_inbound_credentials") \in h.capabilities
                       /\ "read_headers" \in h.capabilities
                       /\ h.tree = IF input.tree = "injected" THEN "injected"
                                   ELSE IF doc.global.wrapped.attribute_files # <<>> THEN "files" ELSE "empty"
                       /\ input.options.pdps # <<>> => h.router = {input.options.pdps[1]}
                       /\ h.store = IF doc.global.wrapped.session_store # <<>> THEN "valkey" ELSE "memory"

(***************************************************************************)
(* Joining a bundle by `groups:` is the same as by a tag: the comment on   *)
(* RouteEntry::groups (config.rs) says that the two "resolve identically". *)
(* For policy steps they do not: visit_route stacks the bundles of         *)
(* meta.tags alone, so that the policy of a bundle joined by `groups:` is  *)
(* on no handler.                                                          *)
(***************************************************************************)
GroupsStackLikeTags ==
    (input.kind = "stack" /\ answer # <<>> /\ answer[1] # <<>>) =>
        LET doc == input.doc
            parsed == doc.routes[1][2]
            fresh == SelectSeq(parsed.groups, LAMBDA g : g \notin C!Range(parsed.tags))
            over == SectionsOver(doc, parsed.tags \o fresh)
            entries == P!FlattenSeq([i \in DOMAIN over |-> BlockOf(over[i]).pre_invocation])
        IN \A h \in answer[1][1].handlers :
              h.key[2] # "*" => h.route.policy = [i \in DOMAIN entries |-> P!ParseStep(entries[i])[1]]

-----------------------------------------------------------------------------
Init ==
    /\ \/ input \in RequestCase
       \/ input \in TreeCases \/ input \in LineCases 
       \/ input \in BlockCases \/ input \in StackCases
    /\ answer = <<>>

ParseTree == Pending("tree") /\ answer' = <<P!ParsePredicate(Printed(input.tree))>>

ParseLine ==
    /\ Pending("line")
    /\ LET line == Line(input.form, input.content)
       IN answer' = <<CASE input.form = "enum" -> P!ParsePipeline(line)
                        [] input.form = "body" -> P!ParseEffectString(line)
                        [] OTHER -> P!ParseStepString(line)>>

CompileBlock == Pending("block") /\ answer' = <<P!CompileRoute(input.block)>>

LoadLayers ==
    /\ Pending("stack")
    /\ answer' = <<P!WalkFrom(input.doc, P!SetAttributeTree(P!RegisterApl(input.options), input.tree))>>

Next == ResolveRequest \/ ParseTree \/ ParseLine \/ CompileBlock \/ LoadLayers
Spec == Init /\ [][Next]_routingVars
=============================================================================
