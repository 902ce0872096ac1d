----------------------------- MODULE AplLayers -----------------------------
(***************************************************************************)
(* The APL configuration visitor (ppe-apl-runtime, visitor.rs): which      *)
(* policy a section of the document carries, how the layers are stacked on *)
(* a route, and the handlers that are installed for it.                    *)
(*                                                                         *)
(* A section is [apl, wrapped, flat, legacy, response, nested]: the shape  *)
(* of its `apl:` key, the block under it, the block written without it,    *)
(* renamed keys, and the two places of `response:`.  An operation returns  *)
(* <<>> for an error, else <<state>>.                                      *)
(***************************************************************************)
EXTENDS PolicyBlocks

CONSTANTS PdpFactories,     \* pdp_factories: kind to dialect
          StoreFactories,   \* kinds of session_store_factories
          ModeOf            \* the mode a plugin is registered with, by its name

NoBlock == [authorization |-> <<>>, pre_invocation |-> <<>>, post_invocation |-> <<>>,
            args |-> {}, result |-> {}, plugins |-> {}, other |-> {},
            pdp |-> <<>>, session_store |-> <<>>, attribute_files |-> <<>>]

NoLayer == <<>>

DefaultBaseCapabilities ==
    {"read_subject", "read_roles", "read_permissions", "read_teams", "read_claims", "read_labels",
     "read_delegation", "read_agent", "read_meta"}

(* The visitor's state, and the handlers the engine has been given. *)
VisitorState(store, base) ==
    [plugin_registry |-> <<>>, global_layer |-> NoLayer, default_layers |-> {}, tag_layers |-> {},
     pdp_router |-> {}, session_store |-> store, attribute_tree |-> "empty",
     base_capabilities |-> base, handlers |-> {}]

(* PdpRouter::register keeps the first resolver of a dialect. *)
Register(router, resolver) ==
    IF \E r \in router : r.dialect = resolver.dialect THEN router ELSE router \cup {resolver}

(* What the host supplies in code: resolvers, a store, capabilities. *)
RegisterApl(options) ==
    [VisitorState(options.session_store,
                  IF options.base_capabilities = <<>> THEN DefaultBaseCapabilities
                  ELSE options.base_capabilities[1]) EXCEPT
        !.pdp_router = FoldLeft(Register, @, options.pdps)]

SetAttributeTree(st, tree) == [st EXCEPT !.attribute_tree = tree]

HookPairForEntity(type) ==
    CASE type = "tool" -> <<"cmf.tool_pre_invoke", "cmf.tool_post_invoke">>
      [] type = "llm" -> <<"cmf.llm_input", "cmf.llm_output">>
      [] type = "prompt" -> <<"cmf.prompt_pre_invoke", "cmf.prompt_post_invoke">>
      [] type = "resource" -> <<"cmf.resource_pre_fetch", "cmf.resource_post_fetch">>

-----------------------------------------------------------------------------
(* A section's block. *)

(* The wrapper wins entirely, a null one too; `attribute_files` is not     *)
(* among the keys that are read without it.                                *)
AplSubblock(sec) ==
    LET flat == [sec.flat EXCEPT !.attribute_files = <<>>, !.other = {}]
    IN CASE sec.apl = "block" -> <<sec.wrapped>>
         [] sec.apl = "null" -> <<>>
         [] sec.apl = "absent" -> IF flat = NoBlock THEN <<>> ELSE <<flat>>

RejectLegacyAplKeys(sec) == sec.legacy \cap {"policy", "post_policy"} # {}

StripNonDslKeys(block) ==
    [block EXCEPT !.pdp = <<>>, !.session_store = <<>>, !.attribute_files = <<>>]

(* The top-level response wins over one under `apl:`; a malformed one is   *)
(* logged and ignored.                                                     *)
ResponseYamlBlock(sec) ==
    IF sec.response # "absent" THEN sec.response
    ELSE IF sec.apl = "block" THEN sec.nested ELSE "absent"
ResponseSubblock(sec) ==
    IF ResponseYamlBlock(sec) \in {"absent", "null", "malformed"} THEN <<>> ELSE <<ResponseYamlBlock(sec)>>

-----------------------------------------------------------------------------
(* Plugins a route can reach, and the capabilities its handler is given.   *)

RECURSIVE WalkEffects(_)
WalkEffects(effects) ==
    UNION {{effects[i]} \cup WalkEffects(effects[i].body \o effects[i].allow) : i \in DOMAIN effects}

NamesUsed(route, kind) ==
    {CHOOSE name \in {a[2] : a \in {b \in e.args : b[1] = <<"plugin">>}} : TRUE :
        e \in {x \in WalkEffects(route.policy \o route.post_policy) : x.kind = kind}}
CollectDelegatePluginNames(route) == NamesUsed(route, "delegate")
CollectElicitPluginNames(route) == NamesUsed(route, "elicit")
CollectPluginNames(route) ==
    NamesUsed(route, "plugin") \cup
    UNION {{r[2][i].args : i \in {k \in DOMAIN r[2] : r[2][k].stage = "plugin"}} :
              r \in route.args \cup route.result}

EffectiveCapabilities(name, registry, overrides) ==
    LET declared == registry[CHOOSE i \in DOMAIN registry : registry[i].name = name]
        own == {o[2] : o \in {p \in overrides : p[1] = name}}
        override == IF own = {} THEN PluginOverride(<<>>, <<>>, <<>>)
                    ELSE CHOOSE o \in own : TRUE
    IN IF \A i \in DOMAIN registry : registry[i].name # name THEN {}
       ELSE EffectivePlugin(declared, override).capabilities

PluginStepsOnly(route, registry) ==
    UNION {EffectiveCapabilities(n, registry, route.plugin_overrides) : n \in CollectPluginNames(route)}

RouteCapabilityUnion(route, registry) ==
    UNION {EffectiveCapabilities(n, registry, route.plugin_overrides) :
              n \in CollectPluginNames(route) \cup CollectDelegatePluginNames(route)
                    \cup CollectElicitPluginNames(route)}
    \cup (IF CollectElicitPluginNames(route) = {} THEN {} ELSE {"read_headers"})

(* install_handler and annotate_route: a second handler for the same       *)
(* entity, scope and hook takes the place of the first.                    *)
InstallHandler(st, type, name, scope, hook, phase, route, response) ==
    LET key == <<type, name, scope, hook>>
        handler == [key |-> key, phase |-> phase, route |-> route, response |-> response,
                    router |-> st.pdp_router, store |-> st.session_store, tree |-> st.attribute_tree,
                    capabilities |-> st.base_capabilities \cup RouteCapabilityUnion(route, st.plugin_registry)
                                     \cup {"read_headers", "write_candidate_constraint"}]
    IN [st EXCEPT !.handlers = {h \in @ : h.key # key} \cup {handler}]

-----------------------------------------------------------------------------
(* The visits. *)

(* Declarations of the config, each under its name. *)
VisitPlugins(st, plugins) == << [st EXCEPT !.plugin_registry = plugins] >>

BuildPdpFromConfig(st, entry) ==
    IF entry.kind \notin DOMAIN PdpFactories \/ ~entry.builds THEN <<>>
    ELSE << [st EXCEPT !.pdp_router = Register(@, [dialect |-> PdpFactories[entry.kind], from |-> entry.kind])] >>

BuildSessionStoreFromConfig(st, entry) ==
    IF entry.kind \notin StoreFactories \/ ~entry.builds THEN <<>>
    ELSE << [st EXCEPT !.session_store = entry.kind] >>

(* A tree handed in by the host wins over the files of the document. *)
BuildAttributeTreeFromConfig(st, files) ==
    IF st.attribute_tree # "empty" THEN <<st>>
    ELSE IF ~files.loads THEN <<>> ELSE << [st EXCEPT !.attribute_tree = "files"] >>

(* PDPs, then the session store, then the attribute tree. *)
Wire(st, block) ==
    LET pdps[i \in 0..Len(block.pdp)] ==
            IF i = 0 THEN <<st>>
            ELSE IF pdps[i-1] = <<>> THEN <<>> ELSE BuildPdpFromConfig(pdps[i-1][1], block.pdp[i])
        store(s) == IF block.session_store = <<>> THEN <<s>>
                    ELSE BuildSessionStoreFromConfig(s, block.session_store[1])
        tree(s) == IF block.attribute_files = <<>> THEN <<s>>
                   ELSE BuildAttributeTreeFromConfig(s, block.attribute_files[1])
    IN Then(Then(pdps[Len(block.pdp)], store), tree)

HttpCatchallShouldInstall(route) == DeclaredPhases(route) \cap {"args", "policy"} # {}

InstallHttpCatchall(st, layer, response) ==
    IF HttpCatchallShouldInstall(layer)
    THEN InstallHandler(st, "http", "*", <<>>, "cmf.http_request", "pre", layer, response)
    ELSE st

(* The global layer, and for requests without an entity its own handler.   *)
VisitGlobal(st, sec) ==
    IF RejectLegacyAplKeys(sec) THEN <<>>
    ELSE IF AplSubblock(sec) = <<>> THEN <<st>>
    ELSE Then(AplSubblock(sec), LAMBDA block :
         Then(Wire(st, block), LAMBDA wired :
         Then(CompilePolicyBlockValue(<<StripNonDslKeys(block)>>), LAMBDA layer :
            << [InstallHttpCatchall(wired, layer, ResponseSubblock(sec)) EXCEPT
                   !.global_layer = <<layer>>] >>)))

(* What a default and a bundle have in common: a named layer. *)
LayerOf(sec) ==
    IF RejectLegacyAplKeys(sec) THEN <<>>
    ELSE IF AplSubblock(sec) = <<>> THEN << NoLayer >>
    ELSE Then(CompilePolicyBlockValue(AplSubblock(sec)), LAMBDA layer : << <<layer>> >>)

Named(layers, name, layer) == {l \in layers : l[1] # name} \cup {<<name, layer>>}

VisitDefault(st, type, sec) ==
    Then(LayerOf(sec), LAMBDA l : << IF l = NoLayer THEN st
                                     ELSE [st EXCEPT !.default_layers = Named(@, type, l[1])] >>)

VisitPolicyBundle(st, tag, sec) ==
    Then(LayerOf(sec), LAMBDA l : << IF l = NoLayer THEN st
                                     ELSE [st EXCEPT !.tag_layers = Named(@, tag, l[1])] >>)

(* tool before resource before prompt before llm; one handler pair a name, *)
(* a pattern counting as a name.                                           *)
EntityIdentity(parsed) ==
    LET type == CHOOSE t \in {"tool", "resource", "prompt", "llm"} :
                   /\ parsed.matchers[t] # <<>>
                   /\ \A u \in {"tool", "resource", "prompt", "llm"} :
                         parsed.matchers[u] # <<>> =>
                            CASE t = "tool" -> TRUE [] t = "resource" -> u # "tool"
                              [] t = "prompt" -> u \in {"prompt", "llm"} [] t = "llm" -> u = "llm"
    IN IF \A t \in DOMAIN parsed.matchers : parsed.matchers[t] = <<>> THEN <<>>
       ELSE << [type |-> type, names |-> parsed.matchers[type]] >>

(* validate_parallel_plugin_modes, on the stacked route: under a parallel  *)
(* block only plugins that are registered and whose mode edits nothing.    *)
ParallelModesOk(route) ==
    \A e \in WalkEffects(route.policy \o route.post_policy) :
        e.kind = "parallel" =>
            \A p \in NamesUsed([policy |-> e.body, post_policy |-> <<>>], "plugin") :
                /\ p \in DOMAIN ModeOf
                /\ ModeOf[p] \in {"audit", "concurrent", "fire_and_forget", "disabled"}

(* global, the default of the type, the bundles of the tags in the order   *)
(* of the tags, then the route.  The tags are those of `meta.tags`; the    *)
(* bundles a route joins by `groups:` are not stacked here.                *)
LayersBelow(st, type, tags) ==
    LET named(layers, name) == {l[2] : l \in {x \in layers : x[1] = name}}
        one(s) == IF s = {} THEN <<>> ELSE << CHOOSE l \in s : TRUE >>
    IN st.global_layer \o one(named(st.default_layers, type))
       \o FlattenSeq([i \in DOMAIN tags |-> one(named(st.tag_layers, tags[i]))])

Stack(layers) == FoldLeft(ApplyLayer, EmptyRoute, layers)

InstallPair(st, type, name, scope, route, response) ==
    LET hooks == HookPairForEntity(type)
        pre == InstallHandler(st, type, name, scope, hooks[1], "pre", route, response)
    IN InstallHandler(pre, type, name, scope, hooks[2], "post", route, response)

InstallRoute(st, entity, scope, route, response) ==
    IF DeclaredPhases(route) = {} THEN <<st>>
    ELSE IF ~ParallelModesOk(route) THEN <<>>
    ELSE << FoldLeft(LAMBDA s, name : InstallPair(s, entity.type, name, scope, route, response),
                     st, entity.names) >>

VisitRoute(st, sec, parsed) ==
    IF RejectLegacyAplKeys(sec) THEN <<>>
    ELSE IF EntityIdentity(parsed) = <<>> THEN <<st>>
    ELSE Then(EntityIdentity(parsed), LAMBDA entity :
         IF entity.names = <<>> THEN <<st>>
         ELSE Then(LayerOf(sec), LAMBDA own :
                 InstallRoute(st, entity, parsed.scope,
                              Stack(LayersBelow(st, entity.type, parsed.tags) \o own),
                              ResponseSubblock(sec))))

(* load_config_yaml: one visitor's walk over the document.  Bundles come   *)
(* from `global.policies` and `groups`, a group in place of a policy of    *)
(* its name.  A failure ends the walk and leaves the handlers already      *)
(* installed in place.                                                     *)
Bundles(doc) == {b \in doc.policies : \A g \in doc.groups : g[1] # b[1]} \cup doc.groups

WalkDefaults(state, defaults) ==
    FoldLeft(LAMBDA s, d : Then(s, LAMBDA st : VisitDefault(st, d[1], d[2])), state, defaults)
WalkBundles(state, bundles) ==
    FoldLeft(LAMBDA s, b : Then(s, LAMBDA st : VisitPolicyBundle(st, b[1], b[2])), state, bundles)
WalkRoutes(state, routes) ==
    FoldLeft(LAMBDA s, r : Then(s, LAMBDA st : VisitRoute(st, r[1], r[2])), state, routes)

WalkFrom(doc, start) ==
    WalkRoutes(
        WalkBundles(
            WalkDefaults(
                Then(VisitPlugins(start, doc.plugins), LAMBDA st : VisitGlobal(st, doc.global)),
                SetToSeq(doc.defaults)),
            SetToSeq(Bundles(doc))),
        doc.routes)
=============================================================================
