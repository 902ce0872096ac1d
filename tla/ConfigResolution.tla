-------------------------- MODULE ConfigResolution --------------------------
(***************************************************************************)
(* The unified configuration (config.rs): from the YAML document an        *)
(* operator writes to the lineup of plugins that a request's hook runs.    *)
(* Pure operators; ParseConfig is the loader, Lineup what                  *)
(* filter_entries_by_route computes on a cache miss.                       *)
(*                                                                         *)
(* A YAML value is a record with a `shape`.  Absent keys are the empty     *)
(* sequence, an optional value a sequence of length at most one.  Names    *)
(* of groups are strings because the code gives "all" a meaning.           *)
(***************************************************************************)
EXTENDS Naturals, Sequences, FiniteSets, SequencesExt

(* An option is <<>> (None) or <<x>> (Some). *)
Some(o) == o # <<>>

EntityTypes == {"tool", "resource", "prompt", "llm"}

-----------------------------------------------------------------------------
(* What the typed parse makes of the parts of a document. *)

(* A plugin reference: a bare name, or a name with overrides. *)
PluginRouteRef(name, overrides) == [name |-> name, overrides |-> overrides]

(* `plugins:` is a list of references, or the map of per-plugin overrides, *)
(* which only the APL visitor reads; anything else is no configuration.    *)
PluginRefsOk(raw) == raw.shape \in {"absent", "list", "map"}
PluginRefs(raw) == IF raw.shape = "list" THEN raw.refs ELSE <<>>

(* An authentication step: a plugin name, or a map with a name.  The empty *)
(* name is refused in both forms.                                          *)
StepOk(step) == step.shape \in {"name", "map"} /\ step.name # ""
ParseIdentityStep(step) ==
    [name |-> step.name,
     overrides |-> IF step.shape = "map" THEN step.config ELSE <<>>]

(* `authentication:`, a list of steps or an object {steps, replace_inherited}. *)
IdentityOk(raw) ==
    \/ raw.shape = "absent"
    \/ /\ raw.shape = "list"
       /\ \A i \in DOMAIN raw.steps : StepOk(raw.steps[i])
    \/ /\ raw.shape = "map"
       /\ raw.replace \in {"absent", "true", "false"}
       /\ raw.hasSteps
       /\ \A i \in DOMAIN raw.steps : StepOk(raw.steps[i])
DeserializeRouteIdentity(raw) ==
    IF raw.shape = "absent" THEN <<>>
    ELSE << [steps |-> [i \in DOMAIN raw.steps |-> ParseIdentityStep(raw.steps[i])],
             replace_inherited |-> raw.shape = "map" /\ raw.replace = "true"] >>

PolicyGroup(raw) == [plugins |-> PluginRefs(raw.plugins),
                     identity |-> DeserializeRouteIdentity(raw.identity)]
GroupOk(raw) == PluginRefsOk(raw.plugins) /\ IdentityOk(raw.identity)

(* A route matches one entity by a pattern or by a list of names. *)
RouteEntry(raw) == [matchers |-> raw.matchers, scope |-> raw.scope, tags |-> raw.tags,
                    groups |-> raw.groups, when |-> raw.when,
                    plugins |-> PluginRefs(raw.plugins),
                    identity |-> DeserializeRouteIdentity(raw.identity)]

GlobalConfig(raw) == [policies |-> [g \in DOMAIN raw.policies |-> PolicyGroup(raw.policies[g])],
                      defaults |-> [t \in DOMAIN raw.defaults |-> PolicyGroup(raw.defaults[t])],
                      identity |-> DeserializeRouteIdentity(raw.identity)]

PolicyConfig(raw) == [global |-> GlobalConfig(raw.global), plugins |-> raw.plugins,
                      groups |-> [g \in DOMAIN raw.groups |-> PolicyGroup(raw.groups[g])],
                      routes |-> [i \in DOMAIN raw.routes |-> RouteEntry(raw.routes[i])],
                      routing_enabled |-> raw.routing_enabled]

TypedParseOk(raw) ==
    /\ IdentityOk(raw.global.identity)
    /\ \A g \in Range(raw.global.policies) \cup Range(raw.global.defaults)
                \cup Range(raw.groups) \cup Range(raw.routes) : GroupOk(g)

-----------------------------------------------------------------------------
(* Loading. *)

RejectsOnlyRoutes(raw) == raw.global.legacy \/ \E g \in Range(raw.routes) : g.legacy

(* The old key `identity` is refused wherever `authentication` may stand:  *)
(* serde ignores unknown keys, and ignoring this one would drop the steps. *)
RejectRenamedIdentityKey(raw) ==
    \/ raw.global.legacy
    \/ \E g \in Range(raw.global.policies) \cup Range(raw.global.defaults)
                \cup Range(raw.groups) \cup Range(raw.routes) : g.legacy

(* Top-level groups join, and replace, the policies of the same name. *)
MergeGroupsIntoPolicies(config) ==
    [config EXCEPT
        !.global.policies = [g \in DOMAIN @ \cup DOMAIN config.groups |->
                                IF g \in DOMAIN config.groups THEN config.groups[g] ELSE @[g]],
        !.groups = <<>>]

KnownPlugins(refs, config) ==
    \A i \in DOMAIN refs : \E j \in DOMAIN config.plugins : config.plugins[j].name = refs[i].name

(* StringOrList::as_names: a pattern names itself. *)
AsNames(matcher) == IF matcher.list THEN matcher.names ELSE <<matcher.pattern>>

RouteValid(route, config) ==
    /\ Cardinality({t \in EntityTypes : Some(route.matchers[t])}) = 1
    /\ KnownPlugins(route.plugins, config)
    /\ Some(route.groups) =>
          Range(AsNames(route.groups[1])) \subseteq DOMAIN config.global.policies

ValidateConfig(config) ==
    /\ \A i, j \in DOMAIN config.plugins :
          i # j => config.plugins[i].name # config.plugins[j].name
    /\ config.routing_enabled =>
          /\ \A i \in DOMAIN config.routes : RouteValid(config.routes[i], config)
          /\ \A g \in DOMAIN config.global.policies :
                KnownPlugins(config.global.policies[g].plugins, config)

(* parse_config (load_config only adds the read of the file): None or the configuration. *)
ParseConfig(raw) ==
    LET config == MergeGroupsIntoPolicies(PolicyConfig(raw))
    IN IF ~RejectRenamedIdentityKey(raw) /\ TypedParseOk(raw) /\ ValidateConfig(config)
       THEN <<config>> ELSE <<>>

-----------------------------------------------------------------------------
(* Route matching. *)

(* Which names a pattern matches: wildmatch, modelled by the set the       *)
(* pattern covers ("*" covers every name).                                 *)
PatternMatches(pattern, covers, name) == pattern = "*" \/ name \in covers
Matches(matcher, name) ==
    IF matcher.list THEN \E i \in DOMAIN matcher.names : matcher.names[i] = name
                    ELSE PatternMatches(matcher.pattern, matcher.covers, name)

GlobTooHigh(kind) ==
    CASE kind = "exact" -> 1000 [] kind = "list" -> 500 [] kind = "glob" -> 450
      [] kind = "when" -> 10 [] kind = "wildcard" -> 0
Specificity(kind) ==
    CASE kind = "exact" -> 1000 [] kind = "list" -> 500 [] kind = "glob" -> 300
      [] kind = "when" -> 10 [] kind = "wildcard" -> 0

(* Only a star makes a pattern a glob: one with a question mark scores as a name. *)
ScoreEntityMatch(matcher) ==
    CASE matcher.list -> Specificity("list")
      [] ~matcher.list /\ matcher.pattern = "*" -> Specificity("wildcard")
      [] ~matcher.list /\ matcher.pattern # "*" /\ matcher.starred -> Specificity("glob")
      [] OTHER -> Specificity("exact")

(* A route with a scope serves only requests of that scope. *)
ScopeFits(route, scope) == Some(route.scope) => route.scope = scope

Candidate(route, type, name, scope) ==
    /\ ScopeFits(route, scope)
    /\ type \in EntityTypes
    /\ Some(route.matchers[type])
    /\ Matches(route.matchers[type][1], name)

Total(route, type) ==
    ScoreEntityMatch(route.matchers[type][1])
        + (IF Some(route.scope) THEN 100 ELSE 0)
        + (IF Some(route.when) THEN Specificity("when") ELSE 0)

(* The first route of the highest score, as an option. *)
FindMatchingRoute(config, type, name, scope) ==
    LET routes == config.routes
        found  == {i \in DOMAIN routes : Candidate(routes[i], type, name, scope)}
        best   == {i \in found : \A j \in found :
                      \/ Total(routes[i], type) > Total(routes[j], type)
                      \/ Total(routes[i], type) = Total(routes[j], type) /\ i <= j}
    IN IF found = {} THEN <<>> ELSE <<routes[CHOOSE i \in best : TRUE]>>

(* meta.tags, then the names of `groups:`. *)
RouteStaticTags(route) ==
    route.tags \o (IF Some(route.groups) THEN AsNames(route.groups[1]) ELSE <<>>)

-----------------------------------------------------------------------------
(* Which plugins fire. *)

ResolvedPlugin(ref, when) == [name |-> ref.name, overrides |-> ref.overrides, when |-> when]

CollectPluginRefs(refs, when) == [i \in DOMAIN refs |-> ResolvedPlugin(refs[i], when)]

GroupPlugins(groups, g) ==
    IF g \in DOMAIN groups THEN CollectPluginRefs(groups[g].plugins, <<>>) ELSE <<>>

(* The elements of a sequence at the positions given, in order. *)
AtPositions(seq, kept) == FlattenSeq([i \in DOMAIN seq |-> IF i \in kept THEN <<seq[i]>> ELSE <<>>])

(* Of the references to one plugin the last one counts, in its own place. *)
Dedup(refs) ==
    AtPositions(refs, {i \in DOMAIN refs :
                               \A j \in i+1..Len(refs) : refs[j].name # refs[i].name})

(* The merged tags are a hash set: its groups come in any order.  The      *)
(* operator gives the set of lineups the orders produce.                   *)
ResolvePluginsForEntity(config, type, name, scope, requestTags) ==
    IF ~config.routing_enabled
    THEN {[i \in DOMAIN config.plugins |-> ResolvedPlugin(
              PluginRouteRef(config.plugins[i].name, <<>>), <<>>)]}
    ELSE LET base  == GroupPlugins(config.global.policies, "all")
                        \o GroupPlugins(config.global.defaults, type)
             route == FindMatchingRoute(config, type, name, scope)
             tags  == ((requestTags \cup Range(RouteStaticTags(route[1])))
                          \cap DOMAIN config.global.policies) \ {"all"}
         IN IF ~Some(route) THEN {Dedup(base)}
            ELSE {Dedup(base
                        \o FlattenSeq([k \in DOMAIN order |->
                                          GroupPlugins(config.global.policies, order[k])])
                        \o CollectPluginRefs(route[1].plugins, route[1].when)) :
                     order \in SetToSeqs(tags)}

GroupSteps(config, g) ==
    IF g \in DOMAIN config.global.policies /\ Some(config.global.policies[g].identity)
    THEN config.global.policies[g].identity[1].steps ELSE <<>>

(* identity.resolve runs the authentication layers: global, the route's    *)
(* bundles, the route; replace_inherited on the route drops the first two. *)
ResolveIdentityPluginsForRoute(config, type, name, scope) ==
    LET route    == FindMatchingRoute(config, type, name, scope)
        own      == IF Some(route) THEN route[1].identity ELSE <<>>
        replaces == Some(own) /\ own[1].replace_inherited
        global   == IF Some(config.global.identity) THEN config.global.identity[1].steps ELSE <<>>
        tags     == IF Some(route) THEN RouteStaticTags(route[1]) ELSE <<>>
        bundles  == FlattenSeq([k \in DOMAIN tags |-> GroupSteps(config, tags[k])])
        steps    == (IF replaces THEN <<>> ELSE global \o bundles)
                       \o (IF Some(own) THEN own[1].steps ELSE <<>>)
    IN [i \in DOMAIN steps |-> ResolvedPlugin(steps[i], <<>>)]

-----------------------------------------------------------------------------
(* Conditions, the selection of hosts that do not route. *)

(* A field of a condition that is not given admits everything, one that is *)
(* given needs a value it contains; patterns are the set they cover.       *)
FieldAdmits(field, value) == Some(field) => Some(value) /\ value[1] \in field[1]

ConditionFields == {"server_id", "tenant_id", "tool", "prompt", "resource", "agent", "user",
                    "content_type"}

(* The values of a request.  The server is the tool's, else the resource's, *)
(* else the prompt's; a structured tenant claim is no tenant; the entity's  *)
(* name counts only for its own type.                                       *)
MatchContext(ext) ==
    LET named(t) == IF ext.entity_type = <<t>> THEN ext.entity_name ELSE <<>>
    IN [server_id |-> CASE Some(ext.tool_server) -> ext.tool_server
                        [] ~Some(ext.tool_server) /\ Some(ext.resource_server) -> ext.resource_server
                        [] OTHER -> ext.prompt_server,
        tenant_id |-> ext.tenant, agent |-> ext.agent, user |-> ext.user,
        content_type |-> ext.mime_type,
        tool |-> named("tool"), prompt |-> named("prompt"), resource |-> named("resource")]

ConditionMatches(condition, ctx) ==
    \A f \in ConditionFields : FieldAdmits(condition[f], ctx[f])

PassesConditions(conditions, ext) ==
    conditions = <<>> \/ \E i \in DOMAIN conditions :
                            ConditionMatches(conditions[i], MatchContext(ext))

-----------------------------------------------------------------------------
(* The lineup of a hook: filter_entries_by_route without its cache. *)

(* The resolved names that the hook's registry has an entry for. *)
EntriesFound(resolved, entries) ==
    AtPositions(resolved, {i \in DOMAIN resolved :
                               \E j \in DOMAIN entries : entries[j].name = resolved[i].name})

BaseEntry(name, entries) ==
    entries[CHOOSE j \in DOMAIN entries : /\ entries[j].name = name
                                          /\ \A k \in 1..j-1 : entries[k].name # name]

(* create_override_instance makes an instance of the plugin's own for the  *)
(* overrides.  `creates` holds those it can: there is a factory of the     *)
(* kind, it accepts the merged settings, the instance initializes and has  *)
(* a handler for the hook.  Under any other the base entry runs as it is.  *)
InstanceFor(ref, entries) ==
    IF ref.overrides \in BaseEntry(ref.name, entries).creates THEN ref
    ELSE [ref EXCEPT !.overrides = <<>>]

(* The entries in resolution order, each with the overrides it runs under. *)
EntriesFor(resolved, entries) ==
    LET found == EntriesFound(resolved, entries)
    IN [i \in DOMAIN found |-> InstanceFor(found[i], entries)]

(* A route annotation of the request's scope, else the unscoped one. *)
AnnotationFor(annotations, ext, hook) ==
    LET at(scope) == {a \in annotations : /\ a.entity = <<ext.entity_type, ext.entity_name>>
                                          /\ a.scope = scope
                                          /\ a.hook = hook}
    IN IF Some(ext.scope) /\ at(ext.scope) # {} THEN at(ext.scope) ELSE at(<<>>)

Unresolved(entries) == [i \in DOMAIN entries |-> ResolvedPlugin(
                           PluginRouteRef(entries[i].name, <<>>), <<>>)]

Lineup(config, annotations, entries, ext, hook) ==
    LET identified == Some(ext.entity_type) /\ Some(ext.entity_name)
        annotated  == IF identified THEN AnnotationFor(annotations, ext, hook) ELSE {}
        handler    == CHOOSE a \in annotated : TRUE
        type       == ext.entity_type[1]
        name       == ext.entity_name[1]
    IN CASE annotated # {} ->
              {<<ResolvedPlugin(PluginRouteRef(handler.handler, <<>>), <<>>)>>}
         [] annotated = {} /\ ~(Some(config) /\ config[1].routing_enabled) ->
              {Unresolved(SelectSeq(entries, LAMBDA e : PassesConditions(e.conditions, ext)))}
         [] annotated = {} /\ Some(config) /\ config[1].routing_enabled /\ ~identified ->
              {Unresolved(entries)}
         [] OTHER ->
              {EntriesFor(resolved, entries) : resolved \in
                  IF hook = "identity.resolve"
                  THEN {ResolveIdentityPluginsForRoute(config[1], type, name, ext.scope)}
                  ELSE ResolvePluginsForEntity(config[1], type, name, ext.scope, ext.tags)}
=============================================================================
