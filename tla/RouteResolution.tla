-------------------------- MODULE RouteResolution --------------------------
(***************************************************************************)
(* A request against a configuration document: what parse_config accepts,  *)
(* which route serves the request, and which plugins its hooks then run    *)
(* (ConfigResolution).  A state is one document with the request it is     *)
(* read for and, after the one step that resolves it, the answer.          *)
(***************************************************************************)
EXTENDS Naturals, Sequences, FiniteSets

C == INSTANCE ConfigResolution

CONSTANTS
    RequestCase,    \* the questions: a document and a request each
    Entries         \* the plugins registered for the hooks, and with which overrides
                    \* the factory of each creates an instance of its own

-----------------------------------------------------------------------------
(* Documents and requests. *)

Option(S) == {o \in Seq(S) : Len(o) <= 1}

(* A pattern, or a list of names. *)
Matcher ==
    [list : {FALSE}, pattern : STRING, starred : BOOLEAN, covers : SUBSET STRING, names : {<<>>}]
        \cup [list : {TRUE}, pattern : {""}, starred : {FALSE}, covers : {{}}, names : Seq(STRING)]

(* Authentication steps and plugin references, their settings opaque. *)
RawStep == [shape : STRING, name : STRING, config : Option(STRING)]
PluginRef == [name : STRING, overrides : Option(STRING)]

IsAuthentication(raw) == raw.steps \in Seq(RawStep) /\ (raw.shape = "absent" => raw.steps = <<>>)

Layers(doc) == C!Range(doc.global.policies) \cup C!Range(doc.global.defaults)
                   \cup C!Range(doc.groups) \cup C!Range(doc.routes)

IsRoute(route) ==
    /\ route.matchers \in [C!EntityTypes -> Option(Matcher)]
    /\ route.scope \in Option(STRING) /\ route.when \in Option(STRING)
    /\ route.tags \in Seq(STRING) /\ route.groups \in Option(Matcher)

(* Requests without an entity are not routed. *)
IsCase(case) ==
    /\ case.kind = "request"
    /\ IsAuthentication(case.doc.global.identity)
    /\ \A layer \in Layers(case.doc) :
          IsAuthentication(layer.identity) /\ layer.plugins.refs \in Seq(PluginRef)
    /\ case.doc.routes \in Seq(C!Range(case.doc.routes))
    /\ \A i \in DOMAIN case.doc.routes : IsRoute(case.doc.routes[i])
    /\ case.ext.entity_type \in Seq(STRING) /\ Len(case.ext.entity_type) = 1
    /\ case.ext.entity_name \in Seq(STRING) /\ Len(case.ext.entity_name) = 1
    /\ case.ext.scope \in Option(STRING)
    /\ IsFiniteSet(case.ext.tags)

ASSUME RoutingAssumption == \A case \in RequestCase : IsCase(case)

VARIABLES input, answer
routingVars == <<input, answer>>

RoutingInit == input \in RequestCase /\ answer = <<>>

Pending(kind) == answer = <<>> /\ input.kind = kind /\ UNCHANGED input

ResolveRequest ==
    /\ Pending("request")
    /\ LET config == C!ParseConfig(input.doc)
           ext == input.ext
           lineup(hook) == C!Lineup(config, {}, Entries, ext, hook)
       IN answer' = IF config = <<>> THEN <<[accepted |-> FALSE]>>
                    ELSE <<[accepted |-> TRUE,
                            route |-> C!FindMatchingRoute(config[1], ext.entity_type[1], ext.entity_name[1], ext.scope),
                            identity |-> CHOOSE l \in lineup("identity.resolve") : TRUE,
                            plugins |-> lineup("tool_pre_invoke")]>>

RoutingSpec == RoutingInit /\ [][ResolveRequest]_routingVars

Accepted == input.kind = "request" /\ answer # <<>> /\ answer[1].accepted

-----------------------------------------------------------------------------
(* A pattern ranks by how few names it can stand for; scope and `when`     *)
(* only break ties.                                                        *)
Rank(route, type) ==
    LET m == route.matchers[type][1]
    IN <<IF m.list THEN 2 ELSE IF m.pattern = "*" THEN 0 ELSE IF m.starred THEN 1 ELSE 3,
         IF route.scope = <<>> THEN 0 ELSE 1,
         IF route.when = <<>> THEN 0 ELSE 1>>
Outranks(a, b) ==
    \/ a[1] > b[1]
    \/ a[1] = b[1] /\ a[2] > b[2]
    \/ a[1] = b[1] /\ a[2] = b[2] /\ a[3] > b[3]

(* The routes of the document that cover a request. *)
Fitting(doc, ext) ==
    LET type == ext.entity_type[1]
        m(i) == doc.routes[i].matchers[type][1]
    IN {i \in DOMAIN doc.routes :
          /\ doc.routes[i].scope \in {<<>>, ext.scope}
          /\ type \in C!EntityTypes /\ doc.routes[i].matchers[type] # <<>>
          /\ \/ m(i).pattern = "*"
             \/ ext.entity_name[1] \in m(i).covers \cup {m(i).names[k] : k \in DOMAIN m(i).names}}

(***************************************************************************)
(* find_matching_route adds bonuses to a base score.  No sum of bonuses    *)
(* lifts a less specific matcher over a more specific one: the route       *)
(* chosen covers the request, no other covering route outranks it, and     *)
(* among equals it is the first of the document.                           *)
(***************************************************************************)
MostSpecificRoute ==
    Accepted =>
        LET routes == input.doc.routes
            fits == Fitting(input.doc, input.ext)
            rank(i) == Rank(routes[i], input.ext.entity_type[1])
        IN IF fits = {} THEN answer[1].route = <<>>
           ELSE \E i \in fits :
                   /\ answer[1].route = <<C!RouteEntry(routes[i])>>
                   /\ \A j \in fits : /\ ~Outranks(rank(j), rank(i))
                                      /\ j < i => Outranks(rank(i), rank(j))

-----------------------------------------------------------------------------
(* The bundle of a name: top-level groups take the place of policies. *)
BundleOf(doc, g) ==
    IF g \in DOMAIN doc.groups THEN <<doc.groups[g]>>
    ELSE IF g \in DOMAIN doc.global.policies THEN <<doc.global.policies[g]>> ELSE <<>>

(* The bundles a route joins, by tag and by name. *)
GroupNames(route) == IF route.groups = <<>> THEN <<>> ELSE C!AsNames(route.groups[1])
Joined(route) == route.tags \o GroupNames(route)

(* The authentication steps written for a request that `route` serves (an  *)
(* option), outermost first.                                               *)
StepNames(layer) == [i \in DOMAIN layer.identity.steps |-> layer.identity.steps[i].name]
Replaces(layer) == layer.identity.shape = "map" /\ layer.identity.replace = "true"
WrittenSteps(doc, route) ==
    IF route = <<>> THEN StepNames(doc.global)
    ELSE LET joined == Joined(route[1])
             bundle(k) == BundleOf(doc, joined[k])
             bundles == C!FlattenSeq([k \in DOMAIN joined |->
                                         IF bundle(k) = <<>> THEN <<>> ELSE StepNames(bundle(k)[1])])
         IN (IF Replaces(route[1]) THEN <<>> ELSE StepNames(doc.global) \o bundles) \o StepNames(route[1])

IsRegistered(name) == \E i \in DOMAIN Entries : Entries[i].name = name
Registered(names) == C!AtPositions(names, {i \in DOMAIN names : IsRegistered(names[i])})

(* The lists of plugin references that cover a request, layer by layer and *)
(* outermost first; the bundles of a request come in no order.             *)
PluginLayers(doc, ext, route) ==
    LET type == ext.entity_type[1]
        refs(layers) == {C!PluginRefs(l[1].plugins) : l \in layers \ {<<>>}}
        tags == (ext.tags \cup C!Range(Joined(route[1]))) \ {"all"}
    IN <<refs({BundleOf(doc, "all")}),
         refs({IF type \in DOMAIN doc.global.defaults THEN <<doc.global.defaults[type]>> ELSE <<>>}),
         IF route = <<>> THEN {} ELSE refs({BundleOf(doc, g) : g \in tags}),
         refs({route})>>

Mentions(refs, name) == \E i \in DOMAIN refs : refs[i].name = name
Names(layer, name) == \E refs \in layer : Mentions(refs, name)
LastMention(refs, name) ==
    refs[CHOOSE i \in DOMAIN refs : refs[i].name = name /\ \A j \in i+1..Len(refs) : refs[j].name # name]
Innermost(layers, name) ==
    CHOOSE k \in 1..4 : Names(layers[k], name) /\ \A j \in k+1..4 : ~Names(layers[j], name)

(* What a plugin runs under for which a layer writes `said`: its base      *)
(* entry's settings where no instance can be created with those.           *)
RunsUnder(name, said) == IF said \in C!BaseEntry(name, Entries).creates THEN said ELSE <<>>

(* Each plugin some layer names runs once, as its innermost layer says,    *)
(* those of outer layers first; a route's condition guards its own.        *)
EachOnceAsSaid(lineup, layers, route) ==
    /\ \A i, j \in DOMAIN lineup : lineup[i].name = lineup[j].name => i = j
    /\ \A k \in 1..4 : \A refs \in layers[k] : \A m \in DOMAIN refs :
          IsRegistered(refs[m].name) => Mentions(lineup, refs[m].name)
    /\ \A i \in DOMAIN lineup :
          LET name == lineup[i].name
              k == Innermost(layers, name)
          IN /\ IsRegistered(name) /\ \E l \in 1..4 : Names(layers[l], name)
             /\ \E refs \in layers[k] :
                   /\ Mentions(refs, name)
                   /\ lineup[i].overrides = RunsUnder(name, LastMention(refs, name).overrides)
             /\ lineup[i].when = IF k = 4 THEN route[1].when ELSE <<>>
             /\ \A j \in DOMAIN lineup : i < j => k <= Innermost(layers, lineup[j].name)

(***************************************************************************)
(* No accepted document loses a layer.  The identity.resolve lineup is the *)
(* authentication steps written in the global block, in the bundles the    *)
(* route joins (top-level groups take the place of policies of the same    *)
(* name) and on the route, in that order, unless the route itself says     *)
(* replace_inherited; a document whose route joins no such bundle, or that *)
(* still uses the key `identity` anywhere, is not accepted.  And of the    *)
(* plugins of the other hooks each runs once, with its innermost settings. *)
(* Two things it does not promise, because the code does not: settings     *)
(* with which no instance can be created give way to those of the base     *)
(* entry, and the tags a request brings add the plugins of their bundles   *)
(* but none of their authentication steps, although the comment over       *)
(* resolve_identity_plugins_for_route says that they combine               *)
(* (parse_config, resolve_identity_plugins_for_route,                      *)
(* resolve_plugins_for_entity, filter_entries_by_route).                   *)
(***************************************************************************)
NoLayerLost ==
    (Accepted /\ input.doc.routing_enabled) =>
        LET doc == input.doc
            a == answer[1]
            serving == IF a.route = <<>> THEN {<<>>}
                       ELSE {<<doc.routes[i]>> : i \in {i \in DOMAIN doc.routes :
                                                          a.route = <<C!RouteEntry(doc.routes[i])>>}}
            names == [i \in DOMAIN a.identity |-> a.identity[i].name]
        IN /\ serving # {}
           /\ \A layer \in {doc.global} \cup Layers(doc) : ~layer.legacy
           /\ \A i \in DOMAIN doc.routes : \A g \in C!Range(GroupNames(doc.routes[i])) : BundleOf(doc, g) # <<>>
           /\ \A route \in serving :
                 /\ names = Registered(WrittenSteps(doc, route))
                 /\ \A lineup \in a.plugins : EachOnceAsSaid(lineup, PluginLayers(doc, input.ext, route), route)
=============================================================================
