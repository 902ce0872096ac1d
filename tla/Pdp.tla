-------------------------------- MODULE Pdp --------------------------------
(***************************************************************************)
(* The built-in policy decision points (builtins/pdps: cel, opa,           *)
(* cedar-direct): how each one lays the attribute bag out for its engine,  *)
(* prepares the author's program and turns the engine's answer into a      *)
(* decision.  The engines themselves are external: what an expression, a   *)
(* Rego query or a Cedar policy set answers is part of the call.           *)
(*                                                                         *)
(* A decision is [decision, why]; the code's Err(PdpError) is the decision *)
(* "error", which the evaluator turns into a deny.                         *)
(***************************************************************************)
EXTENDS Attributes

CONSTANTS MinInt, MaxInt      \* the range of an i64

Allow == [decision |-> "allow", why |-> "policy"]
Deny(why) == [decision |-> "deny", why |-> why]
Error == [decision |-> "error", why |-> "dispatch"]

-----------------------------------------------------------------------------
(* Nested documents from flat keys (activation.rs, input.rs): a set of     *)
(* leaves [path, value].  A scalar that shares its name with a namespace   *)
(* is dropped, whichever of the two is inserted first.                     *)

Under(prefix, path) == Len(prefix) < Len(path) /\ SubSeq(path, 1, Len(prefix)) = prefix

InsertLeaf(leaves, path, value) ==
    IF \E l \in leaves : Under(path, l.path) THEN leaves
    ELSE {l \in leaves : l.path # path /\ ~Under(l.path, path)}
            \cup {[path |-> path, value |-> value]}

(* A whole double in the range of an integer becomes one; the upper bound  *)
(* is strict, 2^63 itself is a double.                                     *)
FloatToValue(f) ==
    IF f[3] /\ f[2] % 2 = 0 /\ f[2] \div 2 >= MinInt /\ f[2] \div 2 < MaxInt + 1
    THEN <<"int", f[2] \div 2>> ELSE f
OpaFloatToValue(f) == IF f[3] THEN FloatToValue(f) ELSE <<"null">>

AttrToValue(v) ==
    CASE v[1] = "float" -> FloatToValue(v)
      [] v[1] = "set" -> <<"list", v[2]>>
      [] OTHER -> v
OpaAttrToValue(v) == IF v[1] = "float" THEN OpaFloatToValue(v) ELSE AttrToValue(v)

(* order is the sequence in which the hash map yields the keys. *)
BuildTree(bag, order) ==
    FoldLeft(LAMBDA leaves, key : InsertLeaf(leaves, key, AttrToValue(bag[key])), {}, order)
BagToInput(bag, order) ==
    FoldLeft(LAMBDA leaves, key : InsertLeaf(leaves, key, OpaAttrToValue(bag[key])), {}, order)

(* The step's other arguments are variables too, but a namespace of the    *)
(* bag replaces the one of the same name.                                  *)
YamlToValue(v) == IF v[1] = "float" THEN FloatToValue(v) ELSE v
BagToContext(bag, order, args) ==
    LET tree == BuildTree(bag, order)
        extra == {l \in args : l.path[1] # "expr" /\ ~\E t \in tree : t.path[1] = l.path[1]}
    IN tree \cup {[l EXCEPT !.value = YamlToValue(@)] : l \in extra}

ReadPath(leaves, path) ==
    IF \E l \in leaves : l.path = path
    THEN <<(CHOOSE l \in leaves : l.path = path).value>>
    ELSE IF \E l \in leaves : Under(path, l.path) THEN << <<"map">> >> ELSE <<>>

-----------------------------------------------------------------------------
(* on_error, and the program cache shared by CEL and OPA: nothing is       *)
(* evicted, a new program is refused when the cache is full.               *)

OnErrorDecision(r, why) ==
    IF r.on_error = "allow" THEN [decision |-> "allow", why |-> why] ELSE Deny(why)
CompileErrorDecision(why) == Deny(why)

CacheFull(r, src) == Cardinality(r.cache) >= r.max_cache_entries /\ src \notin r.cache

(* cel: {expr, ...}: <<resolver after the call, decision>>.  An expression *)
(* reads one path of the context and answers its value.                    *)
CelFromConfig(config) ==
    IF ~config.mapping \/ config.keys \ {"kind", "on_error"} # {} \/ ~config.stringKeys
          \/ config.on_error \notin {"absent", "deny", "allow", "malformed"}
    THEN <<>>
    ELSE <<[on_error |-> IF config.on_error = "allow" THEN "allow" ELSE "deny",
            max_cache_entries |-> 1024, cache |-> {}]>>

GetOrCompile(r, expr) ==
    CASE expr.src \in r.cache -> <<"ready", r>>
      [] expr.src \notin r.cache /\ ~expr.compiles -> <<"compile", r>>
      [] expr.src \notin r.cache /\ expr.compiles /\ CacheFull(r, expr.src) -> <<"cache_full", r>>
      [] OTHER -> <<"ready", [r EXCEPT !.cache = @ \cup {expr.src}]>>

(* What a CEL deny shows of the bag: the keys whose first segment the      *)
(* expression names.                                                       *)
SnapshotReferencedBagValues(expr, bag) == {k \in DOMAIN bag : k[1] = expr.path[1]}

CelEvaluate(r, call, bag, order) ==
    LET got == GetOrCompile(r, call.expr[1])
        value == ReadPath(BagToContext(bag, order, call.args), call.expr[1].path)
        answer ==
            CASE call.expr = <<>> -> Error
              [] call.expr # <<>> /\ got[1] = "compile" -> CompileErrorDecision("compile")
              [] call.expr # <<>> /\ got[1] = "cache_full" -> OnErrorDecision(r, "cache_full")
              [] OTHER ->
                   CASE value = <<>> -> OnErrorDecision(r, "eval")
                     [] value # <<>> /\ value[1][1] # "bool" -> OnErrorDecision(r, "not_bool")
                     [] OTHER -> IF value[1][2] THEN Allow
                                 ELSE Deny("policy")
                                         @@ [shown |-> SnapshotReferencedBagValues(call.expr[1], bag)]
    IN <<IF call.expr = <<>> THEN r ELSE got[2], answer>>

-----------------------------------------------------------------------------
(* opa: {query, module}.  The engine's answer is a tagged Rego value.      *)

OpaKnownKeys == {"kind", "on_error", "decision_field", "modules", "module_files", "data",
                 "data_files", "max_cache_entries"}

(* Every module, data document and setting must read, or the resolver is   *)
(* not built.  A package is what add_policy reports.                       *)
OpaFromConfig(config) ==
    IF \/ ~config.mapping \/ ~config.stringKeys \/ config.keys \ OpaKnownKeys # {}
       \/ config.on_error \notin {"absent", "deny", "allow"}
       \/ config.cap = "malformed" \/ config.decision_field = "malformed"
       \/ \E i \in DOMAIN config.modules : ~config.modules[i].parses
       \/ \E i \in DOMAIN config.data : ~config.data[i].merges
    THEN <<>>
    ELSE <<[on_error |-> IF config.on_error = "allow" THEN "allow" ELSE "deny",
            decision_field |-> IF config.decision_field = "absent" THEN "allow"
                               ELSE config.decision_field,
            global_packages |-> {config.modules[i].package : i \in DOMAIN config.modules},
            max_cache_entries |-> IF config.cap = "absent" THEN 1024 ELSE 1, cache |-> {}]>>

(* An inline module may add a package, never join one of the operator's.   *)
EngineFor(r, module) ==
    CASE module = <<>> -> <<"ready", r>>
      [] module # <<>> ->
           LET m == module[1]
           IN CASE m.src \in r.cache -> <<"ready", r>>
                [] m.src \notin r.cache /\ ~m.parses -> <<"compile", r>>
                [] m.src \notin r.cache /\ m.parses /\ m.package \in r.global_packages ->
                     <<"collision", r>>
                [] OTHER -> IF CacheFull(r, m.src) THEN <<"cache_full", r>>
                            ELSE <<"ready", [r EXCEPT !.cache = @ \cup {m.src}]>>

MapObject(fields, decision_field) ==
    IF decision_field \in DOMAIN fields /\ fields[decision_field][1] = "bool"
    THEN IF fields[decision_field][2] THEN Allow ELSE Deny("policy")
    ELSE [decision |-> "degenerate", why |-> "no_field"]

(* Diagnostics keep at most MaxDiagnosticElements of a list, and say how   *)
(* many they leave out.                                                    *)
MaxDiagnosticElements == 16
BoundedElements(total) ==
    [shown |-> Min2(total, MaxDiagnosticElements),
     omitted |-> IF total > MaxDiagnosticElements THEN total - MaxDiagnosticElements ELSE 0]

MapCollection(size) ==
    IF size = 0 THEN Allow ELSE Deny("policy") @@ [violations |-> BoundedElements(size)]

(* Undefined is a plain deny, so on_error cannot turn a query nothing      *)
(* matched into an allow.                                                  *)
MapQueryResult(value, decision_field) ==
    CASE value[1] = "bool" -> IF value[2] THEN Allow ELSE Deny("policy")
      [] value[1] = "object" -> MapObject(value[2], decision_field)
      [] value[1] \in {"set", "array"} -> MapCollection(value[2])
      [] value[1] = "undefined" -> Deny("undefined")
      [] OTHER -> [decision |-> "degenerate", why |-> "no_decision"]

OpaEvaluate(r, call) ==
    LET got == EngineFor(r, call.module)
        mapped == MapQueryResult(call.result, r.decision_field)
        answer ==
            CASE ~call.query -> Error
              [] call.query /\ got[1] # "ready" -> CompileErrorDecision(got[1])
              [] call.query /\ got[1] = "ready" /\ call.result[1] = "panic" ->
                   CompileErrorDecision("panic")
              [] call.query /\ got[1] = "ready" /\ call.result[1] = "eval_error" ->
                   OnErrorDecision(r, "eval")
              [] OTHER -> IF mapped.decision = "degenerate" THEN OnErrorDecision(r, mapped.why)
                          ELSE mapped
    IN <<IF call.query THEN got[2] ELSE r, answer>>

-----------------------------------------------------------------------------
(* cedar: {action, resource, context}.                                     *)

CedarFromConfig(config) ==
    IF \/ ~config.mapping \/ config.policies \in {"absent", "unreadable", "unparsable"}
       \/ config.schema \in {"unreadable", "unparsable"}
    THEN <<>>
    ELSE <<[dialect |-> IF config.dialect \in {"absent", "cedar"} THEN "cedar" ELSE config.dialect,
            namespace |-> config.namespace, schema |-> config.schema = "given"]>>

(* YAML trees: scalars as in the bag, <<"list", S>>, <<"map", f>>, and     *)
(* <<"ref", key>> for a ${key} scalar.  An absent key fails the call.      *)
Substitute(v) == IF v[1] = "set" THEN <<"list", v[2]>> ELSE v

RECURSIVE ResolveRefs(_, _)
ResolveRefs(value, bag) ==
    CASE value[1] = "ref" -> IF Has(bag, value[2]) THEN <<Substitute(bag[value[2]])>> ELSE <<>>
      [] value[1] = "map" ->
           LET sub == [k \in DOMAIN value[2] |-> ResolveRefs(value[2][k], bag)]
           IN IF \E k \in DOMAIN sub : sub[k] = <<>> THEN <<>>
              ELSE << <<"map", [k \in DOMAIN sub |-> sub[k][1]]>> >>
      [] OTHER -> <<value>>

RECURSIVE FirstFloatKey(_)
FirstFloatKey(value) ==
    \/ value[1] = "float"
    \/ value[1] = "map" /\ \E k \in DOMAIN value[2] : FirstFloatKey(value[2][k])

Entry(map, key) == IF map[1] = "map" /\ key \in DOMAIN map[2] THEN <<map[2][key]>> ELSE <<>>
YamlString(map, key) ==
    IF Entry(map, key) # <<>> /\ Entry(map, key)[1][1] = "string" THEN <<Entry(map, key)[1][2]>> ELSE <<>>

(* Cedar has no floating-point type: a claim is carried as its text, where *)
(* an attribute the operator wrote is refused.                             *)
CollectPrefixedBools(bag, prefix) ==
    {Tail(k) : k \in {k \in DOMAIN bag : Len(k) > 1 /\ k[1] = prefix /\ GetBool(bag, k) = <<TRUE>>}}
CollectClaims(bag) ==
    LET keys == {k \in DOMAIN bag : Len(k) > 1 /\ k[1] = "claim"}
    IN [name \in {Tail(k) : k \in keys} |->
           LET v == bag[<<"claim">> \o name]
           IN IF v[1] = "float" THEN <<"string", "float">> ELSE Substitute(v)]

QualifyType(bare, namespace) == IF namespace \in {"absent", ""} THEN <<bare>> ELSE <<namespace, bare>>

PrincipalUid(bag, namespace) ==
    LET kind == GetString(bag, <<"subject", "type">>)
    IN [type |-> QualifyType(IF kind = <<>> THEN "User" ELSE kind[1], namespace),
        id |-> GetString(bag, <<"subject", "id">>)]

BuildPrincipal(bag, namespace) ==
    LET teams == GetStringSet(bag, <<"subject", "teams">>)
    IN IF GetString(bag, <<"subject", "id">>) = <<>> THEN <<>>
       ELSE <<[uid |-> PrincipalUid(bag, namespace),
               roles |-> CollectPrefixedBools(bag, "role"),
               permissions |-> CollectPrefixedBools(bag, "perm"),
               teams |-> IF teams = <<>> THEN {} ELSE teams[1],
               claims |-> CollectClaims(bag)]>>

BuildResource(resource) ==
    LET attrs == Entry(resource, "attributes")
    IN IF \/ resource[1] # "map"
          \/ YamlString(resource, "type") = <<>> \/ YamlString(resource, "id") = <<>>
          \/ attrs # <<>> /\ FirstFloatKey(attrs[1])
       THEN <<>>
       ELSE <<[type |-> YamlString(resource, "type")[1], id |-> YamlString(resource, "id")[1]]>>

(* The engine's own context, by namespace; what the operator writes under  *)
(* `context` replaces whole top-level entries of it.                       *)
(* <<key, type>>: a value of another type is left out. *)
ContextKeys ==
    {<< <<"delegation", "depth">>, "int">>, << <<"delegated">>, "bool">>,
     << <<"meta", "entity_type">>, "string">>, << <<"meta", "entity_name">>, "string">>,
     << <<"meta", "scope">>, "string">>, << <<"meta", "tags">>, "set">>,
     << <<"security", "labels">>, "set">>, << <<"security", "classification">>, "string">>,
     << <<"authenticated">>, "bool">>}
ContextPath(key) == IF key = <<"delegated">> THEN <<"delegation", "delegated">> ELSE key
BuildPolicyContext(bag) ==
    {[path |-> ContextPath(e[1]), value |-> Substitute(bag[e[1]])] :
        e \in {e \in ContextKeys : Is(bag, e[1], e[2])}}

MergeInto(context, overlay) ==
    IF overlay = <<>> \/ overlay[1][1] # "map" THEN context
    ELSE {l \in context : l.path[1] \notin DOMAIN overlay[1][2]}
            \cup {[path |-> <<k>>, value |-> overlay[1][2][k]] : k \in DOMAIN overlay[1][2]}

ParseCall(args, bag) ==
    LET action == YamlString(args, "action")
        context == MergeInto(BuildPolicyContext(bag), Entry(args, "context"))
    IN IF \/ action = <<>> \/ action[1] = "malformed" \/ Entry(args, "resource") = <<>>
          \/ \E l \in context : FirstFloatKey(l.value)
       THEN <<>>
       ELSE <<[action |-> action[1], context |-> context, resource |-> Entry(args, "resource")[1]]>>

(* Any evaluation error closes the gate, whatever Cedar decided. *)
Translate(response) ==
    CASE response.errors # {} -> Deny("eval")
      [] response.errors = {} /\ response.decision = "allow" -> Allow
      [] OTHER -> Deny(IF response.reason = {} THEN "default_deny" ELSE "policy")

(* The request put to the authorizer, <<>> when it cannot be built. *)
CedarRequest(r, call, bag) ==
    LET args == ResolveRefs(call.args, bag)
        parsed == ParseCall(args[1], bag)
        principal == BuildPrincipal(bag, r.namespace)
        resource == BuildResource(parsed[1].resource)
    IN IF \/ args = <<>>
          \/ parsed = <<>> \/ principal = <<>>
          \/ resource = <<>>
          \/ r.schema /\ ~call.fitsSchema
       THEN <<>>
       ELSE <<[principal |-> principal[1], action |-> parsed[1].action,
               resource |-> resource[1], context |-> parsed[1].context]>>

(* response is what the external authorizer says to that request. *)
CedarEvaluate(request, response) == IF request = <<>> THEN Error ELSE Translate(response)

-----------------------------------------------------------------------------
(* PdpRouter::evaluate: the answer of the call's own dialect, else an      *)
(* error (NoResolver).                                                     *)
RouteCall(resolvers, dialect, answer) == IF dialect \in resolvers THEN answer ELSE Error

=============================================================================
