----------------------------- MODULE MCDecisions -----------------------------
(***************************************************************************)
(* What is decided about one request, on bounded inputs: predicates and    *)
(* decision points, field pipelines and the way their edits reach the      *)
(* message, routing restrictions, and the credentials of an identity       *)
(* chain, of delegation and of the session store.  A state holds one case  *)
(* and, after the step that works it out, the answer; the identity case    *)
(* goes on for several steps.  The invariants compare the answer with a    *)
(* definition that does not follow the code's algorithm.                   *)
(***************************************************************************)
EXTENDS Credentials, TLC

Exact == 8      \* stands for 2^53
Texts == (<<"bool", TRUE>> :> <<"true">>) @@ (<<"bool", FALSE>> :> <<"false">>)
            @@ (<<"string", "3">> :> <<"3">>) @@ (<<"string", "abc">> :> <<"abc">>)
            @@ (<<"int", 3>> :> <<"3">>) @@ (<<"int", 9>> :> <<"9">>) @@ (<<"float", 16, TRUE>> :> <<"8">>)
            @@ (<<"float", 3, TRUE>> :> <<"1", "5">>) @@ (<<"float", 0, FALSE>> :> <<"NaN">>)

D == INSTANCE Pdp WITH Numeric <- ("3" :> 3) @@ ("9" :> 9), ExactDouble <- Exact,
                       TextOf <- Texts, MinInt <- -9, MaxInt <- 8
K == INSTANCE Constraints WITH Numeric <- ("3" :> 3), ExactDouble <- Exact, TextOf <- Texts
A == INSTANCE AttributeBag WITH Lower <- ("X-A" :> "x-a") @@ ("x-a" :> "x-a"), MaxI64 <- 8,
                                Shown <- (<<"int", 1>> :> "1") @@ (<<"bool", TRUE>> :> "true")
M == INSTANCE MessageProjection
V == INSTANCE MessageViews WITH Lower <- ("Cookie" :> "cookie") @@ ("x-trace" :> "x-trace") @@ ("cookie" :> "cookie")
P == INSTANCE ReferencePlugins WITH MarkerHits <- {"any"}

vars == <<input, answer>>

Without(f, k) == [x \in DOMAIN f \ {k} |-> f[x]]
Range(s) == {s[i] : i \in DOMAIN s}
Orders(S) == {s \in [1..Cardinality(S) -> S] : Range(s) = S}
UpTo(n, S) == UNION {[1..k -> S] : k \in 0..n}
NoMap == [k \in {} |-> 0]

-----------------------------------------------------------------------------
(* Predicates. *)

Values == {<<"bool", TRUE>>, <<"bool", FALSE>>, <<"int", 3>>, <<"int", 9>>, <<"float", 16, TRUE>>,
           <<"float", 3, TRUE>>, <<"float", 0, FALSE>>, <<"string", "3">>, <<"string", "abc">>,
           <<"set", {"3", "abc"}>>}
Literals == {<<"bool", TRUE>>, <<"int", 3>>, <<"int", 8>>, <<"float", 16, TRUE>>, <<"string", "abc">>,
             <<"string", "3">>}
Operators == {"eq", "not_eq", "gt", "gt_eq", "lt", "lt_eq", "contains"}

KeyX == <<"x">>
KeyS == <<"s", "abc">>
ReadX == << <<"lit", KeyX>> >>
Indirect == << <<"lit", <<"s">> >>, <<"ref", KeyX>> >>     \* s[x]

Cond(c) == [x |-> "cond", cond |-> c]
Compare(key, op, lit) == Cond([c |-> "compare", key |-> key, op |-> op, lit |-> lit])
Simple == {Cond([c |-> c, key |-> k]) : c \in {"is_true", "exists"}, k \in {ReadX, Indirect}}
             \cup {Cond([c |-> "in_set", key |-> ReadX, set |-> << <<"lit", KeyS>> >>, negate |-> FALSE])}
             \cup {Compare(k, op, l) : k \in {ReadX, Indirect}, op \in Operators, l \in Literals}
Absent == Cond([c |-> "is_false", key |-> ReadX])
Positive == Simple \cup {[x |-> op, parts |-> <<e, [x |-> "always"]>>] : op \in {"and", "or"}, e \in Simple}
               \cup {[x |-> op, parts |-> <<Compare(ReadX, "not_eq", l), Compare(Indirect, "gt", <<"int", 3>>)>>] :
                        op \in {"and", "or"}, l \in Literals}

Bags == {(KeyX :> v) @@ (KeyS :> w) : v \in Values, w \in {<<"set", {"abc"}>>, <<"int", 9>>, <<"bool", TRUE>>}}

PredicateCases == {[kind |-> "predicate", expr |-> e, bag |-> b] : e \in Positive, b \in Bags}

(* Two rules: the first only looks at other effects, the second denies. *)
RulesOf(e) == << [condition |-> e, effects |-> <<"log">>, code |-> <<>>, source |-> "first"],
                 [condition |-> e, effects |-> <<"log", "deny">>, code |-> <<>>, source |-> "second"],
                 [condition |-> [x |-> "not", inner |-> e], effects |-> <<"deny">>, code |-> <<"third">>,
                  source |-> "x"] >>

(***************************************************************************)
(* A condition without negation, `!=` included, never becomes true because *)
(* an attribute is missing, not even one a bracketed key is built from;    *)
(* and integers keep their order where doubles have gaps.                  *)
(***************************************************************************)
AbsenceNeverGrants ==
    LET a == answer[1]
        x == input.bag[KeyX]
    IN /\ \A k \in DOMAIN input.bag : a.without[k] => a.full
       /\ a.rules = IF a.full THEN "second" ELSE "third"
       /\ x[1] = "int" => \A n \in {3, 8, 9} :
             LET holds(op) == D!EvalComparison(input.bag, KeyX, op, <<"int", n>>)
             IN /\ holds("gt") = (x[2] > n) /\ holds("lt") = (x[2] < n) /\ holds("eq") = (x[2] = n)
                /\ holds("gt_eq") = (x[2] >= n) /\ holds("lt_eq") = (x[2] <= n)
                /\ holds("not_eq") = (x[2] # n)

-----------------------------------------------------------------------------
(* CEL: a bag in which scalars and namespaces share names, in every order  *)
(* the hash map may yield its keys, and two calls on one resolver whose    *)
(* cache holds one program.                                                *)

CelKeys == {<<"a">>, <<"a", "b">>, <<"a", "b", "c">>, <<"d">>}
CelBags == UNION {[S -> {<<"bool", TRUE>>, <<"float", 4, TRUE>>}] : S \in (SUBSET CelKeys) \ {{}}}
Exprs == {[src |-> <<p, c>>, path |-> p, compiles |-> c] : p \in {<<"a">>, <<"a", "b">>, <<"d">>}, c \in BOOLEAN}
CelArgs == {[path |-> <<"d">>, value |-> <<"bool", TRUE>>], [path |-> <<"expr">>, value |-> <<"string", "d">>]}
CelConfigs == {[mapping |-> TRUE, stringKeys |-> TRUE, keys |-> {"kind", "on_error"}, on_error |-> e] :
                  e \in {"absent", "deny", "allow", "malformed", "sometimes"}}

CelCases ==
    {[kind |-> "cel", config |-> c, bag |-> b, order |-> CHOOSE o \in Orders(DOMAIN b) : TRUE,
      exprs |-> <<e, f, e>>] : c \in CelConfigs, b \in CelBags, e \in Exprs, f \in Exprs}
       \cup {[kind |-> "cel", config |-> [mapping |-> TRUE, stringKeys |-> TRUE, keys |-> {}, on_error |-> "allow"],
              bag |-> [k \in CelKeys |-> <<"bool", TRUE>>], order |-> o, exprs |-> <<e, e, e>>] :
                 o \in Orders(CelKeys), e \in Exprs}

CelCall(e) == [expr |-> <<e>>, args |-> CelArgs]

(* What the author's path stands for: the bag's leaf, unless a longer key  *)
(* makes a namespace of it; the step's own argument only in its absence.   *)
Affirmative(path) ==
    IF \E k \in DOMAIN input.bag : k[1] = path[1]
    THEN /\ path \in DOMAIN input.bag /\ input.bag[path] = <<"bool", TRUE>>
         /\ ~\E k \in DOMAIN input.bag : D!Under(path, k)
    ELSE path = <<"d">>

(***************************************************************************)
(* CEL allows on the author's word alone: the expression compiles and its  *)
(* value is `true`.  Every other allow is on_error's, and never for an     *)
(* expression that does not compile; a program once prepared is served     *)
(* however full the cache is.                                              *)
(***************************************************************************)
CelFailsClosed ==
    LET a == answer[1]
    IN input.config.on_error # "sometimes" => \A i \in DOMAIN input.exprs :
          LET e == input.exprs[i]
          IN /\ a[i].decision = "allow" =>
                   /\ e.compiles
                   /\ IF a[i].why = "policy" THEN Affirmative(e.path) ELSE input.config.on_error = "allow"
             /\ a[i].why = "cache_full" => \A j \in DOMAIN input.exprs : j < i => input.exprs[j] # e
             /\ (e.compiles /\ Affirmative(e.path) /\ a[i].why # "cache_full") => a[i] = D!Allow

-----------------------------------------------------------------------------
(* OPA: three calls on one resolver with one operator package. *)

Rego(src, package, parses) == <<[src |-> src, package |-> package, parses |-> parses]>>
Modules == {<<>>, Rego("own", "route", TRUE), Rego("second", "route", TRUE), Rego("joins", "global", TRUE),
            Rego("broken", "route", FALSE)}
Results == {<<"bool", TRUE>>, <<"bool", FALSE>>, <<"object", ("allow" :> <<"bool", TRUE>>)>>,
            <<"object", ("allow" :> <<"string", "yes">>)>>, <<"object", NoMap>>, <<"set", 0>>, <<"array", 2>>,
            <<"undefined">>, <<"number">>, <<"eval_error">>, <<"panic">>}
OpaConfigs == {[mapping |-> TRUE, stringKeys |-> TRUE, keys |-> {"kind"}, on_error |-> e, cap |-> c,
                decision_field |-> f, modules |-> <<[package |-> "global", parses |-> p]>>, data |-> <<>>] :
                  e \in {"absent", "allow", "deny"}, c \in {"absent", "one"}, f \in {"absent", "verdict"}, p \in BOOLEAN}
OpaCalls == {[query |-> q, module |-> m, result |-> r] : q \in BOOLEAN, m \in Modules, r \in Results}
OpaCases == {[kind |-> "opa", config |-> c, dialects |-> d,
              calls |-> <<[query |-> TRUE, module |-> m, result |-> <<"bool", FALSE>>], x, x>>] :
                c \in OpaConfigs, d \in {{"opa"}, {"cedar"}}, m \in Modules, x \in OpaCalls}

(***************************************************************************)
(* OPA allows on an affirmative result of a query that ran: true, the      *)
(* decision field true, or an empty collection of objections.  An inline   *)
(* module that joins an operator's package, does not parse or finds the    *)
(* cache full is denied whatever on_error says, and so are a panic and an  *)
(* undefined result.                                                       *)
(***************************************************************************)
OpaFailsClosed ==
    LET built == input.config.modules[1].parses
        field == IF input.config.decision_field = "absent" THEN "allow" ELSE "verdict"
    IN /\ built = (answer[1] # <<>>)
       /\ built => \A i \in DOMAIN input.calls :
             LET call == input.calls[i]
                 got == answer[1][i]
                 result == call.result
                 module == IF call.module = <<>> THEN "none" ELSE call.module[1].src
             IN got.decision = "allow" =>
                   /\ "opa" \in input.dialects /\ call.query /\ module \notin {"joins", "broken"}
                   /\ result[1] \notin {"panic", "undefined"}
                   /\ \/ got.why # "policy" /\ input.config.on_error = "allow"
                      \/ result \in {<<"bool", TRUE>>, <<"set", 0>>}
                      \/ result = <<"object", (field :> <<"bool", TRUE>>)>>
                   /\ ~(input.config.cap = "one" /\ module = "second"
                          /\ input.calls[1].module = Rego("own", "route", TRUE))

-----------------------------------------------------------------------------
(* Cedar: the authorizer permits an admin of an undelegated request and    *)
(* fails when the context has no delegation depth.                         *)

Tree(f) == <<"map", f>>
Str(s) == <<"string", s>>
ResourceTree(id, attr) == Tree(("type" :> Str("Doc")) @@ ("id" :> id) @@ ("attributes" :> Tree("size" :> attr)))
CedarArgs == {Tree(("action" :> a) @@ ("resource" :> ResourceTree(i, t)) @@ ("context" :> Tree(c))) :
                 a \in {Str("read"), Str("malformed"), <<"ref", <<"x">> >>},
                 i \in {Str("d1"), <<"ref", <<"meta", "entity_name">> >>},
                 t \in {<<"int", 3>>, <<"float", 3, TRUE>>, <<"ref", <<"claim", "level">> >>},
                 c \in {NoMap, ("delegation" :> <<"bool", FALSE>>), ("rate" :> <<"float", 3, TRUE>>)}}
CedarBags == {(<<"role", "admin">> :> r) @@ extra @@ (<<"perm", "write">> :> <<"bool", TRUE>>) :
                 r \in {<<"bool", TRUE>>, <<"bool", FALSE>>, Str("yes")},
                 extra \in {(<<"subject", "id">> :> Str("alice")) @@ (<<"delegation", "depth">> :> <<"int", 3>>)
                               @@ (<<"claim", "level">> :> l) @@ (<<"meta", "entity_name">> :> Str("d1")) :
                                  l \in {<<"float", 3, TRUE>>, <<"int", 9>>}}
                           \cup {(<<"delegation", "depth">> :> <<"int", 3>>),
                                 (<<"subject", "id">> :> Str("alice")) @@ (<<"meta", "entity_name">> :> Str("d1"))}}
CedarCases == {[kind |-> "cedar", args |-> a, bag |-> b, schema |-> s, fits |-> f, policies |-> p] :
                  a \in CedarArgs, b \in CedarBags, s \in {"absent", "given"}, f \in BOOLEAN,
                  p \in {"inline", "unparsable"}}

Authorizer(request) ==
    [decision |-> IF <<"admin">> \in request.principal.roles THEN "allow" ELSE "deny",
     errors |-> IF \E l \in request.context : l.path = <<"delegation", "depth">> THEN {} ELSE {"no depth"},
     reason |-> {}]

(***************************************************************************)
(* Cedar is asked, and allows, only for a principal that is named, holds   *)
(* the role as a true flag and passes the authorizer without an error, on  *)
(* arguments whose references all resolve and hold no float.               *)
(***************************************************************************)
CedarFailsClosed ==
    LET f == input.args[2]
        attr == f["resource"][2]["attributes"][2]["size"]
        present(v) == v[1] = "ref" => v[2] \in DOMAIN input.bag
        isFloat(v) == IF v[1] = "ref" THEN input.bag[v[2]][1] = "float" ELSE v[1] = "float"
    IN IF input.policies = "unparsable" THEN answer[1] = <<>>
       ELSE answer[1][1].decision = "allow" <=>
              /\ <<"subject", "id">> \in DOMAIN input.bag
              /\ input.bag[<<"role", "admin">>] = <<"bool", TRUE>>
              /\ <<"delegation", "depth">> \in DOMAIN input.bag /\ "delegation" \notin DOMAIN f["context"][2]
              /\ f["action"] = Str("read") /\ present(f["resource"][2]["id"])
              /\ present(attr) /\ ~isFloat(attr) /\ "rate" \notin DOMAIN f["context"][2]
              /\ input.schema = "given" => input.fits

-----------------------------------------------------------------------------
(* What the decisions read: the bag of a request, whole and as a plugin    *)
(* with some capabilities sees it, and the data tree.                      *)

Is(x) == <<"string", x>>
Object(entries) == <<"object", entries>>
Principal(roles, claims) ==
    [id |-> Is("alice"), type |-> Is("user"), roles |-> roles, permissions |-> <<"p">>, teams |-> <<"t">>, claims |-> claims]
Realm == << <<"a">>, Object(<< << <<"b">>, Is("nested")>>, << <<"c">>, <<"null">> >> >>) >>
Dotted == << <<"a", "b">>, <<"array", << Is("x"), <<"int", 1>>, <<"null">>, <<"bool", TRUE>> >> >> >>
Workload == [spiffe_id |-> Is("spiffe://td/w"), selectors |-> <<"k8s">>]
Secured(subject) ==
    [subject |-> subject, client |-> [client_id |-> Is("app"), trust_level |-> Is("internal"), roles |-> <<"r">>,
        permissions |-> <<>>, authorized_scopes |-> <<"s">>, authorized_audiences |-> <<>>, teams |-> <<>>, claims |-> <<Realm>>],
     caller_workload |-> Workload, this_workload |-> Workload, labels |-> <<"secret">>, classification |-> Is("high"),
     auth_method |-> Is("jwt")]
Rest ==
    [delegation |-> [depth |-> <<"int", 1>>, delegated |-> <<"bool", TRUE>>, age_seconds |-> <<"float", 3, TRUE>>],
     agent |-> [agent_id |-> Is("g"), turn |-> <<"int", 1>>, conversation |-> [topics |-> <<>>, summary |-> Is("s")]],
     meta |-> [entity_type |-> Is("tool"), tags |-> <<"pii">>, properties |-> [owner |-> Is("ops")]],
     request |-> [trace_id |-> Is("1")],
     http |-> [method |-> Is("GET"), request_headers |-> << <<"X-A", Is("one")>>, <<"x-a", Is("two")>> >>, response_headers |-> <<>>],
     llm |-> [model_id |-> Is("m"), capabilities |-> <<>>], mcp |-> [tool |-> [name |-> Is("t")]],
     completion |-> [stop_reason |-> Is("end"), tokens |-> [input |-> <<"int", 1>>], latency_ms |-> <<"int", 9>>],
     provenance |-> [source |-> Is("s")], framework |-> [framework |-> Is("f"), metadata |-> <<Dotted>>],
     custom |-> <<Realm, << <<"big">>, <<"int", 9>> >> >>]
Subjects == {Principal(r, c) : r \in {<<>>, <<"hr">>}, c \in {<<Realm, Dotted>>, <<Dotted, Realm>>}}
               \cup {Without(Principal(<<"hr">>, <<Realm>>), "id")}
Requestors == {Rest} \cup {[security |-> Secured(s)] : s \in Subjects} \cup {Rest @@ [security |-> Secured(s)] : s \in Subjects}
                 \cup {[security |-> Without(Secured(s), "subject")] : s \in Subjects}
Gates == {"read_subject", "read_roles", "read_permissions", "read_teams", "read_claims", "read_labels", "read_client",
          "read_workload", "read_delegation", "read_agent", "read_headers", "read_meta", "append_labels"}
BagCases == {[kind |-> "bag", ext |-> e, caps |-> c] :
                e \in Requestors, c \in {c \in SUBSET Gates : Cardinality(c) <= 2} \cup {Gates}}

(***************************************************************************)
(* A plugin's view of the bag holds nothing the request does not: a key it *)
(* shows has its value, or is a set shown empty.  A caller counts as       *)
(* authenticated exactly when its id is shown.  What a capability adds is  *)
(* an empty set or what capability_namespaces lists for it, but for        *)
(* team.*, this_workload.* and security.labels, which that table lacks.    *)
(***************************************************************************)
ViewsNeverGrant ==
    LET a == answer[1]
        shown == input.caps \cap {"read_subject", "read_roles", "read_permissions", "read_teams", "read_claims"} # {}
        id == IF "security" \in DOMAIN input.ext /\ "subject" \in DOMAIN input.ext.security
              THEN "id" \in DOMAIN input.ext.security.subject ELSE FALSE
        added == {k \in DOMAIN a.view : a.view[k] # <<"set", {}>> /\ (k \notin DOMAIN a.bare \/ a.view[k] # a.bare[k])}
    IN /\ \A k \in DOMAIN a.view :
             k \in DOMAIN a.full /\ (a.view[k] = a.full[k] \/ (a.view[k] = <<"set", {}>> /\ a.full[k][1] = "set"))
       /\ (<<"authenticated">> \in DOMAIN a.view) = (shown /\ id)
       /\ \A k \in added : \/ k[1] \in {"team", "this_workload"}
                           \/ k = <<"security", "labels">>
                           \/ \E e \in A!UnlockedBagPrefixes(input.caps) : A!Covers(e, k)
       /\ input.caps = Gates => a.view = a.full

Leaf(v) == Object(<< << <<"org">>, Object(<< << <<"region">>, Is(v)>> >>) >> >>)
DataTrees == {Leaf("us"), Leaf("eu"), Object(<< << <<"org">>, Object(<< << <<"tier">>, Is("gold")>> >>) >> >>),
              Object(<< << <<"org">>, Is("flat")>> >>), Object(<< << <<"org">>, Object(<<>>)>> >>),
              Object(<< << <<"tags">>, <<"array", << Is("x"), <<"int", 1>> >> >> >> >>)}
Files == {<<>>, << <<"null">> >>, <<Is("x")>>, <<Object(<<>>)>>, <<Object(<< << <<"org">>, Is("us")>> >>)>>}
            \cup {<<Object(<< << <<"data">>, d>> >>)>> : d \in DataTrees \cup {<<"null">>, Is("x")}}
DataCases == {[kind |-> "data", files |-> f] : f \in UpTo(2, Files) \cup [1..3 -> {<<Object(<< << <<"data">>, d>> >>)>> : d \in DataTrees}]}

RECURSIVE Nodes(_, _)
Nodes(doc, at) ==
    {<<at, IF doc[1] = "object" THEN <<"object">> ELSE doc>>}
        \cup (IF doc[1] # "object" THEN {} ELSE UNION {Nodes(e[2], Append(at, e[1])) : e \in Range(doc[2])})

(***************************************************************************)
(* The data tree is what the attribute files say together, in whatever     *)
(* order they are listed; a file that cannot be read or says something     *)
(* else about the same place stops the load.                               *)
(***************************************************************************)
DataIsWhole ==
    LET a == answer[1]
        tree(file) == IF file[1][1] = "object" /\ file[1][2] # <<>> THEN file[1][2][1][2] ELSE <<"null">>
        wrong(file) == IF file = <<>> THEN TRUE
                       ELSE \/ file[1][1] = "string"
                            \/ tree(file)[1] \notin {"null", "object"}
                            \/ file[1][1] = "object" /\ file[1][2] # <<>> /\ file[1][2][1][1] # <<"data">>
        said == {<<<<>>, <<"object">> >>}
                   \cup UNION {Nodes(tree(f), <<>>) : f \in {f \in Range(input.files) : ~wrong(f) /\ tree(f)[1] = "object"}}
    IN IF (\E f \in Range(input.files) : wrong(f)) \/ (\E x, y \in said : x[1] = y[1] /\ x[2] # y[2])
       THEN a.loaded = <<>> /\ a.backwards = <<>>
       ELSE Nodes(a.loaded[1], <<>>) = said /\ Nodes(a.backwards[1], <<>>) = said

(***************************************************************************)
(* Every decision that is not the policy's own goes against the request,   *)
(* unless the operator's on_error said otherwise; and what a decision      *)
(* reads never says more than the request did: see the six parts.          *)
(***************************************************************************)
DecisionsFailClosed ==
    answer # <<>> => /\ input.kind = "bag" => ViewsNeverGrant
                     /\ input.kind = "data" => DataIsWhole
                     /\ input.kind = "predicate" => AbsenceNeverGrants
                     /\ input.kind = "cel" => CelFailsClosed
                     /\ input.kind = "opa" => OpaFailsClosed
                     /\ input.kind = "cedar" => CedarFailsClosed

-----------------------------------------------------------------------------
(* Field pipelines. *)

Digits == D!Text(4, 4, ("uuid" :> 4) @@ ("last2" :> 2))
FieldValues == {Digits, [Digits EXCEPT !.kind = "int", !.n = 7, !.need = NoMap]}
Unbounded == [min |-> <<>>, max |-> <<>>]
Stage(op) == [op |-> op]
OnRole == <<Cond([c |-> "is_true", key |-> ReadX])>>
PluginStage(verdict, value) == [op |-> "plugin", verdict |-> verdict, value |-> value, taints |-> <<"plugin">>]
Stages ==
    {Stage("hash"), Stage("omit"), Stage("validate"), [op |-> "redact", condition |-> <<>>],
     [op |-> "redact", condition |-> OnRole], [op |-> "mask", keep_last |-> 2], [op |-> "mask", keep_last |-> 9],
     [op |-> "type", t |-> "uuid"], [op |-> "type", t |-> "float"], [op |-> "regex", pattern |-> "last2", valid |-> TRUE],
     [op |-> "enum", values |-> {"uuid"}], [op |-> "length", min |-> <<>>, max |-> <<8>>],
     [op |-> "range", min |-> <<7>>, max |-> <<>>], [op |-> "taint", label |-> "T"],
     [op |-> "scan", kind |-> "injection_scan"], [op |-> "scan", kind |-> "pii_redact"],
     PluginStage("allow", <<>>), PluginStage("allow", <<D!Text(3, 0, NoMap)>>), PluginStage("deny", <<>>),
     PluginStage("error", <<>>)}
PipelineCases == {[kind |-> "pipeline", stages |-> s, value |-> v, bag |-> b] :
                     s \in UpTo(2, Stages) \cup {<<[op |-> "mask", keep_last |-> 2]>> \o t : t \in [1..2 -> Stages]},
                     v \in FieldValues, b \in {NoMap, KeyX :> <<"bool", TRUE>>}}

Erases(stage) ==
    \/ stage.op = "hash"
    \/ stage.op = "scan" /\ stage.kind = "pii_redact"
    \/ stage.op = "redact" /\ (stage.condition = <<>> \/ input.bag # NoMap)
    \/ stage.op = "plugin" /\ stage.value # <<>>
Keeps(stage) == IF Erases(stage) THEN 0 ELSE IF stage.op = "mask" THEN stage.keep_last ELSE 4

(***************************************************************************)
(* The characters of a field that are still readable are no more than the  *)
(* strictest stage leaves, in whatever order the stages come; a value is   *)
(* reported unchanged only when no stage rewrote it; a field that is       *)
(* refused or left out stops there, with the labels of the stages before.  *)
(***************************************************************************)
HiddenStaysHidden ==
    LET a == answer[1]
        stages == input.stages
        run == SubSeq(stages, 1, a.at)
        labels(s) == Cardinality({i \in DOMAIN s : D!Emits(s[i]) # <<>>})
    IN /\ a.outcome \in {"pass", "replace"} =>
             /\ a.at = Len(stages)
             /\ \A i \in DOMAIN stages : stages[i].op \notin {"omit", "validate"} /\ a.current.shown <= Keeps(stages[i])
       /\ a.outcome = "pass" <=> /\ a.at = Len(stages) /\ a.current = input.value
                                 /\ \A i \in DOMAIN stages : stages[i].op \notin {"omit", "mask"} /\ ~Erases(stages[i])
                                 /\ a.outcome # "deny"
       /\ a.outcome \in {"deny", "omit"} => a.at > 0
       /\ Len(a.taints) = labels(run)

-----------------------------------------------------------------------------
(* The pipeline's edits and a plugin's, on one message. *)

Scalars == {<<"scalar", 1>>, <<"scalar", 2>>}
Partial(K_, W) == UNION {[S -> W] : S \in SUBSET K_}
Inner == {<<"map", f>> : f \in Partial({"x"}, Scalars)}
Objects == {<<"map", f>> : f \in Partial({"a", "b"}, Scalars \cup Inner)}
Replacing == {<<"text", s>> : s \in {<<>>, <<"p">>, <<"p", "q">>}}

Part(kind, value) == [part |-> kind, value |-> value]
MergeCases ==
    {[kind |-> "merge", phase |-> c[1], pre |-> r, post |-> q, base |-> c[2]] :
        r \in Objects,
        q \in {<<"map", f>> : f \in Partial({"a", "b"}, {<<"scalar", 1>>, <<"map", NoMap>>, <<"map", "x" :> <<"scalar", 2>> >>})},
        c \in {"args", "result"} \X ({o \in Objects : "b" \in DOMAIN o[2]} \cup Replacing)
                 \cup {<<"result", <<"scalar", 2>> >>}}

(* What the plugin left: the part with its value, or, where it replaced    *)
(* the part by text, a text part for each word.                            *)
Carrier(phase, value) ==
    IF M!IsText(value) THEN [i \in DOMAIN value[2] |-> Part("text", <<"text", <<value[2][i]>> >>)]
    ELSE IF phase = "args"
    THEN <<Part("text", <<"text", <<"hi">> >>), Part("tool_call", value), Part("prompt_request", <<"map", NoMap>>)>>
    ELSE <<Part("other", <<"scalar", 0>>), Part("tool_result", value)>>

At(v, k) == IF M!IsMap(v) /\ k \in DOMAIN v[2] THEN <<v[2][k]>> ELSE <<>>

(***************************************************************************)
(* Where a plugin and a pipeline edited the same payload: nothing but the  *)
(* carrying part of the message changes; a key the pipeline changed or     *)
(* removed is as the pipeline left it; a key it did not touch is as the    *)
(* plugin left it, one level down too; and without a plugin the payload    *)
(* is exactly what the pipeline made.  Where the plugin put text in the    *)
(* place of the part, its text stands.  One exception: of several text     *)
(* parts the first receives the whole text when the pipeline's write       *)
(* changed nothing, and what the later parts say is then there twice.      *)
(***************************************************************************)
BothEditorsKept ==
    LET msg == answer[1]
        got == msg[2].value
    IN IF M!IsText(input.base)
       THEN M!TextContent(msg) = input.base \/ (input.pre = input.post /\ Len(input.base[2]) > 1)
       ELSE
       /\ \A i \in DOMAIN msg \ {2} : msg[i] = Carrier(input.phase, input.base)[i]
       /\ input.base = input.pre => got = input.post
       /\ input.pre # input.post => \A k \in {"a", "b"} :
             LET r == At(input.pre, k)
                 q == At(input.post, k)
                 b == At(input.base, k)
                 g == At(got, k)
                 maps == r # <<>> /\ q # <<>> /\ b # <<>> /\ M!IsMap(r[1]) /\ M!IsMap(q[1]) /\ M!IsMap(b[1])
             IN IF ~M!IsMap(input.base) THEN g = q
                ELSE IF r = q THEN g = b
                ELSE IF ~maps THEN g = q
                ELSE At(g[1], "x") = IF At(r[1], "x") = At(q[1], "x") THEN At(b[1], "x") ELSE At(q[1], "x")

(* The PII scanner before the audit logger and the views, on messages with *)
(* findings in several parts and places.  The custom pattern "any" matches *)
(* the redaction marker too.                                               *)

Json(type, hits, id) == [type |-> type, hits |-> hits, id |-> id]
Secret == Json("string", {"ssn", "any"}, "secret")
Strings == {Json("string", {}, "plain"), Json("string", {"any"}, "odd"), Secret}
Piece(kind, args, text) ==
    [kind |-> kind, name |-> IF kind = "resource" THEN <<>> ELSE <<"n">>, uri |-> "u", args |-> args, text |-> text, mime |-> <<>>]
Pieces == {Piece(k, ("x" :> v) @@ ("y" :> w), <<>>) : k \in {"tool_call", "prompt_request"}, v \in Strings,
                                                      w \in {Secret, Json("object", {"ssn"}, "tree")}}
             \cup {Piece(k, NoMap, <<v>>) : k \in {"text", "thinking"}, v \in Strings}
             \cup {Piece("tool_result", NoMap, <<Json("object", {"ssn"}, "tree")>>), Piece("resource", NoMap, <<>>),
                   Piece("image", NoMap, <<>>)}
Detect(name) == [name |-> name, compiles |-> name # "bad"]
ScannerConfigs == {<<>>, << <<>> >>}
                     \cup {<< <<[mode |-> m, detect |-> d]>> >> : m \in {"deny", "redact"},
                              d \in {<<Detect("ssn")>>, <<Detect("any"), Detect("ssn")>>, <<Detect("ssn"), Detect("bad")>>}}
Shown == [security |-> <<[subject |-> <<[id |-> <<"alice">>, type |-> <<>>, roles |-> {"hr"}, permissions |-> {}, teams |-> {}]>>,
                          client |-> <<>>, labels |-> {"pii"}]>>,
          environment |-> <<"prod">>, headers |-> <<("Cookie" :> "c") @@ ("x-trace" :> "t")>>,
          agent |-> <<[input |-> <<>>, session_id |-> <<"s">>, conversation_id |-> <<>>, turn |-> <<1>>, agent_id |-> <<>>,
                       parent_agent_id |-> <<>>]>>,
          meta |-> <<[entity_type |-> <<"tool">>, entity_name |-> <<"n">>, tags |-> {}]>>,
          delegated |-> <<{[audience |-> "api", scopes |-> {"r"}, token |-> "T"]}>>]
ScanCases == {[kind |-> "scan", config |-> c, hooks |-> <<"cmf.tool_pre_invoke">>, message |-> m] :
                 c \in {c \in ScannerConfigs : P!NewScanner(c) # <<>>}, m \in UpTo(2, Pieces)}
                \cup {[kind |-> "scan", config |-> c, hooks |-> h, message |-> <<>>] :
                          c \in ScannerConfigs, h \in {<<>>, <<"cmf.tool_pre_invoke">>}}

(* Where the scanner looks, and what it finds there. *)
Places(message) ==
    UNION {IF message[i].kind = "text" THEN {<<i, message[i].text[1]>>}
           ELSE IF message[i].kind \in {"tool_call", "prompt_request"}
                THEN {<<i, message[i].args[a]>> : a \in {a \in DOMAIN message[i].args : message[i].args[a].type = "string"}}
                ELSE {} : i \in DOMAIN message}
Findings(message) ==
    {x \in Places(message) : \E i \in DOMAIN input.config[1][1].detect : input.config[1][1].detect[i].name \in x[2].hits}

(***************************************************************************)
(* A message that passes the scanner has no finding left but the marker,   *)
(* in any part and not only in the first with one, and is otherwise as it  *)
(* was; the audit record and the views show that message, not the one      *)
(* before it; no view carries a sensitive header, and none carries text or *)
(* context it was not asked for.  A scanner whose pattern does not compile *)
(* or that has no hook to run on is not built at all.                      *)
(***************************************************************************)
PassedIsScanned ==
    LET a == answer[1]
        clean(x) == \A y \in {y \in Places(a.message) : y[1] = x[1]} : y[2] = P!Marker \/ y \in Places(input.message) \ Findings(input.message)
        paths(d) == {e[1] : e \in d}
        calls(i) == a.message[i].kind \in {"tool_call", "prompt_request"}
    IN IF a.built = <<>>
       THEN \/ input.config \in {<<>>, << <<>> >>} \/ input.hooks = <<>>
            \/ \E i \in DOMAIN input.config[1][1].detect : ~input.config[1][1].detect[i].compiles
       ELSE /\ a.verdict = "allow" <=> Findings(input.message) = {}
            /\ a.verdict # "modify" => a.message = input.message
            /\ a.verdict = "deny" <=> input.config[1][1].mode = "deny" /\ Findings(input.message) # {}
            /\ a.verdict = "modify" => \A x \in Places(input.message) : clean(x)
            /\ \A x \in Places(input.message) \ Findings(input.message) : x \in Places(a.message)
            /\ \A i \in DOMAIN a.message :
                  LET d(text, context) == a.views[i][<<text, context>>]
                  IN /\ <<"extensions", "headers", "x-trace">> \in paths(d(FALSE, TRUE))
                     /\ <<"extensions", "headers", "Cookie">> \notin paths(d(TRUE, TRUE))
                     /\ \A p \in paths(d(TRUE, FALSE)) : p[1] # "extensions"
                     /\ <<"content">> \notin paths(d(FALSE, TRUE))
                     /\ a.opa[i] = {<< <<"input">> \o e[1], e[2]>> : e \in d(TRUE, TRUE)}
                     /\ calls(i) => << <<"arguments">>, a.message[i].args>> \in d(FALSE, FALSE)
                     /\ calls(i) /\ (\A j \in 1..i - 1 : ~calls(j)) => a.record.call[1].args = a.message[i].args
            /\ a.record.tokens = {[audience |-> "api", scopes |-> {"r"}]}

(* What a pipeline or the scanner hides is hidden in the message that goes *)
(* on, and an edit of the one does not undo an edit of the other.          *)
EditsReachTheMessage ==
    answer # <<>> => /\ input.kind = "pipeline" => HiddenStaysHidden
                     /\ input.kind = "merge" => BothEditorsKept
                     /\ input.kind = "scan" => PassedIsScanned

-----------------------------------------------------------------------------
(* Routing restrictions: two `restrict` steps in both orders, and the glob *)
(* matcher on its own.                                                     *)

Pattern == <<"v", "*">>
ModelA == <<"v", "a">>
ModelB == <<"v", "b">>
SetKey == << <<"lit", <<"models">> >> >>
ConstraintBag == (<<"models">> :> <<"set", {ModelA, Pattern}>>)
Lists == {<<>>, << <<"literal", {Pattern}>> >>, << <<"literal", {ModelA, ModelB}>> >>, << <<"ref", SetKey>> >>,
          << <<"ref", ReadX>> >>}
Restricts == {[allow_models |-> a, deny_models |-> d, allow_regions |-> r, allow_sites |-> <<>>,
               max_cost_tier |-> t, custom |-> c, on_empty |-> o] :
                 a \in Lists, d \in {<<>>, << <<"literal", {ModelB}>> >>, << <<"ref", ReadX>> >>},
                 r \in {<<>>, << <<"literal", {"eu"}>> >>}, t \in {<<>>, <<"low">>},
                 c \in {NoMap, ("team" :> "red"), ("team" :> "blue")}, o \in {"deny", "fallback"}}
RestrictCases == {[kind |-> "restrict", specs |-> <<r, s>>] :
                     r \in Restricts, s \in {s \in Restricts : s.max_cost_tier = <<>> /\ s.on_empty = "fallback"}}
Rank == ("low" :> 1) @@ ("high" :> 2)
Backends == {m @@ t @@ ("team" :> "red") @@ r : m \in {NoMap, "model" :> ModelA, "model" :> ModelB, "model" :> <<"w">>},
                t \in {NoMap, "cost_tier" :> "low", "cost_tier" :> "high", "cost_tier" :> "odd"},
                r \in {NoMap, "region" :> "eu"}}
GlobCases == {[kind |-> "glob", pattern |-> p, text |-> t] :
                 p \in UpTo(4, {"a", "b", "*"}), t \in UpTo(4, {"a", "b"})}

RECURSIVE Covers(_, _)
Covers(p, t) ==
    IF p = <<>> THEN t = <<>>
    ELSE IF Head(p) = "*" THEN \E i \in 0..Len(t) : Covers(Tail(p), SubSeq(t, i + 1, Len(t)))
    ELSE t # <<>> /\ Head(p) = Head(t) /\ Covers(Tail(p), Tail(t))

(* One restriction by itself, as its author reads it. *)
Models(list) == IF list[1] = "literal" THEN list[2] ELSE IF list[2] = SetKey THEN {ModelA, Pattern} ELSE {}
Permits(spec, backend) ==
    LET model == "model" \in DOMAIN backend
    IN /\ spec.allow_models # <<>> => model /\ \E p \in Models(spec.allow_models[1]) : Covers(p, backend["model"])
       /\ (spec.deny_models # <<>> /\ model) => ~\E p \in Models(spec.deny_models[1]) : Covers(p, backend["model"])
       /\ spec.allow_regions # <<>> => "region" \in DOMAIN backend
       /\ spec.max_cost_tier # <<>> => "cost_tier" \in DOMAIN backend /\ backend["cost_tier"] = "low"
       /\ \A k \in DOMAIN spec.custom : spec.custom[k] = "red"

(***************************************************************************)
(* A backend that survives the folded constraint satisfies every restrict  *)
(* of the request, in whatever order the branches emitted them; a deny     *)
(* list that cannot be read stops the request; and only restricts that all *)
(* say so let the host fall back when nobody is left.                      *)
(***************************************************************************)
RestrictionsHold ==
    answer # <<>> =>
       /\ input.kind = "glob" => answer[1] = Covers(input.pattern, input.text)
       /\ input.kind = "restrict" =>
             LET specs == Range(input.specs)
                 a == answer[1]
                 silent == \E s \in specs : s.deny_models = << <<"ref", ReadX>> >>
                 teams == UNION {Range(s.custom) : s \in specs}
             IN /\ a.stopped = (silent \/ Cardinality(teams) > 1)
                /\ ~a.stopped =>
                      /\ a.folded = a.reversed
                      /\ a.folded = <<>> => \A s \in specs : K!RestrictIsEmpty(s)
                      /\ a.folded # <<>> =>
                            /\ (a.folded[1].on_empty = "fallback") = \A s \in specs : s.on_empty = "fallback"
                            /\ \A b \in Backends : K!Accepts(a.folded[1], b, Rank) => \A s \in specs : Permits(s, b)

-----------------------------------------------------------------------------
(* Resolvers with inline issuers and issuers whose keys are fetched, and   *)
(* what their key endpoints answer.                                        *)

MCTrustDomain == "spiffe://td/w" :> "td"
Jwks == [kind |-> "jwks_url", scheme |-> "https", insecure_http |-> FALSE, reads |-> TRUE, key |-> ""]
Pem == [Jwks EXCEPT !.kind = "pem", !.key = "KP"]
Issuer(name, source) == [issuer |-> name, algorithms |-> {"RS256"}, audiences |-> {"gw"}, leeway |-> 0,
                         source |-> source]
ResolverFor(issuers, role) == [trusted_issuers |-> issuers, claim_mapper |-> "standard", role |-> role, header |-> "h"]
IdentityConfigs ==
    {ResolverFor(i, r) :
        i \in {<<Issuer("B", Pem), Issuer("A", Jwks)>>, <<Issuer("A", [Jwks EXCEPT !.scheme = "http"])>>,
               <<[Issuer("A", Jwks) EXCEPT !.algorithms = {}]>>},
        r \in J!Roles \cup {"custom"}}
    \cup {ResolverFor(<<Issuer("A", Jwks), Issuer("B", Pem), Issuer("C", [Jwks EXCEPT !.insecure_http = TRUE])>>, "user")}
IdentityCases == {[kind |-> "identity", config |-> c] : c \in IdentityConfigs}

Entry(kid, key, use) == [kid |-> kid, key |-> key, use |-> use, reads |-> TRUE]
Replies == {<<>>, <<<<>>>>, << <<Entry("k1", "K1", "sig")>> >>, << <<Entry("k2", "K2", "absent"), Entry("k1", "K9", "enc")>> >>,
            << <<Entry("k1", "K1", "sig"), Entry("k1", "K2", "sig")>> >>}

ClaimSets == {("sub" :> <<"string", "alice">>) @@ ("roles" :> <<"array", <<"dev">> >>),
              ("client_id" :> <<"string", "app">>) @@ ("spiffe_id" :> <<"string", "spiffe://td/w">>),
              ("client_id" :> <<"other">>) @@ ("azp" :> <<"string", "app">>)}
JwtTokens == {[form |-> f, iss |-> i, kid |-> d, alg |-> "RS256", key |-> k, aud |-> {"gw"}, exp |-> e, nbf |-> 0, claims |-> c] :
              f \in {"jwt", "opaque"}, i \in {"A", "B"}, d \in {"", "k1", "k2"}, k \in {"K1", "K2", "KX", "KP"},
              e \in {1, 9}, c \in ClaimSets}
              \cup {[form |-> "jwt", iss |-> i, kid |-> "k1", alg |-> a, key |-> "K1", aud |-> u, exp |-> 9, nbf |-> n,
                      claims |-> c] : i \in {"A", "C"}, a \in {"RS256", "none"}, u \in {{"gw"}, {"x"}}, n \in {0, 9}, c \in ClaimSets}
NoSlots == [r \in J!Roles |-> <<>>]
Asked(headers, raw_token, slots) ==
    {[headers |-> headers, raw_token |-> raw_token, slots |-> slots, host |-> [NoSlots EXCEPT !["user"] = <<"host">>], now |-> n] :
        n \in {0, 4}}
Requests ==
    UNION ({Asked("h" :> t, <<>>, NoSlots) : t \in JwtTokens} \cup {Asked(NoMap, <<>>, NoSlots)}
              \cup {Asked(NoMap, <<t>>, [NoSlots EXCEPT !["client"] = <<"earlier">>]) : t \in {t \in JwtTokens : t.exp = 9}})

-----------------------------------------------------------------------------
(* A delegate step, before or after another one of the same request. *)

StepCfg(subject, actor, audience, permissions) ==
    [subject |-> subject, actor |-> actor, audience |-> audience, permissions |-> permissions,
     target |-> "absent", target_type |-> "absent", enforced_by |-> "both"]
Steps == {[plugin_name |-> "oauth", cfg |-> StepCfg(s, a, u, q)] :
              s \in {"absent", "client", "workload", "gateway", "bogus"}, a \in {"absent", "user", "client", "workload", "bogus"},
              u \in {"absent", "api"}, q \in {{}, {"r"}}}
         \cup {[plugin_name |-> p, cfg |-> StepCfg("absent", a, "api", {"r"})] : p \in {"silent", "nobody"}, a \in {"absent", "bogus"}}
TokenReply(scope, ttl) == [kind |-> "token", token |-> "T", scope |-> scope, expires_in |-> ttl]
Legs == {TokenReply(s, t) : s \in {<<>>, <<{"r"}>>, <<{"w"}>>}, t \in {<<>>, <<6>>}}
            \cup {TokenReply(<<{"r"}>>, <<8>>), TokenReply(<<>>, <<-1>>)}
            \cup {[kind |-> k] : k \in {"timeout", "rejected", "unreachable", "garbled"}}
Parties == [ids |-> [r \in J!Roles |-> <<r>>], tokens |-> {}, chain |-> <<>>,
            inbound |-> ("user" :> <<"U">>) @@ ("client" :> <<"C">>) @@ ("caller_workload" :> <<"W">>)]
Bound == <<[capabilities |-> {"extra"}, ttl |-> <<2>>]>>
Steady == [step |-> [plugin_name |-> "oauth", cfg |-> StepCfg("user", "absent", "api", {"r"})],
           legs |-> <<TokenReply(<<{"r"}>>, <<5>>), [kind |-> "timeout"]>>, bound |-> <<>>]
ForClient == [Steady EXCEPT !.step.cfg.subject = "client"]
Varied == {[step |-> s, legs |-> <<l, m>>, bound |-> b] :
              s \in Steps, l \in Legs, m \in {TokenReply(<<{"r"}>>, <<6>>), [kind |-> "timeout"]}, b \in {<<>>, Bound}}
OnOwnBehalf == {v \in Varied : v.step.cfg.subject = "client"}
DelegationCases ==
    {[kind |-> "delegation", calls |-> c, ext |-> e, plan |-> {"oauth", "silent"}, silent |-> {"silent"},
      delegator |-> [endpoint |-> "https", insecure_http |-> FALSE, client_id |-> "gw",
                     secret |-> [available |-> TRUE, secret |-> "s"], header |-> "Authorization"]] :
        c \in {<<v, Steady>> : v \in Varied} \cup {<<Steady, v>> : v \in Varied} \cup {<<v, ForClient>> : v \in OnOwnBehalf},
        e \in {Parties, [Parties EXCEPT !.inbound["client"] = <<>>]}}

(* Every configuration of the valkey session store over four hosts, and of *)
(* two whose text after the last '@' is another host.                      *)

Embedded == <<[user |-> "u1", pass |-> "p1"]>>
Endpoints == {[scheme |-> s, userinfo |-> u, host |-> h, later |-> l, parses |-> p] : s \in {"none", "redis", "rediss"},
                 u \in {<<>>, Embedded}, h \in {"localhost", "[::1]", "::1", "db"}, l \in {<<>>, <<"localhost">>, <<"db">>}, p \in BOOLEAN}
StoreCases == {[kind |-> "store", config |-> [endpoint |-> e, tls |-> t, username |-> u, password |-> p, ttl_seconds |-> l]] :
                  e \in Endpoints, t \in BOOLEAN, u \in {<<>>, <<"u2">>}, p \in {<<>>, <<"p2">>}, l \in {<<>>, <<1>>, <<8>>, <<9>>}}

Cases == IdentityCases \cup DelegationCases \cup StoreCases

-----------------------------------------------------------------------------
Init ==
    /\ \/ input \in PredicateCases \/ input \in CelCases \/ input \in OpaCases \/ input \in CedarCases
       \/ input \in PipelineCases \/ input \in MergeCases \/ input \in RestrictCases \/ input \in GlobCases
       \/ input \in ScanCases \/ input \in BagCases \/ input \in DataCases \/ input \in CredentialCase
    /\ answer = <<>>

Predicate ==
    /\ Pending("predicate")
    /\ answer' = <<[full |-> D!EvalExpression(input.expr, input.bag),
                    without |-> [k \in DOMAIN input.bag |-> D!EvalExpression(input.expr, Without(input.bag, k))],
                    rules |-> D!EvaluateRules(RulesOf(input.expr), input.bag)]>>

CallCel ==
    /\ Pending("cel")
    /\ LET built == D!CelFromConfig(input.config)
           small == [built[1] EXCEPT !.max_cache_entries = 1]
           call(r, i) == D!CelEvaluate(r, CelCall(input.exprs[i]), input.bag, input.order)
           one == call(small, 1)
           two == call(one[1], 2)
       IN answer' = IF built = <<>> THEN << <<>> >> ELSE << <<one[2], two[2], call(two[1], 3)[2]>> >>

CallOpa ==
    /\ Pending("opa")
    /\ LET built == D!OpaFromConfig(input.config)
           one == D!OpaEvaluate(built[1], input.calls[1])
           two == D!OpaEvaluate(one[1], input.calls[2])
           routed(d) == D!RouteCall(input.dialects, "opa", d)
       IN answer' = IF built = <<>> THEN << <<>> >>
                    ELSE << <<routed(one[2]), routed(two[2]), routed(D!OpaEvaluate(two[1], input.calls[3])[2])>> >>

CallCedar ==
    /\ Pending("cedar")
    /\ LET built == D!CedarFromConfig([mapping |-> TRUE, policies |-> input.policies, schema |-> input.schema,
                                       dialect |-> "absent", namespace |-> "absent"])
       IN answer' = IF built = <<>> THEN << <<>> >>
                    ELSE LET request == D!CedarRequest(built[1], [args |-> input.args, fitsSchema |-> input.fits], input.bag)
                         IN << <<D!CedarEvaluate(request, Authorizer(request[1]))>> >>

ShowBag ==
    /\ Pending("bag")
    /\ LET message == Object(<<Dotted, Realm>>)
           bag(ext) == A!All(<<A!BuildBag(ext, "tool:t", Leaf("us")), A!ExtractArgs(message), A!ExtractResult(message)>>)
       IN answer' = <<[full |-> bag(input.ext), view |-> bag(A!Visible(input.ext, input.caps)),
                       bare |-> bag(A!Visible(input.ext, {}))]>>

LoadData ==
    /\ Pending("data")
    /\ LET n == Len(input.files)
       IN answer' = <<[loaded |-> A!Load(input.files), backwards |-> A!Load([i \in 1..n |-> input.files[n + 1 - i]])]>>

RunPipeline == Pending("pipeline") /\ answer' = <<D!EvaluatePipeline(input.stages, input.value, input.bag)>>

MergeEdits ==
    /\ Pending("merge")
    /\ LET msg == Carrier(input.phase, input.base)
       IN answer' = <<IF input.phase = "args"
                      THEN M!WriteArgsBack(msg, M!ApplyChangedPaths(M!ExtractArgs(msg), input.pre, input.post))
                      ELSE M!WriteResultBack(msg, M!ApplyChangedPaths(M!ExtractResult(msg), input.pre, input.post))>>

ScanMessage ==
    /\ Pending("scan")
    /\ LET built == P!Create(P!NewScanner(input.config), input.hooks)
       IN IF built = <<>> THEN answer' = <<[built |-> <<>>]>>
          ELSE \E r \in P!Scan(built[1].plugin, input.message) :
                  LET views == V!IterViews(r.message, "user", <<[name |-> "cmf.tool_pre_invoke", holds |-> {"pre"}]>>, <<Shown>>)
                  IN answer' = <<[built |-> built, verdict |-> r.verdict, message |-> r.message,
                                  record |-> P!BuildRecord(P!NewLogger(<<>>)[1], r.message, Shown),
                                  views |-> [i \in DOMAIN views |-> [f \in BOOLEAN \X BOOLEAN |-> V!ToDict(views[i], f[1], f[2])]],
                                  opa |-> [i \in DOMAIN views |-> V!ToOpaInput(views[i], TRUE)]]>>

FoldRestricts ==
    /\ Pending("restrict")
    /\ LET got == [i \in {1, 2} |-> K!ResolveRestrict(input.specs[i], ConstraintBag)]
           fold(i, j) == K!FoldCandidateConstraints(<<got[i][1], got[j][1]>>)
       IN answer' = <<IF got[1] = <<>> \/ got[2] = <<>> THEN [stopped |-> TRUE]
                      ELSE IF fold(1, 2).conflict THEN [stopped |-> TRUE]
                      ELSE [stopped |-> FALSE, folded |-> fold(1, 2).folded, reversed |-> fold(2, 1).folded]>>

MatchGlob == Pending("glob") /\ answer' = <<K!GlobMatch(input.pattern, input.text)>>

Next ==
    \/ ShowBag \/ LoadData \/ Predicate \/ CallCel \/ CallOpa \/ CallCedar \/ RunPipeline \/ MergeEdits \/ ScanMessage \/ FoldRestricts \/ MatchGlob
    \/ CredentialNext
Spec == Init /\ [][Next]_vars
=============================================================================
