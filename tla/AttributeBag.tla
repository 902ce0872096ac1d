---------------------------- MODULE AttributeBag ----------------------------
(***************************************************************************)
(* The attribute bag of a request (ppe-apl-cmf): typed extensions, the     *)
(* call's arguments and result and the static data tree, flattened into    *)
(* the keys a policy reads; what of them a plugin is shown                 *)
(* (extensions/filter.rs), and the table that tells operators so           *)
(* (capability_namespaces.rs); the data tree merged from attribute files   *)
(* (attribute_source.rs).                                                  *)
(*                                                                         *)
(* A bag is the one of Attributes: keys are sequences of segments.  A      *)
(* document is <<"null">>, a tagged scalar, <<"array", items>> or          *)
(* <<"object", entries>>, an entry being <<segments, document>> in the     *)
(* order the map is iterated.  A slot maps the names of the fields it has  *)
(* to their values; an optional field that is absent is not in its domain. *)
(***************************************************************************)
EXTENDS Integers, Sequences, FiniteSets, SequencesExt

CONSTANTS Lower,    \* header names in lower case
          Shown,    \* the text of a number or a truth value
          MaxI64

NoKeys == [k \in {} |-> 0]
Over(bag, more) ==
    [k \in DOMAIN bag \cup DOMAIN more |-> IF k \in DOMAIN more THEN more[k] ELSE bag[k]]
Put(key, value) == [k \in {key} |-> value]

-----------------------------------------------------------------------------
(* Documents. *)

Number(n) == IF n <= MaxI64 THEN <<"int", n>> ELSE <<"float", 2 * n, TRUE>>
Nested(item) == item[1] \in {"array", "object"}
ElementText(item) == IF item[1] = "string" THEN item[2] ELSE Shown[item]

(* The keys a document sets below prefix; a later entry overrides. *)
RECURSIVE Walk(_, _)
Walk(value, prefix) ==
    CASE value[1] = "object" ->
            FoldLeft(LAMBDA bag, e : Over(bag, Walk(e[2], prefix \o e[1])), NoKeys, value[2])
      [] value[1] = "array" ->
            IF \E i \in DOMAIN value[2] : Nested(value[2][i]) THEN NoKeys
            ELSE Put(prefix, <<"set", {ElementText(x) : x \in {y \in ToSet(value[2]) : y[1] # "null"}}>>)
      [] value[1] = "null" -> NoKeys
      [] value[1] = "int" -> Put(prefix, Number(value[2]))
      [] OTHER -> Put(prefix, value)

ExtractArgs(args) == Walk(args, <<"args">>)
ExtractResult(result) == Walk(result, <<"result">>)
ExtractData(tree) == Walk(tree, <<"data">>)
ExtractCustom(custom) == Walk(<<"object", custom>>, <<"custom">>)

-----------------------------------------------------------------------------
(* Slots. *)

Given(slot, prefix, names) ==
    [k \in {prefix \o <<n>> : n \in names \cap DOMAIN slot} |-> slot[Last(k)]]
(* A set is there whenever its slot is, empty rather than absent. *)
Sets(slot, prefix, names) == [k \in {prefix \o <<n>> : n \in names} |-> <<"set", ToSet(slot[Last(k)])>>]
Flags(prefix, names) == [k \in {prefix \o <<n>> : n \in names} |-> <<"bool", TRUE>>]
All(bags) == FoldLeft(Over, NoKeys, bags)

ExtractSubject(s) ==
    All(<<Given(s, <<"subject">>, {"id", "type"}),
          Sets(s, <<"subject">>, {"roles", "permissions", "teams"}),
          Flags(<<"role">>, ToSet(s.roles)), Flags(<<"perm">>, ToSet(s.permissions)),
          Flags(<<"team">>, ToSet(s.teams)), Walk(<<"object", s.claims>>, <<"claim">>),
          IF "id" \in DOMAIN s THEN Put(<<"authenticated">>, <<"bool", TRUE>>) ELSE NoKeys>>)

ExtractClient(c) ==
    All(<<Given(c, <<"client">>, {"client_id", "client_name", "trust_level"}),
          Sets(c, <<"client">>, {"roles", "permissions", "authorized_scopes", "authorized_audiences", "teams"}),
          Flags(<<"client", "role">>, ToSet(c.roles)), Flags(<<"client", "perm">>, ToSet(c.permissions)),
          Walk(<<"object", c.claims>>, <<"client", "claim">>)>>)

ExtractWorkload(prefix, w) ==
    Over(Given(w, <<prefix>>, {"spiffe_id", "trust_domain", "attestor", "client_id"}),
         Sets(w, <<prefix>>, {"selectors"}))

ExtractSecurity(sec) ==
    LET of(slot, bag(_)) == IF slot \in DOMAIN sec THEN bag(sec[slot]) ELSE NoKeys
    IN All(<<of("subject", ExtractSubject), of("client", ExtractClient),
             of("caller_workload", LAMBDA w : ExtractWorkload("caller_workload", w)),
             of("this_workload", LAMBDA w : ExtractWorkload("this_workload", w)),
             Given(sec, <<>>, {"auth_method"}),
             Sets(sec, <<"security">>, {"labels"}), Given(sec, <<"security">>, {"classification"})>>)

ExtractDelegation(d) ==
    Over(Given(d, <<"delegation">>, {"depth", "delegated", "origin_subject_id", "actor_subject_id", "age_seconds"}),
         Given(d, <<>>, {"delegated"}))

ExtractAgent(a) ==
    LET c == a.conversation
    IN Over(Given(a, <<"agent">>, {"input", "session_id", "conversation_id", "turn", "agent_id", "parent_agent_id"}),
            IF "conversation" \notin DOMAIN a THEN NoKeys
            ELSE Over(Given(c, <<"agent", "conversation">>, {"summary"}), Sets(c, <<"agent", "conversation">>, {"topics"})))

ExtractMeta(m) ==
    All(<<Given(m, <<"meta">>, {"entity_type", "entity_name", "scope"}), Sets(m, <<"meta">>, {"tags"}),
          Given(m.properties, <<"meta", "properties">>, DOMAIN m.properties)>>)

ExtractRequest(r) ==
    Given(r, <<"request">>, {"environment", "request_id", "timestamp", "trace_id", "span_id"})

(* Header names are folded to lower case; of two that fold alike the one   *)
(* iterated last is kept.                                                  *)
Headers(prefix, entries) ==
    FoldLeft(LAMBDA bag, e : Over(bag, Put(prefix \o <<Lower[e[1]]>>, e[2])), NoKeys, entries)
ExtractHttp(h) ==
    All(<<Given(h, <<"http">>, {"method", "path", "host", "scheme"}),
          Headers(<<"http", "request_headers">>, h.request_headers),
          Headers(<<"http", "response_headers">>, h.response_headers)>>)

ExtractLlm(l) == Over(Given(l, <<"llm">>, {"model_id", "provider"}), Sets(l, <<"llm">>, {"capabilities"}))

ExtractMcp(m) ==
    LET of(slot, names) == IF slot \in DOMAIN m THEN Given(m[slot], <<"mcp", slot>>, names) ELSE NoKeys
    IN All(<<of("tool", {"name", "title", "description", "server_id", "namespace"}),
             of("resource", {"uri", "name", "description", "mime_type", "server_id"}),
             of("prompt", {"name", "description", "server_id"})>>)

(* A latency beyond the signed range saturates. *)
ExtractCompletion(c) ==
    All(<<Given(c, <<"completion">>, {"stop_reason", "model", "raw_format", "created_at"}),
          IF "tokens" \in DOMAIN c
          THEN Given(c.tokens, <<"completion", "tokens">>, {"input", "output", "total"}) ELSE NoKeys,
          IF "latency_ms" \in DOMAIN c
          THEN Put(<<"completion", "latency_ms">>,
                   <<"int", IF c.latency_ms[2] > MaxI64 THEN MaxI64 ELSE c.latency_ms[2]>>)
          ELSE NoKeys>>)

ExtractProvenance(p) == Given(p, <<"provenance">>, {"source", "message_id", "parent_id"})

ExtractFramework(f) ==
    Over(Given(f, <<"framework">>, {"framework", "framework_version", "node_id", "graph_id"}),
         Walk(<<"object", f.metadata>>, <<"framework", "metadata">>))

ExtractSlot(slot, v) ==
    CASE slot = "security" -> ExtractSecurity(v)
      [] slot = "delegation" -> ExtractDelegation(v)
      [] slot = "agent" -> ExtractAgent(v)
      [] slot = "meta" -> ExtractMeta(v)
      [] slot = "request" -> ExtractRequest(v)
      [] slot = "http" -> ExtractHttp(v)
      [] slot = "llm" -> ExtractLlm(v)
      [] slot = "mcp" -> ExtractMcp(v)
      [] slot = "completion" -> ExtractCompletion(v)
      [] slot = "provenance" -> ExtractProvenance(v)
      [] slot = "framework" -> ExtractFramework(v)
      [] slot = "custom" -> ExtractCustom(v)

Bridged == <<"security", "delegation", "agent", "meta", "request", "http", "llm", "mcp", "completion",
             "provenance", "framework", "custom">>
ExtractExtensions(ext) ==
    FoldLeft(LAMBDA bag, slot : IF slot \in DOMAIN ext THEN Over(bag, ExtractSlot(slot, ext[slot])) ELSE bag,
             NoKeys, Bridged)

(* The bag a route is evaluated on. *)
BuildBag(ext, route_key, tree) ==
    All(<<ExtractExtensions(ext), Put(<<"route", "key">>, <<"string", route_key>>), ExtractData(tree)>>)

-----------------------------------------------------------------------------
(* What a plugin is shown. *)

Keep(slot, names) == [n \in names \cap DOMAIN slot |-> slot[n]]
SubjectCap == [roles |-> "read_roles", permissions |-> "read_permissions", teams |-> "read_teams",
               claims |-> "read_claims"]
HasAnySubjectCapability(caps) ==
    caps \cap ({"read_subject"} \cup {SubjectCap[f] : f \in DOMAIN SubjectCap}) # {}

VisibleSubject(s, caps) ==
    [n \in DOMAIN s |-> IF n \notin DOMAIN SubjectCap THEN s[n] ELSE IF SubjectCap[n] \in caps THEN s[n] ELSE <<>>]

VisibleSecurity(sec, caps) ==
    LET gated == (IF HasAnySubjectCapability(caps) THEN {"subject"} ELSE {})
                    \cup (IF "read_client" \in caps THEN {"client"} ELSE {})
                    \cup (IF "read_workload" \in caps THEN {"caller_workload", "this_workload"} ELSE {})
        shown == Keep(sec, {"classification", "auth_method", "labels"} \cup gated)
    IN [n \in DOMAIN shown |->
          CASE n = "labels" -> IF "read_labels" \in caps THEN sec.labels ELSE <<>>
            [] n = "subject" -> VisibleSubject(sec.subject, caps)
            [] OTHER -> sec[n]]

SlotCap == [delegation |-> "read_delegation", agent |-> "read_agent", http |-> "read_headers"]
Visible(ext, caps) ==
    LET hidden == {s \in DOMAIN SlotCap : SlotCap[s] \notin caps}
    IN [s \in DOMAIN ext \ hidden |-> IF s = "security" THEN VisibleSecurity(ext.security, caps) ELSE ext[s]]

(* The operators' table: a root covers every key below it. *)
Exact(path) == [path |-> path, root |-> FALSE]
Root(path) == [path |-> path, root |-> TRUE]
SubjectBase == {Exact(<<"subject", "id">>), Exact(<<"subject", "type">>), Exact(<<"authenticated">>)}
Table ==
    [read_subject |-> SubjectBase,
     read_roles |-> SubjectBase \cup {Root(<<"role">>), Exact(<<"subject", "roles">>)},
     read_permissions |-> SubjectBase \cup {Root(<<"perm">>), Exact(<<"subject", "permissions">>)},
     read_teams |-> SubjectBase \cup {Exact(<<"subject", "teams">>)},
     read_claims |-> SubjectBase \cup {Root(<<"claim">>)},
     read_labels |-> {}, read_inbound_credentials |-> {}, read_delegated_tokens |-> {},
     read_client |-> {Root(<<"client">>)},
     read_workload |-> {Root(<<"workload">>), Root(<<"caller_workload">>)},
     read_delegation |-> {Root(<<"delegation">>), Exact(<<"delegated">>)},
     read_agent |-> {Root(<<"agent">>)}, read_meta |-> {Root(<<"meta">>)},
     read_request |-> {Root(<<"request">>)},
     read_headers |-> {Root(<<"http", h>>) : h \in {"request_headers", "response_headers"}}
                         \cup {Exact(<<"http", f>>) : f \in {"method", "path", "host", "scheme"}},
     read_llm |-> {Root(<<"llm">>)}, read_mcp |-> {Root(<<"mcp">>)},
     read_completion |-> {Root(<<"completion">>)}, read_provenance |-> {Root(<<"provenance">>)},
     read_framework |-> {Root(<<"framework">>)}, read_custom |-> {Root(<<"custom">>)}]
CapabilityNamespaces(cap) == IF cap \in DOMAIN Table THEN Table[cap] ELSE {}
UnlockedBagPrefixes(caps) == UNION {CapabilityNamespaces(c) : c \in caps}
Covers(entry, key) == IF entry.root THEN IsStrictPrefix(entry.path, key) ELSE key = entry.path

-----------------------------------------------------------------------------
(* Attribute files: <<document>>, or <<>> for one that cannot be read or   *)
(* parsed.  The result is <<tree>> or <<>>, an error.                      *)

DataOf(doc) ==
    LET entries == doc[2]
        data == SelectSeq(entries, LAMBDA e : e[1] = <<"data">>)
    IN IF doc[1] = "null" THEN << <<>> >>
       ELSE IF doc[1] # "object" THEN <<>>
       ELSE IF Len(entries) > Len(data) THEN <<>>
       ELSE IF data = <<>> THEN << <<>> >>
       ELSE IF data[1][2][1] = "null" THEN << <<>> >>
       ELSE IF data[1][2][1] = "object" THEN <<data[1][2][2]>> ELSE <<>>

RECURSIVE MergeObject(_, _)
MergeObject(acc, incoming) ==
    LET entry(got, e) ==
          LET at == {i \in DOMAIN got : got[i][1] = e[1]}
              i == CHOOSE i \in at : TRUE
              both == got[i][2][1] = "object" /\ e[2][1] = "object"
              inner == MergeObject(got[i][2][2], e[2][2])
          IN IF at = {} THEN <<Append(got, e)>>
             ELSE IF both THEN IF inner = <<>> THEN <<>> ELSE <<[got EXCEPT ![i] = <<e[1], <<"object", inner[1]>> >>]>>
             ELSE IF got[i][2] = e[2] THEN <<got>> ELSE <<>>
    IN FoldLeft(LAMBDA got, e : IF got = <<>> THEN <<>> ELSE entry(got[1], e), <<acc>>, incoming)

MergeAttributeDocs(docs) ==
    FoldLeft(LAMBDA acc, doc : IF acc = <<>> \/ DataOf(doc) = <<>> THEN <<>> ELSE MergeObject(acc[1], DataOf(doc)[1]),
             << <<>> >>, docs)

Load(files) ==
    IF \E i \in DOMAIN files : files[i] = <<>> THEN <<>>
    ELSE LET merged == MergeAttributeDocs([i \in DOMAIN files |-> files[i][1]])
         IN IF merged = <<>> THEN <<>> ELSE << <<"object", merged[1]>> >>
=============================================================================
