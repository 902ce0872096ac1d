-------------------------- MODULE ReferencePlugins --------------------------
(***************************************************************************)
(* The two reference plugins: the PII scanner and the audit logger         *)
(* (reference/plugins).  Parts are those of MessageViews.  A JSON value is *)
(* [type, hits, id]: hits are the patterns its text matches; a number, an  *)
(* array or an object is not searched.                                     *)
(***************************************************************************)
EXTENDS Naturals, Sequences

CONSTANT MarkerHits     \* the patterns that match the text "[PII]"

Marker == [type |-> "string", hits |-> MarkerHits, id |-> "[PII]"]

(* A pattern is [name, compiles]: built-in ones compile. *)
CompilePatterns(detect) ==
    IF \E i \in DOMAIN detect : ~detect[i].compiles THEN <<>>
    ELSE <<[i \in DOMAIN detect |-> detect[i].name]>>

(* config is <<>> when the block is absent, << <<>> >> when it does not    *)
(* parse.                                                                  *)
NewScanner(config) ==
    IF config = <<>> \/ config = << <<>> >> THEN <<>>
    ELSE LET patterns == CompilePatterns(config[1][1].detect)
         IN IF patterns = <<>> THEN <<>> ELSE <<[mode |-> config[1][1].mode, patterns |-> patterns[1]]>>

(* The factories register one handler under every hook of the list. *)
Create(plugin, hooks) == IF plugin = <<>> \/ hooks = <<>> THEN <<>> ELSE <<[plugin |-> plugin[1], hooks |-> hooks]>>

MatchStr(scanner, s) ==
    LET found == {i \in DOMAIN scanner.patterns : scanner.patterns[i] \in s.hits}
    IN IF found = {} THEN <<>> ELSE <<scanner.patterns[CHOOSE i \in found : \A j \in found : i <= j]>>

MatchValue(scanner, v) == IF v.type = "string" THEN MatchStr(scanner, v) ELSE <<>>

Structured == {"tool_call", "prompt_request"}

(* The values of a part in which something is found; arguments sit in a    *)
(* hash map, so which one is met first is open.                            *)
PartMatches(scanner, part) ==
    LET values == CASE part.kind \in Structured -> {MatchValue(scanner, part.args[a]) : a \in DOMAIN part.args}
                    [] part.kind = "text" -> {MatchStr(scanner, part.text[1])}
                    [] OTHER -> {}
    IN values \ {<<>>}

FirstMatch(scanner, message) ==
    LET at == {i \in DOMAIN message : PartMatches(scanner, message[i]) # {}}
    IN IF at = {} THEN { <<>> }
       ELSE PartMatches(scanner, message[CHOOSE i \in at : \A j \in at : i <= j])

RedactValue(scanner, v) == IF MatchValue(scanner, v) # <<>> THEN Marker ELSE v

RedactMessage(scanner, message) ==
    [i \in DOMAIN message |->
        LET p == message[i]
        IN CASE p.kind \in Structured -> [p EXCEPT !.args = [a \in DOMAIN @ |-> RedactValue(scanner, @[a])]]
             [] p.kind = "text" /\ MatchStr(scanner, p.text[1]) # <<>> -> [p EXCEPT !.text = <<Marker>>]
             [] OTHER -> p]

(* The results the scanner may return: the verdict, the pattern it names   *)
(* and the message it leaves.                                              *)
Scan(scanner, message) ==
    {IF hit = <<>> THEN [verdict |-> "allow", names |-> <<>>, message |-> message]
     ELSE IF scanner.mode = "deny" THEN [verdict |-> "deny", names |-> hit, message |-> message]
     ELSE [verdict |-> "modify", names |-> hit, message |-> RedactMessage(scanner, message)] :
        hit \in FirstMatch(scanner, message)}

(* config as for the scanner; an absent block means the defaults. *)
NewLogger(config) ==
    IF config = <<>> THEN << [source |-> <<>>] >>
    ELSE IF config = << <<>> >> THEN <<>>
    ELSE config[1]

(* The audit record: which fields it has and the arguments it shows, those *)
(* of the first structured part.  ext is the logger's filtered view.       *)
BuildRecord(logger, message, ext) ==
    LET has(slot) == ext[slot] # <<>>
        security(f) == has("security") /\ ext.security[1][f] # <<>>
        at == {i \in DOMAIN message : message[i].kind \in Structured}
        first == message[CHOOSE i \in at : \A j \in at : i <= j]
    IN [fields |-> {"ts", "plugin"}
                      \cup (IF logger.source # <<>> THEN {"source"} ELSE {})
                      \cup {f \in {"subject", "client"} : security(f)}
                      \cup (IF has("meta") THEN {"entity"} ELSE {})
                      \cup (IF at # {} THEN {first.kind} ELSE {})
                      \cup (IF has("delegated") /\ ext.delegated[1] # {} THEN {"delegated_tokens"} ELSE {}),
        call |-> IF at = {} THEN <<>> ELSE <<[name |-> first.name, args |-> first.args]>>,
        tokens |-> IF has("delegated") THEN {[audience |-> t.audience, scopes |-> t.scopes] : t \in ext.delegated[1]}
                   ELSE {}]
=============================================================================
