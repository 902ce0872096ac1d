-------------------------- MODULE MessageProjection --------------------------
(***************************************************************************)
(* What a field pipeline sees of a message and how its edits get back      *)
(* (ppe-apl-runtime, message_projection.rs).                               *)
(*                                                                         *)
(* A JSON value is <<"text", s>>, s a sequence of words, <<"scalar", v>>   *)
(* for the rest that is no object, an array too, or <<"map", f>>, f        *)
(* mapping keys to values.  A message is the sequence of its parts:        *)
(* [part, value] with part "text", "tool_call", "prompt_request",          *)
(* "tool_result" or "other".                                               *)
(***************************************************************************)
EXTENDS Naturals, Sequences, SequencesExt

IsMap(v) == v[1] = "map"
IsText(v) == v[1] = "text"

FirstPart(msg, kinds) ==
    LET found == {i \in DOMAIN msg : msg[i].part \in kinds}
    IN IF found = {} THEN <<>> ELSE <<CHOOSE i \in found : \A j \in found : i <= j>>

(* get_text_content joins the text parts. *)
TextContent(msg) ==
    LET texts == SelectSeq(msg, LAMBDA p : p.part = "text")
    IN <<"text", FlattenSeq([i \in DOMAIN texts |-> texts[i].value[2]])>>

RewriteMessageText(msg, text) ==
    LET at == FirstPart(msg, {"text"})
    IN IF at = <<>> THEN Append(msg, [part |-> "text", value |-> text])
       ELSE [msg EXCEPT ![at[1]].value = text]

ExtractArgs(msg) ==
    LET at == FirstPart(msg, {"tool_call", "prompt_request"})
    IN IF at = <<>> THEN TextContent(msg) ELSE msg[at[1]].value

(* Arguments of another shape than the part holds are not written. *)
WriteArgsBack(msg, args) ==
    LET at == FirstPart(msg, {"tool_call", "prompt_request"})
    IN IF at # <<>> THEN IF IsMap(args) THEN [msg EXCEPT ![at[1]].value = args] ELSE msg
       ELSE IF IsText(args) THEN RewriteMessageText(msg, args) ELSE msg

ExtractResult(msg) ==
    LET at == FirstPart(msg, {"tool_result"})
    IN IF at = <<>> THEN TextContent(msg) ELSE msg[at[1]].value

WriteResultBack(msg, result) ==
    LET at == FirstPart(msg, {"tool_result"})
    IN IF at # <<>> THEN [msg EXCEPT ![at[1]].value = result]
       ELSE IF IsText(result) THEN RewriteMessageText(msg, result) ELSE msg

(* Mutant: the pipeline's view is written back whole. *)
WriteWholesale(base, pre, post) == IF pre # post THEN post ELSE base

(* base after another editor's work, with what changed from pre to post    *)
(* applied to it.  Where both changed one path the pipeline wins.          *)
RECURSIVE ApplyChangedPaths(_, _, _)
ApplyChangedPaths(base, pre, post) ==
    IF ~IsMap(pre) \/ ~IsMap(post) THEN IF pre # post THEN post ELSE base
    ELSE IF ~IsMap(base) THEN post
    ELSE LET b == base[2]
             r == pre[2]
             q == post[2]
             untouched(k) == k \in DOMAIN r /\ r[k] = q[k]
             keys == {k \in DOMAIN b : k \in DOMAIN r => k \in DOMAIN q}
                         \cup {k \in DOMAIN q : ~untouched(k)}
             value(k) ==
                 CASE k \notin DOMAIN q -> b[k]
                   [] k \in DOMAIN q /\ untouched(k) -> b[k]
                   [] k \in DOMAIN q /\ k \in DOMAIN r /\ ~untouched(k) ->
                        IF k \in DOMAIN b /\ IsMap(b[k]) /\ IsMap(r[k]) /\ IsMap(q[k])
                        THEN ApplyChangedPaths(b[k], r[k], q[k]) ELSE q[k]
                   [] k \in DOMAIN q /\ k \notin DOMAIN r -> q[k]
         IN <<"map", [k \in keys |-> value(k)]>>

=============================================================================
