---------------------------- MODULE MessageViews ----------------------------
(***************************************************************************)
(* One uniform view per content part of a message, and its serialised form *)
(* for an external decision point (ppe-core, cmf/view.rs).                 *)
(*                                                                         *)
(* A part is [kind, name, uri, args, text, mime]; name and mime are        *)
(* optional (<<>> or <<v>>), args maps argument names to JSON values, text *)
(* is the optional body: a JSON value for a tool result, a string          *)
(* otherwise.  A JSON value is [type, hits, id] (see ReferencePlugins).  A *)
(* serialised view is the set of its leaves <<path, value>>.               *)
(***************************************************************************)
EXTENDS Sequences

CONSTANT Lower      \* maps the header names in use to lower case

Media == {"image", "video", "audio", "document"}

DefaultAction(kind, role) ==
    CASE kind = "tool_call" -> "execute"
      [] kind \in {"tool_result", "prompt_result"} -> "receive"
      [] kind \in {"resource", "resource_ref"} -> "read"
      [] kind = "prompt_request" -> "invoke"
      [] kind \in {"text", "thinking"} \cup Media ->
            CASE role = "user" -> "send"
              [] role = "assistant" -> "generate"
              [] role = "tool" -> "receive"
              [] role \in {"system", "developer"} -> "write"

(* hook is <<>> or << [name, holds] >>, holds the words its name contains. *)
View(part, role, hook, extensions) ==
    [part |-> part, kind |-> part.kind, role |-> role, hook |-> hook, extensions |-> extensions]

Content(part) ==
    CASE part.kind \in {"text", "thinking", "resource", "prompt_result"} -> part.text
      [] part.kind = "tool_result" -> IF part.text[1].type = "string" THEN part.text ELSE <<>>
      [] OTHER -> <<>>

Name(part) ==
    CASE part.kind \in {"tool_call", "tool_result", "prompt_request", "prompt_result"} -> part.name
      [] part.kind \in {"resource", "resource_ref"} -> IF part.name # <<>> THEN part.name ELSE <<part.uri>>
      [] OTHER -> <<>>

Uri(part) ==
    CASE part.kind \in {"tool_call", "prompt_request"} -> << <<part.kind, part.name[1]>> >>
      [] part.kind \in {"resource", "resource_ref"} -> <<part.uri>>
      [] OTHER -> <<>>

Args(part) == IF part.kind \in {"tool_call", "prompt_request"} THEN <<part.args>> ELSE <<>>

MimeType(part) == IF part.kind \in {"resource"} \cup Media THEN part.mime ELSE <<>>

SensitiveHeaders == {"authorization", "cookie", "x-api-key"}
SafeHeaders(headers) == {h \in DOMAIN headers : Lower[h] \notin SensitiveHeaders}

Leaf(path, opt) == IF opt = <<>> THEN {} ELSE {<<path, opt[1]>>}
NonEmpty(path, set) == IF set = {} THEN {} ELSE {<<path, set>>}
Fields(path, opt, names) == IF opt = <<>> THEN {} ELSE UNION {Leaf(Append(path, n), opt[1][n]) : n \in names}
Sets(path, opt, names) == IF opt = <<>> THEN {} ELSE UNION {NonEmpty(Append(path, n), opt[1][n]) : n \in names}

(* Every slot of the extensions is optional. *)
ContextDict(ext) ==
    LET subject == IF ext.security = <<>> THEN <<>> ELSE ext.security[1].subject
    IN Fields(<<"subject">>, subject, {"id", "type"})
          \cup Sets(<<"subject">>, subject, {"roles", "permissions", "teams"})
          \cup Sets(<<>>, ext.security, {"labels"})
          \cup Leaf(<<"environment">>, ext.environment)
          \cup (IF ext.headers = <<>> THEN {}
                ELSE {<< <<"headers", h>>, ext.headers[1][h]>> : h \in SafeHeaders(ext.headers[1])})
          \cup Fields(<<"agent">>, ext.agent, {"input", "session_id", "conversation_id", "turn",
                                               "agent_id", "parent_agent_id"})
          \cup Fields(<<"meta">>, ext.meta, {"entity_type", "entity_name"})
          \cup Sets(<<"meta">>, ext.meta, {"tags"})

(* The arguments are part of every view, the body and the context only on  *)
(* request.                                                                *)
ToDict(view, include_content, include_context) ==
    LET holds(word) == view.hook # <<>> /\ word \in view.hook[1].holds
        text == IF include_content THEN Content(view.part) ELSE <<>>
        nested(d) == {<< <<"extensions">> \o e[1], e[2]>> : e \in d}
    IN {<< <<"kind">>, view.kind>>, << <<"role">>, view.role>>,
        << <<"is_pre">>, holds("pre")>>, << <<"is_post">>, holds("post")>>,
        << <<"action">>, DefaultAction(view.kind, view.role)>>}
          \cup (IF view.hook = <<>> THEN {} ELSE {<< <<"hook">>, view.hook[1].name>>})
          \cup Leaf(<<"uri">>, Uri(view.part))
          \cup Leaf(<<"name">>, Name(view.part))
          \cup Leaf(<<"content">>, text)
          \cup Leaf(<<"mime_type">>, MimeType(view.part))
          \cup Leaf(<<"arguments">>, Args(view.part))
          \cup (IF include_context /\ view.extensions # <<>> THEN nested(ContextDict(view.extensions[1])) ELSE {})

ToOpaInput(view, include_content) ==
    {<< <<"input">> \o e[1], e[2]>> : e \in ToDict(view, include_content, TRUE)}

IterViews(message, role, hook, extensions) ==
    [i \in DOMAIN message |-> View(message[i], role, hook, extensions)]
=============================================================================
