----------------------------- MODULE Delegation -----------------------------
(***************************************************************************)
(* Token delegation: the invoker of a delegate(...) step                   *)
(* (ppe-apl-runtime, delegation_invoker.rs), the payload it fills          *)
(* (ppe-core, delegation/payload.rs) and the OAuth delegator               *)
(* (builtins/plugins/delegator-oauth).                                     *)
(*                                                                         *)
(* A credential is named by the party it identifies.  The request's        *)
(* extensions are [ids, inbound, tokens, chain]: who each role is, what it *)
(* presented, the minted tokens by key, and the delegation chain.  The     *)
(* identity provider is external: a reply is what it sends back.           *)
(***************************************************************************)
EXTENDS Integers, Sequences, FiniteSets, SequencesExt

CONSTANTS DefaultTtl,  \* the lifetime when the provider names none (300 s)
          MaxI64,      \* the greatest i64
          MaxDuration  \* the longest lifetime chrono adds to a time without a panic

Least(a, b) == IF a < b THEN a ELSE b

DelegationSubjects == {"user", "client", "caller_workload", "this_workload"}

(* The inbound credential a subject stands for; this workload has none. *)
InboundRole(subject) == IF subject = "this_workload" THEN <<>> ELSE <<subject>>

DefaultMode(subject) ==
    CASE subject = "user" -> "on_behalf_of_user"
      [] subject = "client" -> "as_client"
      [] subject = "caller_workload" -> "as_caller_workload"
      [] subject = "this_workload" -> "as_this_workload"

FromConfigStr(s) ==
    CASE s = "workload" -> <<"caller_workload">>
      [] s = "gateway" -> <<"this_workload">>
      [] s \in DelegationSubjects -> <<s>>
      [] OTHER -> <<>>

-----------------------------------------------------------------------------
(* The payload. *)

NewPayload(bearer, target) ==
    [bearer |-> bearer, actor |-> <<>>, actor_role |-> <<>>, subject |-> "user", target |-> target,
     target_type |-> "tool", audience |-> "", required |-> {}, enforced_by |-> "caller",
     attenuation |-> <<>>, delegated_token |-> <<>>, mode |-> <<>>, update |-> <<>>]

WithActor(payload, role, token) == [payload EXCEPT !.actor = token, !.actor_role = <<role>>]

Involves(payload, role) == payload.subject = role \/ payload.actor_role = <<role>>

(* The user is part of the key whether or not it took part in the          *)
(* exchange, another principal when it did.                                *)
DelegationKey(payload, ext) ==
    LET token == payload.delegated_token[1]
        who(role) == IF Involves(payload, role) THEN ext.ids[role] ELSE <<>>
    IN [subject_id |-> ext.ids["user"], workload_id |-> who("caller_workload"),
        client_id |-> who("client"), audience |-> token.audience, scopes |-> token.scopes,
        mode |-> IF payload.mode = <<>> THEN "on_behalf_of_user" ELSE payload.mode[1]]

ApplyToExtensions(payload, ext) ==
    LET key == DelegationKey(payload, ext)
        kept == {t \in ext.tokens : t.key # key}
    IN [ext EXCEPT
          !.tokens = IF payload.delegated_token = <<>> THEN @
                     ELSE kept \cup {[key |-> key, token |-> payload.delegated_token[1]]},
          !.chain = IF payload.update = <<>> THEN @ ELSE payload.update[1]]

MergePayload(payload, other) ==
    [payload EXCEPT
        !.delegated_token = IF other.delegated_token # <<>> THEN other.delegated_token ELSE @,
        !.update = IF other.update # <<>> THEN other.update ELSE @,
        !.mode = IF other.mode # <<>> THEN other.mode ELSE @]

-----------------------------------------------------------------------------
(* The OAuth delegator. *)

RequireHttps(url, insecure_http) == url # "http" \/ insecure_http

ClientSecret(source) == IF source.available THEN <<source.secret>> ELSE <<>>

NewDelegator(cfg) ==
    IF \/ cfg.endpoint = "" \/ ~RequireHttps(cfg.endpoint, cfg.insecure_http)
       \/ cfg.client_id = "" \/ ClientSecret(cfg.secret) = <<>>
    THEN <<>> ELSE <<[client_id |-> cfg.client_id, header |-> cfg.header]>>

RequestedScopes(payload) ==
    payload.required \cup (IF payload.attenuation = <<>> THEN {} ELSE payload.attenuation[1].capabilities)

(* A reply is [kind |-> "timeout" | "unreachable" | "rejected" | "garbled"] *)
(* or [kind |-> "token", token, scope, expires_in] with what it left out    *)
(* as <<>>.                                                                 *)
ReplyCode(kind) ==
    CASE kind = "timeout" -> "delegation.idp_timeout"
      [] kind = "unreachable" -> "delegation.idp_unreachable"
      [] kind = "rejected" -> "delegation.idp_rejected"
      [] kind = "garbled" -> "delegation.bad_response"

(* Leg one of a workload's exchange: its SVID is a client credential, and  *)
(* is traded for a base token first.  client_assertion is what is sent.    *)
MintBaseToken(svid, reply) ==
    [client_assertion |-> svid,
     code |-> IF reply.kind = "token" THEN "ok" ELSE ReplyCode(reply.kind),
     token |-> IF reply.kind = "token" THEN reply.token ELSE ""]

(* The request the provider is sent. *)
ExchangeForm(payload, subject_token) ==
    LET own == payload.subject = "this_workload"
    IN [grant |-> IF own THEN "client_credentials" ELSE "token_exchange",
        subject_token |-> IF own THEN "" ELSE subject_token,
        audience |-> payload.audience, scope |-> RequestedScopes(payload),
        actor_token |-> IF payload.actor # <<>> /\ payload.subject \in {"user", "client"}
                        THEN payload.actor[1] ELSE ""]

(* The provider's word on scopes wins; only what the step requires must be *)
(* in it, the route's extra capabilities need not be.                      *)
EffectiveScopes(payload, reply) ==
    IF reply.scope # <<>> THEN reply.scope[1] ELSE RequestedScopes(payload)
Missing(payload, reply) ==
    IF reply.scope = <<>> THEN {} ELSE payload.required \ reply.scope[1]

TtlSecs(payload, reply) ==
    LET ttl == IF reply.expires_in = <<>> THEN DefaultTtl ELSE reply.expires_in[1]
    IN IF payload.attenuation = <<>> THEN ttl
       ELSE IF payload.attenuation[1].ttl = <<>> THEN ttl
       ELSE Least(ttl, Least(payload.attenuation[1].ttl[1], MaxI64))

(* The payload with what the provider granted. *)
Minted(delegator, payload, reply) ==
    [payload EXCEPT
        !.delegated_token = <<[token |-> reply.token, header |-> delegator.header,
                               audience |-> payload.audience,
                               scopes |-> EffectiveScopes(payload, reply),
                               ttl |-> TtlSecs(payload, reply)]>>,
        !.mode = <<DefaultMode(payload.subject)>>]

(* A lifetime out of chrono's range panics, and nothing below the request's *)
(* own task catches it.                                                    *)
OutOfRange(payload, reply) == TtlSecs(payload, reply) \notin -MaxDuration .. MaxDuration

(* [code, payload, base, form]; legs are the provider's replies, in order, *)
(* base and form what the two requests carried.                            *)
Handle(delegator, payload, legs) ==
    LET deny(code) == [code |-> code, payload |-> payload, base |-> <<>>, form |-> <<>>]
        workload == payload.subject = "caller_workload"
        base == MintBaseToken(payload.bearer, legs[1])
        reply == IF workload THEN legs[2] ELSE legs[1]
        subject_token == IF workload THEN base.token ELSE payload.bearer
    IN IF payload.bearer = "" /\ payload.subject # "this_workload" THEN deny("delegation.bad_request")
       ELSE IF payload.audience = "" THEN deny("delegation.bad_request")
       ELSE IF workload /\ base.code # "ok" THEN deny(base.code)
       ELSE IF reply.kind # "token" THEN deny(ReplyCode(reply.kind))
       ELSE IF Missing(payload, reply) # {} THEN deny("delegation.scope_too_broad")
       ELSE IF OutOfRange(payload, reply) THEN deny("panic")
       ELSE [code |-> "ok", base |-> IF workload THEN <<base.client_assertion>> ELSE <<>>,
             form |-> <<ExchangeForm(payload, subject_token)>>,
             payload |-> Minted(delegator, payload, reply)]

-----------------------------------------------------------------------------
(* The invoker.  A step's settings: "absent", "malformed" (not a string)   *)
(* or what was written.                                                    *)

SubjectFromCfg(cfg) == IF cfg.subject = "absent" THEN <<"user">> ELSE FromConfigStr(cfg.subject)

(* [ok, role]: an absent actor is none, an unknown one an error. *)
RoleFromCfg(cfg) ==
    CASE cfg.actor = "absent" -> [ok |-> TRUE, role |-> <<>>]
      [] cfg.actor \in {"user", "client", "caller_workload"} -> [ok |-> TRUE, role |-> <<cfg.actor>>]
      [] cfg.actor = "workload" -> [ok |-> TRUE, role |-> <<"caller_workload">>]
      [] OTHER -> [ok |-> FALSE, role |-> <<>>]

RejectUnsupportedActorCombo(subject, actor) ==
    actor # <<>> /\ subject \in {"caller_workload", "this_workload"}

TargetTypeFromStr(s) == IF s = "absent" THEN "tool" ELSE s
(* Only `target` changes who enforces; `both` is read as the caller. *)
AuthEnforcedByFromStr(s) == IF s = "target" THEN "target" ELSE "caller"

Inbound(ext, role) == IF ext.inbound[role] = <<>> THEN "" ELSE ext.inbound[role][1]

BuildPayload(step, ext, subject, actor) ==
    LET cfg == step.cfg
        bearer == IF InboundRole(subject) = <<>> THEN "" ELSE Inbound(ext, subject)
        base == [NewPayload(bearer, IF cfg.target \in {"absent", "malformed"} THEN step.plugin_name ELSE cfg.target)
                    EXCEPT !.subject = subject,
                           !.audience = IF cfg.audience \in {"absent", "malformed"} THEN "" ELSE cfg.audience,
                           !.required = cfg.permissions,
                           !.target_type = TargetTypeFromStr(cfg.target_type),
                           !.enforced_by = AuthEnforcedByFromStr(cfg.enforced_by)]
    IN IF actor # <<>> /\ Inbound(ext, actor[1]) # ""
       THEN WithActor(base, actor[1], <<Inbound(ext, actor[1])>>) ELSE base

(* First half of delegate(): what is handed to the plugin, from a snapshot *)
(* of the extensions.  [error, payload].                                   *)
Prepare(step, plan, snapshot) ==
    LET subject == SubjectFromCfg(step.cfg)
        actor == RoleFromCfg(step.cfg)
        fail(why) == [error |-> why, payload |-> <<>>]
    IN IF step.plugin_name \notin plan THEN fail("not_found")
       ELSE IF subject = <<>> \/ ~actor.ok THEN fail("invalid_config")
       ELSE IF RejectUnsupportedActorCombo(subject[1], actor.role) THEN fail("invalid_config")
       ELSE [error |-> "", payload |-> <<BuildPayload(step, snapshot, subject[1], actor.role)>>]

NothingGranted == [permissions |-> {}, audience |-> <<>>, expires |-> <<>>]

(* Second half, after the plugin: applied to the extensions as they are by *)
(* then, not to the snapshot.  [ext, decision, granted].                   *)
Complete(outcome, current) ==
    LET token == outcome.payload.delegated_token
    IN IF outcome.code = "no_payload" THEN [ext |-> current, decision |-> "error", granted |-> NothingGranted]
       ELSE IF outcome.code # "ok" THEN [ext |-> current, decision |-> outcome.code, granted |-> NothingGranted]
       ELSE [ext |-> ApplyToExtensions(outcome.payload, current), decision |-> "allow",
             granted |-> IF token = <<>> THEN NothingGranted
                         ELSE [permissions |-> token[1].scopes, audience |-> <<token[1].audience>>,
                               expires |-> <<token[1].ttl>>]]

=============================================================================
