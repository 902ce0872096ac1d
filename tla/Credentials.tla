---------------------------- MODULE Credentials ----------------------------
(***************************************************************************)
(* The credentials of a request: who it is (Identity), on whose behalf     *)
(* tokens are minted for it (Delegation), and whom the gateway gives its   *)
(* own credentials to (StoreConfig).  A state is one case and, after the   *)
(* step that works it out, the answer; an identity case goes on as the     *)
(* resolver's keys are fetched, refreshed and used.                        *)
(***************************************************************************)
EXTENDS Integers, Sequences, FiniteSets

CONSTANTS
    CredentialCase,     \* the cases: a resolver, two delegations of a request, or a store
    KeyReplies,         \* what a key endpoint answers: a JWKS document, or none
    IdentityRequests,   \* what a resolver is asked, and when
    DefaultLeeway, TrustDomain, DefaultTtl, MaxI64, MaxDuration

J == INSTANCE Identity
G == INSTANCE Delegation
Store == INSTANCE StoreConfig

-----------------------------------------------------------------------------
(* Cases. *)

AtMostOne(T) == {o \in Seq(T) : Len(o) <= 1}

KeyEntry == [kid : STRING, key : STRING, use : STRING, reads : BOOLEAN]

IsTrustedIssuer(cfg) == cfg.leeway \in Nat /\ (cfg.source.kind # "jwks_url" => cfg.source.key # J!NoKey)
IsIdentityCase(case) ==
    LET issuers == case.config.trusted_issuers
    IN /\ issuers \in Seq({issuers[i] : i \in DOMAIN issuers})
       /\ \A i \in DOMAIN issuers : IsTrustedIssuer(issuers[i])
       /\ case.config.role \in J!Roles \cup {"custom"}

(* headers and raw_token are what the host passes, slots what earlier      *)
(* resolvers of the chain have filled, host what the request already had.  *)
IsToken(t) == t.exp \in Nat /\ t.nbf \in Nat
IsIdentityRequest(q) ==
    /\ \A h \in DOMAIN q.headers : IsToken(q.headers[h])
    /\ q.raw_token \in AtMostOne({q.raw_token[i] : i \in DOMAIN q.raw_token})
    /\ \A i \in DOMAIN q.raw_token : IsToken(q.raw_token[i])
    /\ q.slots \in [J!Roles -> {q.slots[r] : r \in J!Roles}]
    /\ q.host \in [J!Roles -> {q.host[r] : r \in J!Roles}]
    /\ q.now \in Nat

(* Two delegate steps of one request, prepared from the same extensions    *)
(* and completed in this order.  `silent` are the plugins that answer      *)
(* without a payload.                                                      *)
ReplyKinds == {"timeout", "unreachable", "rejected", "garbled", "token"}
IsDelegateCall(call) ==
    /\ \A i \in 1..2 : /\ call.legs[i].kind \in ReplyKinds
                       /\ call.legs[i].kind = "token" => call.legs[i].expires_in \in AtMostOne(Int)
    /\ call.bound # <<>> => call.bound[1].ttl \in AtMostOne(Nat)
IsDelegationCase(case) ==
    /\ G!NewDelegator(case.delegator) # <<>>
    /\ case.ext = [ids |-> case.ext.ids, inbound |-> case.ext.inbound,
                   tokens |-> case.ext.tokens, chain |-> case.ext.chain]
    /\ case.ext.inbound \in [J!Roles -> AtMostOne(STRING)]
    /\ \A i \in 1..2 : IsDelegateCall(case.calls[i])

IsStoreCase(case) ==
    /\ case.config.endpoint.scheme \in {"none", "redis", "rediss"}
    /\ case.config.endpoint.userinfo \in AtMostOne([user : STRING, pass : STRING])
    /\ case.config.endpoint.later \in AtMostOne(STRING)
    /\ case.config.username \in AtMostOne(STRING) /\ case.config.password \in AtMostOne(STRING)
    /\ case.config.ttl_seconds \in AtMostOne(Nat) /\ case.config.tls \in BOOLEAN

ASSUME CredentialsAssumption ==
    /\ \A case \in CredentialCase : \/ case.kind = "identity" /\ IsIdentityCase(case)
                                    \/ case.kind = "delegation" /\ IsDelegationCase(case)
                                    \/ case.kind = "store" /\ IsStoreCase(case)
    /\ KeyReplies \subseteq AtMostOne(Seq(KeyEntry))
    /\ \A q \in IdentityRequests : IsIdentityRequest(q)
    /\ DefaultLeeway \in Nat /\ DefaultTtl \in Nat /\ MaxI64 \in Nat /\ MaxDuration \in Nat

VARIABLES input, answer
credentialVars == <<input, answer>>

CredentialInit == input \in CredentialCase /\ answer = <<>>
Pending(kind) == answer = <<>> /\ input.kind = kind /\ UNCHANGED input

-----------------------------------------------------------------------------
(* A resolver.  published[i] is what the issuer at position i has made     *)
(* known: whose configuration it is, and the keys it brings along or those *)
(* of the last fetch that succeeded.                                       *)

(* The keys of a reply: of those that sign, the last of each name. *)
Fetched(reply) ==
    IF reply = <<>> THEN {}
    ELSE LET keys == reply[1]
             signing == {i \in DOMAIN keys : keys[i].use \in {"absent", "sig"} /\ keys[i].kid # "" /\ keys[i].reads}
         IN {[kid |-> keys[i].kid, key |-> keys[i].key] :
                i \in {i \in signing : \A j \in signing : j > i => keys[j].kid # keys[i].kid}}
Learnt(source, keys, reply) ==
    IF (source.scheme = "http" /\ ~source.insecure_http) \/ Fetched(reply) = {} THEN keys ELSE Fetched(reply)

BuildResolver ==
    /\ Pending("identity")
    /\ LET inline == J!Issuers(input.config.trusted_issuers, FALSE)
       IN answer' = <<[r |-> J!NewResolver(input.config),
                       published |-> [i \in DOMAIN inline |->
                           [by |-> inline[i], keys |-> {[kid |-> "", key |-> inline[i].source.key]}]],
                       started |-> FALSE, dropped |-> FALSE, out |-> <<>>]>>

(* Handling a request leaves the resolver as it is, so it ends the case. *)
Resolver ==
    /\ answer # <<>> /\ input.kind = "identity" /\ UNCHANGED input
    /\ answer[1].r # <<>> /\ answer[1].out = <<>> /\ ~answer[1].dropped

InitializeResolver ==
    /\ Resolver /\ ~answer[1].started
    /\ LET pending == answer[1].r[1].pending_jwks
       IN \E replies \in [DOMAIN pending -> KeyReplies] :
             answer' = <<[answer[1] EXCEPT
                 !.r = <<J!Initialize(@[1], replies)>>, !.started = TRUE,
                 !.published = @ \o [i \in DOMAIN pending |->
                     [by |-> pending[i], keys |-> Learnt(pending[i].source, {}, replies[i])]]]>>

RefreshKeys ==
    /\ Resolver
    /\ \E task \in answer[1].r[1].tasks, reply \in KeyReplies :
          answer' = <<[answer[1] EXCEPT
              !.r = <<J!Refresh(@[1], task, reply)>>,
              !.published[task.at].keys = Learnt(task.source, @, reply)]>>

HandleIdentity ==
    /\ Resolver
    /\ \E q \in IdentityRequests :
          LET asked == [J!Payload(q.headers, q.raw_token) EXCEPT !.slots = q.slots]
              got == J!Handle(answer[1].r[1], asked, q.now)
          IN answer' = <<[answer[1] EXCEPT !.out =
                 <<[q |-> q, asked |-> asked, verdict |-> got.verdict, payload |-> got.payload,
                    ext |-> J!ApplyToExtensions(got.payload, [slots |-> q.host, raw_credentials |-> <<>>]),
                    merged |-> J!Merge(asked, got.payload)]>>]>>

DropResolver == Resolver /\ answer' = <<[answer[1] EXCEPT !.r = <<J!Drop(@[1])>>, !.dropped = TRUE]>>

(* The keys a store holds, under the names that reach them. *)
Held(store) ==
    {[kid |-> k, key |-> store.by_kid[k]] : k \in DOMAIN store.by_kid}
        \cup (IF store.fallback = J!NoKey THEN {} ELSE {[kid |-> "", key |-> store.fallback]})

(* What must be true of a token that is accepted under an issuer's word. *)
Vouched(t, p, now) ==
    LET leeway == IF p.by.leeway = 0 THEN DefaultLeeway ELSE p.by.leeway
    IN /\ t.form = "jwt" /\ t.iss = p.by.issuer /\ [kid |-> t.kid, key |-> t.key] \in p.keys
       /\ t.alg \in p.by.algorithms /\ (p.by.audiences = {} \/ t.aud \cap p.by.audiences # {})
       /\ now <= t.exp + leeway /\ t.nbf <= now + leeway

KeysAuthentic(r, published, config) ==
    /\ DOMAIN r.trusted_issuers = DOMAIN published
    /\ \A i \in DOMAIN published :
          /\ Held(r.trusted_issuers[i].keys) = published[i].keys
          /\ \E c \in DOMAIN config.trusted_issuers : published[i].by = config.trusted_issuers[c]
    /\ \A task \in r.tasks : published[task.at].by.source = task.source

AnswerAuthentic(o, published, config) ==
    LET t == IF config.header \in DOMAIN o.q.headers THEN o.q.headers[config.header] ELSE o.q.raw_token[1]
        role == config.role
    IN IF o.verdict # "ok" THEN o.payload = o.asked
       ELSE /\ \E i \in DOMAIN published : Vouched(t, published[i], o.q.now)
            /\ o.payload.slots[role] # <<>> /\ o.payload.inbound_tokens[role][1].token = t
            /\ \A p \in J!Roles \ {role} : o.payload.slots[p] = o.q.slots[p]
            /\ \A p \in J!Roles :
                  o.ext.slots[p] = IF o.payload.slots[p] = <<>> THEN o.q.host[p] ELSE o.payload.slots[p]
            /\ o.merged.slots = o.payload.slots

(***************************************************************************)
(* The resolver holds of every trusted issuer exactly the keys it was      *)
(* configured with or its endpoint last published: a failed refresh costs  *)
(* none, a rotation leaves none behind, and no refresh task writes to      *)
(* another issuer.  A slot is filled only from a token that such an issuer *)
(* vouches for under the kid the token names, for this audience and at     *)
(* this time; a refusal changes nothing; and no resolver of a chain        *)
(* disturbs the slot of another.                                           *)
(***************************************************************************)
IdentityAuthentic ==
    LET a == answer[1]
    IN a.r # <<>> => /\ KeysAuthentic(a.r[1], a.published, input.config)
                     /\ a.out # <<>> => AnswerAuthentic(a.out[1], a.published, input.config)

-----------------------------------------------------------------------------
(* Two delegate steps. *)

Delegated(call) ==
    LET ready == G!Prepare(call.step, input.plan, input.ext)
        failed(why) == [code |-> why, payload |-> G!NewPayload("", ""), base |-> <<>>, form |-> <<>>]
    IN IF ready.error # "" THEN failed(ready.error)
       ELSE IF call.step.plugin_name \in input.silent THEN failed("no_payload")
       ELSE G!Handle(G!NewDelegator(input.delegator)[1],
                     [ready.payload[1] EXCEPT !.attenuation = call.bound], call.legs)

Delegate ==
    /\ Pending("delegation")
    /\ LET out == [i \in 1..2 |-> Delegated(input.calls[i])]
           one == G!Complete(out[1], input.ext)
           two == G!Complete(out[2], one.ext)
       IN answer' = <<[out |-> out, done |-> <<one, two>>, merged |-> G!MergePayload(out[1].payload, out[2].payload)]>>

(* The party a name of the policy stands for, and what it presented. *)
Party(name) ==
    CASE name = "absent" -> "user" [] name = "workload" -> "caller_workload"
      [] name = "gateway" -> "this_workload" [] OTHER -> name
Presented(party) ==
    IF party \in J!Roles /\ input.ext.inbound[party] # <<>> THEN input.ext.inbound[party][1] ELSE ""

(* The credential a step exchanges: a workload's is traded for a base      *)
(* token first, this workload has none.                                    *)
Exchanged(call) ==
    CASE Party(call.step.cfg.subject) = "this_workload" -> ""
      [] Party(call.step.cfg.subject) = "caller_workload" -> call.legs[1].token
      [] OTHER -> Presented(Party(call.step.cfg.subject))
Actor(cfg) == IF cfg.actor = "absent" THEN "" ELSE Presented(Party(cfg.actor))

(* For whom and for what a token was minted. *)
TookPart(cfg, party) == Party(cfg.subject) = party \/ (cfg.actor # "absent" /\ Party(cfg.actor) = party /\ Actor(cfg) # "")
Minted(cfg, granted) ==
    [subject |-> Party(cfg.subject), audience |-> cfg.audience, scopes |-> granted.permissions,
     others |-> [p \in J!Roles |-> IF TookPart(cfg, p) THEN input.ext.ids[p] ELSE <<>>]]

(* What a key tells apart: all but whether the user acted for the subject. *)
SameButForUser(m, n) ==
    /\ m.subject = n.subject /\ m.audience = n.audience /\ m.scopes = n.scopes
    /\ \A p \in J!Roles \ {"user"} : m.others[p] = n.others[p]

TokenOf(out) == out.payload.delegated_token[1]
Tokens(ext) == {t.token : t \in ext.tokens}
KeyedOnce(ext) == \A t, u \in ext.tokens : t.key = u.key => t = u

(* One step that has run, over the extensions it found. *)
StepFaithful(call, out, done, before) ==
    LET cfg == call.step.cfg
        subject == Party(cfg.subject)
    IN IF out.code # "ok" THEN done.ext = before /\ done.granted = G!NothingGranted /\ done.decision # "allow"
       ELSE /\ out.form[1].subject_token = Exchanged(call)
            /\ out.base = IF subject = "caller_workload" THEN <<Presented(subject)>> ELSE <<>>
            /\ subject # "this_workload" => Presented(subject) # ""
            /\ out.form[1].actor_token = Actor(cfg)
            /\ cfg.permissions \subseteq done.granted.permissions
            /\ call.bound # <<>> => \A i \in DOMAIN call.bound[1].ttl : done.granted.expires[1] <= call.bound[1].ttl[i]
            /\ done.granted.audience = <<cfg.audience>>
            /\ TokenOf(out) \in Tokens(done.ext)
            /\ KeyedOnce(before) => KeyedOnce(done.ext)

(***************************************************************************)
(* What is exchanged is the credential of the party the step names, in the *)
(* name of the actor it names; a minted token grants what the step         *)
(* requires and never outlives the route's bound; a step that fails leaves *)
(* the request as it was; and of two steps of one request both tokens are  *)
(* kept unless they were minted for the same thing and the same parties,   *)
(* when the later one takes the place of the earlier.  One exception: the  *)
(* key holds the user of every request, so it does not tell a client's own *)
(* token from one that the user acted in, and the later of these two       *)
(* replaces the earlier as well.                                           *)
(***************************************************************************)
DelegationFaithful ==
    LET a == answer[1]
        calls == input.calls
        minted(i) == Minted(calls[i].step.cfg, a.done[i].granted)
    IN /\ StepFaithful(calls[1], a.out[1], a.done[1], input.ext)
       /\ StepFaithful(calls[2], a.out[2], a.done[2], a.done[1].ext)
       /\ (a.out[1].code = "ok" /\ a.out[2].code = "ok" /\ ~SameButForUser(minted(1), minted(2))) =>
             TokenOf(a.out[1]) \in Tokens(a.done[2].ext)
       /\ a.out[2].code = "ok" => /\ a.merged.delegated_token = a.out[2].payload.delegated_token
                                  /\ a.merged.bearer = a.out[1].payload.bearer

-----------------------------------------------------------------------------
(* The session store. *)

BuildStore ==
    /\ Pending("store")
    /\ answer' = <<[store |-> Store!FromConfig(input.config), error |-> Store!Validate(input.config)]>>

Loopback == {"localhost", "[::1]", "127.0.0.1"}

(***************************************************************************)
(* A session store that is built talks TLS unless it stays on this         *)
(* machine, never against what `tls` says.  One exception: an '@' after    *)
(* the host, when what follows the last one is all that is compared.  It   *)
(* logs in as the one user the block names, with no credential dropped and *)
(* none mixed from two places; and the expiry it sets is the one that was  *)
(* written.  The error of one that is refused shows no credential.         *)
(***************************************************************************)
StoreHoldsCredentials ==
    LET a == answer[1]
        cfg == input.config
        inUrl == cfg.endpoint.userinfo
        url == a.store[1].url
        fields == cfg.username # <<>> \/ cfg.password # <<>>
        said == IF fields THEN [user |-> IF cfg.username = <<>> THEN "" ELSE cfg.username[1], pass |-> cfg.password]
                ELSE [user |-> inUrl[1].user, pass |-> <<inUrl[1].pass>>]
    IN IF a.store = <<>> THEN a.error[1].shows.userinfo \in {<<>>, <<[user |-> "***", pass |-> "***"]>>}
       ELSE /\ url.scheme = "redis" => /\ ~cfg.tls
                                       /\ cfg.endpoint.later = <<>> => url.host \in Loopback
                                       /\ \A i \in DOMAIN cfg.endpoint.later : cfg.endpoint.later[i] \in Loopback
            /\ (cfg.tls \/ cfg.endpoint.scheme = "rediss") => url.scheme = "rediss"
            /\ url.credentials = IF ~fields /\ inUrl = <<>> THEN <<>> ELSE <<said>>
            /\ a.store[1].expire = cfg.ttl_seconds

-----------------------------------------------------------------------------
CredentialNext ==
    \/ BuildResolver \/ InitializeResolver \/ RefreshKeys \/ HandleIdentity \/ DropResolver
    \/ Delegate \/ BuildStore
CredentialSpec == CredentialInit /\ [][CredentialNext]_credentialVars

(* Who a request is, on whose behalf tokens are minted for it, and whom    *)
(* the gateway itself gives its own credentials to.                        *)
CredentialsAuthentic ==
    answer # <<>> => /\ input.kind = "identity" => IdentityAuthentic
                     /\ input.kind = "delegation" => DelegationFaithful
                     /\ input.kind = "store" => StoreHoldsCredentials
=============================================================================
