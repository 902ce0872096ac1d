------------------------------ MODULE Identity ------------------------------
(***************************************************************************)
(* The JWT identity resolver (builtins/plugins/identity-jwt) and the       *)
(* payload its chain fills (ppe-core, identity/payload.rs).                *)
(*                                                                         *)
(* A token is a record of what the library reads from it: [form, iss, kid, *)
(* alg, key, aud, exp, nbf, claims], key being the one it is signed with.  *)
(* The signature check and the claim checks belong to jsonwebtoken and are *)
(* modelled by what the resolver asks of them.                             *)
(***************************************************************************)
EXTENDS Integers, Sequences, FiniteSets, SequencesExt

CONSTANTS DefaultLeeway,   \* DEFAULT_LEEWAY_SECONDS
          TrustDomain      \* spiffe:// identifiers, with their host part

NoKey == "none"

-----------------------------------------------------------------------------
(* Key stores. *)

EmptyStore == [by_kid |-> [k \in {} |-> NoKey], fallback |-> NoKey]
SingleFallback(key) == [EmptyStore EXCEPT !.fallback = key]

(* Of the entries used that have the same kid the last one is kept. *)
FromJwksEntries(entries, used) ==
    [EmptyStore EXCEPT !.by_kid =
        [k \in {entries[i].kid : i \in used} |->
            entries[CHOOSE i \in used :
                entries[i].kid = k /\ \A j \in used : entries[j].kid = k => j <= i].key]]

IsEmpty(store) == DOMAIN store.by_kid = {} /\ store.fallback = NoKey

(* A token without a kid may only use the fallback, a token with one only  *)
(* the key of that name.                                                   *)
Select(store, kid) ==
    IF kid # "" THEN IF kid \in DOMAIN store.by_kid THEN store.by_kid[kid] ELSE NoKey
    ELSE store.fallback

(* Where a JWKS document has keys that can be used: for signatures,       *)
(* named, and readable.                                                    *)
UsableKeys(jwks) ==
    {i \in DOMAIN jwks : jwks[i].use \in {"absent", "sig"} /\ jwks[i].kid # "" /\ jwks[i].reads}

RequireHttps(source) == source.scheme # "http" \/ source.insecure_http

(* DecodingKeySource::build and build_async; <<>> is an error.  reply is   *)
(* what the endpoint answers: <<>> for any network failure or a body that  *)
(* is no JWK set.                                                          *)
BuildSource(source) ==
    IF source.kind = "jwks_url" \/ ~source.reads THEN <<>> ELSE <<SingleFallback(source.key)>>
BuildSourceAsync(source, reply) ==
    IF source.kind # "jwks_url" THEN BuildSource(source)
    ELSE IF ~RequireHttps(source) \/ reply = <<>> THEN <<>>
    ELSE IF UsableKeys(reply[1]) = {} THEN <<>> ELSE <<FromJwksEntries(reply[1], UsableKeys(reply[1]))>>

-----------------------------------------------------------------------------
(* Construction and initialize. *)

ValidateIssuer(cfg) == cfg.issuer # "" /\ cfg.algorithms # {}

TrustedIssuer(cfg, store) ==
    [issuer |-> cfg.issuer, audiences |-> cfg.audiences, algorithms |-> cfg.algorithms,
     leeway |-> cfg.leeway, keys |-> store]

(* The issuers whose keys are fetched, or those that bring theirs along,   *)
(* in the order of the configuration.                                      *)
Issuers(issuers, fetched) ==
    FlattenSeq([i \in DOMAIN issuers |->
                   IF (issuers[i].source.kind = "jwks_url") = fetched THEN <<issuers[i]>> ELSE <<>>])

NewResolver(cfg) ==
    LET issuers == cfg.trusted_issuers
        inline == Issuers(issuers, FALSE)
    IN IF \/ issuers = <<>>
          \/ \E i \in DOMAIN issuers : ~ValidateIssuer(issuers[i])
          \/ \E i \in DOMAIN inline : BuildSource(inline[i].source) = <<>>
          \/ cfg.claim_mapper \notin {"absent", "standard"} \/ cfg.role = "custom" \/ cfg.header = ""
       THEN <<>>
       ELSE <<[trusted_issuers |-> [i \in DOMAIN inline |->
                   TrustedIssuer(inline[i], BuildSource(inline[i].source)[1])],
               pending_jwks |-> Issuers(issuers, TRUE),
               role |-> cfg.role, header |-> cfg.header, tasks |-> {}]>>

(* One fetch per pending issuer.  A failed one leaves an empty store; the  *)
(* refresh task is started either way, on the index of its issuer.         *)
Initialize(r, replies) ==
    LET base == Len(r.trusted_issuers)
        built(i) == LET got == BuildSourceAsync(r.pending_jwks[i].source, replies[i])
                    IN TrustedIssuer(r.pending_jwks[i], IF got = <<>> THEN EmptyStore ELSE got[1])
    IN [r EXCEPT !.trusted_issuers = @ \o [i \in DOMAIN r.pending_jwks |-> built(i)],
                 !.tasks = @ \cup {[at |-> base + i, source |-> r.pending_jwks[i].source] :
                                      i \in DOMAIN r.pending_jwks}]

(* Mutant: a failed refresh leaves the store empty. *)
RefreshClears(r, task, reply) ==
    LET got == BuildSourceAsync(task.source, reply)
    IN [r EXCEPT !.trusted_issuers[task.at].keys = IF got = <<>> THEN EmptyStore ELSE got[1]]

(* One tick of a refresh task: the whole store is replaced, or kept. *)
Refresh(r, task, reply) ==
    LET got == BuildSourceAsync(task.source, reply)
    IN IF got = <<>> THEN r ELSE [r EXCEPT !.trusted_issuers[task.at].keys = got[1]]

Drop(r) == [r EXCEPT !.tasks = {}]

-----------------------------------------------------------------------------
(* Validation. *)

PeekIssuer(token) == IF token.form = "jwt" THEN token.iss ELSE ""

Leeway(issuer) == IF issuer.leeway = 0 THEN DefaultLeeway ELSE issuer.leeway

(* What decode() checks with the settings validate_token gives it. *)
ClassifyJwtError(token, issuer, key, now) ==
    CASE token.alg \notin issuer.algorithms -> "auth.algorithm_mismatch"
      [] token.alg \in issuer.algorithms /\ token.key # key -> "auth.signature_invalid"
      [] token.alg \in issuer.algorithms /\ token.key = key ->
           CASE token.exp + Leeway(issuer) < now -> "auth.token_expired"
             [] token.exp + Leeway(issuer) >= now /\ token.nbf > now + Leeway(issuer) ->
                  "auth.token_not_yet_valid"
             [] OTHER ->
                  IF token.iss # issuer.issuer THEN "auth.untrusted_issuer"
                  ELSE IF issuer.audiences # {} /\ token.aud \cap issuer.audiences = {}
                  THEN "auth.audience_mismatch" ELSE "ok"

ValidateToken(token, issuer, now) ==
    LET key == Select(issuer.keys, token.kid)
    IN CASE IsEmpty(issuer.keys) -> "auth.jwks_unavailable"
         [] ~IsEmpty(issuer.keys) /\ key = NoKey -> "auth.unknown_kid"
         [] ~IsEmpty(issuer.keys) /\ key # NoKey ->
              IF issuer.algorithms = {} THEN "auth.no_algorithms"
              ELSE ClassifyJwtError(token, issuer, key, now)

-----------------------------------------------------------------------------
(* Claims: name to <<"string", s>>, <<"words", seq>> (a text with spaces), *)
(* <<"array", seq>> of strings, or <<"other">>.                            *)

Claim(claims, name) == IF name \in DOMAIN claims THEN claims[name] ELSE <<"absent">>
Words(v) == IF v[1] \in {"array", "words"} THEN ToSet(v[2])
            ELSE IF v[1] = "string" THEN {v[2]} ELSE {}
ArrayOf(v) == IF v[1] = "array" THEN ToSet(v[2]) ELSE {}
Preferred(claims, array, other) ==
    IF Claim(claims, array)[1] = "array" THEN ArrayOf(Claim(claims, array)) ELSE other

Registered == {"iss", "aud", "exp", "nbf", "iat", "jti", "sub", "roles", "scope"}
Rest(claims, reserved) == {n \in DOMAIN claims : n \notin Registered \cup reserved}

ScopeWords(claims) ==
    IF Claim(claims, "scope")[1] \in {"string", "words"} THEN Words(Claim(claims, "scope")) ELSE {}

MapSubject(claims) ==
    IF Claim(claims, "sub")[1] # "string" THEN <<>>
    ELSE <<[id |-> claims["sub"][2],
            roles |-> ArrayOf(Claim(claims, "roles")),
            permissions |-> Preferred(claims, "permissions", ScopeWords(claims)),
            teams |-> Preferred(claims, "teams", ArrayOf(Claim(claims, "groups"))),
            claims |-> Rest(claims, {"permissions", "teams", "groups"})]>>

(* A client_id of the wrong shape hides a good azp. *)
MapClient(claims) ==
    LET id == IF "client_id" \in DOMAIN claims THEN claims["client_id"] ELSE Claim(claims, "azp")
    IN IF id[1] # "string" THEN <<>>
       ELSE <<[client_id |-> id[2],
               scopes |-> Preferred(claims, "authorized_scopes", ScopeWords(claims)),
               audiences |-> IF Claim(claims, "aud")[1] = "words" THEN {} ELSE Words(Claim(claims, "aud")),
               roles |-> ArrayOf(Claim(claims, "roles")),
               claims |-> Rest(claims, {"client_id", "azp", "client_name", "authorized_scopes"})]>>

(* Both places of a SPIFFE ID are held to the same prefix. *)
MapWorkload(claims) ==
    LET spiffe(name) == Claim(claims, name)[1] = "string" /\ claims[name][2] \in DOMAIN TrustDomain
        id == IF spiffe("sub") THEN claims["sub"][2] ELSE claims["spiffe_id"][2]
    IN IF ~spiffe("sub") /\ ~spiffe("spiffe_id") THEN <<>>
       ELSE <<[spiffe_id |-> id, trust_domain |-> TrustDomain[id], attestor |-> "jwt"]>>

MapClaims(role, claims) ==
    CASE role = "user" -> MapSubject(claims)
      [] role = "client" -> MapClient(claims)
      [] role = "caller_workload" -> MapWorkload(claims)
      [] OTHER -> <<>>

-----------------------------------------------------------------------------
(* The identity hook.  A payload carries the request's headers and token   *)
(* and the slots filled so far.                                            *)

Roles == {"user", "client", "caller_workload"}

Payload(headers, raw_token) ==
    [headers |-> headers, raw_token |-> raw_token, slots |-> [r \in Roles |-> <<>>],
     inbound_tokens |-> [r \in Roles |-> <<>>], raw_claims |-> [n \in {} |-> <<>>]]

(* Absent the configured header, the token the host extracted is taken. *)
TokenFor(r, payload) ==
    IF r.header \in DOMAIN payload.headers THEN <<payload.headers[r.header]>> ELSE payload.raw_token

(* [verdict, payload]: "ok" with the filled payload, or a violation code.  *)
Handle(r, payload, now) ==
    LET token == TokenFor(r, payload)
        deny(code) == [verdict |-> code, payload |-> payload]
        known == {i \in DOMAIN r.trusted_issuers :
                     r.trusted_issuers[i].issuer = PeekIssuer(token[1])}
        issuer == r.trusted_issuers[CHOOSE i \in known : \A j \in known : i <= j]
        slot == MapClaims(r.role, token[1].claims)
    IN IF token = <<>> THEN deny("auth.malformed_header")
       ELSE IF PeekIssuer(token[1]) = "" THEN deny("auth.malformed_header")
       ELSE IF known = {} THEN deny("auth.untrusted_issuer")
       ELSE IF ValidateToken(token[1], issuer, now) # "ok"
            THEN deny(ValidateToken(token[1], issuer, now))
       ELSE IF slot = <<>> THEN deny("auth.mapping_failed")
       ELSE [verdict |-> "ok",
             payload |-> [payload EXCEPT
                !.slots[r.role] = slot,
                !.inbound_tokens[r.role] =
                    <<[token |-> token[1], header |-> r.header,
                       kind |-> IF r.role = "caller_workload" THEN "spiffe_jwt" ELSE "jwt"]>>,
                !.raw_claims = token[1].claims]]

(* The slots written back over the request's extensions; what a resolver   *)
(* left out stays as it was.                                               *)
ApplyToExtensions(payload, ext) ==
    [ext EXCEPT
        !.slots = [r \in Roles |-> IF payload.slots[r] # <<>> THEN payload.slots[r] ELSE @[r]],
        !.raw_credentials = IF \E r \in Roles : payload.inbound_tokens[r] # <<>>
                            THEN payload.inbound_tokens ELSE @]

Merge(payload, other) ==
    [payload EXCEPT
        !.slots = [r \in Roles |-> IF other.slots[r] # <<>> THEN other.slots[r] ELSE @[r]],
        !.inbound_tokens = IF \E r \in Roles : other.inbound_tokens[r] # <<>>
                           THEN other.inbound_tokens ELSE @,
        !.raw_claims = [n \in DOMAIN @ \cup DOMAIN other.raw_claims |->
                           IF n \in DOMAIN other.raw_claims THEN other.raw_claims[n] ELSE @[n]]]

=============================================================================
