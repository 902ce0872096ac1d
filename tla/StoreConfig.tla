----------------------------- MODULE StoreConfig -----------------------------
(***************************************************************************)
(* Configuration of the valkey session store (builtins/session/valkey,     *)
(* config.rs, connection.rs): what is accepted and what is dialled.        *)
(*                                                                         *)
(* An endpoint is [scheme, userinfo, host, later, parses]: scheme "none"   *)
(* for a bare host:port, userinfo <<>> or <<[user, pass]>>, host the one a *)
(* URL parser reads, later the text after the last '@' when one follows    *)
(* the host (in a path, a query or a fragment), parses whether the `url`   *)
(* crate reads the whole.  Optional fields are <<>> or <<v>>.              *)
(***************************************************************************)
EXTENDS Naturals, Sequences

CONSTANT MaxI64     \* the greatest i64

IsUrl(endpoint) == endpoint.scheme \in {"redis", "rediss"}

(* What follows the last '@' of the whole endpoint is taken for the host;  *)
(* it is not always the one that is dialled.                               *)
HostText(endpoint) == IF endpoint.later = <<>> THEN endpoint.host ELSE endpoint.later[1]

(* The text up to its first colon is compared, after a bracketed loopback  *)
(* has been recognised; the unbracketed one starts with a colon.           *)
EndpointIsLocalhost(endpoint) ==
    LET text == HostText(endpoint)
    IN text = "[::1]" \/ (IF text = "::1" THEN "" ELSE text) \in {"localhost", "127.0.0.1", "::1"}

(* Everything before the last '@' is replaced. *)
RedactEndpoint(endpoint) ==
    [userinfo |-> IF endpoint.userinfo = <<>> /\ endpoint.later = <<>> THEN <<>>
                  ELSE <<[user |-> "***", pass |-> "***"]>>,
     host |-> HostText(endpoint)]

TlsEnabled(cfg) == cfg.tls \/ cfg.endpoint.scheme = "rediss"

(* <<>> when the endpoint is no URL. *)
ConnectionUrl(cfg) ==
    LET e == cfg.endpoint
        scheme == IF IsUrl(e) THEN e.scheme ELSE IF TlsEnabled(cfg) THEN "rediss" ELSE "redis"
        given == cfg.username # <<>> \/ cfg.password # <<>>
        embedded == IF e.userinfo = <<>> THEN <<>> ELSE <<e.userinfo[1].pass>>
        merged == [user |-> IF cfg.username = <<>> THEN "" ELSE cfg.username[1],
                   pass |-> IF cfg.password = <<>> THEN embedded ELSE cfg.password]
    IN IF ~e.parses THEN <<>>
       ELSE <<[scheme |-> scheme, host |-> e.host,
               credentials |-> IF IsUrl(e) \/ ~given
                               THEN IF e.userinfo = <<>> THEN <<>>
                                    ELSE <<[user |-> e.userinfo[1].user, pass |-> embedded]>>
                               ELSE <<merged>>]>>

(* The error of a refused config, <<>> when it is accepted.  What it says  *)
(* of the endpoint is redacted.                                            *)
Validate(cfg) ==
    LET e == cfg.endpoint
        refuse(why) == << [why |-> why, shows |-> RedactEndpoint(e)] >>
    IN IF cfg.tls /\ e.scheme = "redis" THEN refuse("conflict")
       ELSE IF ~TlsEnabled(cfg) /\ ~EndpointIsLocalhost(e) THEN refuse("tls_required")
       ELSE IF IsUrl(e) /\ (cfg.username # <<>> \/ cfg.password # <<>>) THEN refuse("two_credentials")
       ELSE IF cfg.username # <<>> /\ cfg.password = <<>> THEN refuse("no_password")
       ELSE IF ConnectionUrl(cfg) = <<>> THEN refuse("no_url")
       ELSE IF cfg.ttl_seconds # <<>> /\ cfg.ttl_seconds[1] > MaxI64 THEN refuse("ttl")
       ELSE <<>>

(* The second guard: saturates. *)
TtlForExpire(ttl) == IF ttl <= MaxI64 THEN ttl ELSE MaxI64

(* The store a config block builds: <<>> on an error. *)
FromConfig(cfg) ==
    IF Validate(cfg) # <<>> THEN <<>>
    ELSE <<[url |-> ConnectionUrl(cfg)[1],
            expire |-> IF cfg.ttl_seconds = <<>> THEN <<>> ELSE <<TtlForExpire(cfg.ttl_seconds[1])>>]>>
=============================================================================
