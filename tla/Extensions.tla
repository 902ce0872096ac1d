----------------------------- MODULE Extensions -----------------------------
(***************************************************************************)
(* The extensions container of ppe-core: what a plugin is shown            *)
(* (filter_extensions, extensions/filter.rs) and what of the extensions it *)
(* returns becomes canonical (the executor's acceptance checks and         *)
(* merge_owned, executor.rs and extensions/container.rs).                  *)
(*                                                                         *)
(* One slot stands for each group the code treats alike: `request` for the *)
(* seven immutable slots everybody sees, `agent` for the immutable slot    *)
(* behind a capability, security.subject for the authenticated identity    *)
(* (`roles` for its four gated sub-fields), http.headers for the two       *)
(* header maps and http.line for method, path, host and scheme. The value  *)
(* of an immutable slot stands for the identity of its Arc.                *)
(***************************************************************************)
EXTENDS Naturals, Sequences

CONSTANTS
    Value,      \* contents of a slot nothing looks into
    Label,      \* security labels
    Header,     \* HTTP headers
    Grant,      \* the fields of a delegation hop that chain_extends compares
    Detail,     \* the hop fields it does not compare (authorization_details, ...)
    Token,      \* raw credentials
    Role,       \* a subject's roles, permissions, teams and claims
    None        \* Option::None

Maybe(S) == S \cup {None}

Subject == [id : Value, roles : SUBSET Role]
HttpExtension == [line : Maybe(Value), headers : SUBSET Header]
SecurityExtension == [labels : SUBSET Label, subject : Maybe(Subject)]
DelegationHop == [grant : Grant, detail : Detail]
DelegationExtension == [chain : Seq(DelegationHop), depth : Nat, origin : Maybe(Value)]
RawCredentialsExtension == [inbound : SUBSET Token, delegated : SUBSET Token]

ASSUME NoneAssumption ==
    /\ None \notin Value
    /\ None \notin Subject
    /\ None \notin HttpExtension
    /\ None \notin SecurityExtension
    /\ None \notin DelegationExtension
    /\ None \notin RawCredentialsExtension

ExtensionsType ==
    [request : Maybe(Value),
     agent : Maybe(Value),
     http : Maybe(HttpExtension),
     security : Maybe(SecurityExtension),
     candidate_constraint : Maybe(Value),
     delegation : Maybe(DelegationExtension),
     raw_credentials : Maybe(RawCredentialsExtension),
     custom : Maybe(Value)]

Capability ==
    {"read_agent", "read_headers", "write_headers", "read_labels", "append_labels",
     "read_subject", "read_roles", "read_delegation", "append_delegation",
     "read_inbound_credentials", "read_delegated_tokens", "write_candidate_constraint"}

-----------------------------------------------------------------------------
(* The view: filter_extensions.                                            *)

ReadCap ==
    [agent |-> "read_agent", http |-> "read_headers", delegation |-> "read_delegation",
     labels |-> "read_labels", inbound |-> "read_inbound_credentials",
     delegated |-> "read_delegated_tokens"]

HasReadAccess(slot, caps) == ReadCap[slot] \in caps

HasAnySubjectCapability(caps) == caps \cap {"read_subject", "read_roles"} # {}

Gate(slot, caps, value, blank) == IF HasReadAccess(slot, caps) THEN value ELSE blank

FilteredSubject(subject, caps) ==
    [subject EXCEPT !.roles = IF "read_roles" \in caps THEN @ ELSE {}]

FilteredSecurity(security, caps) ==
    [labels |-> Gate("labels", caps, security.labels, {}),
     subject |-> IF security.subject # None /\ HasAnySubjectCapability(caps)
                 THEN FilteredSubject(security.subject, caps)
                 ELSE None]

FilteredRawCredentials(raw, caps) ==
    [inbound |-> Gate("inbound", caps, raw.inbound, {}),
     delegated |-> Gate("delegated", caps, raw.delegated, {})]

FilterExtensions(ext, caps) ==
    [request |-> ext.request,
     custom |-> ext.custom,
     candidate_constraint |-> ext.candidate_constraint,
     delegation |-> Gate("delegation", caps, ext.delegation, None),
     agent |-> Gate("agent", caps, ext.agent, None),
     http |-> Gate("http", caps, ext.http, None),
     security |-> IF ext.security = None THEN None ELSE FilteredSecurity(ext.security, caps),
     raw_credentials |->
        IF ext.raw_credentials # None
            /\ (HasReadAccess("inbound", caps) \/ HasReadAccess("delegated", caps))
        THEN FilteredRawCredentials(ext.raw_credentials, caps)
        ELSE None]

\* What a handler returns of the credentials.  Plugins share them and do not
\* write them; a framework handler adds the tokens that were minted for the
\* request (`raw_credentials` of OwnedExtensions).
HandsBack(view, owned) ==
    LET shown == IF view.raw_credentials = None THEN [inbound |-> {}, delegated |-> {}]
                 ELSE view.raw_credentials
    IN  \/ owned.raw_credentials = view.raw_credentials
        \/ \E minted \in SUBSET Token \ {{}} :
              owned.raw_credentials = [shown EXCEPT !.delegated = @ \cup minted]

-----------------------------------------------------------------------------
(* The write-back: merge_owned. The executor mints a write token exactly   *)
(* for the capabilities the plugin declares, so a token is its capability. *)

MergeHttp(ext, owned, caps) ==
    IF owned.http = None \/ "write_headers" \notin caps THEN ext.http
    ELSE IF ext.http = None THEN [line |-> None, headers |-> owned.http.headers]
    ELSE [ext.http EXCEPT !.headers = owned.http.headers]

MergeSecuritySwaps(ext, owned, caps) ==     \* mutant: the returned view replaces the slot
    IF owned.security = None THEN ext.security ELSE owned.security

MergeSecurity(ext, owned, caps) ==
    LET base == IF ext.security = None THEN [labels |-> {}, subject |-> None] ELSE ext.security
    IN  IF owned.security = None \/ "append_labels" \notin caps
            \/ ~(base.labels \subseteq owned.security.labels)
        THEN ext.security
        ELSE [base EXCEPT !.labels = @ \cup owned.security.labels]

ChainExtends(canonical, returned) ==
    /\ Len(returned) >= Len(canonical)
    /\ \A i \in 1 .. Len(canonical) : canonical[i].grant = returned[i].grant

MergeDelegation(ext, owned, caps) ==
    IF owned.delegation = None \/ "append_delegation" \notin caps THEN ext.delegation
    ELSE IF ext.delegation # None /\ ~ChainExtends(ext.delegation.chain, owned.delegation.chain)
    THEN ext.delegation
    ELSE [chain |-> owned.delegation.chain,
          depth |-> Len(owned.delegation.chain),
          origin |-> IF ext.delegation = None \/ ext.delegation.origin = None
                     THEN owned.delegation.origin
                     ELSE ext.delegation.origin]

MergeOwned(ext, owned, caps) ==
    [request |-> ext.request,
     agent |-> ext.agent,
     http |-> MergeHttp(ext, owned, caps),
     security |-> MergeSecurity(ext, owned, caps),
     candidate_constraint |-> owned.candidate_constraint,
     delegation |-> MergeDelegation(ext, owned, caps),
     raw_credentials |-> IF owned.raw_credentials # None
                         THEN owned.raw_credentials
                         ELSE ext.raw_credentials,
     custom |-> owned.custom]

-----------------------------------------------------------------------------
(* Acceptance: the executor takes the returned extensions or none of them. *)

ValidateImmutable(ext, owned) ==
    \A slot \in {"request", "agent"} : owned[slot] # None => owned[slot] = ext[slot]

LabelsOk(ext, owned, caps) ==
    "read_labels" \in caps /\ ext.security # None /\ owned.security # None =>
        ext.security.labels \subseteq owned.security.labels

CandidateConstraintWriteOk(ext, owned, caps) ==
    \/ "write_candidate_constraint" \in caps
    \/ owned.candidate_constraint = ext.candidate_constraint

AcceptExtensions(ext, owned, caps) ==
    IF /\ ValidateImmutable(ext, owned)
       /\ LabelsOk(ext, owned, caps)
       /\ CandidateConstraintWriteOk(ext, owned, caps)
    THEN MergeOwned(ext, owned, caps)
    ELSE ext

-----------------------------------------------------------------------------
(* What a plugin may do to the canonical extensions, by tier.              *)

ImmutableKept(old, new) ==
    /\ new.request = old.request
    /\ new.agent = old.agent
    /\ old.http # None => new.http # None /\ new.http.line = old.http.line
    /\ old.security # None => new.security # None /\ new.security.subject = old.security.subject
    /\ old.security = None /\ new.security # None => new.security.subject = None

LabelsGrow(old, new) ==
    old.security # None => old.security.labels \subseteq new.security.labels

\* Every hop keeps its place and what it granted; what the merge does not
\* compare of a hop (`detail`) may have been rewritten.
ChainGrows(old, new) ==
    old.delegation # None =>
        /\ new.delegation # None
        /\ \A i \in DOMAIN old.delegation.chain :
              i \in DOMAIN new.delegation.chain
                /\ new.delegation.chain[i].grant = old.delegation.chain[i].grant
        /\ old.delegation.origin # None => new.delegation.origin = old.delegation.origin

\* Raw credentials are swapped whole: the ones a plugin was not shown may go,
\* but it loses none that it was shown, and none comes in as inbound.
CredentialsStand(old, new, caps) ==
    /\ old.raw_credentials # None =>
          /\ new.raw_credentials # None
          /\ HasReadAccess("inbound", caps) =>
                old.raw_credentials.inbound \subseteq new.raw_credentials.inbound
          /\ HasReadAccess("delegated", caps) =>
                old.raw_credentials.delegated \subseteq new.raw_credentials.delegated
    /\ new.raw_credentials # None =>
          \A t \in new.raw_credentials.inbound :
             old.raw_credentials # None /\ t \in old.raw_credentials.inbound

WriteAuthorised(old, new, caps) ==
    /\ new.http # old.http => "write_headers" \in caps
    /\ new.security # old.security => "append_labels" \in caps
    /\ new.delegation # old.delegation =>
            "append_delegation" \in caps /\ new.delegation.depth = Len(new.delegation.chain)
    /\ new.candidate_constraint # old.candidate_constraint =>
            "write_candidate_constraint" \in caps

TierStep(old, new, caps) ==
    /\ ImmutableKept(old, new)
    /\ LabelsGrow(old, new)
    /\ ChainGrows(old, new)
    /\ CredentialsStand(old, new, caps)
    /\ WriteAuthorised(old, new, caps)
=============================================================================
