SPECIFICATION Spec
CONSTANTS
    CredentialCase <- Cases
    KeyReplies <- Replies
    IdentityRequests <- Requests
    TrustDomain <- MCTrustDomain
    DefaultLeeway = 1
    DefaultTtl = 3
    MaxI64 = 8
    MaxDuration = 7
INVARIANT DecisionsFailClosed
INVARIANT EditsReachTheMessage
INVARIANT RestrictionsHold
INVARIANT CredentialsAuthentic
CHECK_DEADLOCK FALSE
