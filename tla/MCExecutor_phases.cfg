SPECIFICATION FairSpec
CONSTANTS
    None = None
    v1 = v1
    v2 = v2
    l1 = l1
    l2 = l2
    h1 = h1
    g1 = g1
    g2 = g2
    d1 = d1
    d2 = d2
    t1 = t1
    t2 = t2
    admin = admin
    Value = {v1, v2}
    Label = {l1, l2}
    Header = {h1}
    Grant = {g1, g2}
    Detail = {d1, d2}
    Token = {t1, t2}
    Role = {admin}
    ShortCircuit = TRUE
    NumEntries = 6
    Mode <- AllModes
    OnError <- AllOnError
    Caps <- AllCaps
    HostExtensions <- Host
    Proposals <- Edits
    Requests = {"r1"}
    MaxHooks = 1
INVARIANTS
    AllowedMeansAllPassed
    DeniedByFirstBlocker
    ErrorsExact
PROPERTY HookAnswered
 
CHECK_DEADLOCK FALSE
