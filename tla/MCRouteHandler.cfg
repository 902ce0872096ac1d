SPECIFICATION FairSpec
CONSTANTS
    r1 = r1
    r2 = r2
    Request = {r1, r2}
    alice = alice
    bob = bob
    v = v
    w = w
    seq = seq
    seq2 = seq2
    tidy = tidy
    conc = conc
    f = f
    g = g
    l = l
    m = m
    None = None
    Subject = {alice, bob}
    Raw = {v, w}
    Label = {l, m}
    Path = {f, g}
    Plugin = {seq, seq2, tidy, conc}
    Mode <- MCMode
    EditOf <- MCEditOf
    LabelOf <- MCLabelOf
    s1 = s1
    s2 = s2
    Session = {s1, s2}
    ShortHash <- MCShortHash
    Traffic <- MCTraffic
    TTL = TRUE
INVARIANT EditsDelivered
INVARIANT ForwardedLabelsStored
INVARIANT SessionSeesHistory
INVARIANT LabelsStayWithSubject
PROPERTY RedactionKept
PROPERTY Answered
CHECK_DEADLOCK FALSE
