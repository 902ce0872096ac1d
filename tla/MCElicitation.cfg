SPECIFICATION FairSpec
CONSTANTS
    boss = boss
    cfo = cfo
    Human = {boss, cfo}
    NumAttempts = 3
    NumIds = 1
    None = None
    Calls <- MCCalls
INVARIANT ForwardedIsApproved
INVARIANT ReplayHonoured
INVARIANT NoMeansNo
PROPERTY AttemptAnswered
CHECK_DEADLOCK FALSE
