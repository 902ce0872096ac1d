SPECIFICATION FairSpec
CONSTANTS
    N = 3
    Results <- MCResults
    Denies <- MCDenies
    HasTimeout = TRUE
    ShortCircuit = TRUE
INVARIANT NoDenyLost
INVARIANT ReturnsDeliverable
PROPERTY Implements
PROPERTY Returns
CHECK_DEADLOCK FALSE
