SPECIFICATION FairSpec
CONSTANTS
    Key1 = "k"
    Key = {"k", "delegation.granted"}
    ArgsField = {"args.a"}
    ResultField = {"result.r"}
    NumEffects = 7
    SmallSize = 3
    Kinds = {"allow", "deny", "plugin", "delegate", "elicit", "taint", "field", "parallel", "when", "pdp"}
    Programs <- Routes
INVARIANT ForwardedMeansNoRefusal
INVARIANT DenyIsExplained
INVARIANT DecisionIsWhole
PROPERTY Evaluated
CHECK_DEADLOCK FALSE
