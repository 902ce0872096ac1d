SPECIFICATION Spec
CONSTANTS
    Plugin = {p1, p2}
    Mutators = {m1, m2}
    Planners = {q1, q2}
    None = None
    MaxMutations = 4
SYMMETRY MCSymmetry
INVARIANT PlanIsFresh
INVARIANT CachedPlanIsWhole
CHECK_DEADLOCK FALSE
