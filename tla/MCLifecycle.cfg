SPECIFICATION Spec
SYMMETRY Callers
CONSTANTS
    c1 = c1
    c2 = c2
    p = p
    q = q
    s = s
    pre = pre
    post = post
    lineup = lineup
    plan = plan
    Plugin = {p, q, s}
    Hook = {pre, post}
    Caller = {c1, c2}
    Serves <- MCServes
    Priority <- MCPriority
    Overriding = {lineup, plan}
    Target <- MCTarget
    Planned = {plan}
    MaxTasks = 1
INVARIANT IndexExact
INVARIANT AllOrNothing
INVARIANT DrainedBeforeTeardown
CHECK_DEADLOCK FALSE
