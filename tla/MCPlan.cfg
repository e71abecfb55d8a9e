SPECIFICATION PlanSpec
CONSTANTS
    c1 = c1
    c2 = c2
    w1 = w1
    w2 = w2
    Nodes = {c1, c2, w1, w2}
    N = 2
    Kinds <- AirgapThenK0s
    Controllers <- TwoControllers
    Workers <- TwoWorkers
    Limit <- TwoThenOne
    Allowed = {"failover", "badtarget"}
    MaxFaults = 2
CHECK_DEADLOCK FALSE
INVARIANTS
    CommandsInOrder
    RolloutDiscipline
    CommandsAreCarriedOut
PROPERTIES
    PlansStayFinal
    PlansEnd
