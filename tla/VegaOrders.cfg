SPECIFICATION Spec
CONSTANTS
    p1 = p1
    p2 = p2
    f1 = f1
    o1 = o1
    o2 = o2
    o3 = o3
    Agents <- MCAgents
    Foreign = {f1}
    Orders = {o1, o2, o3}
    Owner <- MCOwner
    MaxStreams = 2
CHECK_DEADLOCK FALSE
INVARIANT OwnOrdersExact
INVARIANT ForeignOrdersKnown
