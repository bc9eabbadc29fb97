SPECIFICATION Spec
CONSTANTS
    l1 = l1
    l2 = l2
    s1 = s1
    h1 = h1
    d1 = d1
    d2 = d2
    d3 = d3
    e1 = e1
    o1 = o1
    LeaseIds <- OneLease
    Scopes <- OneScope
    Holders <- OneHolder
    Daemons <- ThreeDaemons
    QueueItems <- None
    Priorities <- None
    Duration = 1
    TicksPerSecond = 2
    MaxTime = 2
    MaxToken = 2
    Evidence <- OneEvidence
    OpIds <- OneOp
    ObserverOutcomes <- None
INVARIANTS
    BlockedUntilResolved
CHECK_DEADLOCK FALSE
