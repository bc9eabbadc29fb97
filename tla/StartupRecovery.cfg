SPECIFICATION Spec
CONSTANTS
    l1 = l1
    l2 = l2
    s1 = s1
    h1 = h1
    d1 = d1
    d2 = d2
    d3 = d3
    e1 = e1
    o1 = o1
    LeaseIds <- TwoLeases
    Scopes <- OneScope
    Holders <- OneHolder
    Daemons <- ThreeDaemons
    QueueItems <- None
    Priorities <- None
    Duration = 1
    TicksPerSecond = 2
    MaxTime = 2
    MaxToken = 2
    Evidence <- OneEvidence
    OpIds <- OneOp
    ObserverOutcomes <- AllOutcomes
INVARIANTS
    TypeOK
    FenceOrder
    ExclusiveWriter
    NoInheritedOwner
PROPERTIES
    NothingLeftUndecided
    ReleaseIsExplicit
    ImplementsLock
SYMMETRY Symmetry
CHECK_DEADLOCK FALSE
