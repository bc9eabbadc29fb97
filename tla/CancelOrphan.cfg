SPECIFICATION Spec
CONSTANTS
    r1 = r1
    r2 = r2
    plan = plan
    build = build
    Runs <- OneRun
    Nodes <- OneNode
    Entry = plan
    Successors <- Alone
    Terminals <- First
    BuiltinNodes <- None
    CheckpointNodes <- None
    Limit = 1
    MaxVisits = 1
    MaxRetries = 0
    Operations <- CancelOnly
INVARIANT
    CancelClosesChildren
CHECK_DEADLOCK FALSE
