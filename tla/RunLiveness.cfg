SPECIFICATION FairSpec
CONSTANTS
    r1 = r1
    r2 = r2
    plan = plan
    build = build
    Runs <- TwoRuns
    Nodes <- TwoNodes
    Entry = plan
    Successors <- Chain
    Terminals <- Last
    BuiltinNodes <- Last
    CheckpointNodes <- Last
    Limit = 1
    MaxVisits = 2
    MaxRetries = 1
    Operations <- RetryOnly
PROPERTY
    Settles
CHECK_DEADLOCK FALSE
