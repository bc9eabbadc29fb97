SPECIFICATION Spec
CONSTANTS
    r1 = r1
    r2 = r2
    plan = plan
    build = build
    Runs <- OneRun
    Nodes <- TwoNodes
    Entry = plan
    Successors <- Chain
    Terminals <- Last
    BuiltinNodes <- Last
    CheckpointNodes <- First
    Limit = 1
    MaxVisits = 2
    MaxRetries = 1
    Operations <- EveryOperation
INVARIANTS
    TypeOK
    OneLiveAttempt
    LiveAttemptHasOpenVisit
    ClosedRun
    ReconcileAgrees
PROPERTIES
    OutcomeFinal
CHECK_DEADLOCK FALSE
