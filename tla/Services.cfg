SPECIFICATION Spec
INVARIANTS
    PlannedIsSafe
PROPERTIES
    RoutesCanFinish
    VersionsStayTrue
    WorkspacesAreSafe
CHECK_DEADLOCK FALSE
