SPECIFICATION Spec
PROPERTIES
    CodexAttemptEnds
    CallsAreAnswered
    DashboardCatchesUp
    ReviewsAreFaithful
CHECK_DEADLOCK FALSE
