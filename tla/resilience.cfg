SPECIFICATION FairSpec
CONSTANTS
    Callers = {c1, c2}
    FailureThreshold = 2
    OpenTime = 2
    SuccessThreshold = 2
    MaxRequests = 2
    Window = 2
    MaxWait = 1
    MaxRetries = 1
    MarksBusinessErrors = FALSE
INVARIANTS
    TypeOK
    TripsOnConsecutiveFailures
    OpenStopsNewCalls
    GrantsInWindow
    AnswerTellsEffect
PROPERTIES
    OpensForCause
    RecoversWhenHealthy
