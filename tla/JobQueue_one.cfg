SPECIFICATION Spec
CONSTANTS
    Jobs = {j1, j2}
    Workers = {k1}
    NoJob = NoJob
    MaxAttempts = 3
    MaxCrashes = 2
    MaxHiccups = 1
INVARIANT TypeOK
INVARIANT DoneMeansSent
INVARIANT FailedMeansAlerted
INVARIANT SendsBounded
INVARIANT AttemptsCountRaises
PROPERTY ImplementsJobLife
PROPERTY EveryJobSettles
CHECK_DEADLOCK FALSE
