SPECIFICATION Spec
CONSTANTS
    Jobs = {j1}
    Workers = {k1}
    NoJob = NoJob
    MaxAttempts = 2
    MaxCrashes = 1
    MaxHiccups = 0
PROPERTY RetriedOrAlerted
CHECK_DEADLOCK FALSE
