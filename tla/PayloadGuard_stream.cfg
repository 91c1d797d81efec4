SPECIFICATION Spec
CONSTANTS
    MaxBytes = 4
    MaxChunk = 3
    MaxTotal = 8
    NoLength = NoLength
INVARIANT TypeOK
INVARIANT OneResponse
INVARIANT CapHolds
INVARIANT TooLargeIsTold
PROPERTY Answered
CHECK_DEADLOCK FALSE
