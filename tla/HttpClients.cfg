SPECIFICATION Spec
CONSTANTS
    NumRequests = 3
    MaxChunks = 2
INVARIANTS OneAfterAnother EndsForAReason
PROPERTY NotHeldUp
CHECK_DEADLOCK FALSE
