\* spawner.py 95: the number of claude processes is bounded.
CONSTANTS
    Calls = {a, b}
    MaxConcurrent = 1
    ReaderFaults = TRUE
    EarlyEof = FALSE
    Cancels = TRUE
SPECIFICATION Spec
INVARIANTS
    ProcessesBounded
CHECK_DEADLOCK FALSE
