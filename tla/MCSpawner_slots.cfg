\* Every exit from spawn, cancellation included, accounts for its permit.
CONSTANTS
    Calls = {a, b, c, d}
    MaxConcurrent = 2
    ReaderFaults = TRUE
    EarlyEof = TRUE
    Cancels = TRUE
SPECIFICATION Spec
SYMMETRY Symmetry
INVARIANTS
    TypeOK
    SlotsAccounted
    WaitersServed
PROPERTIES
    Fifo
CHECK_DEADLOCK FALSE
