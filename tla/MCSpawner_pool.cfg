\* Without reader failures and cancellation the processes are a bounded pool,
\* and every call ends, though claude may hang and ignore SIGTERM.
CONSTANTS
    Calls = {a, b, c, d}
    MaxConcurrent = 2
    ReaderFaults = FALSE
    EarlyEof = FALSE
    Cancels = FALSE
SPECIFICATION LiveSpec
PROPERTIES
    ImplementsPool
    CallsEnd
CHECK_DEADLOCK FALSE
