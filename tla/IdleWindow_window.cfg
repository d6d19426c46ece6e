\* Two operators over several windows.
CONSTANTS
    Operators = {ann, bob}
    Window = 2
    MaxNow = 6
    MaxRows = 3
SPECIFICATION Spec
INVARIANTS
    TypeOK
    SameAnswer
PROPERTIES
    ImplementsLedger
    NeverBack
CHECK_DEADLOCK FALSE
