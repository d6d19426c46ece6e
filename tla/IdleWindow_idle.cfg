\* router.py 5-6: a conversation lasts while its messages keep coming.
CONSTANTS
    Operators = {ann, bob}
    Window = 2
    MaxNow = 7
    MaxRows = 4
SPECIFICATION Spec
PROPERTIES
    KeptWhileTalking
CHECK_DEADLOCK FALSE
