SPECIFICATION Spec
CONSTANTS
    Calls = {c1}
    Shapes <- SafeShapes
    MaxTimers = 0
    MaxInt = 3
    Mails = 1
INVARIANT NoCrash
CHECK_DEADLOCK FALSE
