SPECIFICATION Spec
CONSTANTS
    Calls = {c1, c2, c3}
    Shapes <- AllShapes
    MaxTimers = 3
    MaxInt = 3
    Mails = 2
SYMMETRY Symmetry
INVARIANTS TypeOK ReplyOnce TimerKept NeverForgotten
PROPERTY RunsInOwnContext
CHECK_DEADLOCK FALSE
