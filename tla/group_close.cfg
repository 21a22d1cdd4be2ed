CONSTANTS
    p = p
    q = q
    None = None
    Ids = {p}
    Requests = {c1, c2}
    Closers = {k1}
    Shapes <- OneActor
    Closings <- AnyClosing
    BufMails = 1
    MayPanic = TRUE
    OnSpawnMayFail = TRUE
    HasPanicHandler = TRUE
SPECIFICATION Spec
SYMMETRY Symmetry
INVARIANTS
    TypeOK
    SingleActivation
    RefCount
PROPERTY ImplementsRegistry
CHECK_DEADLOCK FALSE
