CONSTANTS
    p = p
    q = q
    None = None
    Ids = {p, q}
    Requests = {c1, c2, c3}
    Closers = {}
    Shapes <- TwoActors
    Closings <- AnyClosing
    BufMails = 2
    MayPanic = TRUE
    OnSpawnMayFail = TRUE
    HasPanicHandler = TRUE
SPECIFICATION Spec
SYMMETRY Symmetry
INVARIANTS
    HeldAlive
    MailboxSafe
    Conservation
    IdleExact
