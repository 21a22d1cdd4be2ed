CONSTANTS
    p = p
    q = q
    None = None
    Ids = {p}
    Requests = {c1, c2}
    Closers = {k1}
    Shapes <- ServeOnly
    Closings <- CloseOnly
    BufMails = 1
    MayPanic = FALSE
    OnSpawnMayFail = FALSE
    HasPanicHandler = TRUE
SPECIFICATION Spec
INVARIANT MailboxSafe
