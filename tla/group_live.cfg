CONSTANTS
    p = p
    q = q
    None = None
    Ids = {p}
    Requests = {c1, c2}
    Closers = {k1}
    Shapes <- SpawnOrRef
    Closings <- GroupOnly
    BufMails = 1
    MayPanic = TRUE
    OnSpawnMayFail = FALSE
    HasPanicHandler = TRUE
SPECIFICATION FairSpec
PROPERTIES
    RequestsReturn
    MessagesSettle
    JoinReturns
