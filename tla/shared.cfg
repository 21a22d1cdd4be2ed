SPECIFICATION FairSpec
CONSTANTS
    None = None
    Readers = {r1}
    MaxEntries = 2
    MaxVersion = 3
    Mails = 1
    HasTTL = TRUE
INVARIANTS TypeOK StaysSubscribed
PROPERTIES NeverBack Converges
CHECK_DEADLOCK FALSE
