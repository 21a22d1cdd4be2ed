SPECIFICATION FairSpec
CONSTANTS
    Calls = {c1, c2}
    Posts = {p1}
    MaxSeq = 2
    MayTimeout = TRUE
    MayGarble = TRUE
    None = None
INVARIANTS TypeOK OwnAnswer SendsOnce NoLeak
PROPERTY CallsReturn
