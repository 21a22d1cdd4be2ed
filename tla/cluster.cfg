SPECIFICATION FairSpec
CONSTANTS
    a = a
    b = b
    c = c
    NoNode = NoNode
    Nodes = {a, b, c}
    VirtualNodes = 1
    Rings <- MCRings
    Requests = {1, 2}
    Plans <- MCPlans
    Configs = {"retry", "force"}
    MaxClients = 2
    MaxEvents = 2
INVARIANTS TypeOK AtMostOnce NoOrphanClient
PROPERTIES MinimalMovement Migrates
CHECK_DEADLOCK FALSE
