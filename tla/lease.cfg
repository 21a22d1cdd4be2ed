SPECIFICATION FairSpec
CONSTANTS
    n1 = n1
    n2 = n2
    Nodes = {n1, n2}
    Updates = {u1}
    Deployments <- MCDeployments
    LeaseTicks = 2
    DataTicks = 2
    MaxGeneration = 3
    MayCrash = TRUE
    MayForce = TRUE
    None = None
INVARIANTS TypeOK NoStaleWriter Durable GenerationUnique
PROPERTIES ExitSaves OrphanFreed
