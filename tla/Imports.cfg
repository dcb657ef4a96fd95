CONSTANTS
    c1 = c1
    c2 = c2
    x = x
    y = y
    n1 = n1
    n2 = n2
    A = A
    B = B
    s1 = s1
    s2 = s2
    Imports = {i1, i2}
    Connections = {c1, c2}
    Externals = {x, y}
    Numbers = {n1, n2}
    ExternalSkus = {A, B}
    Skus = {s1, s2}
    Batches <- ThreeBatches
    OpeningMapping <- Mapped
    Remaps <- AMovesToS2
    Deletable = {s1, s2}
    Faults = FALSE
    None = None
SPECIFICATION FairSpec
INVARIANTS TypeOK ExternalOrderOnce OrdersAreWhole RunsAddUp
PROPERTIES EveryRunEnds
CHECK_DEADLOCK FALSE
