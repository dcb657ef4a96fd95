CONSTANTS
    c1 = c1
    c2 = c2
    x = x
    y = y
    n1 = n1
    n2 = n2
    A = A
    B = B
    s1 = s1
    s2 = s2
    Imports = {i1, i2}
    Connections = {c1, c2}
    Externals = {x, y}
    Numbers = {n1, n2}
    ExternalSkus = {A, B}
    Skus = {s1, s2}
    Batches <- TwoBatches
    OpeningMapping <- Mapped
    Remaps <- AMovesToS2
    Deletable = {s1}
    Faults = TRUE
    None = None
SYMMETRY Symmetry
SPECIFICATION Spec
INVARIANTS RunsAddUp LogsTellTheTruth EveryPayloadLogged SyncedByEndedRun
CHECK_DEADLOCK FALSE
