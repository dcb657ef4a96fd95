CONSTANTS
    o1 = o1
    o2 = o2
    i1 = i1
    i2 = i2
    j1 = j1
    j2 = j2
    Requests = {r1, r2}
    Orders = {o1, o2}
    Items = {i1, i2}
    Rows = {1, 2}
    OrderOf <- TwoOrders
    Quantity <- TwoOne
    Candidates <- OnRows12
    OpeningStock <- TwoAndOne
    OpeningStatus <- PaidAndPending
    MaxInt = 4
    Jobs <- LifecycleJobs
    OneAtATime = FALSE
    Free = Free
SYMMETRY Symmetry
SPECIFICATION Spec
PROPERTIES StatusFollowsTransitions
CHECK_DEADLOCK FALSE
