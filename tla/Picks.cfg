CONSTANTS
    o1 = o1
    o2 = o2
    i1 = i1
    i2 = i2
    j1 = j1
    j2 = j2
    Requests = {r1, r2, r3}
    Orders = {o1, o2}
    Items = {i1, i2, j1, j2}
    Rows = {1, 2, 3}
    OrderOf <- TwoBaskets
    Quantity <- BasketQuantities
    Candidates <- BasketRows
    OpeningStock <- BasketStock
    OpeningStatus <- BothPaid
    MaxInt = 4
    Jobs <- PickJobs
    OneAtATime = TRUE
    Free = Free
SPECIFICATION FairSpec
PROPERTIES SplitFollowsWarehouseOrder EveryRequestAnswered
CHECK_DEADLOCK FALSE
