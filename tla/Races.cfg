CONSTANTS
    o1 = o1
    o2 = o2
    i1 = i1
    i2 = i2
    j1 = j1
    j2 = j2
    Requests = {r1, r2, r3, r4, r5}
    Orders = {o1}
    Items = {i1}
    Rows = {1, 2}
    OrderOf <- OneOrder
    Quantity <- Two
    Candidates <- OneOnRows12
    OpeningStock <- OneOpen
    OpeningStatus <- OnePaid
    MaxInt = 4
    Jobs <- RaceJobs
    OneAtATime = FALSE
    Free = Free
SYMMETRY Symmetry
SPECIFICATION Spec
INVARIANTS StockNeverNegative JournalBalances ReservationsAreAllocated TimelineIsHistory
CHECK_DEADLOCK FALSE
