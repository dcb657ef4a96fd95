CONSTANTS
    p1 = p1
    p2 = p2
    p3 = p3
    s1 = s1
    s2 = s2
    s3 = s3
    st1 = st1
    st2 = st2
    st3 = st3
    w1 = w1
    w2 = w2
    A = A
    B = B
    C = C
    n1 = n1
    n2 = n2
    x = x
    east = east
    west = west
    Requests = {r1, r2, r3}
    Jobs <- AllJobs
    Products = {p1, p2, p3}
    Skus = {s1, s2, s3}
    Stores = {st1, st2, st3}
    Warehouses = {w1, w2}
    Codes = {A, B}
    Names = {A, B, C}
    Numbers = {n1, n2}
    Externals = {x}
    Stocked = {}
    Shops = {east, west}
    ShopifyStores = {st1, st2}
    OpeningProduct <- Drafts
    OpeningSku <- OneSku
    OpeningStore <- TwoStores
    OpeningShop <- East
    OpeningInvited = {st2}
    None = None
SYMMETRY Symmetry
SPECIFICATION Spec
INVARIANTS TypeOK AuditFollowsWrites ReviewTrail ShopOrderOnce
CHECK_DEADLOCK FALSE
