CONSTANTS
    t1 = t1
    t2 = t2
    ann = ann
    bob = bob
    BrowserCount = 1
    Tabs = {t1, t2}
    BrowserOf <- OneBrowser
    Users = {ann, bob}
    OpeningUser <- Ann
    MaxCalls <- FewIfOverlapping
    None = None
SPECIFICATION FairSpec
INVARIANTS TypeOK PageAgrees LineageOK BootstrapIsAlone SuccessorsAreUnique NoSessionLeftBehind
PROPERTIES BootstrapEnds
CHECK_DEADLOCK FALSE
