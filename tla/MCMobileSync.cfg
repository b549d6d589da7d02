\* One station that two clients own in turn, and two mobiles of one of them.
SPECIFICATION FairSyncSpec
CONSTANTS
    Sern = {"s1"}
    NoSern = "short"
    Client = {1, 2}
    Endpoint = {"s1:1"}
    NoEndpoint = "none"
    HomeOf <- MCHomeOf
    BootHasFw = {TRUE}
    WebCert = {0}
    CpState = {"Charging"}
    FwState = {}
    NoState = "*"
    Zone = {}
    MaxProf = 0
    TicksPerMinute = 2
    MaxTime = 0
    Mobile = {"m1", "m2"}
    ClientOf <- MCClientOf
INVARIANTS
    SyncTypeOK
    StaleOnlyIfMissed
PROPERTY
    MobileCatchesUp
CHECK_DEADLOCK FALSE
