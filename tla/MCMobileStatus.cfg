\* One station, the mobile of its owner, and the connection status it shows.
SPECIFICATION SyncSpec
CONSTANTS
    Sern = {"s1"}
    NoSern = "short"
    Client = {1}
    Endpoint = {"s1:1"}
    NoEndpoint = "none"
    HomeOf <- MCHomeOf
    BootHasFw = {TRUE}
    WebCert = {0}
    CpState = {"Charging"}
    FwState = {}
    NoState = "*"
    Zone = {}
    MaxProf = 0
    TicksPerMinute = 2
    MaxTime = 0
    Mobile = {"m1"}
    ClientOf <- MCClientOf
INVARIANT
    StatusStaleOnlyIfMissed
CHECK_DEADLOCK FALSE
