\* One station and a clock of half minutes that runs past three minutes.
SPECIFICATION Spec
CONSTANTS
    Sern = {"s1"}
    NoSern = "short"
    Client = {1}
    Endpoint = {"s1:1"}
    NoEndpoint = "none"
    HomeOf <- MCHomeOf
    BootHasFw = {TRUE}
    WebCert = {0}
    CpState = {"Charging"}
    FwState = {}
    NoState = "*"
    Zone = {}
    MaxProf = 0
    TicksPerMinute = 2
    MaxTime = 7
INVARIANT
    OfflineAfterThreeMinutes
CHECK_DEADLOCK FALSE
