\* Two stations, two threads, two requests within two milliseconds.
SPECIFICATION ReqSpec
CONSTANTS
    Sern = {"s1", "s2"}
    NoSern = "short"
    Client = {1}
    Endpoint = {"s1:1", "s2:1"}
    NoEndpoint = "none"
    HomeOf <- MCHomeOf
    BootHasFw = {TRUE}
    WebCert = {}
    CpState = {}
    FwState = {}
    NoState = "*"
    Zone = {5}
    MaxProf = 0
    TicksPerMinute = 1
    MaxTime = 0
    Worker = {w1, w2}
    Action = {"DataTransfer", "UpdateFirmware", "SetChargeLimit"}
    Unqueued = {"SetChargeLimit"}
    MaxRequest = 2
    MaxMs = 2
INVARIANTS
    RequestsReachTheirStation
    ConfirmedAsSent
    QueueHoldsUnconfirmed
SYMMETRY Symmetry
CHECK_DEADLOCK FALSE
