\* Two stations, two clients and two profiles; no station is connected.
SPECIFICATION Spec
CONSTANTS
    Sern = {"s1", "s2"}
    NoSern = "short"
    Client = {1, 2}
    Endpoint = {}
    NoEndpoint = "none"
    HomeOf <- MCHomeOf
    BootHasFw = {TRUE}
    WebCert = {6}
    CpState = {}
    FwState = {}
    NoState = "*"
    Zone = {}
    MaxProf = 3
    TicksPerMinute = 1
    MaxTime = 0
PROPERTY
    ImplementsOwnership
CHECK_DEADLOCK FALSE
