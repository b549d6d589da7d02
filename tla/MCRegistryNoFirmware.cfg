\* Two stations whose BootNotification may lack the firmwareVersion.
SPECIFICATION Spec
CONSTANTS
    Sern = {"s1", "s2"}
    NoSern = "short"
    Client = {1}
    Endpoint = {"s1:1", "s2:1"}
    NoEndpoint = "none"
    HomeOf <- MCHomeOf
    BootHasFw = {TRUE, FALSE}
    WebCert = {1}
    CpState = {}
    FwState = {}
    NoState = "*"
    Zone = {}
    MaxProf = 0
    TicksPerMinute = 1
    MaxTime = 0
INVARIANT
    BootAcceptedOnlyRegistered
CHECK_DEADLOCK FALSE
