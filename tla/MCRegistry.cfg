\* Two stations, one of which reconnects from a second endpoint; a clock of minutes.
SPECIFICATION Spec
CONSTANTS
    Sern = {"s1", "s2"}
    NoSern = "short"
    Client = {1}
    Endpoint = {"s1:1", "s1:2"}
    NoEndpoint = "none"
    HomeOf <- MCHomeOf
    BootHasFw = {TRUE}
    WebCert = {6}
    CpState = {"Charging"}
    FwState = {"Installed"}
    NoState = "*"
    Zone = {5}
    MaxProf = 0
    TicksPerMinute = 1
    MaxTime = 3
INVARIANTS
    TypeOK
    MissedHeartbeatTolerated
    BootAcceptedOnlyRegistered
    AddressLeadsHome
    PublicUseIsTheStations
PROPERTY
    OnlyOwnRow
CHECK_DEADLOCK FALSE
