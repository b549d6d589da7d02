\* One mobile, a request of three bytes read through a buffer of two, one stop
\* signal at any time.
SPECIFICATION Spec
CONSTANTS
    Conn = {"c1"}
    Length = {3}
    Uninitialised = {0, 2}
    IN_BUFFER_SIZE = 2
    MaxSignal = 1
    MaxWait = 1
INVARIANTS
    ConsoleTypeOK
    RequestHandedWhole
    SubscribedWhenConnected
PROPERTIES
    NoAcceptAfterStop
    StopsWhenAsked
    ConnectionsAreClosed
    MqttRecovers
CHECK_DEADLOCK FALSE
