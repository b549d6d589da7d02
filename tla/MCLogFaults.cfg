\* Two stations; a crash (after which messages are repeated), a failing statement,
\* a lost confirmation of a stop, a logged message, clearing at any time.
SPECIFICATION Spec
CONSTANTS
    Sern = {s1, s2}
    UidNamesSern = {TRUE, FALSE}
    MeterTime = {}
    CanClear = TRUE
    MaxSession = 1
    MaxMeter = 0
    MaxLogged = 1
    MaxCrash = 1
    MaxFail = 1
    MaxLostStart = 0
    MaxLostStop = 1
INVARIANTS
    TypeOK
    TransactionIdsUnique
    GivenIdsAreRecorded
    HistoryNamesOwnTransaction
SYMMETRY Symmetry
CHECK_DEADLOCK FALSE
