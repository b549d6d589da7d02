\* Two stations with two sessions each, a repeated StartTransaction and meter
\* values from clocks that jump; no stop is repeated.
SPECIFICATION Spec
CONSTANTS
    Sern = {s1, s2}
    UidNamesSern = {TRUE}
    MeterTime = {60, 180}
    CanClear = FALSE
    MaxSession = 2
    MaxMeter = 3
    MaxLogged = 0
    MaxCrash = 0
    MaxFail = 0
    MaxLostStart = 1
    MaxLostStop = 0
INVARIANTS
    MeterValuesSpaced
    FinishedReportedOnce
PROPERTY
    ImplementsLedger
SYMMETRY Symmetry
CHECK_DEADLOCK FALSE
