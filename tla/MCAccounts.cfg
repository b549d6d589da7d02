\* Two users, two threads of the web server, one mobile.
SPECIFICATION Spec
CONSTANTS
    User = {u1, u2}
    Thread = {t1, t2}
    Mobile = {m1}
    MaxReg = 2
    MaxSession = 2
    MaxProfile = 2
    MaxFail = 1
    MaxStop = 1
INVARIANTS
    AccountsTypeOK
    UsernamesUnique
    RegisteredAccountsComplete
    WithdrawnNamesAreFree
    OneEmployeePerClient
    PagesKeepTheirSession
SYMMETRY Symmetry
CHECK_DEADLOCK FALSE
