CONSTANTS
    Accounts   = {a}
    NoAccount  = NoAccount
    SignIns    = {s1}
    Requests   = {r1}
    MaxConns   = 2
    Capacity   = 1

SPECIFICATION Spec

VIEW LiveView

INVARIANTS
    TypeOK
    LoggedOnIsKeptAlive

PROPERTIES
    OwnEndsOnly

CHECK_DEADLOCK FALSE
