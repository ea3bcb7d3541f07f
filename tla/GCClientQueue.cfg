CONSTANTS
    Accounts   = {a}
    NoAccount  = NoAccount
    SignIns    = {s1}
    Requests   = {r1}
    MaxConns   = 1
    Capacity   = 1

SPECIFICATION FairSpec

PROPERTIES
    RequestReturns

CHECK_DEADLOCK FALSE
