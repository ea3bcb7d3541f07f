CONSTANTS
    Accounts = {a, b}
    NoAccount = noAccount
    MaxEpoch = 2
    Sessions = {p1, p2}
    TF2 = {}
    Reconcilers = {c1, c2}
    NoSession = noSession
    MaxClients = 2
    MaxResponses = 1
SPECIFICATION Spec
INVARIANTS CompletedIsAuthorized
CHECK_DEADLOCK FALSE
