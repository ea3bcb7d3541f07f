CONSTANTS
    Accounts = {a, b}
    NoAccount = noAccount
    MaxEpoch = 3
    Sessions = {p1}
    TF2 = {}
    Reconcilers = {c1, c2}
    NoSession = noSession
    MaxClients = 2
    MaxResponses = 1
SPECIFICATION FairSpec
INVARIANTS TypeOK NoStrandedPurchase CompletedNeedsAcceptance
PROPERTIES ReconcileEnds
CHECK_DEADLOCK FALSE
