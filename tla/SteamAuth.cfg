CONSTANTS
    Accounts = {a, b}
    NoAccount = noAccount
    Flows = {f1, f2}
    NoFlow = noFlow
SPECIFICATION FairSpec
INVARIANTS TypeOK ActiveIsRegistered GuardPromptPending
PROPERTIES SupersededQRSilent SupersededQRWindsDown SupersededQREnds
CHECK_DEADLOCK FALSE
