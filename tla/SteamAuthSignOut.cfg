CONSTANTS
    Accounts = {a}
    NoAccount = noAccount
    Flows = {f1, f2}
    NoFlow = noFlow
SPECIFICATION Spec
INVARIANT SignOutRemovesCredential
CHECK_DEADLOCK FALSE
