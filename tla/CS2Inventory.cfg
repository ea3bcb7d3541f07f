CONSTANTS
    Accounts = {a, b}
    NoAccount = noAccount
    MaxEpoch = 2
    CS2 = cs2
    Tasks = {t1, t2}
SPECIFICATION Spec
INVARIANTS TypeOK
SYMMETRY Symmetry
PROPERTIES CommitBelongsToConnectedAccount MessageStaysWithAccount
