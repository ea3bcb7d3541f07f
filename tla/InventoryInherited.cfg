CONSTANTS
    Accounts = {a, b}
    NoAccount = noAccount
    MaxEpoch = 2
    CS2 = cs2
    Tasks = {t1}
SPECIFICATION Spec
INVARIANTS InventoryNotInherited
