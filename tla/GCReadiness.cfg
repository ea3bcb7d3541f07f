CONSTANTS
    Accounts = {a, b}
    NoAccount = noAccount
    MaxEpoch = 2
    Apps = {cs2}
    Calls = {c1, c2}
    NoCall = noCall
SPECIFICATION FairSpec
INVARIANTS TypeOK SingleFlight NoStrandedWaiter OnlyCurrentEpochKnown
PROPERTIES LeaderSuccessIsCurrent WaiterSuccessIsLive EveryCallReturns ImplementsSessionKeys
