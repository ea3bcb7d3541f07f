CONSTANTS
    Accounts = {a, b}
    NoAccount = noAccount
    MaxEpoch = 2
    GCGames = {tf2}
    WebGames = {}
    SteamFlag = steam
    DefaultFlags = {tf2}
    ServiceApps = {service}
    Refreshers = {r1, r2}
    MaxRefreshes = 3
SYMMETRY Symmetry
SPECIFICATION Spec
INVARIANTS TypeOK CancelReachesTheWriter DisabledGameIsEmpty
PROPERTIES RemovedStaysRemoved ImplementsGameSnapshots
