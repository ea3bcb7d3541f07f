CONSTANTS
    Keys = {k1}
    NoKey = noKey
    Queries = {q1, q2, q3}
    NoQuery = noQuery
    AppIDOmitted = {}
    ScanOutcomes = {"quotes", "nothing", "error"}
    TTL = 1
    StaleTTLs = 1
    MaxTime = 2
SPECIFICATION FairSpec
INVARIANTS TypeOK Coalesced AnswerAge
PROPERTIES ImplementsReads EveryQueryReturns
CHECK_DEADLOCK FALSE
