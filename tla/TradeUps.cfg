CONSTANTS
    a = a
    b = b
    i = i
    j = j
    k = k
    Ops = {o1, o2}
    Items = {i, j, k}
    Accounts = {a, b}
    Belongings <- MCBelongings
    Selections <- MCSelections
    NoAccount = noAccount
    NoOp = noOp
    MaxConns = 2
SPECIFICATION FairSpec
INVARIANTS TypeOK CompletedIsBacked AnswerTakenOnce InputsWereSpent
PROPERTIES ImplementsCraftLedger ReceiptSettles
CHECK_DEADLOCK FALSE
