SPECIFICATION FairSpec
CONSTANTS
    d1 = d1  d2 = d2  d3 = d3  w1 = w1  w2 = w2  a1 = a1  a2 = a2  k1 = k1  k2 = k2
    Deposits = {d1}
    Withdrawals = {w1}
    Approvals = {a1}
    FullWithdrawals = {}
    Amount <- MCAmount
    Workers = {k1}
    NoRequest = NoRequest
    MaxFaults = 1
    SlowHandlers = FALSE
INVARIANTS
    QuietPositionMatchesChain
PROPERTIES
    ImplementsLedger
    OpenRowsSettle
    UndisturbedStatusesEnd
    UndisturbedConfirmation
