\* The same instance; the rates of the last weeks are seeded late.
CONSTANTS
    shop = shop
    payoneer = payoneer
    master = master
    w1 = w1
    m1 = m1
    m2 = m2
    NULL = NULL
    Months = 3
    LastDay <- Quarter
    Closing = 2
    Start = 55
    End = 68
    WorkDay = {62}
    LedgerDay = {64}
    Accounts <- OneShop
    GroupDoc = {payoneer}
    MasterDoc = {master}
    Balanced = {master}
    WalletDoc = {payoneer}
    Early <- SalesOnly
    Versions <- TwoVersions
    Removable = {payoneer}
    Matched = {m1, w1}
    Rate <- WeekRates
    RowRate = 10
    PriorUsd = 1
    PriorIdr = 10
    PriorDiff = 2
    MaxFailures = 1
SPECIFICATION Spec
CHECK_DEADLOCK FALSE
INVARIANT RevaluedAtClosingRate
