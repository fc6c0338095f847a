\* One account, one Payoneer export and a statement of two versions, February's
\* close from the provisioning of its folders to March's own window.
CONSTANTS
    shop = shop
    payoneer = payoneer
    master = master
    w1 = w1
    m1 = m1
    m2 = m2
    NULL = NULL
    Months = 3
    LastDay <- Quarter
    Closing = 2
    Start = 55
    End = 68
    WorkDay = {62}
    LedgerDay = {64}
    Accounts <- OneShop
    GroupDoc = {payoneer}
    MasterDoc = {master}
    Balanced = {master}
    WalletDoc = {payoneer}
    Early <- SalesOnly
    Versions <- TwoVersions
    Removable = {payoneer}
    Matched = {m1, w1}
    Rate <- WeekRates
    RowRate = 10
    PriorUsd = 1
    PriorIdr = 10
    PriorDiff = 2
    MaxFailures = 1
SPECIFICATION FairSpec
CHECK_DEADLOCK FALSE
INVARIANTS
    TypeOK
    FinalIsHonest
    RevaluedOnce
    RevaluedAtBalance
    FolderIsReady
PROPERTIES
    CloseIsSwept
    ReportSettles
