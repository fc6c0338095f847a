CONSTANTS
    b1 = b1
    b2 = b2
    m1 = m1
    c1 = c1
    c2 = c2
    p1 = p1
    d1 = d1
    d2 = d2
    e1 = e1
    wd = wd
    pay = pay
    bill = bill
    owed = owed
    NULL = NULL
    Payout = {}
    Invoice = {bill}
    Withdrawal = {}
    Sale = {}
    Near <- PairNear
    Fits <- PairFits
    Purpose <- PairPurpose
    Keyword <- NoRelation
    HumanRef = {}
    Fragile = {m1}
    Sync = {s1}
    Line <- PairLines
    Bridging <- PairBridging
    Inflow <- SweepInflow
    BankLine <- PairLines
    HumanLabel = {"internal_transfer", "other"}
SPECIFICATION FairSpec
PROPERTIES LabeledRowIsBooked SweepIsNotStranded
