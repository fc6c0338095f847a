CONSTANTS
    b1 = b1
    b2 = b2
    m1 = m1
    c1 = c1
    c2 = c2
    p1 = p1
    d1 = d1
    d2 = d2
    e1 = e1
    wd = wd
    pay = pay
    bill = bill
    owed = owed
    NULL = NULL
    Payout = {}
    Invoice = {}
    Withdrawal = {}
    Sale = {}
    Near <- SweepNear
    Fits <- NoRelation
    Purpose <- NoPurpose
    Keyword <- NoRelation
    HumanRef = {}
    Fragile = {}
    Sync = {s1}
    Line <- SweepLines
    Bridging <- SweepBridging
    Inflow <- SweepInflow
    BankLine <- SweepLines
    HumanLabel = {"internal_transfer", "other"}
SPECIFICATION Spec
PROPERTIES LabelStands
