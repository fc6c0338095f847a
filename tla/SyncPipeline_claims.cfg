CONSTANTS
    b1 = b1
    b2 = b2
    m1 = m1
    c1 = c1
    c2 = c2
    p1 = p1
    d1 = d1
    d2 = d2
    e1 = e1
    wd = wd
    pay = pay
    bill = bill
    owed = owed
    NULL = NULL
    Payout = {pay}
    Invoice = {}
    Withdrawal = {wd}
    Sale = {owed}
    Near <- NoRelation
    Fits <- ClaimFits
    Purpose <- NoPurpose
    Keyword <- ClaimKeyword
    HumanRef = {owed}
    Fragile = {}
    Sync = {s1}
    Line <- ClaimLines
    Bridging <- ClaimBridging
    Inflow <- ClaimBridging
    BankLine <- ClaimBank
    HumanLabel = {"internal_transfer", "inventory_deposit"}
SPECIFICATION Spec
INVARIANTS LandingEchoBooksNothing NothingSilentlyStuck
PROPERTIES ClaimsStand
