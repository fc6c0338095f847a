CONSTANTS
    b1 = b1
    b2 = b2
    m1 = m1
    c1 = c1
    c2 = c2
    p1 = p1
    d1 = d1
    d2 = d2
    e1 = e1
    wd = wd
    pay = pay
    bill = bill
    owed = owed
    NULL = NULL
    Payout = {}
    Invoice = {}
    Withdrawal = {}
    Sale = {owed}
    Near <- NoRelation
    Fits <- TwinFits
    Purpose <- NoPurpose
    Keyword = {}
    HumanRef = {owed}
    Fragile = {}
    Sync = {s1}
    Line <- TwinLines
    Bridging = {}
    Inflow = {}
    BankLine <- TwinLines
    HumanLabel = {"consignment_payout", "inventory_deposit", "internal_transfer"}
SPECIFICATION Spec
INVARIANTS SaleReimbursedOnce
