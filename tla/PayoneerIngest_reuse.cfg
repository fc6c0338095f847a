\* Two withdrawals of one amount without a Reference ID.
CONSTANTS
    apr = apr
    may = may
    t1 = t1
    t2 = t2
    p1 = p1
    p2 = p2
    w1 = w1
    w2 = w2
    d1 = d1
    d2 = d2
    fee = fee
    NULL = NULL
    Period = {apr}
    Payment = {}
    Withdrawal = {w1, w2}
    Charge = {}
    Outflow = {}
    Payout = {}
    Confirmation = {d1, d2}
    Folder <- OneCashFolder
    Named <- NoName
    Referenced <- BlankReferenced
    Fits <- CashFits
    OtherRule <- Nothing
    HumanLabel = {"revenue_settlement", "other"}
SPECIFICATION Spec
INVARIANTS
    ConfirmationUsedOnce
