\* One payment and two payouts, one withdrawal and its confirmation, a fee; fair, no rollbacks.
CONSTANTS
    apr = apr
    may = may
    t1 = t1
    t2 = t2
    p1 = p1
    p2 = p2
    w1 = w1
    w2 = w2
    d1 = d1
    d2 = d2
    fee = fee
    NULL = NULL
    Period = {apr, may}
    Payment = {t1}
    Withdrawal = {w1}
    Charge = {fee}
    Outflow <- OnlyFee
    Payout = {p1, p2}
    Confirmation = {d1}
    Folder <- MixFolder
    Named <- BlankNamed
    Referenced <- MixReferenced
    Fits <- MixFits
    OtherRule <- Nothing
    HumanLabel = {}
SPECIFICATION FairSpec
PROPERTIES
    WithdrawalIsBooked
    PayoutIsConfirmed
