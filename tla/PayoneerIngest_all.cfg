\* Two payments, two payouts, two periods; labels with and without an account; a
\* withdrawal and its late confirmation.
CONSTANTS
    apr = apr
    may = may
    t1 = t1
    t2 = t2
    p1 = p1
    p2 = p2
    w1 = w1
    w2 = w2
    d1 = d1
    d2 = d2
    fee = fee
    NULL = NULL
    Period = {apr, may}
    Payment = {t1, t2}
    Withdrawal = {w1}
    Charge = {}
    Outflow = {}
    Payout = {p1, p2}
    Confirmation = {d1}
    Folder <- AllFolder
    Named <- PayNamed
    Referenced <- AllReferenced
    Fits <- AllFits
    OtherRule <- PayRule
    HumanLabel = {"revenue_settlement"}
SPECIFICATION Spec
INVARIANTS
    TypeOK
    DirectOnce
    PayoutConfirmedOnce
    NoOrphanLeft
    NothingDropped
PROPERTIES
    UntouchedNeverTwice
