\* One wallet group, two eBay accounts, two months; two entries and a correction.
CONSTANTS
    e1 = e1
    e2 = e2
    w1 = w1
    o1 = o1
    s1 = s1
    item = item
    q1 = q1
    q2 = q2
    NULL = NULL
    Business = business
    EbayAccount = {e1, e2}
    WalletGroup = {w1}
    Period = {1, 2}
    BankRow <- Rows1
    Label <- Category
    Order = {o1}
    Sold <- OneDeal
    Withdrawn <- OneWithdrawal
    Valuation <- OneValue
    Sale = {s1}
    Terms <- BothTerms
    Opened = {3}
    OpenAccount <- BankAccounts
    Reference = {item}
    Request = {q1}
    MaxEntries = 2
SPECIFICATION Spec
INVARIANTS
    TypeOK
    CashFlowTiesOut
    StatementsAgree
    SubsidiaryTiesOut
    CashMovesByTheRow
    OneOpeningInForce
    AccruedAsConfirmed
    ReversalCancels
CHECK_DEADLOCK FALSE
