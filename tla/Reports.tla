------------------------------ MODULE Reports -------------------------------
(***************************************************************************)
(* What the screens compute from the journal: account balances              *)
(* (ledger/balances.py), and the statements                                 *)
(* (webapp/reporting.py).  Everything is a sum over journal_lines; labels,  *)
(* order and layout are left out.  A cash-flow line is named by the account *)
(* code it collects.                                                        *)
(***************************************************************************)
EXTENDS Posting, FiniteSetsExt

CONSTANT Period  \* months, numbered in order

ASSUME PeriodAssumption == Period \subseteq Nat \ {0}

\* The statements add up over tables of accounts.
ASSUME TablesAssumption == IsFiniteSet(EbayAccount \cup WalletGroup)

VARIABLE journal  \* journal_entries with their journal_lines, by id

\* A journal_lines row is named by its entry and its place in it.
Rows == UNION {{i} \X DOMAIN journal[i].lines : i \in DOMAIN journal}

LineOf(r) == journal[r[1]].lines[r[2]]
Code(r) == LineOf(r).account[1]
Source(r) == journal[r[1]].source

Within(p) == {r \in Rows : journal[r[1]].period = p}
Through(p) == {r \in Rows : journal[r[1]].period <= p}

OfCodes(R, codes) == {r \in R : Code(r) \in codes}
OfAccount(R, a) == {r \in R : LineOf(r).account = a}

Debits(R) == MapThenSumSet(LAMBDA r : LineOf(r).debit - LineOf(r).credit, R)
Credits(R) == -Debits(R)

\* Rows of one account type, signed by its normal_balance.
Signed(code, R) == IF code \in DebitNormal THEN Debits(R) ELSE Credits(R)

-----------------------------------------------------------------------------
(* ledger/balances.py *)

BalanceThrough(a, p) == Signed(a[1], OfAccount(Through(p), a))

BalanceByReference(a, p, ref) ==
    Signed(a[1], {r \in OfAccount(Through(p), a) : LineOf(r).ref = ref})

References(a, p) == {LineOf(r).ref : r \in OfAccount(Through(p), a)} \ {NULL}

\* Mutant of BalanceBefore: opening balances booked in the period are missed.
BalanceBeforePrior(a, p) == BalanceThrough(a, p - 1)

\* An opening balance is booked on the first day of the period it opens.
BalanceBefore(a, p) ==
    BalanceThrough(a, p - 1)
      + Signed(a[1], {r \in OfAccount(Within(p), a) : Source(r) = "opening_balance"})

-----------------------------------------------------------------------------
(* Revenue, per eBay account: an entry belongs to the account of one of its *)
(* lines, or of another line with the same order reference.                 *)

AccountsOn(R) == {LineOf(r).account[2] : r \in R} \cap EbayAccount

Attributed(i) ==
    LET order == {LineOf(r).order : r \in {r \in OfCodes(Rows, RevenueCode) : r[1] = i}} \ {NULL}
        direct == AccountsOn({r \in Rows : r[1] = i})
        byOrder == AccountsOn({r \in Rows : LineOf(r).order \in order})
    IN  IF direct # {} THEN CHOOSE a \in direct : TRUE
        ELSE IF byOrder # {} THEN CHOOSE a \in byOrder : TRUE
        ELSE NULL

\* a = NULL asks for the consolidated report.
RevenueRows(p, a) ==
    {r \in OfCodes(Within(p), RevenueCode) : a = NULL \/ Attributed(r[1]) = a}

NetRevenue(p, a) ==
    LET total(code) == Credits(OfCodes(RevenueRows(p, a), {code})) IN
    total("SALES_REVENUE") - (-total("SALES_RETURNS_ALLOWANCES"))
      + total("CONSIGNMENT_COMMISSION_INCOME")

Unattributed(p) == {r \in RevenueRows(p, NULL) : Attributed(r[1]) = NULL}

-----------------------------------------------------------------------------
(* Statement of cash flows, direct method: each non-cash line of the period *)
(* contributes to one line of the statement.                                *)

CashCode == {"EBAY_WALLET", "PAYONEER_WALLET", "BCA_BRIDGING", "BCA_MAIN"}
CashAccount == {a \in Account : a[1] \in CashCode}

CustomerCode == {"SALES_REVENUE", "SALES_RETURNS_ALLOWANCES", "CONSIGNMENT_COMMISSION_INCOME"}

OperatingKey ==
    {"cash_from_customers", "consignor_payouts", "COGS", "EBAY_SELLING_FEES", "PAYOUT_FEE",
     "PAYROLL", "GENERAL_OPEX", "SHIPPING_COST", "CONTRACT_LABOR", "PACKAGING_SUPPLIES",
     "STAFF_MEALS_WELFARE", "INTEREST_INCOME", "REALIZED_FX", "OTHER_INCOME",
     "EMPLOYEE_LOAN_RECEIVABLE", "INVENTORY_DEPOSITS"}

FinancingKey == {"OWNERS_CAPITAL", "OWNERS_DRAW"}

\* The payable is a receipt from the customer when it accrues and a payment to
\* the consignor when it is settled.
KeyOf(r) ==
    CASE Code(r) \in CustomerCode -> "cash_from_customers"
      [] Code(r) = "CONSIGNOR_PAYABLE" ->
             IF LineOf(r).credit > 0 THEN "cash_from_customers" ELSE "consignor_payouts"
      [] OTHER -> Code(r)

\* An opening balance is no flow; a received deposit moves no cash.
CashFlowRows(p) ==
    {r \in Within(p) : /\ KeyOf(r) \in OperatingKey \cup FinancingKey
                       /\ Source(r) \notin {"opening_balance", "inventory_deposit_received"}}

CashFlowLine(key, p) == Credits({r \in CashFlowRows(p) : KeyOf(r) = key})

FxEffectRows(p) == {r \in OfCodes(Within(p), CashCode) : Source(r) = "fx_revaluation"}

NetChange(p) ==
    MapThenSumSet(LAMBDA key : CashFlowLine(key, p), OperatingKey)
      + MapThenSumSet(LAMBDA key : CashFlowLine(key, p), FinancingKey)
      + Debits(FxEffectRows(p))

BeginningCash(p) == MapThenSumSet(LAMBDA a : BalanceBefore(a, p), CashAccount)
EndingCash(p) == MapThenSumSet(LAMBDA a : BalanceThrough(a, p), CashAccount)

\* difference_idr of the statement.
CashDifference(p) == EndingCash(p) - (BeginningCash(p) + NetChange(p))

-----------------------------------------------------------------------------
(* P&L, equity, balance sheet.                                              *)

Section(R, codes) == MapThenSumSet(LAMBDA c : Signed(c, OfCodes(R, {c})), codes)

\* Contra revenue is subtracted.
TotalRevenue(R) == Section(R, RevenueCode \ Contra) - Section(R, RevenueCode \cap Contra)

\* pnl_report.
NetIncome(p) ==
    LET R == Within(p)
        grossProfit == TotalRevenue(R) - Debits(OfCodes(R, {"COGS"}))
        operatingIncome == grossProfit - Section(R, OpexCode)
    IN  operatingIncome + Section(R, OtherCode)

\* _cumulative_net_income: nothing is ever posted to RETAINED_EARNINGS.
RetainedEarnings(p) ==
    LET R == Through(p) IN
    TotalRevenue(R) - Debits(OfCodes(R, {"COGS"})) - Section(R, OpexCode) + Section(R, OtherCode)

\* Mutant of TotalEquity: draws are added to the capital.
TotalEquityDrawn(p) ==
    Section(Through(p), {"OWNERS_CAPITAL", "OWNERS_DRAW"}) + RetainedEarnings(p)

\* equity_report.
TotalEquity(p) ==
    Signed("OWNERS_CAPITAL", OfCodes(Through(p), {"OWNERS_CAPITAL"}))
      - Signed("OWNERS_DRAW", OfCodes(Through(p), {"OWNERS_DRAW"}))
      + RetainedEarnings(p)

TotalOf(codes, p) ==
    MapThenSumSet(LAMBDA a : BalanceThrough(a, p), {a \in Account : a[1] \in codes})

\* difference_idr of balance_sheet_report.
BalanceSheetDifference(p) ==
    TotalOf(AssetCode, p) - (TotalOf(LiabilityCode, p) + TotalEquity(p))

=============================================================================
