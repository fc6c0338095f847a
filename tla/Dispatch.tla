------------------------------ MODULE Dispatch ------------------------------
(***************************************************************************)
(* Which entry a labelled review-queue row becomes (the posting step of      *)
(* ingestion/matching.py: post_pending_rows' checks and _post_one_row), for  *)
(* every feed a row may come from and every category it may be given.        *)
(*                                                                          *)
(* A row is its feed, the eBay account and wallet group it is scoped to, a   *)
(* signed amount, a reference (consignor, employee, deposit or NULL), a part *)
(* (the loan repayment or the shipping portion a human entered, 0 for none), *)
(* the expense account rule (e) finds in its description, and the wallet     *)
(* group of its pair if it is a sweep end whose pair has arrived.  The bank  *)
(* feed covers Bridging (scoped to a group) and Master (unscoped).           *)
(***************************************************************************)
EXTENDS Posting

PurchaseCategory == {"cogs_purchase", "item_purchase", "inbound_shipping",
                     "item_purchase_and_inbound_shipping"}

\* The categories that are one operating expense account each.
ExpenseOf == [contract_labor |-> "CONTRACT_LABOR", shipping_cost |-> "SHIPPING_COST",
              packaging_supplies |-> "PACKAGING_SUPPLIES",
              staff_meals_welfare |-> "STAFF_MEALS_WELFARE"]

\* _DIRECTIONAL_CATEGORY_SIGNS.
Outflow == PurchaseCategory \cup DOMAIN ExpenseOf
             \cup {"operating_expense", "consignment_payout", "owners_draw", "payroll", "employee_loan_disbursement",
                   "customer_refund", "inventory_deposit"}
Inflow == {"owners_contribution", "revenue_settlement", "ebay_dispute_won",
           "legacy_ebay_account_payout", "cogs_refund", "shipping_cost_refund"}

Category == Outflow \cup Inflow \cup {"interest_income", "internal_transfer", "other"}

SignMismatch(row, c) == \/ c \in Outflow /\ row.amount >= 0
                        \/ c \in Inflow /\ row.amount <= 0

\* _missing_employee_ref_reason.
MissingReference(row, c) ==
    /\ row.ref = NULL
    /\ \/ c \in {"employee_loan_disbursement", "inventory_deposit"}
       \/ c = "payroll" /\ row.part # 0

\* _paying_account_for_row.
PayingAccount(row) ==
    IF row.feed = "payoneer" THEN <<"PAYONEER_WALLET", row.group>>
    ELSE IF row.group # NULL THEN <<"BCA_BRIDGING", row.group>>
    ELSE Main

Magnitude(row) == IF row.amount < 0 THEN -row.amount ELSE row.amount

\* The branches that know BCA_MAIN only refuse a scoped row.
Unscoped(row) == row.ebay = NULL /\ row.group = NULL

\* The stage of a refund: the eBay account wins over the wallet group, and a
\* Bridging line has none.
RefundStage(row) == IF row.ebay # NULL THEN row.ebay
                    ELSE IF row.feed = "payoneer" THEN row.group ELSE NULL

\* The entry of a plain outflow category.
Purchase(row, c) ==
    IF row.part # 0
    THEN IF c \in {"cogs_purchase", "item_purchase"} /\ row.part < Magnitude(row)
         THEN CogsWithShippingSplit(PayingAccount(row), Magnitude(row), row.part)
         ELSE NULL
    ELSE IF PayingAccount(row) = Main THEN CogsPurchase(Magnitude(row))
         ELSE OperatingExpense("COGS", PayingAccount(row), Magnitude(row))

Payroll(row) ==
    IF row.part # 0 THEN PayrollWithRepayment(PayingAccount(row), Magnitude(row), row.part, row.ref)
    ELSE OperatingExpense("PAYROLL", PayingAccount(row), Magnitude(row))

\* Mutant of Other: every line of this catch-all is taken for an expense.
OtherOutflow(row) == OperatingExpense("GENERAL_OPEX", PayingAccount(row), Magnitude(row))

Other(row) ==
    IF row.amount > 0 THEN IncomeLine("OTHER_INCOME", PayingAccount(row), row.amount)
    ELSE OperatingExpense("GENERAL_OPEX", PayingAccount(row), Magnitude(row))

\* A reimbursement always has a reference, "unspecified" if need be.
Reimbursement(row) ==
    ConsignorReimbursement(PayingAccount(row), Magnitude(row),
                           IF row.ref = NULL THEN "unspecified" ELSE row.ref)

\* Mutant of Settlement: the two ends are confused.
SettlementConfused(row) ==
    IF row.ebay # NULL /\ row.group # NULL
    THEN InterAccountTransfer(<<"PAYONEER_WALLET", row.ebay>>, EbayWallet(row.group), row.amount)
    ELSE NULL

\* Both accounts must exist: an unscoped row has neither.
Settlement(row) ==
    IF row.ebay # NULL /\ row.group # NULL
    THEN InterAccountTransfer(<<"PAYONEER_WALLET", row.group>>, EbayWallet(row.ebay), row.amount)
    ELSE NULL

\* An outflow is the Bridging end, an inflow the Master end; without its pair a
\* row waits.  The pairing itself is SyncPipeline's.
Sweep(row) ==
    IF row.peer # NULL /\ (row.group # NULL <=> row.amount < 0)
    THEN InterAccountTransfer(Main, <<"BCA_BRIDGING", row.peer>>, Magnitude(row))
    ELSE NULL

OnlyMain(row, posting) == IF Unscoped(row) THEN posting ELSE NULL

\* _post_one_row: the posting, or NULL where it raises or has to wait.
Posted(row, c) ==
    LET x == Magnitude(row) IN
    CASE c \in PurchaseCategory -> Purchase(row, c)
      [] c \in DOMAIN ExpenseOf -> OperatingExpense(ExpenseOf[c], PayingAccount(row), x)
      [] c = "operating_expense" -> OperatingExpense(row.expense, PayingAccount(row), x)
      [] c = "payroll" -> Payroll(row)
      [] c = "other" -> Other(row)
      [] c = "interest_income" -> InterestIncomeLine(PayingAccount(row), row.amount)
      [] c = "consignment_payout" -> Reimbursement(row)
      [] c = "employee_loan_disbursement" -> LoanDisbursement(PayingAccount(row), x, row.ref)
      [] c = "customer_refund" ->
             IF RefundStage(row) # NULL THEN Refund(RefundStage(row), x, NULL) ELSE NULL
      [] c = "ebay_dispute_won" ->
             IF RefundStage(row) # NULL THEN RefundReversal(RefundStage(row), x, NULL) ELSE NULL
      [] c = "revenue_settlement" -> Settlement(row)
      [] c = "internal_transfer" -> Sweep(row)
      [] c = "cogs_refund" -> OnlyMain(row, CogsRefund(x))
      [] c = "shipping_cost_refund" -> OnlyMain(row, ShippingCostRefund(x))
      [] c = "inventory_deposit" -> OnlyMain(row, InventoryDeposit(x, row.ref))
      [] c = "legacy_ebay_account_payout" ->
             OnlyMain(row, IF row.feed = "bank" THEN LegacyPayout(x) ELSE NULL)
      [] c = "owners_draw" -> OwnerDraw(x)
      [] c = "owners_contribution" -> OwnerContribution(x)

\* post_pending_rows: the checks, then the entry; what raises is left unposted.
Bookable(row, c) ==
    /\ ~SignMismatch(row, c)
    /\ ~MissingReference(row, c)
    /\ Posted(row, c) # NULL
    /\ Insertable(Posted(row, c))

=============================================================================
