------------------------------ MODULE Posting -------------------------------
(***************************************************************************)
(* The journal entry each posting function builds (ledger/posting.py), over *)
(* the chart of accounts (ledger/chart_of_accounts.py).  A posting is its   *)
(* source_type and its lines; nothing here has a state.                     *)
(*                                                                          *)
(* Money is in whole Rupiah, US dollars in cents, a rate in Rupiah per      *)
(* dollar.  Memos, categories and the USD reference of a line are left out: *)
(* no report adds them up.                                                  *)
(***************************************************************************)
EXTENDS Integers, Sequences

CONSTANTS
    EbayAccount,  \* ebay_accounts: each has an eBay Wallet
    WalletGroup,  \* wallet_groups: each has a Payoneer Wallet and a Bridging account
    Business,     \* the scope of the consolidated accounts
    NULL

ASSUME ScopeAssumption ==
    /\ EbayAccount \cap WalletGroup = {}
    /\ Business \notin EbayAccount \cup WalletGroup
    /\ NULL \notin EbayAccount \cup WalletGroup

-----------------------------------------------------------------------------
(* Chart of accounts: the types by statement_section, then the instances.   *)

AssetCode == {"EBAY_WALLET", "PAYONEER_WALLET", "BCA_BRIDGING", "BCA_MAIN",
              "EMPLOYEE_LOAN_RECEIVABLE", "INVENTORY_DEPOSITS"}
LiabilityCode == {"CONSIGNOR_PAYABLE"}
EquityCode == {"OWNERS_CAPITAL", "OWNERS_DRAW", "RETAINED_EARNINGS"}
RevenueCode == {"SALES_REVENUE", "CONSIGNMENT_COMMISSION_INCOME", "SALES_RETURNS_ALLOWANCES"}
OpexCode == {"EBAY_SELLING_FEES", "PAYOUT_FEE", "PAYROLL", "GENERAL_OPEX", "SHIPPING_COST",
             "CONTRACT_LABOR", "PACKAGING_SUPPLIES", "STAFF_MEALS_WELFARE"}
OtherCode == {"REALIZED_FX", "UNREALIZED_FX", "INTEREST_INCOME", "OTHER_INCOME"}

AccountCode == AssetCode \cup LiabilityCode \cup EquityCode \cup RevenueCode
                 \cup {"COGS"} \cup OpexCode \cup OtherCode

\* normal_balance and is_contra.
DebitNormal == AssetCode \cup {"OWNERS_DRAW", "SALES_RETURNS_ALLOWANCES", "COGS"} \cup OpexCode
Contra == {"SALES_RETURNS_ALLOWANCES"}

\* scope_kind decides which instances a type has: create_account.
ScopeOf(code) == CASE code = "EBAY_WALLET" -> EbayAccount
                   [] code \in {"PAYONEER_WALLET", "BCA_BRIDGING"} -> WalletGroup
                   [] OTHER -> {Business}

Account == {a \in AccountCode \X (EbayAccount \cup WalletGroup \cup {Business}) :
                a[2] \in ScopeOf(a[1])}

Single(code) == <<code, Business>>
Main == Single("BCA_MAIN")

\* TRANSFERABLE_ACCOUNT_TYPE_CODES.
Transferable == {"EBAY_WALLET", "PAYONEER_WALLET", "BCA_BRIDGING", "BCA_MAIN"}

-----------------------------------------------------------------------------
(* Lines, and what an entry must satisfy to be inserted.                    *)

\* round_idr of an amount in USD at a rate: halves away from zero.
Idr(cents, rate) ==
    LET x == cents * rate IN
    IF x < 0 THEN -((50 - x) \div 100) ELSE (x + 50) \div 100

Debit(a, x) == [account |-> a, debit |-> x, credit |-> 0, order |-> NULL, ref |-> NULL]
Credit(a, x) == [account |-> a, debit |-> 0, credit |-> x, order |-> NULL, ref |-> NULL]

\* Amount x leaves account "from" for account "to".
Move(to, from, x) == <<Debit(to, x), Credit(from, x)>>

WithRef(lines, r) == [i \in DOMAIN lines |-> [lines[i] EXCEPT !.ref = r]]
WithOrder(lines, o) == [i \in DOMAIN lines |-> [lines[i] EXCEPT !.order = o]]

Optional(condition, line) == IF condition THEN <<line>> ELSE <<>>

\* No posting function builds an entry of more than five lines.
MaxLines == 5

\* What line i adds on its debit or credit side.
DebitAt(lines, i) == IF i \in DOMAIN lines THEN lines[i].debit ELSE 0
CreditAt(lines, i) == IF i \in DOMAIN lines THEN lines[i].credit ELSE 0

TotalDebit(lines) == DebitAt(lines, 1) + DebitAt(lines, 2) + DebitAt(lines, 3)
                       + DebitAt(lines, 4) + DebitAt(lines, 5)
TotalCredit(lines) == CreditAt(lines, 1) + CreditAt(lines, 2) + CreditAt(lines, 3)
                        + CreditAt(lines, 4) + CreditAt(lines, 5)

\* _insert_journal_entry and the trigger check_journal_entry_balance.
Balanced(lines) == Len(lines) >= 2 /\ TotalDebit(lines) = TotalCredit(lines)

\* debit() and credit() refuse a zero or negative amount; journal_lines'
\* CHECKs a line with two sides.
SingleSided(line) == \/ line.debit > 0 /\ line.credit = 0
                     \/ line.credit > 0 /\ line.debit = 0

Accepted(lines) == (\A i \in DOMAIN lines : SingleSided(lines[i])) /\ Balanced(lines)

Posting(source, lines) == [source |-> source, lines |-> lines]

\* The trigger check_transfer_accounts.
TransferAllowed(posting) ==
    posting.source = "inter_account_transfer" =>
        \A i \in DOMAIN posting.lines : posting.lines[i].account[1] \in Transferable

Insertable(posting) == Accepted(posting.lines) /\ TransferAllowed(posting)

-----------------------------------------------------------------------------
(* Sales, refunds and fees at the eBay Wallet or Payoneer stage.            *)

EbayWallet(a) == <<"EBAY_WALLET", a>>

\* The wallet a refund or fee credit touches: stage 'ebay_wallet' or 'payoneer'.
StageWallet(s) == IF s \in EbayAccount THEN EbayWallet(s) ELSE <<"PAYONEER_WALLET", s>>

\* Revenue is recognised gross; the wallet receives what eBay's fee leaves.
EbaySale(a, gross, fee, rate, o) ==
    LET g == Idr(gross, rate)
        f == Idr(fee, rate)
    IN  Posting("ebay_sale",
                WithOrder(<<Debit(EbayWallet(a), g - f), Credit(Single("SALES_REVENUE"), g)>>
                            \o Optional(f > 0, Debit(Single("EBAY_SELLING_FEES"), f)), o))

Refund(s, x, o) ==
    Posting("ebay_refund", WithOrder(Move(Single("SALES_RETURNS_ALLOWANCES"), StageWallet(s), x), o))

RefundReversal(s, x, o) ==
    Posting("ebay_refund", WithOrder(Move(StageWallet(s), Single("SALES_RETURNS_ALLOWANCES"), x), o))

RefundFeeCredit(s, x, o) ==
    Posting("ebay_refund", WithOrder(Move(StageWallet(s), Single("EBAY_SELLING_FEES"), x), o))

\* A fee eBay charges outside an order, out of the wallet.
EbayWalletExpense(a, code, x, o) ==
    Posting("bank_other", WithOrder(Move(Single(code), EbayWallet(a), x), o))

LegacyPayout(x) == Posting("bank_other", Move(Main, Single("SALES_REVENUE"), x))

-----------------------------------------------------------------------------
(* Consignment.                                                             *)

\* What a consignment sale leaves after the payout: the commission of the
\* tier model, or the shipping recovered by the experimental model.
Commission(gross, rate, payout) == Idr(gross, rate) - payout
Recovered(gross, fee, rate, payout) == Idr(gross, rate) - Idr(fee, rate) - payout

ConsignmentTerms(model, gross, fee, rate, payout) ==
    IF model = "tier" THEN Commission(gross, rate, payout) > 0
                      ELSE Recovered(gross, fee, rate, payout) >= 0

ConsignmentCredits(model, gross, fee, rate, payout) ==
    <<Credit(Single("CONSIGNOR_PAYABLE"), payout)>>
      \o IF model = "tier"
         THEN <<Credit(Single("CONSIGNMENT_COMMISSION_INCOME"), Commission(gross, rate, payout))>>
         ELSE Optional(Idr(fee, rate) > 0, Credit(Single("EBAY_SELLING_FEES"), Idr(fee, rate)))
              \o Optional(Recovered(gross, fee, rate, payout) > 0,
                          Credit(Single("SHIPPING_COST"), Recovered(gross, fee, rate, payout)))

\* The fee line is unconditional here, unlike a normal sale's: a sale without
\* a fee is refused.
ConsignmentSale(model, a, gross, fee, rate, payout, o, r) ==
    Posting("consignment_sale",
            WithRef(WithOrder(<<Debit(EbayWallet(a), Idr(gross, rate) - Idr(fee, rate)),
                                Debit(Single("EBAY_SELLING_FEES"), Idr(fee, rate))>>
                                \o ConsignmentCredits(model, gross, fee, rate, payout), o), r))

ConsignorReimbursement(from, x, r) ==
    Posting("consignment_payout", WithRef(Move(Single("CONSIGNOR_PAYABLE"), from, x), r))

-----------------------------------------------------------------------------
(* Transfers, withdrawals and exchange differences.                         *)

InterAccountTransfer(to, from, x) == Posting("inter_account_transfer", Move(to, from, x))

\* An exchange gain is a credit to the account, a loss a debit.
Exchange(code, gain) ==
    Optional(gain > 0, Credit(Single(code), gain)) \o Optional(gain < 0, Debit(Single(code), -gain))

\* The spread between the rate the wallet was booked at and Payoneer's rate.
Spread(gross, fee, rate, booked) ==
    Idr(gross - fee, rate) + Idr(fee, rate) - Idr(gross, booked)

RealizedFxWithdrawal(w, gross, fee, rate, booked) ==
    Posting("payoneer_withdrawal",
            <<Debit(<<"BCA_BRIDGING", w>>, Idr(gross - fee, rate)),
              Debit(Single("PAYOUT_FEE"), Idr(fee, rate)),
              Credit(<<"PAYONEER_WALLET", w>>, Idr(gross, booked))>>
              \o Exchange("REALIZED_FX", Spread(gross, fee, rate, booked)))

\* Restates the book value of a wallet's dollars; nothing when they agree.
UnrealizedFxRevaluation(w, usd, book, rate) ==
    LET diff == Idr(usd, rate) - book IN
    Posting("fx_revaluation",
            Optional(diff > 0, Debit(<<"PAYONEER_WALLET", w>>, diff))
              \o Exchange("UNREALIZED_FX", diff)
              \o Optional(diff < 0, Credit(<<"PAYONEER_WALLET", w>>, -diff)))

-----------------------------------------------------------------------------
(* The owner, purchases, expenses, income.                                  *)

OwnerContribution(x) == Posting("owner_contribution", Move(Main, Single("OWNERS_CAPITAL"), x))
OwnerDraw(x) == Posting("owner_draw", Move(Single("OWNERS_DRAW"), Main, x))

\* Idempotence is the unique index of opening_balances, not this posting.
OpeningBalance(a, x) == Posting("opening_balance", Move(a, Single("OWNERS_CAPITAL"), x))

CogsPurchase(x) == Posting("cogs_purchase", Move(Single("COGS"), Main, x))
CogsRefund(x) == Posting("bank_other", Move(Main, Single("COGS"), x))
ShippingCostPurchase(x) == Posting("bank_other", Move(Single("SHIPPING_COST"), Main, x))
ShippingCostRefund(x) == Posting("bank_other", Move(Main, Single("SHIPPING_COST"), x))

CogsWithShippingSplit(from, total, shipping) ==
    Posting("bank_other", <<Debit(Single("COGS"), total - shipping),
                            Debit(Single("SHIPPING_COST"), shipping), Credit(from, total)>>)

OperatingExpense(code, from, x) == Posting("bank_other", Move(Single(code), from, x))

InterestIncome(gross, tax) ==
    Posting("bank_other", Move(Main, Single("INTEREST_INCOME"), gross - tax))

\* Sign-aware: a negative line takes income back.
IncomeLine(code, with, x) ==
    Posting("bank_other", IF x > 0 THEN Move(with, Single(code), x)
                                   ELSE Move(Single(code), with, -x))

InterestIncomeLine(with, x) == IncomeLine("INTEREST_INCOME", with, x)

-----------------------------------------------------------------------------
(* Employee loans and inventory deposits: aggregate accounts, one reference *)
(* per loan or deposit.                                                     *)

\* Mutant of LoanDisbursement: the loan is not named on the lines.
LoanDisbursementUnnamed(from, x, r) ==
    Posting("bank_other", Move(Single("EMPLOYEE_LOAN_RECEIVABLE"), from, x))

LoanDisbursement(from, x, r) ==
    Posting("bank_other", WithRef(Move(Single("EMPLOYEE_LOAN_RECEIVABLE"), from, x), r))

PayrollWithRepayment(from, net, repaid, r) ==
    Posting("bank_other",
            WithRef(<<Debit(Single("PAYROLL"), net + repaid),
                      Credit(Single("EMPLOYEE_LOAN_RECEIVABLE"), repaid), Credit(from, net)>>, r))

InventoryDeposit(x, r) ==
    Posting("bank_other", WithRef(Move(Single("INVENTORY_DEPOSITS"), Main, x), r))

InventoryDepositReceived(x, r) ==
    Posting("inventory_deposit_received",
            WithRef(Move(Single("COGS"), Single("INVENTORY_DEPOSITS"), x), r))

\* post_reversal_entry: the same lines with the sides swapped, the same source.
Reversal(entry) ==
    Posting(entry.source, [i \in DOMAIN entry.lines |->
                             [entry.lines[i] EXCEPT !.debit = entry.lines[i].credit,
                                                    !.credit = entry.lines[i].debit]])

=============================================================================
