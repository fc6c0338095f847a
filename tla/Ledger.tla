------------------------------- MODULE Ledger -------------------------------
(***************************************************************************)
(* The books: every way an entry gets into the journal (ledger/posting.py   *)
(* and its callers), with the tables that keep a posting from happening     *)
(* twice (consignment_sales, opening_balances, fx_revaluations) and the      *)
(* corrections that reverse one (the scripts).                              *)
(*                                                                          *)
(* Each action is one transaction, but for the conversion of an inventory   *)
(* deposit, which reads the outstanding balance in one step and inserts its *)
(* entry in another: two requests may be between the two.                   *)
(***************************************************************************)
EXTENDS Reports, Dispatch

CONSTANTS
    BankRow,      \* the review-queue rows, and the month each is dated in
    Label,        \* the categories they are given
    Order,        \* eBay orders
    Sold,         \* what an order may bring: gross, fee, rate
    Withdrawn,    \* what a withdrawal may bring: gross, fee, rate, booked rate
    Valuation,    \* what a wallet may be worth: usd, rate
    Sale,         \* consignment sales
    Terms,        \* what they may be agreed on: model, payout and item reference
    Opened,       \* the balances an account may be opened with
    OpenAccount,  \* the accounts opened
    Reference,    \* the consignors' items, employees and deposits a line may name
    Request,      \* concurrent conversion requests
    MaxEntries    \* bound on the journal; one correction may exceed it

ASSUME LedgerAssumption ==
    /\ BankRow \subseteq
         [feed : {"bank", "payoneer", "ebay"}, ebay : EbayAccount \cup {NULL},
          group : WalletGroup \cup {NULL}, amount : Int, ref : Reference \cup {NULL},
          part : Nat, expense : OpexCode, peer : WalletGroup \cup {NULL}, month : Period]
    /\ NULL \notin BankRow
    /\ \A row \in BankRow : row.feed = "payoneer" => row.group # NULL
    /\ Label \subseteq Category
    /\ OpenAccount \subseteq CashAccount
    /\ NULL \notin Reference \cup {"unspecified"}
    /\ Sold \subseteq [gross : Int, fee : Int, rate : Int]
    /\ Withdrawn \subseteq [gross : Int, fee : Int, rate : Int, booked : Int]
    /\ Valuation \subseteq [usd : Int, rate : Int]
    /\ Opened \subseteq Int
    /\ Terms \subseteq [model : {"tier", "net_of_fees_and_shipping"}, payout : Nat,
                        ref : Reference]
    /\ MaxEntries \in Nat

VARIABLES
    sales,       \* consignment_sales
    openings,    \* opening_balances: per account its entry, 0 for none
    converting   \* per request the conversion it is about to insert, or NULL

vars == <<journal, sales, openings, converting>>

\* journal_entries: the entry, the row it was made for, the entry that reversed
\* it (0 for none), and for a revaluation its wallet group.
Entry(posting, p, row, w) ==
    [source |-> posting.source, lines |-> posting.lines, period |-> p, row |-> row,
     reversedBy |-> 0, group |-> w]

NoSale == [status |-> "absent", terms |-> NULL, entry |-> 0, reimbursed |-> 0]

\* A bank line booked as a purchase for its account, whatever its sign.
AsPurchase(row) == Entry(Purchase(row, "cogs_purchase"), row.month, row, NULL)

\* An entry from before the signs of the categories were checked: an inflow
\* booked as a purchase (entries 917 and 931).
Flipped(entry) == /\ entry.row # NULL
                  /\ entry.row.amount > 0 /\ entry.row.part = 0
                  /\ entry.lines = AsPurchase(entry.row).lines

Init ==
    /\ journal \in {<<>>} \cup {<<AsPurchase(row)>> :
                        row \in {r \in BankRow : r.feed = "bank" /\ r.amount > 0 /\ r.part = 0}}
    /\ sales = [s \in Sale |-> NoSale]
    /\ openings = [a \in OpenAccount |-> 0]
    /\ converting = [q \in Request |-> NULL]

Next1 == Len(journal) + 1
Room(n) == Len(journal) + n <= MaxEntries
RoomToCorrect == Len(journal) <= MaxEntries

\* _insert_journal_entry: a posting that is not accepted raises.
Insert(posting, p, row, w) ==
    /\ Room(1)
    /\ Insertable(posting)
    /\ journal' = Append(journal, Entry(posting, p, row, w))

Book(posting, p) ==
    Insert(posting, p, NULL, NULL) /\ UNCHANGED <<sales, openings, converting>>

-----------------------------------------------------------------------------
(* The eBay report and the Payoneer report.                                 *)

SellOrder(a, o, d, p) == Book(EbaySale(a, d.gross, d.fee, d.rate, o), p)

\* _process_refund_row: the refund and, if eBay credits its fee, the credit.
RefundOrder(a, o, d, p) ==
    LET refund == Refund(a, Idr(d.gross, d.rate), o)
        credit == RefundFeeCredit(a, Idr(d.fee, d.rate), o)
    IN  IF d.fee > 0
        THEN /\ Room(2)
             /\ Insertable(refund) /\ Insertable(credit)
             /\ journal' = journal \o <<Entry(refund, p, NULL, NULL), Entry(credit, p, NULL, NULL)>>
             /\ UNCHANGED <<sales, openings, converting>>
        ELSE Book(refund, p)

ChargeFee(a, x, p) == Book(EbayWalletExpense(a, "GENERAL_OPEX", x, NULL), p)

ConfirmPayout(a, w, x, p) ==
    Book(InterAccountTransfer(<<"PAYONEER_WALLET", w>>, EbayWallet(a), x), p)

Withdraw(w, d, p) ==
    /\ d.fee <= d.gross
    /\ Book(RealizedFxWithdrawal(w, d.gross, d.fee, d.rate, d.booked), p)

\* _revalue_wallet_group: once per wallet group and month (the unique index of
\* fx_revaluations); the book value is the wallet's balance through the month.
Revalue(w, v, p) ==
    /\ \A i \in DOMAIN journal : ~(journal[i].group = w /\ journal[i].period = p)
    /\ Insert(UnrealizedFxRevaluation(w, v.usd, BalanceThrough(<<"PAYONEER_WALLET", w>>, p), v.rate),
              p, NULL, w)
    /\ UNCHANGED <<sales, openings, converting>>

-----------------------------------------------------------------------------
(* The review queue.                                                        *)

RowEntries == {i \in DOMAIN journal : journal[i].row # NULL}

\* The sale a reimbursement marks: a confirmed one with its reference that is
\* not marked yet.
Owed(r) == {s \in Sale : /\ sales[s].status = "confirmed"
                         /\ sales[s].terms.ref = r
                         /\ sales[s].reimbursed = 0}

\* A row books once; a consignment payout marks a sale it pays.
BookRow(row, c) ==
    /\ Bookable(row, c)
    /\ \A i \in DOMAIN journal : journal[i].row # row
    /\ Insert(Posted(row, c), row.month, row, NULL)
    /\ IF c = "consignment_payout" /\ Owed(row.ref) # {}
       THEN \E s \in Owed(row.ref) : sales' = [sales EXCEPT ![s].reimbursed = Next1]
       ELSE UNCHANGED sales
    /\ UNCHANGED <<openings, converting>>

\* Mutant of Reverses: the reversal is dated on the day it is made.
ReversesToday(i, rest) ==
    journal' = Append([journal EXCEPT ![i].reversedBy = Next1],
                      Entry(Reversal(journal[i]), Max(Period), journal[i].row, NULL))
                 \o rest

\* post_reversal_entry, dated like the original, and what is booked in its stead.
Reverses(i, rest) ==
    journal' = Append([journal EXCEPT ![i].reversedBy = Next1],
                      Entry(Reversal(journal[i]), journal[i].period, journal[i].row, NULL))
                 \o rest

\* The entries that are reversals.
Reversals == {journal[i].reversedBy : i \in DOMAIN journal} \ {0}

\* The categories the scripts correct a row to.
Corrected == {"other", "cogs_refund", "shipping_cost"}

\* The correction scripts: a line wrongly booked as a purchase is reversed and
\* booked again under the right category, in one transaction.
CorrectEntry(i, c) ==
    LET row == journal[i].row IN
    /\ row # NULL
    /\ row.part = 0
    /\ journal[i].lines = AsPurchase(row).lines
    /\ journal[i].reversedBy = 0
    /\ Bookable(row, c)
    /\ RoomToCorrect
    /\ Reverses(i, <<Entry(Posted(row, c), journal[i].period, row, NULL)>>)
    /\ UNCHANGED <<sales, openings, converting>>

-----------------------------------------------------------------------------
(* Consignment sales.                                                       *)

\* create_consignment_sale, from an order with a CONSIGN- label.
CreateSale(s, t) ==
    /\ sales[s].status = "absent"
    /\ t.payout > 0
    /\ sales' = [sales EXCEPT ![s].status = "created", ![s].terms = t]
    /\ UNCHANGED <<journal, openings, converting>>

\* confirm_consignment_sale.
ConfirmSale(s) ==
    /\ sales[s].status = "created"
    /\ sales' = [sales EXCEPT ![s].status = "confirmed"]
    /\ UNCHANGED <<journal, openings, converting>>

\* Mutant of MayPost: a posted sale is not refused.
MayPostAgain(s) == sales[s].status = "confirmed"

MayPost(s) == sales[s].status = "confirmed" /\ sales[s].entry = 0

\* post_consignment_sale.
PostSale(s, a, o, d, p) ==
    LET t == sales[s].terms IN
    /\ MayPost(s)
    /\ ConsignmentTerms(t.model, d.gross, d.fee, d.rate, t.payout)
    /\ Insert(ConsignmentSale(t.model, a, d.gross, d.fee, d.rate, t.payout, o, t.ref), p, NULL, NULL)
    /\ sales' = [sales EXCEPT ![s].entry = Next1]
    /\ UNCHANGED <<openings, converting>>

-----------------------------------------------------------------------------
(* Opening balances.                                                        *)

\* post_opening_balance; the unique index refuses a second one.
OpenBalance(a, x, p) ==
    /\ openings[a] = 0
    /\ Insert(OpeningBalance(a, x), p, NULL, NULL)
    /\ openings' = [openings EXCEPT ![a] = Next1]
    /\ UNCHANGED <<sales, converting>>

\* Mutant of Reopening: the entry is not reversed before it is replaced.
ReopeningOnly(a, x, p) == journal' = Append(journal, Entry(OpeningBalance(a, x), p, NULL, NULL))
                            /\ openings' = [openings EXCEPT ![a] = Next1]

Reopening(a, x, p) ==
    /\ Reverses(openings[a], <<Entry(OpeningBalance(a, x), p, NULL, NULL)>>)
    /\ openings' = [openings EXCEPT ![a] = Next1 + 1]

\* _ensure_jan1_opening_balance: the opening entry is reversed, its row deleted,
\* and a new balance booked in an earlier month, in one transaction.
CorrectOpening(a, x, p) ==
    /\ openings[a] # 0
    /\ journal[openings[a]].reversedBy = 0
    /\ p < journal[openings[a]].period
    /\ RoomToCorrect
    /\ Insertable(OpeningBalance(a, x))
    /\ Reopening(a, x, p)
    /\ UNCHANGED <<sales, converting>>

-----------------------------------------------------------------------------
(* Inventory deposits (webapp/inventory_deposits_bp.py).                    *)

Deposits == Single("INVENTORY_DEPOSITS")

\* The balance of a deposit over all dates, whatever the date of a conversion.
Outstanding(r) == Debits({x \in OfAccount(Rows, Deposits) : LineOf(x).ref = r})

\* post_inventory_deposit_received, first half: an amount that is not
\* outstanding is refused.
StartConversion(q, r, x, p) ==
    /\ converting[q] = NULL
    /\ x <= Outstanding(r)
    /\ converting' = [converting EXCEPT ![q] = [ref |-> r, amount |-> x, period |-> p]]
    /\ UNCHANGED <<journal, sales, openings>>

\* The second half: insert and commit.
FinishConversion(q) ==
    /\ converting[q] # NULL
    /\ Insert(InventoryDepositReceived(converting[q].amount, converting[q].ref),
              converting[q].period, NULL, NULL)
    /\ converting' = [converting EXCEPT ![q] = NULL]
    /\ UNCHANGED <<sales, openings>>

-----------------------------------------------------------------------------
Reported ==
    \E p \in Period :
        \/ \E a \in EbayAccount, o \in Order, d \in Sold :
              SellOrder(a, o, d, p) \/ RefundOrder(a, o, d, p)
        \/ \E a \in EbayAccount, x \in Opened : ChargeFee(a, x, p)
        \/ \E a \in EbayAccount, w \in WalletGroup, x \in Opened : ConfirmPayout(a, w, x, p)
        \/ \E w \in WalletGroup, d \in Withdrawn : Withdraw(w, d, p)
        \/ \E w \in WalletGroup, v \in Valuation : Revalue(w, v, p)

Queued ==
    \/ \E row \in BankRow, c \in Label : BookRow(row, c)
    \/ \E i \in DOMAIN journal, c \in Corrected : CorrectEntry(i, c)

Consigned ==
    \E s \in Sale :
        \/ \E t \in Terms : CreateSale(s, t)
        \/ ConfirmSale(s)
        \/ \E a \in EbayAccount, o \in Order, d \in Sold, p \in Period : PostSale(s, a, o, d, p)

Balances ==
    \E a \in OpenAccount, x \in Opened, p \in Period :
        OpenBalance(a, x, p) \/ CorrectOpening(a, x, p)

Conversions ==
    \E q \in Request :
        \/ \E r \in Reference, x \in Opened, p \in Period : StartConversion(q, r, x, p)
        \/ FinishConversion(q)

Next == Reported \/ Queued \/ Consigned \/ Balances \/ Conversions

Spec == Init /\ [][Next]_vars

=============================================================================
