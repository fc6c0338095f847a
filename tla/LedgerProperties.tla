-------------------------- MODULE LedgerProperties --------------------------
(* What is claimed of the books and of the statements drawn from them.       *)
EXTENDS Ledger

\* Every variable has its type, and every link is to an entry of the journal.
TypeOK ==
    /\ Len(journal) <= MaxEntries + 2
    /\ \A i \in DOMAIN journal :
          /\ journal[i].period \in Period
          /\ journal[i].row \in BankRow \cup {NULL}
          /\ journal[i].reversedBy \in 0 .. Len(journal)
          /\ \A j \in DOMAIN journal[i].lines : journal[i].lines[j].account \in Account
    /\ \A s \in Sale : /\ sales[s].terms \in Terms \cup {NULL}
                       /\ sales[s].status \in {"absent", "created", "confirmed"}
                       /\ {sales[s].entry, sales[s].reimbursed} \subseteq 0 .. Len(journal)
    /\ openings \in [OpenAccount -> 0 .. Len(journal)]

\* The statement of cash flows explains the change in cash of every month:
\* every non-cash line is on one line of the statement, whatever was posted,
\* reversed or opened in the month (cash_flow_statement, difference_idr).
CashFlowTiesOut == \A p \in Period : CashDifference(p) = 0

\* The other statements agree: assets are liabilities and equity
\* (balance_sheet_report, difference_idr), whose earnings, never posted but summed
\* up from the first entry, are the net income of each P&L so far; and the revenue
\* of a P&L is what the accounts' revenue reports show and what no account can
\* claim (attribute_entries_to_ebay_account).
StatementsAgree ==
    \A p \in Period :
        /\ BalanceSheetDifference(p) = 0
        /\ RetainedEarnings(p) = MapThenSumSet(NetIncome, {q \in Period : q <= p})
        /\ TotalRevenue(Within(p)) =
              MapThenSumSet(LAMBDA a : NetRevenue(p, a), EbayAccount)
                + MapThenSumSet(LAMBDA r : Credits({r}), Unattributed(p))

\* "Summing this across every distinct reference ... must always tie out exactly"
\* (account_balance_through_by_reference): no posting reaches a control account
\* without a reference.
SubsidiaryTiesOut ==
    \A p \in Period, code \in {"CONSIGNOR_PAYABLE", "EMPLOYEE_LOAN_RECEIVABLE", "INVENTORY_DEPOSITS"} :
        LET a == Single(code) IN
        MapThenSumSet(LAMBDA r : BalanceByReference(a, p, r), References(a, p))
            = BalanceThrough(a, p)

CashMoved(R) == Debits(OfCodes(R, CashCode))

\* What was booked for a line, corrections included, moves as much cash as the
\* line did, and in its direction; a transfer moves none.  Only an entry older
\* than the check of the signs, until a script corrects it, moves it the wrong way
\* (_DIRECTIONAL_CATEGORY_SIGNS, correct_journal_entry_917.py).
CashMovesByTheRow ==
    \A i \in RowEntries :
        LET R == {r \in Rows : journal[r[1]].row = journal[i].row}
            last == {j \in RowEntries : /\ journal[j].row = journal[i].row
                                        /\ journal[j].reversedBy = 0 /\ j \notin Reversals}
        IN  /\ Cardinality(last) = 1
            /\ \A j \in last :
                  CashMoved(R) = CASE journal[j].source = "inter_account_transfer" -> 0
                                   [] Flipped(journal[j]) -> -journal[i].row.amount
                                   [] OTHER -> journal[i].row.amount

\* An account has one opening balance in force, the one its opening_balances row
\* names, however often it was corrected (_ensure_jan1_opening_balance).
OneOpeningInForce ==
    \A a \in OpenAccount :
        {i \in DOMAIN journal : /\ journal[i].source = "opening_balance"
                                /\ journal[i].lines[1].account = a
                                /\ journal[i].reversedBy = 0
                                /\ i \notin Reversals} = {openings[a]} \ {0}

\* A consignor is owed what was confirmed, once: the payable accrued under a
\* reference is the payouts of its posted sales, all of them confirmed
\* (post_consignment_sale).
AccruedAsConfirmed ==
    \A r \in Reference :
        LET accrued == {x \in OfAccount(Rows, Single("CONSIGNOR_PAYABLE")) :
                            Source(x) = "consignment_sale" /\ LineOf(x).ref = r}
            posted == {s \in Sale : sales[s].entry # 0 /\ sales[s].terms.ref = r}
        IN  /\ \A s \in posted : sales[s].status = "confirmed"
            /\ Credits(accrued) = MapThenSumSet(LAMBDA s : sales[s].terms.payout, posted)

\* An entry is reversed at most once and by a mirror of it in its month, so a
\* reversed entry is no part of any balance (post_reversal_entry).
ReversalCancels ==
    \A i \in DOMAIN journal :
        LET j == journal[i].reversedBy IN
        j # 0 =>
            /\ journal[j].period = journal[i].period
            /\ \A a \in Account :
                  Debits({r \in OfAccount(Rows, a) : r[1] \in {i, j}}) = 0
            /\ \A k \in DOMAIN journal : journal[k].reversedBy = j => k = i

=============================================================================
