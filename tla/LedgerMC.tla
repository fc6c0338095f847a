------------------------------ MODULE LedgerMC ------------------------------
(* Small instances of Ledger for TLC. *)
EXTENDS LedgerProperties

CONSTANTS e1, e2, w1, o1, s1, item, q1, q2

RowOf(feed, ebay, group, x, ref, part, peer, p) ==
    [feed |-> feed, ebay |-> ebay, group |-> group, amount |-> x, ref |-> ref, part |-> part,
     expense |-> "PACKAGING_SUPPLIES", peer |-> peer, month |-> p]

\* A Master debit with a reference and a part, a Master credit that is a sweep's
\* end, a Bridging debit that is the other, a Bridging credit, a Payoneer debit
\* and a Payoneer credit of an eBay account.
Rows1 == {RowOf("bank", NULL, NULL, -4, item, 1, NULL, 1),
          RowOf("bank", NULL, NULL, 4, NULL, 0, w1, 2),
          RowOf("bank", NULL, w1, -3, item, 0, w1, 1),
          RowOf("bank", NULL, w1, 3, NULL, 0, NULL, 1),
          RowOf("payoneer", e1, w1, 5, NULL, 0, NULL, 2),
          RowOf("payoneer", NULL, w1, -2, NULL, 0, NULL, 2)}

\* 3 cents at 150 are 5 rupiah, 1 cent is 2.
OneDeal == {[gross |-> 3, fee |-> 1, rate |-> 150]}
OneWithdrawal == {[gross |-> 5, fee |-> 1, rate |-> 130, booked |-> 150]}
OneValue == {[usd |-> 2, rate |-> 150]}

BothTerms == [model : {"tier", "net_of_fees_and_shipping"}, payout : {2}, ref : {item}]
BankAccounts == {Main, <<"PAYONEER_WALLET", w1>>}

=============================================================================
