---------------------------- MODULE EbayIngestMC ----------------------------
(* Small instances of EbayIngest for TLC. *)
EXTENDS EbayIngestProperties, TLC

RowOf(type, order, txn, ref, usd, gross, items, shipping, charity, label, net) ==
    [type |-> type, order |-> order, txn |-> txn, ref |-> ref, usd |-> usd, gross |-> gross,
     items |-> items, shipping |-> shipping, charity |-> charity, fee |-> 0, label |-> label,
     net |-> net, date |-> 1]

Single(order, txn, gross, items, charity, label) ==
    RowOf("Order", order, txn, NULL, TRUE, gross, items, 0, charity, label, 0)

\* An order of two lines, the first of 2 and the second of 1 and shipping, and its
\* totals row.
Double(order, txn, txn2, label1, label2) ==
    <<RowOf("Order", order, NULL, NULL, TRUE, 4, 0, 0, 0, NULL, 0),
      RowOf("Order", order, txn, NULL, TRUE, 0, 2, 0, 0, label1, 0),
      RowOf("Order", order, txn2, NULL, TRUE, 0, 1, 1, 0, label2, 0)>>

Plain(type, txn, ref, usd, net) == RowOf(type, "A", txn, ref, usd, -1, 0, 0, 0, NULL, net)

Dated(rows, t) == [i \in DOMAIN rows |-> [rows[i] EXCEPT !.date = t]]

\* A month's export while it lasts and after it ended, newest rows first: an order
\* that did not reconcile at first, a consigned order and a second refund later.
July == << <<Single("A", "a", 3, 2, 0, NULL), Plain("Refund", NULL, "r1", TRUE, 0),
             Plain("Payout", NULL, "p1", TRUE, -3), Plain("Hold", NULL, NULL, TRUE, -1)>>,
           Double("B", "b", "b2", "ann", "ann")
             \o <<Single("A", "a", 3, 3, 1, NULL), Plain("Refund", NULL, "r2", TRUE, 0),
                  Plain("Refund", NULL, "r1", TRUE, 0), Plain("Payout", NULL, "p1", TRUE, -3)>> >>

\* The next month: an order whose fee eats up its price, taken out of the file
\* afterwards; the consigned order again, a mixed one, one beyond the tiers,
\* fees and the rows no branch knows, one of them without a transaction ID.
August == << <<[Single("E", "e", 1, 1, 0, NULL) EXCEPT !.fee = -1]>>,
             Double("B", "b", "b2", "ann", "ann") \o Double("C", "c", "c2", "ann", NULL)
               \o Dated(<<Single("D", "d", 9, 9, 0, "bob"),
                    Plain("Other fee", NULL, "f1", TRUE, -1),
                    Plain("Other fee", NULL, "f2", FALSE, -1),
                    Plain("Other fee", NULL, "f3", TRUE, 0),
                    Plain("Adjustment", "x", NULL, TRUE, 1),
                    Plain("Adjustment", "y", NULL, FALSE, 1),
                    Plain("Adjustment", NULL, NULL, TRUE, 1)>>, 2) >>

CONSTANTS jul, aug

BothMonths == (jul :> July) @@ (aug :> August)

=============================================================================
