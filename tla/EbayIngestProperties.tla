------------------------ MODULE EbayIngestProperties ------------------------
(* What is claimed of eBay CSV ingestion. *)
EXTENDS EbayIngest

\* Every variable has its type; the marks are those of the entries made, and
\* between syncs there is one store.
TypeOK ==
    /\ folder \in [Document -> Nat]
    /\ rates \subseteq Date
    /\ running = NULL => work = db
    /\ \A store \in {db, work} :
          /\ store.marked = DOMAIN store.booked
          /\ store.loose \in Nat
          /\ \A d \in Document : store.export[d] <= folder[d]

\* However often a report is read, and from however many months' files, a sale,
\* refund or fee is booked once (ebay_csv_posted_transactions).
BookedOnce == \A key \in DOMAIN db.booked : db.booked[key] = 1

\* The order numbers in the reports (a donation's review row has none).
OrderNumber ==
    {row.order : row \in UNION {UNION {{Exports[d][n][i] : i \in DOMAIN Exports[d][n]}
                                         : n \in DOMAIN Exports[d]} : d \in Document}}
      \ {NULL}

\* What became of an order: an entry, review rows, consignment sales.
Outcomes(order) ==
    {<<"entry", key>> : key \in {key \in DOMAIN db.booked : key = <<"Order", order>>}}
      \cup {<<"review", r.ref>> : r \in {r \in db.queue : r.order = order}}
      \cup {<<"sale", ref>> : ref \in {ref \in db.sales : ref[2] = order}}

\* The positions of an order's rows in a report.
GroupOf(order, v) ==
    LET file == File(v[1], v[2]) IN
    {i \in DOMAIN file : file[i].type = "Order" /\ file[i].order = order}

\* Two reports hold the same rows of an order, in the same order.
SameRows(order, v, w) ==
    \E h \in [GroupOf(order, v) -> GroupOf(order, w)] :
        /\ \A i \in GroupOf(order, v) : File(w[1], w[2])[h[i]] = File(v[1], v[2])[i]
        /\ \A j \in GroupOf(order, w) : \E i \in GroupOf(order, v) : h[i] = j
        /\ \A i, k \in GroupOf(order, v) : i < k => h[i] < h[k]

\* An order is booked, or flagged for review, or staged as a consignment, and not
\* two of these, unless its rows differ between two reports that were read (the
\* branches of _process_order_group keep their own keys and do not look at each
\* other's).
OneOutcome ==
    \A order \in OrderNumber :
        \/ Cardinality(Outcomes(order)) <= 1
        \/ \E v, w \in read :
              GroupOf(order, v) # {} /\ GroupOf(order, w) # {} /\ ~SameRows(order, v, w)

Explained(d, file, i) ==
    LET row == file[i]
        flagged(txn) == IF txn = NULL THEN db.loose > 0
                        ELSE \E r \in db.queue : r.ref = RefOf(txn, "")
        named(else) == IF row.ref # NULL THEN row.ref ELSE else
    IN  \/ i \in db.warned[d]
        \/ row.type = "Order" /\ Outcomes(row.order) # {}
        \/ row.type = "Order" /\ flagged(TxnOf(file, GroupIn(file, i)))
        \/ row.type = "Refund" /\ EntriesOf(db, <<"Refund", named(row.order)>>) = 1
        \/ row.type = "Other fee" /\ row.net = 0
        \/ /\ row.type = "Other fee"
           /\ EntriesOf(db, <<"Other fee", named(<<row.order, row.date, row.net>>)>>) = 1
        \/ row.type = "Payout" /\ (row.ref \in db.payouts \/ row.ref = NULL \/ row.net = 0)
        \/ row.type = "Hold"
        \/ row.type = "Adjustment" /\ (row.net = 0 \/ flagged(row.txn))

\* Whatever the last committed sync of a document read is booked, flagged, staged,
\* recorded or warned about: no row that has a reference of its own is taken for
\* one that was done before (process_transaction_report).
EveryRowExplained ==
    \A d \in Document :
        db.export[d] # 0 =>
            LET file == File(d, db.export[d]) IN
            \A i \in DOMAIN file : Explained(d, file, i)

\* Every consignment sale comes from an order all of whose lines were consigned:
\* a payout is never owed on the owner's own goods (_merge_order_group).
SaleIsAllConsigned ==
    \A ref \in db.sales :
        \E v \in read :
            LET file == File(v[1], v[2])
                group == {i \in DOMAIN file : file[i].type = "Order" /\ file[i].order = ref[2]}
            IN  group # {} /\ \A i \in LinesIn(file, group) : file[i].label # NULL

Referenced(file) ==
    \A i \in DOMAIN file : file[i].type \in {"Order", "Adjustment"} =>
        TxnOf(file, GroupIn(file, i)) # NULL

\* Reading an export again books, flags and stages nothing new, but for the review
\* rows that carry no transaction ID (_make_review_queue_row).
ResyncBooksNothing ==
    [][ (running # NULL /\ running' = NULL /\ <<running.doc, running.export>> \in read) =>
            /\ db'.booked = db.booked
            /\ db'.queue = db.queue
            /\ db'.sales = db.sales
            /\ db'.payouts = db.payouts
            /\ db'.raw = db.raw
            /\ Referenced(Rows) => db'.loose = db.loose ]_vars

\* The keys under which the rows of a report can be booked.
KeysOf(v) ==
    LET file == File(v[1], v[2]) IN
    {KeyOf(row) : row \in {file[i] : i \in {i \in DOMAIN file :
                                file[i].type \in {"Order", "Refund", "Other fee"}}}}

AllReports == UNION {{<<d, n>> : n \in DOMAIN Exports[d]} : d \in Document}

\* The entries implement BookOnce: a key is booked at most once and for good, once
\* a report with a row of it was read, and what a sync books appears at once.  A key
\* is a tuple, so that <<>> is none.
Book == INSTANCE BookOnce WITH
    Line <- UNION {KeysOf(v) : v \in AllReports},
    External <- {},
    NULL <- <<>>,
    seen <- UNION {KeysOf(v) : v \in read},
    book <- [k \in UNION {KeysOf(v) : v \in AllReports} |-> IF k \in db.marked THEN k ELSE <<>>],
    made <- DOMAIN db.booked

ImplementsBookOnce == Book!BookSpec

\* The exports after which none, them included, has a row whose posting is refused.
Ingestible ==
    {v \in AllReports :
        \A n \in v[2]..Len(Exports[v[1]]) :
            LET file == File(v[1], n) IN
            \A i \in DOMAIN file : ~Refused(file, GroupIn(file, i))}

\* An uploaded export is read once the rates of its dates are known, and a later
\* export of the month is read although an earlier one was, or never could be: a
\* posting that is refused blocks its own file until that is mended, not a
\* later one (sync_ebay_sales_csv).
ExportIsIngested ==
    \A v \in Ingestible :
        (folder[v[1]] >= v[2] /\ rates = Date) ~> (db.export[v[1]] >= v[2])

=============================================================================
