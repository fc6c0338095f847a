----------------------------- MODULE EbayIngest -----------------------------
(***************************************************************************)
(* eBay Transaction Report ingestion (ingestion/ebay_csv.py, called by       *)
(* sync_ebay_sales_csv): one document per account and month, of which ever   *)
(* longer exports are uploaded, read again by every sync.                    *)
(*                                                                          *)
(* Syncs exclude each other (SyncPipeline), so one runs at a time: it works  *)
(* on a copy of the store, group of rows by group of rows, and publishes it  *)
(* at the end or, on an exception, not at all.  One eBay account is          *)
(* modelled, since every query is scoped to it.  Of amounts only what decides *)
(* a branch is kept.                                                         *)
(***************************************************************************)
EXTENDS Integers, Sequences, FiniteSetsExt

CONSTANTS
    Document,     \* source_documents rows of type ebay_sales_csv: months
    Exports,      \* per document the files a user uploads, in this order
    Date,         \* transaction dates
    TierPrice,    \* the item prices consignor_payout_tiers has a fixed rate for
    MaxLoose,     \* review rows without a reference are counted up to this
    MaxCrashes,   \* bound on syncs that die
    NULL

\* A raw CSV row.  Type "Adjustment" stands for the types the report may hold but
\* no branch knows.  label is the consignor of a CONSIGN- label.
FieldsOf(row) ==
    /\ row.type \in {"Order", "Refund", "Other fee", "Payout", "Hold", "Adjustment"}
    /\ row.usd \in BOOLEAN
    /\ row.date \in Date
    /\ {row.gross, row.items, row.shipping, row.charity, row.fee, row.net} \subseteq Int
    /\ NULL \notin {<<row.txn, "">>, <<row.txn, "charity">>}

ASSUME ExportsAssumption ==
    /\ \A d \in Document : \A n \in DOMAIN Exports[d] :
          /\ DOMAIN Exports[d][n] \subseteq Nat /\ IsFiniteSet(DOMAIN Exports[d][n])
          /\ \A i \in DOMAIN Exports[d][n] : FieldsOf(Exports[d][n][i])
    /\ \A d \in Document : Exports[d] \in Seq({Exports[d][n] : n \in DOMAIN Exports[d]})
    /\ MaxLoose \in Nat \ {0} /\ MaxCrashes \in Nat
    /\ NULL \notin [doc : Document, export : Nat, left : SUBSET Nat]

VARIABLES
    folder,    \* per document how many of its exports were uploaded
    rates,     \* the dates a Kurs Pajak rate is known for
    db,        \* the committed store
    work,      \* the store as the running sync sees it
    running,   \* the document and export it reads, the rows left, or NULL
    read,      \* history: the exports committed syncs read
    crashes

vars == <<folder, rates, db, work, running, read, crashes>>

\* ebay_csv_posted_transactions with the entries made (a history: how many per
\* key), review_queue by reference, consignment_sales by reference,
\* ebay_expected_payouts, ebay_csv_transactions by position, and per document
\* the rows its parse_warning names.
EmptyStore ==
    [booked |-> <<>>, marked |-> {}, queue |-> {}, loose |-> 0, sales |-> {}, payouts |-> {},
     raw |-> [d \in Document |-> <<>>], warned |-> [d \in Document |-> {}],
     export |-> [d \in Document |-> 0]]

Init ==
    /\ folder = [d \in Document |-> 0]
    /\ rates = {}
    /\ db = EmptyStore
    /\ work = EmptyStore
    /\ running = NULL
    /\ read = {}
    /\ crashes = 0

-----------------------------------------------------------------------------
(* The rows of a run: Order rows are grouped by order number and come first. *)

File(d, n) == Exports[d][n]
Rows == File(running.doc, running.export)

\* _group_order_rows: the rows with the order number of the row.
GroupIn(file, i) ==
    IF file[i].type = "Order"
    THEN {j \in DOMAIN file : file[j].type = "Order" /\ file[j].order = file[i].order}
    ELSE {i}

Current ==
    LET orders == {i \in running.left : Rows[i].type = "Order"} IN
    GroupIn(Rows, IF orders # {} THEN Min(orders) ELSE Min(running.left))

\* The row that dates and names the group.
Head1 == Rows[Min(Current)]

\* Line rows of a group: all of a single row, all but the totals row of several.
LinesIn(file, g) == IF Cardinality(g) = 1 THEN g ELSE {i \in g : file[i].gross = 0}

Consigned(file, g) == {i \in LinesIn(file, g) : file[i].label # NULL}

\* Mutant of Mergeable: an unlabelled line is not taken for a normal one.
MergeableUnlabelled(file, g) == Cardinality(g) = 1 \/ Cardinality(g \ LinesIn(file, g)) = 1

\* _merge_order_group: exactly one totals row, and no mix of consigned and normal
\* lines.
Mergeable(file, g) ==
    Cardinality(g) = 1 \/ /\ Cardinality(g \ LinesIn(file, g)) = 1
                          /\ Consigned(file, g) \in {{}, LinesIn(file, g)}

Gross(file, g) == MapThenSumSet(LAMBDA i : file[i].gross, g)
Items(file, g) == MapThenSumSet(LAMBDA i : file[i].items, LinesIn(file, g))
Shipping(file, g) == MapThenSumSet(LAMBDA i : file[i].shipping, LinesIn(file, g))
Charity(file, g) == MapThenSumSet(LAMBDA i : file[i].charity, g)

\* ebay_fee_usd.
Fee(file, g) ==
    LET sum == MapThenSumSet(LAMBDA i : file[i].fee, g) IN IF sum < 0 THEN -sum ELSE sum

\* The currency is the totals row's.
InDollars(file, g) ==
    \A i \in g : (Cardinality(g) = 1 \/ i \notin LinesIn(file, g)) => file[i].usd

Reconciles(file, g) == Items(file, g) + Shipping(file, g) = Gross(file, g)

\* debit and credit raise on an amount that is not positive: the net of an order
\* whose fees are no less than its gross, a refund of nothing.
Refused(file, g) ==
    \/ /\ file[Min(g)].type = "Order"
       /\ Mergeable(file, g) /\ InDollars(file, g) /\ Reconciles(file, g)
       /\ Consigned(file, g) = {}
       /\ Gross(file, g) <= Fee(file, g)
    \/ file[Min(g)].type = "Refund" /\ file[Min(g)].usd /\ file[Min(g)].gross = 0

\* txn_ids[0].
TxnOf(file, g) ==
    LET named == {i \in g : file[i].txn # NULL} IN
    IF named = {} THEN NULL ELSE file[Min(named)].txn

\* Mutant of SaleRef: the month is part of the reference.
SaleRefMonthly(file, g) ==
    << <<file[Min(Consigned(file, g))].label, running.doc>>, file[Min(g)].order>>

\* consignor_item_ref: the first label and the order number.
SaleRef(file, g) == <<file[Min(Consigned(file, g))].label, file[Min(g)].order>>

-----------------------------------------------------------------------------
(* The tables.                                                              *)

\* Mutant of KeyOf: a refund is known by the order it is for.
KeyOfOrder(row) == <<row.type, IF row.type = "Other fee" THEN row.ref ELSE row.order>>

\* row_key.
KeyOf(row) ==
    CASE row.type = "Order" -> <<"Order", row.order>>
      [] row.type = "Refund" -> <<"Refund", IF row.ref # NULL THEN row.ref ELSE row.order>>
      [] row.type = "Other fee" ->
             <<"Other fee", IF row.ref # NULL THEN row.ref ELSE <<row.order, row.date, row.net>>>>

\* Mutant of AlreadyPosted: only what this run posted is known.
AlreadyPostedNow(key) == key \in work.marked \ db.marked

\* _already_posted_ebay_csv_row.
AlreadyPosted(key) == key \in work.marked

\* How many entries were made for a key.
EntriesOf(store, key) == IF key \in DOMAIN store.booked THEN store.booked[key] ELSE 0

\* Mutant of Post: the entry is made and not marked.
PostUnmarked(store, key) ==
    [store EXCEPT !.booked = [k \in DOMAIN store.booked \cup {key} |->
                                EntriesOf(store, k) + IF k = key THEN 1 ELSE 0]]

\* A posting and _mark_ebay_csv_row_posted.
Post(store, key) ==
    [store EXCEPT !.booked = [k \in DOMAIN store.booked \cup {key} |->
                                EntriesOf(store, k) + IF k = key THEN 1 ELSE 0],
                  !.marked = @ \cup {key}]

OneMore(n) == IF n < MaxLoose THEN n + 1 ELSE n

\* Mutant of Queue: every reference is new.
QueueAgain(store, ref, order) == [store EXCEPT !.loose = OneMore(@)]

\* _make_review_queue_row: ON CONFLICT DO NOTHING, which a row without a reference
\* never meets.
Queue(store, ref, order) ==
    IF ref = NULL THEN [store EXCEPT !.loose = OneMore(@)]
    ELSE IF \E r \in store.queue : r.ref = ref THEN store
    ELSE [store EXCEPT !.queue = @ \cup {[ref |-> ref, order |-> order]}]

\* external_ref: the transaction ID, with a suffix for the donation of an order.
RefOf(txn, suffix) == IF txn = NULL THEN NULL ELSE <<txn, suffix>>

\* _stage_raw_rows: the first outcome staged at a position stays.
Stage(store, g, link) ==
    LET staged == store.raw[running.doc] IN
    [store EXCEPT !.raw[running.doc] =
        [i \in DOMAIN staged \cup g |->
            IF i \in DOMAIN staged THEN staged[i] ELSE [row |-> Rows[i], link |-> link]]]

Warn(store, g) == [store EXCEPT !.warned[running.doc] = @ \cup g]

-----------------------------------------------------------------------------
(* The user and the rate table.                                             *)

Upload(d) ==
    /\ folder[d] < Len(Exports[d])
    /\ folder' = [folder EXCEPT ![d] = @ + 1]
    /\ UNCHANGED <<rates, db, work, running, read, crashes>>

PublishRate(t) ==
    /\ t \notin rates
    /\ rates' = rates \cup {t}
    /\ UNCHANGED <<folder, db, work, running, read, crashes>>

-----------------------------------------------------------------------------
(* A sync.                                                                  *)

\* Mutant of Begin: the file once recorded for the document is read for ever.
BeginRecorded(d) ==
    /\ running = NULL
    /\ folder[d] > 0
    /\ LET n == IF db.export[d] # 0 THEN db.export[d] ELSE folder[d]
       IN  running' = [doc |-> d, export |-> n, left |-> DOMAIN File(d, n)]
    /\ work' = [db EXCEPT !.warned[d] = {}]
    /\ UNCHANGED <<folder, rates, db, read, crashes>>

\* sync_ebay_sales_csv: the last of several files is read, and the others warned
\* about (position 0); parse_warning is rewritten.
Begin(d) ==
    /\ running = NULL
    /\ folder[d] > 0
    /\ running' = [doc |-> d, export |-> folder[d], left |-> DOMAIN File(d, folder[d])]
    /\ work' = [db EXCEPT !.warned[d] = IF folder[d] > 1 THEN {0} ELSE {}]
    /\ UNCHANGED <<folder, rates, db, read, crashes>>

\* The group is done, and this is the store it leaves.
Done(store) ==
    /\ work' = store
    /\ running' = [running EXCEPT !.left = @ \ Current]
    /\ UNCHANGED <<folder, rates, db, read, crashes>>

At(type) == running # NULL /\ running.left # {} /\ Head1.type = type

Rated == Head1.date \in rates

\* An order as far as its rate.
OrderPassed ==
    /\ At("Order")
    /\ Mergeable(Rows, Current)
    /\ ~AlreadyPosted(KeyOf(Head1))
    /\ InDollars(Rows, Current)

Reconciled == OrderPassed /\ Reconciles(Rows, Current)

\* The store with the donation of the order flagged.
Flagged ==
    IF Charity(Rows, Current) = 0 THEN work
    ELSE Queue(work, RefOf(TxnOf(Rows, Current), "charity"), NULL)

\* lookup_tier_rate: the item price without shipping is in no tier, or in one that
\* asks for manual contact.
TooDear == Items(Rows, Current) \notin TierPrice

RefuseOrder ==
    /\ At("Order")
    /\ \/ ~Mergeable(Rows, Current)
       \/ ~AlreadyPosted(KeyOf(Head1)) /\ ~InDollars(Rows, Current)
    /\ Done(Stage(Warn(work, Current), Current, NULL))

KnownRow ==
    /\ \/ At("Order") /\ Mergeable(Rows, Current)
       \/ At("Refund") /\ Head1.usd
       \/ At("Other fee") /\ Head1.usd /\ Head1.net # 0
    /\ AlreadyPosted(KeyOf(Head1))
    /\ Done(Stage(work, Current, <<"entry", KeyOf(Head1)>>))

QueueMismatch ==
    /\ OrderPassed /\ ~Reconciles(Rows, Current) /\ Rated
    /\ LET ref == RefOf(TxnOf(Rows, Current), "") IN
       Done(Stage(Queue(work, ref, Head1.order), Current, <<"review", ref>>))

BookOrder ==
    /\ Reconciled /\ Rated
    /\ Consigned(Rows, Current) = {}
    /\ ~Refused(Rows, Current)
    /\ Done(Stage(Post(Flagged, KeyOf(Head1)), Current, <<"entry", KeyOf(Head1)>>))

RefuseConsignment ==
    /\ Reconciled /\ Rated
    /\ Consigned(Rows, Current) # {}
    /\ TooDear
    /\ Done(Stage(Warn(Flagged, Current), Current, NULL))

\* create_consignment_sale, unless its reference is there; never posted here.
StageConsignment ==
    LET ref == SaleRef(Rows, Current) IN
    /\ Reconciled /\ Rated
    /\ Consigned(Rows, Current) # {}
    /\ ~TooDear
    /\ Done(Stage([Flagged EXCEPT !.sales = @ \cup {ref}], Current, <<"sale", ref>>))

\* Refunds, other fees.
RefuseRow ==
    /\ \/ At("Refund")
       \/ At("Other fee")
    /\ ~Head1.usd
    /\ Done(Stage(Warn(work, Current), Current, NULL))

\* post_refund with its fee credit, post_ebay_wallet_operating_expense.
BookRow ==
    /\ \/ At("Refund")
       \/ At("Other fee") /\ Head1.net # 0
    /\ Head1.usd
    /\ ~AlreadyPosted(KeyOf(Head1))
    /\ Rated
    /\ ~Refused(Rows, Current)
    /\ Done(Stage(Post(work, KeyOf(Head1)), Current, <<"entry", KeyOf(Head1)>>))

\* _process_payout_row; a payout without an id or amount is only staged.
RecordPayout ==
    /\ At("Payout")
    /\ Done(Stage(IF Head1.ref = NULL \/ Head1.net = 0 THEN work
                  ELSE [work EXCEPT !.payouts = @ \cup {Head1.ref}], Current, NULL))

\* A hold, a fee of zero, an adjustment of zero.
SkipRow ==
    /\ \/ At("Hold")
       \/ At("Other fee") /\ Head1.usd /\ Head1.net = 0
       \/ At("Adjustment") /\ Head1.net = 0
    /\ Done(Stage(work, Current, NULL))

QueueUnknown ==
    /\ At("Adjustment") /\ Head1.usd /\ Head1.net # 0 /\ Rated
    /\ LET ref == RefOf(Head1.txn, "") IN
       Done(Stage(Queue(work, ref, NULL), Current, <<"review", ref>>))

WarnUnknown ==
    /\ At("Adjustment") /\ ~Head1.usd /\ Head1.net # 0
    /\ Done(Stage(Warn(work, Current), Current, NULL))

\* lookup_kurs_pajak_rate raises where an action above asks for Rated.
NeedsRate ==
    \/ OrderPassed
    \/ /\ At("Refund") \/ (At("Other fee") /\ Head1.net # 0)
       /\ Head1.usd
       /\ ~AlreadyPosted(KeyOf(Head1))
    \/ At("Adjustment") /\ Head1.usd /\ Head1.net # 0

GiveUp ==
    /\ work' = db
    /\ running' = NULL
    /\ UNCHANGED <<folder, rates, db, read>>

\* post_ebay_sale or post_refund raises, in this sync and in every later one that
\* reads the file.
PostingRefused ==
    /\ running # NULL /\ running.left # {}
    /\ Refused(Rows, Current) /\ ~AlreadyPosted(KeyOf(Head1))
    /\ Rated
    /\ GiveUp /\ UNCHANGED crashes

RateMissing == NeedsRate /\ ~Rated /\ GiveUp /\ UNCHANGED crashes

Crash == running # NULL /\ crashes < MaxCrashes /\ crashes' = crashes + 1 /\ GiveUp

Commit ==
    /\ running # NULL
    /\ running.left = {}
    /\ db' = [work EXCEPT !.export[running.doc] = running.export]
    /\ work' = db'
    /\ read' = read \cup {<<running.doc, running.export>>}
    /\ running' = NULL
    /\ UNCHANGED <<folder, rates, crashes>>

-----------------------------------------------------------------------------
OrderStep == RefuseOrder \/ QueueMismatch \/ BookOrder \/ RefuseConsignment \/ StageConsignment
RowStep == KnownRow \/ RefuseRow \/ BookRow \/ RecordPayout \/ SkipRow \/ QueueUnknown \/ WarnUnknown
Step == OrderStep \/ RowStep \/ RateMissing \/ PostingRefused \/ Commit

Human ==
    \/ \E d \in Document : Upload(d)
    \/ \E t \in Date : PublishRate(t)

Next == Human \/ (\E d \in Document : Begin(d)) \/ Step \/ Crash

Spec == Init /\ [][Next]_vars

\* The routine job comes back to every month of its window; a running sync goes
\* on.  Nothing is assumed of the human.
FairSpec == Spec /\ WF_vars(Step) /\ \A d \in Document : SF_vars(Begin(d))

=============================================================================
