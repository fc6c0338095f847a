--------------------------- MODULE PayoneerIngest ---------------------------
(***************************************************************************)
(* Payoneer CSV ingestion (ingestion/payoneer.py): payments from eBay are  *)
(* confirmed against expected payouts and withdrawals against confirmation *)
(* PDFs, and booked directly; everything else becomes a review row.        *)
(*                                                                         *)
(* Every sync reads every document of its period again, the same export    *)
(* may sit in the folders of several periods, and the document that        *)
(* explains a transaction may arrive after it.  One sync runs at a time    *)
(* (the advisory lock of SyncPipeline), in one transaction; a human labels *)
(* review rows meanwhile.                                                  *)
(***************************************************************************)
EXTENDS Naturals, Sequences

CONSTANTS
    Period,        \* periods that can be synced
    Payment,       \* completed "Payment from eBay" credits of the exports
    Withdrawal,    \* completed "Withdrawal to ..." debits
    Charge,        \* any other completed transaction
    Outflow,       \* charges that are debits
    Payout,        \* Payout rows of the eBay sales CSVs
    Confirmation,  \* withdrawal confirmation PDFs
    Folder,        \* <<period, item>>: the item belongs in that period's folders
    Named,         \* the payout whose id a payment's description names, or NULL
    Referenced,    \* the confirmation a withdrawal's Reference ID names, or NULL
    Fits,          \* <<transaction, payout or confirmation>>: within the tolerances
    OtherRule,     \* <<transaction, category>>: what rules (b) to (e) make of its row
    HumanLabel,    \* categories a human uses: a bound on the labels explored
    NULL

\* Completed transactions; each has a Transaction ID, unique and never blank.
Txn == Payment \cup Withdrawal \cup Charge

Source == Payout \cup Confirmation

Item == Txn \cup Source

\* "other" stands for every category that posts from the row alone.
Category == {"revenue_settlement", "other"}

ASSUME ItemAssumption ==
    /\ Payment \cap Withdrawal = {} /\ Payment \cap Charge = {} /\ Withdrawal \cap Charge = {}
    /\ Outflow \subseteq Charge
    /\ Payout \cap Confirmation = {}
    /\ NULL \notin Item \cup Period \cup Category
    /\ \A f \in Folder : f \in Period \X Item
    /\ Named \in [Payment -> Payout \cup {NULL}]
    /\ Referenced \in [Withdrawal -> Confirmation \cup {NULL}]
    /\ \A f \in Fits : f \in Txn \X Source
    /\ \A r \in OtherRule : r \in Txn \X Category
    /\ HumanLabel \subseteq Category

VARIABLES
    drive,   \* items of the documents now in Drive
    db,      \* the committed store
    work,    \* the store as the running sync sees it
    locked,  \* review rows the running sync has written
    pc,      \* how far the sync is
    period,  \* the period it syncs
    files,   \* what it found in that period's folders
    todo,    \* transactions the current loop has still to visit
    used,    \* used_confirmation_ids
    generic, \* generic_lines
    orphan,  \* the row _resolve_orphaned_review_queue_duplicate selected
    snap     \* the rows as post_pending_rows' SELECT saw them

vars == <<drive, db, work, locked, pc, period, files, todo, used, generic, orphan, snap>>

-----------------------------------------------------------------------------

\* review_queue, one row per Transaction ID: posted_at and match_status
\* together are the status, account tells whether ebay_account_id is set.
Row == [status : {"absent", "unposted", "posted", "resolved"},
        category : Category \cup {NULL},
        account : BOOLEAN]

NoRow == [status |-> "absent", category |-> NULL, account |-> FALSE]

\* direct lists the sources of the entries posted directly for a transaction;
\* marked is payoneer_csv_posted_transactions; taken[p] is the transaction that
\* set matched_at of payout p; read remembers what the last sync of a period saw.
Store == [known  : SUBSET Payout,
          taken  : [Payout -> Txn \cup {NULL}],
          direct : [Txn -> Seq(Source)],
          marked : SUBSET Txn,
          rows   : [Txn -> Row],
          warned : [Period -> SUBSET Withdrawal],
          read   : [Period -> SUBSET Txn]]

EmptyStore == [known  |-> {},
               taken  |-> [p \in Payout |-> NULL],
               direct |-> [t \in Txn |-> <<>>],
               marked |-> {},
               rows   |-> [t \in Txn |-> NoRow],
               warned |-> [f \in Period |-> {}],
               read   |-> [f \in Period |-> {}]]

\* What is in Drive for period f.
InFolder(f) == {x \in drive : <<f, x>> \in Folder}

Idle ==
    /\ locked' = {}
    /\ pc' = "idle"
    /\ period' = NULL
    /\ files' = {}
    /\ todo' = {}
    /\ used' = {}
    /\ generic' = {}
    /\ orphan' = NULL
    /\ snap' = [t \in Txn |-> NoRow]

Init ==
    /\ drive = {}
    /\ db = EmptyStore
    /\ work = EmptyStore
    /\ locked = {}
    /\ pc = "idle"
    /\ period = NULL
    /\ files = {}
    /\ todo = {}
    /\ used = {}
    /\ generic = {}
    /\ orphan = NULL
    /\ snap = [t \in Txn |-> NoRow]

-----------------------------------------------------------------------------
(* Documents arrive in Drive, a human labels an unposted row.                *)

Upload(x) ==
    /\ x \notin drive
    /\ drive' = drive \cup {x}
    /\ UNCHANGED <<db, work, locked, pc, period, files, todo, used, generic, orphan, snap>>

\* label_row waits for a row the sync has written; a sync that has not written
\* it sees the label at once.
LabelRow(t, c, acct) ==
    LET row == [db.rows[t] EXCEPT !.category = c, !.account = @ \/ acct] IN
    /\ acct => c = "revenue_settlement"
    /\ t \notin locked
    /\ db.rows[t].status = "unposted"
    /\ db' = [db EXCEPT !.rows[t] = row]
    /\ work' = [work EXCEPT !.rows[t] = row]
    /\ UNCHANGED <<drive, locked, pc, period, files, todo, used, generic, orphan, snap>>

-----------------------------------------------------------------------------
(* A sync of period f: the eBay sales CSV, then the Payoneer rows.           *)

\* sync_ebay_sales_csv records the payouts it does not know yet; sync_payoneer
\* then starts over, with an empty warning, no generic line and no
\* confirmation used.
Begin(f) ==
    /\ pc = "idle"
    /\ pc' = "rows"
    /\ period' = f
    /\ files' = InFolder(f)
    /\ work' = [work EXCEPT !.known = @ \cup (files' \cap Payout),
                            !.warned[f] = {},
                            !.read[f] = files' \cap Txn]
    /\ todo' = files' \cap Txn
    /\ UNCHANGED <<drive, db, locked, used, generic, orphan, snap>>

Visiting(t) == pc = "rows" /\ t \in todo /\ orphan = NULL

Done(t) == todo' = todo \ {t}

\* Mutant of AlreadyPosted: a withdrawal that was warned about is done with.
AlreadyHandled(t) == t \in work.marked \/ \E f \in Period : t \in work.warned[f]

\* _already_posted_payoneer_row, before anything else in both direct branches.
AlreadyPosted(t) == t \in work.marked

SkipPosted(t) ==
    /\ Visiting(t)
    /\ t \in Payment \cup Withdrawal
    /\ AlreadyPosted(t)
    /\ Done(t)
    /\ UNCHANGED <<drive, db, work, locked, pc, period, files, used, generic, orphan, snap>>

\* Mutant of Unmatched: matched_at is not looked at.
UnmatchedOrNot(p) == p \in work.known

\* matched_at IS NULL.
Unmatched(p) == p \in work.known /\ work.taken[p] = NULL

\* Mutant of Expected: no fallback to amount and date.
ExpectedNamed(t) == {p \in Payout : p = Named[t] /\ Unmatched(p)}

\* The payout a payment confirms: the one it names, else any that fits (the
\* code takes the first of an unordered query).
Expected(t) ==
    LET named == {p \in Payout : p = Named[t] /\ Unmatched(p)} IN
    IF named # {} THEN named ELSE {p \in Payout : Unmatched(p) /\ <<t, p>> \in Fits}

\* Mutant of PostDirectly: the transaction is not marked.
PostUnmarked(store, t, x) == [store EXCEPT !.direct[t] = Append(@, x)]

\* The entry and its payoneer_csv_posted_transactions row.
PostDirectly(store, t, x) ==
    [store EXCEPT !.direct[t] = Append(@, x), !.marked = @ \cup {t}]

\* Mutant of Orphan: nobody looks for the row an earlier sync staged.
OrphanIgnored(t) == FALSE

\* The untouched row an earlier sync staged for t.
Orphan(t) == work.rows[t].status = "unposted" /\ work.rows[t].category = NULL

\* _process_ebay_payment_row, up to the SELECT of the orphan.
ConfirmPayout(t) ==
    /\ Visiting(t)
    /\ t \in Payment
    /\ ~AlreadyPosted(t)
    /\ \E p \in Expected(t) :
          work' = [PostDirectly(work, t, p) EXCEPT !.taken[p] = t]
    /\ orphan' = IF Orphan(t) THEN t ELSE NULL
    /\ Done(t)
    /\ UNCHANGED <<drive, db, locked, pc, period, files, used, generic, snap>>

\* Mutant of Resolved: a status the schema does not know.
ResolvedUnknown(row) == [row EXCEPT !.status = "duplicate", !.category = "revenue_settlement"]

\* match_status, posted_at and category of a row that will never post.
Resolved(row) == [row EXCEPT !.status = "resolved", !.category = "revenue_settlement"]

\* _resolve_orphaned_review_queue_duplicate: the UPDATE, by id.
ResolveOrphan ==
    /\ orphan # NULL
    /\ work' = [work EXCEPT !.rows[orphan] = Resolved(@)]
    /\ locked' = locked \cup {orphan}
    /\ orphan' = NULL
    /\ UNCHANGED <<drive, db, pc, period, files, todo, used, generic, snap>>

\* A payment without a payout to confirm, or any other transaction.
Generic(t) == IF t \in Payment THEN Expected(t) = {} /\ ~AlreadyPosted(t) ELSE t \in Charge

StageLater(t) ==
    /\ Visiting(t)
    /\ Generic(t)
    /\ generic' = generic \cup {t}
    /\ Done(t)
    /\ UNCHANGED <<drive, db, work, locked, pc, period, files, used, orphan, snap>>

\* Mutant of Matching: no fallback to amount and date.
MatchingReferenced(w) == {c \in files \cap Confirmation : c = Referenced[w]}

\* The confirmations of a withdrawal: the one it references, used or not, else
\* any that fits and that this run has not used.
Matching(w) ==
    IF Referenced[w] \in files THEN {Referenced[w]}
    ELSE {c \in (files \cap Confirmation) \ used : <<w, c>> \in Fits}

BookWithdrawal(w) ==
    /\ Visiting(w)
    /\ w \in Withdrawal
    /\ ~AlreadyPosted(w)
    /\ \E c \in Matching(w) :
          /\ work' = PostDirectly(work, w, c)
          /\ used' = used \cup {c}
    /\ Done(w)
    /\ UNCHANGED <<drive, db, locked, pc, period, files, generic, orphan, snap>>

\* No confirmation: the warning is stored on the period's document.
WarnWithdrawal(w) ==
    /\ Visiting(w)
    /\ w \in Withdrawal
    /\ ~AlreadyPosted(w)
    /\ Matching(w) = {}
    /\ work' = [work EXCEPT !.warned[period] = @ \cup {w}]
    /\ Done(w)
    /\ UNCHANGED <<drive, db, locked, pc, period, files, used, generic, orphan, snap>>

-----------------------------------------------------------------------------
(* The generic lines become review rows, which are matched and posted.       *)

\* stage_raw_lines, ON CONFLICT DO NOTHING on the Transaction ID.
StageRawLines ==
    LET new == {t \in generic : work.rows[t].status = "absent"} IN
    /\ pc = "rows"
    /\ todo = {}
    /\ orphan = NULL
    /\ work' = [work EXCEPT !.rows = [t \in Txn |->
                   IF t \in new THEN [NoRow EXCEPT !.status = "unposted"] ELSE work.rows[t]]]
    /\ locked' = locked \cup new
    /\ pc' = "staged"
    /\ UNCHANGED <<drive, db, period, files, todo, used, generic, orphan, snap>>

StartAutoMatch ==
    /\ pc = "staged"
    /\ pc' = "match"
    /\ todo' = {t \in Txn : work.rows[t].status # "absent" /\ work.rows[t].category = NULL}
    /\ UNCHANGED <<drive, db, work, locked, period, files, used, generic, orphan, snap>>

\* Rule (a), then what the other rules make of the row.
RuleA(t) == {p \in Payout : t \in Txn \ (Outflow \cup Withdrawal) /\ Unmatched(p) /\ <<t, p>> \in Fits}

AutoMatchRow(t) ==
    /\ pc = "match"
    /\ t \in todo
    /\ \/ \E p \in RuleA(t) :
             /\ work' = [work EXCEPT !.taken[p] = t,
                                     !.rows[t].category = "revenue_settlement",
                                     !.rows[t].account = TRUE]
             /\ locked' = locked \cup {t}
       \/ \E r \in OtherRule :
             /\ RuleA(t) = {}
             /\ r[1] = t
             /\ work' = [work EXCEPT !.rows[t].category = r[2]]
             /\ locked' = locked \cup {t}
       \/ /\ RuleA(t) = {}
          /\ \A r \in OtherRule : r[1] # t
          /\ UNCHANGED <<work, locked>>
    /\ Done(t)
    /\ UNCHANGED <<drive, db, pc, period, files, used, generic, orphan, snap>>

StartPosting ==
    /\ pc = "match"
    /\ todo = {}
    /\ pc' = "post"
    /\ todo' = {t \in Txn : work.rows[t].status = "unposted"}
    /\ snap' = work.rows
    /\ UNCHANGED <<drive, db, work, locked, period, files, used, generic, orphan>>

\* The wrong direction, or no eBay account to post from.
Refused(t) == snap[t].category = "revenue_settlement" /\ (t \in Outflow \/ ~snap[t].account)

\* post_pending_rows on one row: an unlabelled row is passed over, one it
\* refuses is flagged and stays unposted.
PostRow(t) ==
    /\ pc = "post"
    /\ t \in todo
    /\ \/ snap[t].category = NULL /\ UNCHANGED <<work, locked>>
       \/ /\ Refused(t)
          /\ locked' = locked \cup {t}
          /\ UNCHANGED work
       \/ /\ snap[t].category # NULL /\ ~Refused(t)
          /\ work' = [work EXCEPT !.rows[t].status = "posted"]
          /\ locked' = locked \cup {t}
    /\ Done(t)
    /\ UNCHANGED <<drive, db, pc, period, files, used, generic, orphan, snap>>

Commit ==
    /\ pc = "post"
    /\ todo = {}
    /\ db' = work
    /\ Idle
    /\ UNCHANGED <<drive, work>>

\* An exception, a crash, a lost connection.
Rollback ==
    /\ pc # "idle"
    /\ work' = db
    /\ Idle
    /\ UNCHANGED <<drive, db>>

-----------------------------------------------------------------------------

Human ==
    \/ \E x \in Item : Upload(x)
    \/ \E t \in Txn, c \in HumanLabel, acct \in BOOLEAN : LabelRow(t, c, acct)

Visit(t) ==
    \/ SkipPosted(t)
    \/ ConfirmPayout(t)
    \/ StageLater(t)
    \/ BookWithdrawal(t)
    \/ WarnWithdrawal(t)
    \/ AutoMatchRow(t)
    \/ PostRow(t)

Advance ==
    \/ \E t \in Txn : Visit(t)
    \/ ResolveOrphan
    \/ StageRawLines
    \/ StartAutoMatch
    \/ StartPosting
    \/ Commit

Orderly == Human \/ (\E f \in Period : Begin(f)) \/ Advance

Next == Orderly \/ Rollback

Spec == Init /\ [][Next]_vars

\* The routine job syncs each period of its window again and again; a sync that
\* has started proceeds, and none fails (as in SyncPipeline).
FairSpec ==
    /\ Init /\ [][Orderly]_vars
    /\ WF_vars(Advance)
    /\ \A f \in Period : SF_vars(Begin(f))

=============================================================================
