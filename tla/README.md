# Noctrowl: specification and verification

Noctrowl keeps the books of an eBay reselling business: it reads documents from
Google Drive (eBay transaction reports, Payoneer CSVs and withdrawal
confirmations, bank statements, invoices), turns what it can into journal entries
in Postgres, and puts the rest in a review queue that a human labels. Jobs run by
cron sync the closing month, revalue the dollar wallets and make next month's
folders; screens show the statements as Provisional or Final. This directory holds
TLA+ modules of that program, TLC configurations that check them on small
instances, and TLAPS proofs of the results that matter most.

## 1. Inventory

| Component | Keeps | Operations | Interacts with |
|---|---|---|---|
| Review queue and posting pipeline (`ingestion/sync.py`, `matching.py`) | `review_queue` rows; what consumed each payout, withdrawal and consignment sale | `run_sync_for_period`: stage, auto-match (rules a to e), post | ledger posting; both triggers; the screen writes the same rows |
| Review queue screen (`webapp/review_queue_bp.py`) | nothing of its own | `label_row` | the same rows, in its own transaction |
| Sync triggers (`webapp/documents_bp.py`, `scheduling/routine_sync.py`, `webapp/sync_cooldown.py`) | `webapp_sync_runs` | Sync Now, routine job, cooldown | the pipeline; each commits or rolls back once per run |
| Payoneer CSV (`ingestion/payoneer.py`) | posted transaction ids, withdrawals, confirmations | post payments and withdrawals directly, stage the rest | payouts of the eBay CSV, the review queue |
| eBay CSV (`ingestion/ebay_csv.py`) | posted transaction keys, expected payouts, consignment sales, the register of raw rows | post order groups, refunds and fees, record payouts | Payoneer CSV, rule (a), consignment |
| Ledger (`ledger/posting.py`, `schema.py`, `balances.py`) | journal entries, sub-ledgers | one function per kind of entry | everyone |
| Consignment (`ledger/consignment.py`, `posting.py`) | `consignment_sales` | create, confirm, post, reimburse | eBay CSV, rule (d), wallet screen |
| FX revaluation (`scheduling/fx_revaluation.py`, `ingestion/kurs_pajak.py`) | one revaluation per wallet group and period; the rates | month-end job, by cron and by hand | ledger balances |
| Routine window (`scheduling/window.py`), Drive folders (`drive_provisioning.py`) | the folders in Drive | which periods to sync; folders to create | routine job, human uploads |
| Finalization, reconciliation (`webapp/finalization.py`, `ingestion/reconciliation.py`) | reconciliation checks | Provisional or Final; statement against ledger | bank statement sync, reports |
| Inventory deposits (`webapp/inventory_deposits_bp.py`) | outstanding deposits (derived) | convert a deposit | ledger |
| Reports (`webapp/reporting.py`) | nothing | P&L, balance sheet, cash flow, equity, revenue | ledger |
| Correction scripts (`scripts/`) | nothing | reverse and rebook an entry, move an opening balance, backfill a reference | ledger |
| Parsers, settings, migrations, rendering | - | - | no state of the running system, or one-off work |

What is hard here:

- *Concurrency.* Syncs exclude each other with a transaction-scoped Postgres
  advisory lock; the screens, the revaluation and the scripts do not take it. A
  sync is one transaction at READ COMMITTED whose loops read a snapshot first and
  then update row by row.
- *Failure.* A sync commits once, at the end; each row is posted inside a
  SAVEPOINT. Any failure between leaves what was committed before.
- *Repetition.* Every sync reads every document of the period again, so each
  posting path needs a key or a column by which it knows what it already did.
- *Ambiguity.* Matching is by amount and date within tolerances: several rows
  may look like the same payout, landing, sweep or sale, over several syncs.
- *Order.* Documents, rates, labels and opening balances arrive in any order;
  what explains a line may come later, and a check is made before the postings it
  is about.
- *Agreement.* Some thirty posting functions must each feed every statement and
  sub-ledger the same way, and corrections must undo them in all of these.

What makes each component correct: the pipeline books each line once and for
good, shows what it cannot book, and honours the labels of a human; the two ends
of a transfer share one entry; ingestion is idempotent; every entry balances,
statements tie out and sub-ledgers agree with their control accounts; a period is
revalued once, at what the wallet really holds; no day of a close is missed; Final
is shown only when nothing is pending.

## 2. Modules

| Module | Models |
|---|---|
| `BookOnce` | abstract specification: a line is booked at most once, for good, in whole commits, and the entry it is linked to exists; implemented by `SyncPipeline` and by the entries of both ingestions |
| `SyncPipeline` | the pipeline, its callers, the screen |
| `PayoneerIngest` | Payoneer CSV ingestion over many syncs, with the review rows it leaves |
| `EbayIngest` | eBay report ingestion over many syncs of growing exports |
| `Posting` | the chart of accounts and the entry every posting function builds; no state |
| `Dispatch` | which entry a labelled row of any feed becomes; no state. Extends `Posting` |
| `Reports` | balances and statements as sums over the journal. Extends `Posting` |
| `Ledger` | the journal, with every way an entry gets into it and every correction. Composes `Dispatch` and `Reports` |
| `Window` | the date logic of the scheduled jobs; no state |
| `MonthEnd` | the close of a month: jobs, files, checks, revaluation, Final. Composes `Window` |
| `*Properties` | what is claimed of the module named |
| `*MC` | the instances TLC explores |
| `*Proofs` | the proofs about it (`PostingProofs` is about `Posting` and `Dispatch`) |
| `SumLemmas` | lemmas about sums over finite sets |

Operators marked "Mutant of" in a module are plausible bugs of the definition that
follows; nothing uses them. They document which error each property catches:
putting the mutant in place of the definition makes TLC report the property
violated.

### SyncPipeline

`rows` and `claims` are the committed `review_queue` rows and the consumption
columns of payouts (`matched_at`), withdrawals
(`bridging_landing_reconciled_review_queue_id`) and sales
(`reimbursed_journal_entry_id`). A transaction writes `draft` and `claimDraft`
and locks what it writes (`writer`); `View(s, l)` is what transaction `s` sees at
READ COMMITTED. `Commit` publishes, `Rollback` (an exception, a crash, a lost
connection) restores. `holder` is the advisory lock.

| Action | Code |
|---|---|
| `Upload` | a document with the line appears in Drive |
| `LabelRow` | `label_row`, with its `posted_at IS NULL` guard; its UPDATE waits for the row lock |
| `Begin` | `pg_try_advisory_xact_lock` succeeds |
| `StageRawLines` | `stage_raw_lines`, ON CONFLICT DO NOTHING |
| `StartAutoMatch`, `AutoMatchRow` | the SELECT of `run_auto_match`, then one row of its loop |
| `StartPosting` | the SELECT of `post_pending_rows`: `snap` is what it read |
| `FlagRow` | sign mismatch, missing reference, or an exception undone by the SAVEPOINT |
| `SkipRow` | no category, or a transfer still waiting for its pair |
| `PostRow` | every category that makes one entry from the row alone |
| `LinkLanding` | `_post_internal_transfer_landing` |
| `LinkPair` | `_post_internal_transfer` for a row already paired |
| `PickCounterpart`, `ClaimPair` | its SELECT of a counterpart, and its two UPDATEs with the posting; a label may commit in between |
| `AttemptFails` | `_post_one_row` raises after some of its statements, before or after it selected a counterpart: the SAVEPOINT takes back what it wrote (`Undone`), the row is flagged and the loop goes on |
| `Commit`, `Rollback` | `sync_now` and `_sync_one` |

An attempt is one step, as nobody sees what it wrote before it ends; what a failing
one would leave without the SAVEPOINT (an entry without its link, a pair claimed on
both sides and never posted) is the mutant `HalfDone`. A row keeps the columns the control depends on. `posts` is a history: the
categories of the entries made for the row. `entry` is
`posted_journal_entry_id`: an entry is named by the row, or the withdrawal, it
was made for. Amounts, dates and descriptions enter only through the relations
the rules compute from them: `Inflow` (sign), `Near` (two lines within the
tolerances), `Fits` (a line and a payout, invoice, withdrawal or sale within
them), `Keyword`. The code takes the first candidate of an unordered query, so
the model takes any. Categories that post alike stand for each other here: every
outflow category that posts one entry from the paying account is
`operating_expense`; `Dispatch` tells them apart.

### PayoneerIngest

`SyncPipeline` shows that syncs exclude each other; this module takes one sync at
a time from it and follows what many of them do with one body of documents. `db`
is the committed store, `work` the store as the running sync sees it, `locked`
the review rows that sync has written. A store holds the known payouts and what
consumed each (`taken`, for `matched_at`), the entries posted directly for each
transaction and the sources they were booked against (`direct`, a history),
`payoneer_csv_posted_transactions` (`marked`), the review row of each
transaction, and what each period's document warns about.

| Action | Code |
|---|---|
| `Upload` | a document appears in Drive |
| `LabelRow` | `label_row`, reduced to category and `ebay_account_id` |
| `Begin` | `sync_ebay_sales_csv` records payouts; `sync_payoneer` lists the folder and starts `process_payoneer_rows` |
| `SkipPosted` | `_already_posted_payoneer_row` |
| `ConfirmPayout` | `_process_ebay_payment_row` with a payout to confirm, up to the SELECT of the orphan |
| `ResolveOrphan` | the UPDATE of `_resolve_orphaned_review_queue_duplicate` |
| `StageLater`, `StageRawLines` | what becomes a review row |
| `BookWithdrawal`, `WarnWithdrawal` | the withdrawal branch, with and without a confirmation |
| `StartAutoMatch`, `AutoMatchRow` | `run_auto_match`: rule (a), the others as one relation `OtherRule` |
| `StartPosting`, `PostRow` | `post_pending_rows`, for `revenue_settlement` and for any category that posts from the row alone |
| `Commit`, `Rollback` | `sync_now`, `_sync_one` |

A period value stands for an eBay account and a month: that is what selects the
folders. One wallet group is modelled, since every query is scoped to it. A
transaction is identified by its Transaction ID, unique and never blank
(`ingestion/schema.py:777`); rows that are not Completed or that carry no amount
do nothing and are left out. `Folder` says in which periods' folders an item may
sit: one export in the folders of several months is the case of the incident
described at `ingestion/payoneer.py:359`. `Fits` is the date and amount tolerance
(3 days, 0.01 USD) that the payment branch, the withdrawal branch and rule (a)
share. Rows are visited in any order, and of several candidates any is taken.

The code admits that a row somebody had classified may post beside a direct entry
(`ingestion/payoneer.py:408`): `UntouchedNeverTwice` says it is the only way.

### EbayIngest

One document per month, of which longer and longer exports are uploaded
(`folder`); every sync reads the last one from its first row. `db` and `work` are
the store as in `PayoneerIngest`; the store holds
`ebay_csv_posted_transactions` (`marked`, with `booked` as a history of entries
per key), the review rows by reference, `consignment_sales`,
`ebay_expected_payouts`, the register `ebay_csv_transactions` by position
(`raw`) and the rows `parse_warning` names (`warned`).

| Action | Code |
|---|---|
| `Begin` | `sync_ebay_sales_csv` downloads the file and starts `process_transaction_report` |
| `RefuseOrder`, `QueueMismatch`, `RefuseConsignment` | `_merge_order_group` and the currency, sum and price checks of `_process_order_group` |
| `BookOrder`, `StageConsignment` | its two ends: `post_ebay_sale`, `create_consignment_sale` |
| `KnownRow` | `_already_posted_ebay_csv_row` |
| `RefuseRow`, `BookRow` | `_process_refund_row`, `_process_other_fee_row` |
| `RecordPayout` | `_process_payout_row` |
| `SkipRow`, `QueueUnknown`, `WarnUnknown` | holds, zero amounts and the types no branch knows |
| `RateMissing`, `Crash` | `lookup_kurs_pajak_rate` raises, or anything else does: all is rolled back |
| `PostingRefused` | `post_ebay_sale` or `post_refund` raises, as `debit` refuses an amount that is not positive: all is rolled back, and again by every sync that reads the same file |
| `Commit` | the transaction ends |

Order rows are grouped by order number and visited before the others, as in the
code. Amounts are kept where they decide a branch: the gross of totals row and
lines, the item subtotals and the shipping that must add up to it, the fees a sale is
net of, a donation, a zero net amount, an item price (shipping excluded) without a tier.

### Posting, Dispatch, Reports, Ledger

An account is a pair of its code and its scope (an eBay account, a wallet group
or the business). A line has an account, a debit, a credit, an order and a
reference; amounts are whole rupiah and `Idr(cents, rate)` is `round_idr` of a
dollar amount at a rate, so every rounding the code makes is made.
`Insertable` is what a new entry must pass: `debit`/`credit` and the CHECK of
`journal_lines` (`SingleSided`), `_insert_journal_entry` and the trigger
`check_journal_entry_balance` (`Balanced`), the trigger
`check_transfer_accounts` (`TransferAllowed`).

`Posting` has one operator per posting function, under the function's name
(`EbaySale`, `ConsignmentSale`, `RealizedFxWithdrawal`,
`CogsWithShippingSplit`, `PayrollWithRepayment`, `Reversal`...). `Dispatch` is
`_post_one_row`: `Posted(row, c)` is the entry of a row under category `c`, or
`NULL` where the code raises or waits; `SignMismatch` and `MissingReference` are
the checks before it. `Reports` has the balances of `ledger/balances.py` and the
statements of `webapp/reporting.py`, down to their `difference_idr`.

| Action of `Ledger` | Code |
|---|---|
| `SellOrder`, `RefundOrder`, `ChargeFee` | what `EbayIngest` posts, with amounts |
| `ConfirmPayout`, `Withdraw` | what `PayoneerIngest` posts, with amounts |
| `Revalue` | `_revalue_wallet_group`, behind the unique index |
| `BookRow` | `post_pending_rows` for one row, with the sale a consignor payout marks |
| `CreateSale`, `ConfirmSale`, `PostSale` | the life of a consignment sale |
| `OpenBalance`, `CorrectOpening` | `post_opening_balance`; `_ensure_jan1_opening_balance` |
| `CorrectEntry` | the scripts for entries 917, 922, 927, 931 and 932 |
| `StartConversion`, `FinishConversion` | the outstanding deposit is read; the conversion is inserted |

`Init` allows an entry that predates the check of the signs, which is what two of
the scripts exist for.

### Window, MonthEnd

A calendar is the sequence of its months' last days, a day is a number in it, and
a period is the index of its month. `Window` has each function of
`scheduling/window.py` over it.

`MonthEnd` follows the close of one month day by day. A sync is one transaction
under a lock, so it is one step here; what this module adds is the order of whole
syncs, labels, files, jobs and the single queries of a revaluation.

| Action | Code |
|---|---|
| `RoutineSync`, `RoutineSyncFails` | `_sync_one` for the next account and period of `run_routine_sync`'s two loops |
| `SyncNow` | `sync_now` |
| `Provision` | `run_drive_folder_provisioning` when nothing goes wrong |
| `ProvisionFails` | the same, without credentials or with an error of Drive after any number of folders; cron does not start it again that month |
| `ProvisionByHand` | the script run again by hand; after the month's end it makes the folders of the month after |
| `NextDay` | the clock, when the day's jobs have run |
| `StartRevaluation`, `ReadBookValue`, `ReadUsdBalance`, `PostRevaluation` | `run_fx_revaluation` by cron and by hand, query by query, the last behind savepoint and unique index |
| `PutFile` | a file appears, is replaced or taken away; the user makes the folder if there is none |
| `Label` | `label_row`, with a label that can be posted or one `post_pending_rows` refuses |
| `PostOpeningBalance`, `SeedRate`, `BackfillReference` | the scripts and `seed_kurs_pajak_rate` |

`ReadDocuments` writes what Drive holds now into `source_documents` and checks a
statement's balances before this sync posts anything, then `PostRows` matches and
posts. `Final(s)` is `report_status` of a scope: an account, the wallet group or
the business. A folder is a pair of a period and a place (an account, the wallet
group, the business), which stands for the place's subfolders; they are made in the
order of `Places`. `missed` is a history of the months whose job failed and was not
made good. Every wallet row moves one dollar and every statement line one
unit, so balances are counts.

## 3. Runs

| Run | Instance | Shows |
|---|---|---|
| `sync_sweep` | two callers; attempts to post fail half way on one line of each side; two Bridging outflows, both near one Master inflow; labels internal_transfer and other | `PostedOnce`, `SweepBookedOnce`, `PostedRowFrozen`, refinement of `BookOnce` |
| `sync_claims` | one caller; two credits fit one landed withdrawal, a credit fits a payout, a debit fits a consignor payout, a credit a keyword takes for an expense; labels internal_transfer and inventory_deposit | `LandingEchoBooksNothing`, `NothingSilentlyStuck`, `ClaimsStand` |
| `sync_progress` | one caller, no rollbacks, fair, attempts to post the Master line fail any finite number of times; the two ends of one sweep and a bill | `LabeledRowIsBooked`, `SweepIsNotStranded` |
| `sync_label`, `sync_sale` | small | violations, section 5 |
| `payoneer_ingest` | one export in two periods' folders; two payments that fit both payouts (one names its payout, a keyword rule knows the other), a payout arriving per period; a withdrawal whose confirmation arrives in the second; a label with and without an account | `DirectOnce`, `PayoutConfirmedOnce`, `NoOrphanLeft`, `UntouchedNeverTwice`, `NothingDropped` |
| `payoneer_progress` | a payment that fits a payout of each period; a withdrawal whose confirmation is in one period's folder only; a fee; fair, no rollbacks, no human | `WithdrawalIsBooked`, `PayoutIsConfirmed` |
| `payoneer_reuse` | two withdrawals and two confirmations of one amount | violation, section 5 |
| `ledger` | every posting, label and correction in two months, two eBay accounts, one wallet group; two entries in any order, the second of which may be corrected, and a row of each feed and sign | `CashFlowTiesOut`, `StatementsAgree`, `SubsidiaryTiesOut`, `CashMovesByTheRow`, `OneOpeningInForce`, `AccruedAsConfirmed`, `ReversalCancels` |
| `ebay_ingest` | two months, each exported twice; an order whose fee eats up its price, taken out of the file before the second export; an order corrected between its two exports, consigned, mixed and too dear orders, a sale repeated in the next month, refunds, fees, unknown types; rates published late, one crash; fair | `BookedOnce`, `OneOutcome`, `EveryRowExplained`, `SaleIsAllConsigned`, `ResyncBooksNothing`, `ExportIsIngested` |
| `month_end` | February's close from 24 February (folders are made on the 25th) to 9 March; an eBay export, a Payoneer export that may be taken away, a statement of two versions; one failure, of a sync or of the provisioning job; opening balance, rates and reference may come late; fair | `FinalIsHonest`, `RevaluedOnce`, `RevaluedAtBalance`, `FolderIsReady`, `CloseIsSwept`, `ReportSettles` |
| `month_end_rate` | the same | violation, section 5 |

Every passing run but `sync_claims`, `sync_progress` and `payoneer_progress` also
checks its module's `TypeOK`.

*Bounds.* In the sync and Payoneer runs nothing is counted, so every instance is
finite without cut-offs: the bounds are the sets. Two callers are what mutual
exclusion needs. Three lines are the smallest set in which a third row can steal a
counterpart, two are enough for two rows to compete for one payout, withdrawal or
sale. Labels are restricted per run to the categories whose control flow the run is
about. `Fragile` names the lines on which attempts may fail: enough to have a failure on
either side of a sweep, and none in the runs about claims, where every line would
multiply the states; the proofs hold for any `Fragile`. Two periods let a document be read from two folders, and two transactions
against two sources of one amount are what it takes to book the wrong pair; the
number of syncs is not bounded.

`Ledger` bounds the journal: `MaxEntries` is 2, and one correction (a reversal and
its replacement) may follow. The statements are sums, so an entry that breaks one
breaks it alone; two are needed for what depends on another entry (an opening balance
before a posting, a revaluation of an earlier balance, a sale and its
reimbursement, a deposit and its conversion), four for a correction of the second.
Amounts are small and rates are chosen so that both directions of rounding occur
(3 cents at 150 are 4.5 rupiah, 4 at 130 are 5.2); the
rounding itself is proved for all amounts. `EbayIngest` bounds crashes
(`MaxCrashes`) and counts review rows that have no reference up to `MaxLoose`; `TierPrice` has the one item price that is to have a rate.
`MonthEnd` bounds the days (`Start` to `End`), the days on which humans act
(`WorkDay`, `LedgerDay`), failed syncs and failed jobs together (`MaxFailures`) and which file may be taken
away (`Removable`); the proofs have no such bounds.

*Deadlock* is not checked in `ledger` (its journal is full in the end), `month_end`
and `month_end_rate` (the days end).

*Fairness.* The routine job calls the pipeline every day and Sync Now calls it at
will: some `Begin` that stays possible happens. A sync that holds the lock
proceeds: weak fairness of its steps, which nothing but its own steps disables.
In `SyncPipeline` and `PayoneerIngest` runs that fail for ever would book nothing,
so the fair specification leaves rollbacks out: a rollback restores a state reached
without it, and the claim is about what follows the last one. A failed attempt does
leave something, the flag, and without the SAVEPOINT it would leave more; so
`SyncPipeline`'s fair specification has failed attempts, and assumes of them only that
they stop one day (`<>[][Orderly]_vars`): a row whose posting fails for ever stays
flagged for a human. Nothing is ever
assumed of the human.

`PayoneerIngest` and `EbayIngest` assume strong fairness of `Begin` for each period:
the routine job loops over every account and period of its window
(`scheduling/routine_sync.py:86`), so a period in the window is synced again and
again although it waits while another one runs. In `EbayIngest` syncs do fail: on a
missing rate as often as it is missing, on a crash at most `MaxCrashes` times, and
`ExportIsIngested` says that the sync recovers. It is about exports after which no
export of the document has a row whose posting is refused (`Ingestible`): such a row
fails every sync of its file, and nothing but another file ends that. A document that only arrives once
its period has left the window is outside the claim. `MonthEnd` needs weak fairness
of the jobs and the clock only (`Clockwork`): cron starts them every day and they
end; its claim `ReportSettles` includes one failed sync. It takes a labelled row to be one
that can be posted: a label that is refused (`refused`) leaves the month Provisional
until a human mends it, as the badge should.

## 4. Proofs

Eight modules hold proofs, for all values of the constants that satisfy the named
assumptions of the module proved about.

**`SyncPipelineProofs`**, from `LineAssumption` (shape of the relations; `Near` is
symmetric, as an absolute difference is; no keyword rule names a landing) and `NullAssumption`: `TypeCorrect`,
`PostedOnceAlways`, `SweepBookedOnceAlways`.

The last two come from one inductive invariant, `IInv`. The properties are about
committed rows and are not inductive: a commit publishes drafts. `IInv` adds that
only the holder of the lock has a transaction open and holds row locks
(`OneWriter`), that the drafts satisfy the same facts as the committed rows
(`QueueOK` of both), that a row still to be visited by the posting loop has no
entry (`StillPending`), and that what `_post_internal_transfer` read of the two
sides still holds when it claims them (`PickStands`): a label may change the
category in between but neither pairing nor entry. The proof has one step per
action. `RunnerStep` reduces a step of the running transaction to what it does to
its drafts; `KeptQueue`, `SettledQueue` and `PairedQueue` say which rewrites of a
version keep it sound; `AttemptFacts` says that a failed attempt flags a row still to
be visited and changes nothing else.

`PostedRowFrozenAlways` and `ImplementsBookOnceAlways`, the refinement, come next. Both are about a step, and the step that
matters is a commit, which replaces the committed rows by a transaction's drafts; so
`JInv` adds to `IInv` what relates the two versions: the draft stands by every row
already booked (`Stands`). It does because the loops rewrite rows that are not
booked only. For posting that is `StillPending`; for matching (`MatchPending`) it is
because the loop visits rows without a category and a booked row has one (`Named`),
which in turn needs that a row with a category when `post_pending_rows` took its
snapshot still has one when it is posted (`SnapNamed`, `PickNamed`). `EntryMade`, that
a row shares the entry of a row that made one, gives the refinement. `Extends` is
what one write does, `ExtendsOK` that it suffices, `VisitBooks` and `RunnerBooks` reduce
the actions to it.

`ClaimsStandAlways` and `LandingEchoBooksNothingAlways` come from a third layer, `KInv`.
`ClaimsExtend` says that drafts of the claims extend
the committed ones: the rules, and the posting of a consignor payout
(`matching.py:1083`), read a claim and mark it while the lock keeps other syncs out.
That a landing books nothing holds for every label: the sync that matches a landing
keeps its row locked (`LandingLocked`) until it has linked it (`PostEcho`,
`LandingLinked`), so that no label finds a landing that could still be posted under
another category.

`NothingSilentlyStuckAlways` is the fourth, `SInv`. A row that a rule classified and
nobody booked or labelled (`Provisional`) exists only in the draft of the sync that
matched it: that sync has the row locked (`ProvisionalLocked`) and, once it posts, has
it still to visit with the category the rule gave it (`ProvisionalAhead`). A visit with
such a category books the row or flags it (`VisitEnds`), so nothing provisional is
left when the sync commits. Two facts carry this: a landing is only ever visited with its
withdrawal linked (from `KInv`), and no keyword rule makes a landing, which
`LineAssumption` takes from the CHECK constraint of the table of keyword rules
(`schema.py:817`).

**`PayoneerIngestProofs`**, from `ItemAssumption` (the kinds of transactions and
sources are disjoint, the relations are over them) alone, that is for any folders,
tolerances and rules: `TypeCorrect`, `DirectOnceAlways`, `PayoutConfirmedOnceAlways`,
`NoOrphanLeftAlways`, `NothingDroppedAlways`, `UntouchedNeverTwiceAlways`.

Its invariant says of both stores that the marks count the direct entries
(`MarksAgree`), that what a payment was booked against is consumed by it
(`SourcesTaken`), that a resolved row is that of a marked transaction, that a
withdrawal is never staged, and that no marked transaction has an untouched row,
except the orphan whose UPDATE is due (`Clean`). `RunStands` ties in the run:
the lines it will stage are not marked (a payment both confirmed and staged in
one run would leave an orphan nobody resolves), and the orphan it holds is.
`PostedStore` and `KeptStore` say what booking and relabelling do to a store; a
label never disturbs the invariant, which is why it may commit at any moment.

`NothingDroppedAlways` adds `DInv`: whatever a store's last sync of a period read is
`Accounted` for in that store, or the running sync still has to come to it or to stage
it (`Ahead`). The warnings are rewritten by each sync of a period, so this holds per
period; marks and rows only grow (`Keeps`). `UntouchedNeverTwiceAlways` adds `UInv`: of
a transaction booked directly, the row had a category in the committed store unless
it is resolved (`TouchedBefore`). That needs that a run only resolves rows
until it stages, that a posted row has a category (`PostedNamed`), and that the
categories of the snapshot still stand while it posts (`RowsStand`).

`ImplementsBookOnceAlways` is the refinement of `BookOnce` by the direct entries: a
line is a transaction, seen once a document with it was uploaded, booked when marked.
`DirectIsMarked` makes marks and entries one thing, and `BInv` says that a run's store
extends the committed one and marks what is in Drive only, so that a commit books
lines that were seen, each for good.

**`EbayIngestProofs`**, from `ExportsAssumption` (rows are well formed, files are
finite), for any exports: `TypeCorrect` and `BookedOnceAlways`. The invariant makes both
stores `Sound` (a key is marked exactly when it has an entry, and has one; the export
ingested was uploaded) and ties the running sync to an export that is in Drive. A
group of rows either posts under a key that is not marked (`PostSound`) or leaves
entries and marks alone (`QuietStep`); an upload in mid-sync disturbs neither.

`EveryRowExplainedAlways`, `SaleIsAllConsignedAlways` and `ResyncBooksNothingAlways`
relate the store to the files read, which takes a second invariant, `JInv`. It says of
every report ever read that each of its groups is `Settled` in the committed store:
whichever branch of `process_transaction_report` would take the group now, it changes
nothing. What is settled stays so because no sync takes anything out of a table
(`Grown`). `Told` is the same with what a human can find; the warnings are rewritten by
every sync, so it holds of the last export of a document only. `RunStands` says
both of the rows a running sync has done, and that its store is still the committed one
if it reads a report for the second time. Each branch is then shown to leave its group
settled and told, and to change nothing if it was settled before (`Handled`).
Which branch settles a group is not fixed, and the proof needs that: with a later
month's file in between, an order once sent to review may find its key marked.

`OneOutcomeAlways` compares two reports that may both hold an order. `OInv` traces every
entry, review row and sale of an order to a report in which its rows make
just that of it (`Traced`, `OutcomeIn`). `OutcomeOfRows` shows that `OutcomeIn` depends on
the rows and their order alone: if a map takes one group of rows to another and keeps
their order (`Alike`), it takes lines to lines, consigned lines to consigned lines and
the first row to the first row, and sums over either group are equal (`TotalRenamed`
in `SumLemmas`). So two outcomes are two different versions of the order.

`ImplementsBookOnceAlways` is the refinement of `BookOnce` by the entries: a line is a
key some export has, seen once a report with it was read. `Traced` also says that what
is marked is the key of a row of a report, which at a commit is one of those read
(`MarksGrow`, and `Sound` for marks and entries).

**`MonthEndProofs`**, from `CalendarAssumption` (months of 28 to 31 days, in order)
and `MonthEndAssumption`, for every calendar, set of accounts and documents, and
history of files, labels and failures:

- `CloseIsSweptAlways`: the invariant `Tried` says that each pair of today's window is
  tried already or still to do; the calendar lemmas (`PeriodUnique`,
  `PeriodsAreMonths`, `WindowSyncsMonth`) show that the window has every
  month whose end is within 15 days ahead or 7 behind, of every account
  (`RunsCover` inverts the flattening of the two loops).
- `FolderIsReadyAlways`: a month begins with its folders unless its job failed and was
  not made good (`missed`). `Provisioned` is the stronger statement: this month is
  `Ready`, and from the 25th on the next one is too or the job is due. Months are longer
  than 25 days, so the clock cannot pass a job that has not run.
- `TypeCorrect`, `RevaluedOnceAlways`: `OneRevaluation` says that table and ledger grow
  together.
- `RevaluedAtBalanceAlways`: `Revalued` says of the balance a running revaluation has
  read, and of every revaluation booked, that it is that of the rows posted when it
  was read, at the rate looked up then. Balances are sums over sets of rows, so this
  rests on `SumLemmas` (that the revaluations already booked add up is `TotalEach`); rows are
  assumed finitely many and their amounts integers.
- `FinalIsHonestAlways`: `Checked` says that the rows of what is ingested are in the
  queue, that an ingested statement has a check, and that agreement was only found
  with an opening balance in the ledger. The check is older than the postings, so
  that the badge is right is not a matter of the check alone: with no row left to review
  and the staged rows booked, the lines are in the ledger.

**`PostingProofs`**, from `ScopeAssumption`, for all amounts and rates: the entries of
a sale, a withdrawal, a revaluation, a consignment sale and a reversal are accepted
(`SaleAccepted`, `WithdrawalAccepted`, `RevaluationAccepted`,
`ConsignmentAccepted`, `ReversalAccepted`) under the conditions the functions
check; and `DispatchInsertable`: the entry a row of any feed becomes under any
category, if the dispatcher makes one, passes every check of the database. Each
amount is rounded on its own, so that these balance is arithmetic, not shape: the
exchange difference and the commission must take up what the roundings leave. An
entry is put together from parts whose lines are optional; `ConcatTotals`
says that totals of concatenated parts add up, and `TogetherAccepted` that parts
that balance together, each line one-sided, are an accepted entry.

**`SumLemmas`**, from nothing, and **`ReportsProofs`**, from `ScopeAssumption`,
`PeriodAssumption` and `TablesAssumption` (accounts are finitely many): what the
statements show of *any* journal of any length whose entries balance and whose lines
they know (`JournalOK`): `CashTiesOut`, `BalanceSheetBalances`, `EarningsAreIncome`,
`RevenueSplits`, `ReferencesTieOut`. A statement is a sum of sums, over codes, accounts,
months or references, and each sum is defined by a recursive function that takes the
elements of a set in an order nobody knows. `SumLemmas` shows that the order does not
matter (`TotalRemove`) and that a sum by groups is one sum (`TotalFamily`): lemmas of
arithmetic, which say nothing of the program by themselves. These are
inductions over finite sets; they are done without an induction theorem, by taking the
smallest subset that would be a counterexample (`Smallest`). What remains is which rows
a statement takes: that its lists of codes partition the rows they should.
`JournalOK` names what that needs of a posting: nothing on RETAINED_EARNINGS,
UNREALIZED_FX only in a revaluation, which touches nothing else but the wallet, a
received deposit on no cash account, and a reference on every line of a control
account.

**`LedgerProofs`**, from these assumptions and `LedgerAssumption`, proves all eight
properties of `ledger` for every chart, every set of rows, orders, sales, amounts and
rates and a journal of any length: `LedgerTyped`, `CashFlowExplained`,
`BalanceSheetBalanced`, `ControlAccountsTieOut`, `CashByTheRow`, `OneOpening`,
`AccruedOnce`, `ReversedOnce`. They come from one inductive invariant, `LInv`
(`BooksKept`), whose parts are

- `LSound`: every entry is one the statements know (`EntryOK`, hence `JournalOK`). For
  this each posting function is shown to name only such accounts and references
  (`Sound`), and `PostedIs` goes through the branches of the dispatcher;
- `LReversed`: a reversed entry has one entry that reverses it, its mirror, not
  reversed itself. A correction finds its entry in force, so that no entry is
  reversed twice and no reversal is;
- `LCash`: an entry in force of a bank line moves the line's cash, or none if it is a
  transfer, or the opposite if it is one of the old entries `Init` allows. `RowPosting`
  is the part that is about the dispatcher: for every category and feed, splits
  included, the cash lines of the entry add up to the line's amount, because
  `SignMismatch` refused the others;
- `LEntries`: what a booked line has in the journal is one entry in force, or a
  corrected one, its reversal and the entry in its stead. `CashMovesByTheRow` is not
  inductive without it: it must be known that a correction is not itself corrected,
  is no purchase;
- `LOpen`: the row of an account's opening balance names the one entry in force that
  opens it; `LSales`: a posted sale was confirmed and its payout is on the third line of
  its own entry, which nothing reverses.

`GrownKeeps` and `SwappedKeeps` are the two ways the journal changes (entries are
appended; an entry is reversed and another put in its stead), and each part of the
invariant has a lemma for each. In a step the proof then only says what is appended.

Model-checked only:

- liveness (`LabeledRowIsBooked`, `SweepIsNotStranded`, `WithdrawalIsBooked`,
  `PayoutIsConfirmed`, `ExportIsIngested`, `ReportSettles`): out of TLAPS's reach;
- the four disagreements of section 5, which are counterexamples.

Every invariant and every safety property of a step that a passing run checks is
the statement of a theorem. The refinements of `BookOnce` by the two ingestions are
theorems that no run repeats: `DirectOnce` and `BookedOnce` check what they say of a
state.

## 5. What the code does not keep

Shown by a run:

- `LabelStands`: a label committed while `run_auto_match` runs is overwritten.
- `SaleReimbursedOnce`: rule (d) does not claim the sale it matches, so two lines
  of one sync can both be booked as its reimbursement.
- `ConfirmationUsedOnce`: which confirmations are used is remembered for one run
  only, so a later sync books a second withdrawal of the same amount and date
  range with a confirmation already used. The "Reports & Statements" export has
  no Reference ID, so the fallback is the normal path there.
- `RevaluedAtClosingRate`: `lookup_kurs_pajak_rate` takes the latest rate seeded so
  far, so a revaluation before the closing week's rate is entered uses an older
  week's and is not redone; `fx_revaluation.py:16` says it never falls back.

Met while modelling, and allowed by the models:

- A label committed while `post_pending_rows` runs is shown, but the entry is of
  the category the loop read before (`matching.py:814`), and is then frozen. For the
  same reason a counterpart can link to an entry that is no transfer
  (`matching.py:1640`).
- The UPDATE of `_resolve_orphaned_review_queue_duplicate` has the race of
  `LabelStands` too. It costs the label only: `UntouchedNeverTwice` and `NoOrphanLeft`
  hold with it in the model.
- Final with a stale check: a labelled row of a statement that was since replaced by
  its earlier version is booked by the very sync whose check found agreement, so
  for one sync Final stands beside a ledger that no longer agrees. `FinalIsHonest`
  claims what does hold: every line of the statement is booked.
- Rows staged from a replaced statement stay in needs_review for good, and hold up
  Final until a human books them; after the 7-day tail only Sync Now refreshes a check.
- The queries of `compute_payoneer_wallet_balance` see different states when a
  posting commits in between (`torn` in `MonthEnd`; `RevaluedAtBalance` excludes it).
- Two conversions of one inventory deposit may both find it outstanding
  (`posting.py:1819`), and the balance read ignores dates.
- `label_row` never clears `ebay_account_id` (`review_queue_bp.py:435`).
- owners_draw and owners_contribution labels on rows of Bridging or Payoneer are
  booked against BCA_MAIN, which no line of those accounts moved
  (`matching.py:1447`). `CashMovesByTheRow` holds, as it is about cash in total.

- "The user should always find a folder ready" (`drive_provisioning.py:6`) rests on one
  run a month, on the 25th, which stops at the first error of Drive or without
  credentials and is not retried (`scheduled_drive_provisioning.py:20` argues that one
  run is enough). If it fails and nobody runs the script again before the month ends,
  the month begins without folders, and the script then makes the next month's.
  `FolderIsReady` claims what is left: no other way leads there.
- One order whose fees are no less than its gross, or one refund of nothing, makes
  `post_ebay_sale` or `post_refund` raise (`posting.py:137`). Unlike
  `post_pending_rows`, `process_transaction_report` has no SAVEPOINT per row, so this
  aborts the account's whole sync, every time, until the file is mended.
- Rule (a) marks a payout as arrived when it classifies the row (`matching.py:488`). If
  the row is relabelled the payout stays consumed; `ClaimsStand` states it, no property
  says it should be otherwise.

Met while reading, not in the models:

- The register `ebay_csv_transactions` is keyed by position: a longer export shifts
  its rows, and a row whose position is taken is not staged (`ebay_csv.py:262`),
  where `schema.py:716` says "never silently dropped". `EbayIngest` has the table;
  nothing posts from it.
- The drill-down of a cash-flow line (`reporting.py:584`) lacks the filter of received
  deposits that the statement has.
- Review rows without a Transaction ID are staged again by every sync
  (`ebay_csv.py:175`); `ResyncBooksNothing` makes the exception explicit.

## 6. Plan

Done: all modules of section 2. What would come next, most important first:

1. An abstract specification of what becomes of a row the two ingestions share (booked,
   shown or warned about); both implement `BookOnce`, which speaks of what is booked.
2. Theorems: with the first, the two refinements; for `Window`, that a day's pairs
   are those of the months it names, each once.
3. `SyncPipeline` over `Dispatch`: the pipeline with the categories told apart.
4. Invoices as they arrive (`sync_invoices`), now constants of rule (b).

## 7. Not modelled, and why

- Document parsers (`bank_statement.py`, `mandiri_statement.py`, `invoices.py`): text
  extraction without state.
- Migrations and seeds: they run before the program, once.
- Settings, entities, scoping: single-row edits nothing else races with. The payout
  tiers are reduced to the set of prices with a fixed rate (`TierPrice`).
- The cooldown of Sync Now: wall-clock time; the models allow a Sync Now at any moment,
  as if there were none. That two clicks may both pass it is therefore not checked; that
  two runs do not meet is the lock's doing, and is.
- Of the scripts, those that relabel rows or create accounts once.
- Screens that only list rows.
- `sync_invoices`: an invoice is a constant of rule (b), filed once per Drive file.
- Years in `Window`: a year's end is a month's end to every function there.
