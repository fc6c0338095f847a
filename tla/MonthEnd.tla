------------------------------ MODULE MonthEnd ------------------------------
(***************************************************************************)
(* The close of one month: the cron jobs of scheduling/ (routine sync, FX    *)
(* revaluation, folder provisioning) day by day over the calendar of Window, *)
(* the documents a user puts into Drive late, again or away, the balance     *)
(* check of a bank statement (ingestion/reconciliation.py) and the           *)
(* Provisional/Final status of the month's reports (webapp/finalization.py). *)
(*                                                                          *)
(* A sync is one transaction under the pipeline's lock (SyncPipeline), so it *)
(* is a single step here; what the month-end jobs add is the order of whole  *)
(* syncs, labels, files and revaluation queries.  Only the documents and     *)
(* rows of the month Closing are kept, of one wallet group.  Every wallet    *)
(* row moves one dollar, booked at RowRate; every statement line one unit.   *)
(***************************************************************************)
EXTENDS Window, FiniteSetsExt

CONSTANTS
    Closing,        \* the month whose close is followed
    Start, End,     \* bound: the days followed
    WorkDay,        \* bound: the days humans upload, label and sync
    LedgerDay,      \* bound: the days they mend the ledger and seed rates
    Accounts,       \* the active eBay accounts, in list_ebay_accounts' order
    GroupDoc,       \* documents of the wallet group
    MasterDoc,      \* documents of the Master Account
    Balanced,       \* statements that print an opening and a closing balance
    WalletDoc,      \* documents whose rows move the Payoneer Wallet
    Early,          \* per document the version in Drive at Start
    Versions,       \* per document the contents a user may upload: sets of rows
    Removable,      \* bound: the documents a user may take away again
    Matched,        \* rows the rules match, the others wait for a label
    Rate,           \* the Kurs Pajak rates published for Closing, the last is its closing rate
    RowRate,        \* the rate wallet rows are booked at
    PriorUsd,       \* the wallet's opening dollars
    PriorIdr,       \* and their book value before the month's earlier revaluation
    PriorDiff,      \* which that revaluation changed by this
    MaxFailures,    \* bound on failed syncs and failed provisioning jobs
    NULL

Account == {Accounts[i] : i \in DOMAIN Accounts}
\* An account stands for its ebay_sales_csv too, the one document of its own.
Doc == Account \cup GroupDoc \cup MasterDoc
Content(d, v) == IF v = 0 THEN {} ELSE Versions[d][v]
RowsOf(d) == UNION {Versions[d][v] : v \in DOMAIN Versions[d]}
Row == UNION {RowsOf(d) : d \in Doc}
Runner == {"cron", "manual"}

\* What has upload folders of its own, in the order they are made; a place
\* stands for its subfolders.
Places == Accounts \o <<"group", "master">>
Place == Account \cup {"group", "master"}
PlaceOf(d) == IF d \in Account THEN d ELSE IF d \in GroupDoc THEN "group" ELSE "master"
FoldersFor(m, places) == {m} \X places

ASSUME MonthEndAssumption ==
    /\ Closing \in Month /\ {Start, End} \subseteq Day /\ Start <= End
    /\ DayOfMonth(Start) <= 25
    /\ WorkDay \cup LedgerDay \subseteq Day
    /\ Accounts \in Seq(Account)
    /\ Versions \in [Doc -> Seq(SUBSET Row)]
    /\ Early \in [Doc -> Nat] /\ \A d \in Doc : Early[d] \in {0} \cup DOMAIN Versions[d]
    /\ Account \cap (GroupDoc \cup MasterDoc) = {} /\ GroupDoc \cap MasterDoc = {}
    /\ Balanced \subseteq GroupDoc \cup MasterDoc    \* an eBay export prints no balance
    /\ WalletDoc \cup Removable \subseteq Doc /\ Matched \subseteq Row
    /\ \A d, e \in Doc : d # e => RowsOf(d) \cap RowsOf(e) = {}
    /\ Rate \in Seq(Nat) /\ Rate # <<>> /\ MaxFailures \in Nat
    /\ IsFiniteSet(Row) /\ {RowRate, PriorUsd, PriorIdr, PriorDiff} \subseteq Int

VARIABLES
    today,
    due,         \* the jobs of today not started: "fx", "provision", "manual"
    todo,        \* the account and period pairs today's routine run has left
    attempted,   \* history: the pairs it has tried today
    folders,     \* the upload folders in Drive: pairs of a period and a place
    missed,      \* history: the periods whose provisioning failed and was not made good
    drive,       \* per document the version of its file, 0 without
    src,         \* source_documents: the version ingested, 0 when ingested_at is NULL
    row,         \* review_queue, "refused" when labelled with what cannot be posted
    check,       \* reconciliation_checks
    opening,     \* the checked accounts' opening balances are posted
    seeded,      \* the rates of Rate that are in kurs_pajak_rates
    referenced,  \* the wallet's older lines carry amount_usd_ref
    job,         \* the revaluation runs in progress
    reval,       \* fx_revaluations rows for the wallet group and Closing
    restated,    \* the amounts of the journal entries of those revaluations
    failures

vars == <<today, due, todo, attempted, folders, missed, drive, src, row, check, opening, seeded,
          referenced, job, reval, restated, failures>>

documents == <<drive, src, row, check, opening>>
revaluation == <<seeded, referenced, job, reval, restated>>
schedule == <<today, due, todo, attempted, folders, missed, failures>>

Idle == [at |-> "idle"]

\* scheduled_fx_revaluation.py runs on days 1-7, scheduled_drive_provisioning.py
\* on day 25; by hand the revaluation is run once on a LedgerDay at most.
DueOn(n) == (IF DayOfMonth(n) <= 7 THEN {"fx"} ELSE {}) \cup
            (IF DayOfMonth(n) = 25 THEN {"provision"} ELSE {}) \cup
            (IF n \in LedgerDay THEN {"manual"} ELSE {})

\* run_routine_sync: for each account, for each period.
RunsOn(n) ==
    LET periods == PeriodsToSync(n)
        k == Len(periods)
    IN [i \in 1..(Len(Accounts) * k) |->
            <<Accounts[((i - 1) \div k) + 1], periods[((i - 1) % k) + 1]>>]

Init ==
    /\ today = Start
    /\ due = DueOn(Start)
    /\ todo = RunsOn(Start)
    /\ attempted = {}
    /\ folders = FoldersFor(PeriodOf(Start), Place)
    /\ missed = {}
    /\ drive = Early
    /\ src = [d \in Doc |-> 0]
    /\ row = [r \in Row |-> "absent"]
    /\ check = [d \in Balanced |-> "none"]
    /\ opening \in BOOLEAN
    /\ seeded = {}
    /\ referenced \in BOOLEAN
    /\ job = [j \in Runner |-> Idle]
    /\ reval = <<>>
    /\ restated = <<>>
    /\ failures = 0

-----------------------------------------------------------------------------
(* One sync of an account and a period.                                     *)

ReadFor(a) == {a} \cup GroupDoc \cup MasterDoc

Posted(d) == {r \in RowsOf(d) : row[r] = "posted"}

\* check_account_reconciliation: the ledger's opening and closing balance are
\* those the statement prints.
Agrees(d, v) == opening /\ Cardinality(Posted(d)) = Cardinality(Content(d, v))

\* Mutant of Recorded: the first result for the account and period stays.
RecordedOnce(d, result) == IF check[d] = "none" THEN result ELSE check[d]

\* Its row is updated in place.
Recorded(d, result) == result

\* sync_bank_statement, sync_payoneer and sync_ebay_sales_csv: each document's
\* row is written with what Drive holds now, its new lines are staged, and its
\* balances are compared before anything of this sync is posted.  Then, whatever
\* the period, run_auto_match and post_pending_rows.
ReadDocuments(a) ==
    /\ src' = [d \in Doc |-> IF d \in ReadFor(a) THEN drive[d] ELSE src[d]]
    /\ check' = [d \in Balanced |->
                    IF d \in ReadFor(a) /\ drive[d] # 0
                    THEN Recorded(d, IF Agrees(d, drive[d]) THEN "ok" ELSE "material")
                    ELSE check[d]]

Staged(a) == UNION {Content(d, drive[d]) : d \in ReadFor(a)}

PostRows(staged) ==
    row' = [r \in Row |->
              IF row[r] = "labelled" \/ (row[r] = "absent" /\ r \in staged \cap Matched) THEN "posted"
              ELSE IF row[r] = "absent" /\ r \in staged THEN "needs_review"
              ELSE row[r]]

\* run_sync_for_period, committed.
SyncPeriod(a, p) ==
    /\ IF p = Closing
       THEN ReadDocuments(a) /\ PostRows(Staged(a))
       ELSE PostRows({}) /\ UNCHANGED <<src, check>>
    /\ UNCHANGED <<drive, opening>>

\* _sync_one: the next pair of today's run.
RoutineSync ==
    /\ todo # <<>>
    /\ SyncPeriod(Head(todo)[1], Head(todo)[2])
    /\ todo' = Tail(todo)
    /\ attempted' = attempted \cup {Head(todo)}
    /\ UNCHANGED <<today, due, folders, missed, failures, revaluation>>

\* An exception, or the lock is held: rolled back, and the others go on.
RoutineSyncFails ==
    /\ todo # <<>> /\ failures < MaxFailures
    /\ todo' = Tail(todo)
    /\ attempted' = attempted \cup {Head(todo)}
    /\ failures' = failures + 1
    /\ UNCHANGED <<today, due, folders, missed, documents, revaluation>>

\* run_drive_folder_provisioning: each folder is found or created.
Provision ==
    /\ "provision" \in due
    /\ due' = due \ {"provision"}
    /\ folders' = folders \cup FoldersFor(NextPeriod(today), Place)
    /\ UNCHANGED <<today, todo, attempted, missed, failures, documents, revaluation>>

\* No credentials, or an error of Drive after the first n places: the job ends
\* there, and cron does not start it again before the next month's 25th.
ProvisionFails ==
    /\ "provision" \in due /\ failures < MaxFailures
    /\ due' = due \ {"provision"}
    /\ \E n \in 0..(Len(Places) - 1) :
          folders' = folders \cup FoldersFor(NextPeriod(today), {Places[i] : i \in 1..n})
    /\ missed' = missed \cup {NextPeriod(today)}
    /\ failures' = failures + 1
    /\ UNCHANGED <<today, todo, attempted, documents, revaluation>>

\* The script is run again by hand.  After the month's end it makes the folders of
\* the month after.  Bound: only to make good what failed.
ProvisionByHand ==
    /\ NextPeriod(today) \in missed
    /\ folders' = folders \cup FoldersFor(NextPeriod(today), Place)
    /\ missed' = missed \ {NextPeriod(today)}
    /\ UNCHANGED <<today, due, todo, attempted, failures, documents, revaluation>>

NextDay ==
    /\ due \subseteq {"manual"} /\ todo = <<>> /\ \A j \in Runner : job[j] = Idle
    /\ today < End
    /\ today' = today + 1
    /\ due' = DueOn(today + 1)
    /\ todo' = RunsOn(today + 1)
    /\ attempted' = {}
    /\ UNCHANGED <<folders, missed, failures, documents, revaluation>>

-----------------------------------------------------------------------------
(* The month-end revaluation: each query sees what is committed when it runs. *)

\* The wallet's journal lines dated in Closing or before.  A revaluation's line
\* carries the whole balance as its amount_usd_ref.
WalletLine ==
    {[id |-> <<"opening">>, source |-> "opening_balance", idr |-> PriorIdr, usd |-> PriorUsd],
     [id |-> <<"prior">>, source |-> "fx_revaluation", idr |-> PriorDiff, usd |-> PriorUsd]}
    \cup {[id |-> <<"row", r>>, source |-> "review_queue", idr |-> RowRate, usd |-> 1] :
            r \in UNION {Posted(d) : d \in WalletDoc}}
    \cup {[id |-> <<"revaluation", i>>, source |-> "fx_revaluation", idr |-> restated[i], usd |-> reval[i].usd] :
            i \in DOMAIN restated \cap DOMAIN reval}

BookValue == MapThenSumSet(LAMBDA l : l.idr, WalletLine)

\* Mutant of UsdBalance: earlier revaluations are summed up as dollars.
UsdBalanceNaive == MapThenSumSet(LAMBDA l : l.usd, WalletLine)

UsdBalance == MapThenSumSet(LAMBDA l : l.usd, {l \in WalletLine : l.source # "fx_revaluation"})

Step(j, state) == job' = [job EXCEPT ![j] = state]

\* run_fx_revaluation and the pre-check of _revalue_wallet_group.  A run for
\* another period is of no interest.
StartRevaluation(j) ==
    /\ job[j] = Idle
    /\ LET which == IF j = "cron" THEN "fx" ELSE "manual" IN
          which \in due /\ due' = due \ {which}
    /\ Step(j, IF ClosedPeriodFor(today) = Closing /\ reval = <<>> THEN [at |-> "book"] ELSE Idle)
    /\ UNCHANGED <<today, todo, attempted, folders, missed, failures, documents, seeded,
                   referenced, reval, restated>>

\* lookup_kurs_pajak_rate: the latest rate in force by the period's end.
KnownRate == Rate[Max(seeded)]

\* The rate and the first query of compute_payoneer_wallet_balance; no rate, no
\* revaluation.  rows is a history: the posted rows it saw.
ReadBookValue(j) ==
    /\ job[j].at = "book"
    /\ Step(j, IF seeded = {} THEN Idle
               ELSE [at |-> "usd", rate |-> KnownRate, book |-> BookValue,
                     rows |-> UNION {Posted(d) : d \in WalletDoc}])
    /\ UNCHANGED <<schedule, documents, seeded, referenced, reval, restated>>

\* The others: MissingUsdReferenceError, or the dollars.
ReadUsdBalance(j) ==
    /\ job[j].at = "usd"
    /\ IF referenced
       THEN Step(j, [at |-> "post", rate |-> job[j].rate, book |-> job[j].book, usd |-> UsdBalance,
                     rows |-> job[j].rows,
                     torn |-> job[j].rows # UNION {Posted(d) : d \in WalletDoc}])
       ELSE Step(j, Idle)
    /\ UNCHANGED <<schedule, documents, seeded, referenced, reval, restated>>

Diff(j) == job[j].usd * job[j].rate - job[j].book

\* post_unrealized_fx_revaluation: the entry and the row it is recorded in.
Restate(j) ==
    /\ restated' = Append(restated, Diff(j))
    /\ reval' = Append(reval, [usd |-> job[j].usd, rate |-> job[j].rate,
                               rows |-> job[j].rows, torn |-> job[j].torn])

\* Mutant of PostRevaluation: the entry is made outside the savepoint.
PostRevaluationLoose(j) ==
    /\ job[j].at = "post"
    /\ IF Diff(j) # 0 /\ reval = <<>> THEN Restate(j)
       ELSE /\ restated' = IF Diff(j) # 0 THEN Append(restated, Diff(j)) ELSE restated
            /\ reval' = reval
    /\ Step(j, Idle)
    /\ UNCHANGED <<schedule, documents, seeded, referenced>>

\* Nothing is posted for no change (no_change), nor when the unique index on
\* wallet group and period rejects the row (race_lost): the savepoint takes the
\* entry back.
PostRevaluation(j) ==
    /\ job[j].at = "post"
    /\ IF Diff(j) # 0 /\ reval = <<>> THEN Restate(j) ELSE UNCHANGED <<reval, restated>>
    /\ Step(j, Idle)
    /\ UNCHANGED <<schedule, documents, seeded, referenced>>

Revalue(j) ==
    ReadBookValue(j) \/ ReadUsdBalance(j) \/ PostRevaluation(j)

-----------------------------------------------------------------------------
(* The humans.                                                              *)

\* A file appears, is replaced or, with 0, is taken away; the user makes the
\* folder if there is none.
PutFile(d, v) ==
    /\ today > LastDay[Closing - 1]
    /\ drive[d] # v
    /\ drive' = [drive EXCEPT ![d] = v]
    /\ folders' = folders \cup {<<Closing, PlaceOf(d)>>}
    /\ UNCHANGED <<today, due, todo, attempted, missed, failures, src, row, check, opening,
                   revaluation>>

\* label_row: match_status stays needs_review until the row is posted.  The label
\* may be one post_pending_rows refuses (wrong sign, no reference, an error).
Label(r, label) ==
    /\ row[r] \in {"needs_review", "labelled", "refused"} \ {label}
    /\ row' = [row EXCEPT ![r] = label]
    /\ UNCHANGED <<schedule, drive, src, check, opening, revaluation>>

\* sync_now.
SyncNow(a) ==
    /\ SyncPeriod(a, Closing)
    /\ UNCHANGED <<schedule, revaluation>>

\* scripts/post_bank_opening_balances.py.
PostOpeningBalance ==
    /\ ~opening
    /\ opening' = TRUE
    /\ UNCHANGED <<schedule, drive, src, row, check, revaluation>>

\* seed_kurs_pajak_rate.
SeedRate(w) ==
    /\ w \notin seeded
    /\ seeded' = seeded \cup {w}
    /\ UNCHANGED <<schedule, documents, referenced, job, reval, restated>>

\* scripts/backfill_missing_usd_ref.py.
BackfillReference ==
    /\ ~referenced
    /\ referenced' = TRUE
    /\ UNCHANGED <<schedule, documents, seeded, job, reval, restated>>

Human ==
    \/ /\ today \in WorkDay
       /\ \/ \E d \in Doc : \E v \in DOMAIN Versions[d] : PutFile(d, v)
          \/ \E d \in Removable : PutFile(d, 0)
          \/ \E r \in Row, label \in {"labelled", "refused"} : Label(r, label)
          \/ \E a \in Account : SyncNow(a)
    \/ /\ today \in LedgerDay
       /\ \/ PostOpeningBalance
          \/ \E w \in DOMAIN Rate : SeedRate(w)
          \/ BackfillReference

-----------------------------------------------------------------------------
(* The status of the month's reports.                                       *)

Scope == Account \cup {"wallet_group", "consolidated"}

\* _expected_documents_for_scope.
Expected(s) ==
    CASE s = "consolidated" -> Doc
      [] s = "wallet_group" -> GroupDoc
      [] OTHER -> {s} \cup GroupDoc

\* Mutant of NeedsReview: a labelled row no longer counts.
NeedsReviewUnlabelled(s) ==
    {r \in UNION {RowsOf(d) : d \in Expected(s)} : row[r] = "needs_review"}

\* review_queue_status: an account is held up by its wallet group's rows.
NeedsReview(s) ==
    {r \in UNION {RowsOf(d) : d \in Expected(s)} : row[r] \in {"needs_review", "labelled", "refused"}}

\* missing_source_documents.
Missing(s) == {d \in Expected(s) : src[d] = 0}

\* material_reconciliation_discrepancies: the Master Account's hold up the
\* consolidated reports only.
Material(s) == {d \in Balanced : check[d] = "material" /\ (s = "consolidated" \/ d \in GroupDoc)}

\* report_status.
Final(s) == NeedsReview(s) = {} /\ Missing(s) = {} /\ Material(s) = {}

-----------------------------------------------------------------------------

\* The cron jobs and the clock.
Clockwork ==
    \/ NextDay
    \/ RoutineSync
    \/ Provision
    \/ StartRevaluation("cron")
    \/ \E j \in Runner : Revalue(j)

Next ==
    \/ Clockwork
    \/ RoutineSyncFails \/ ProvisionFails
    \/ ProvisionByHand
    \/ StartRevaluation("manual")
    \/ Human

Spec == Init /\ [][Next]_vars

\* cron starts its jobs every day and they end; nobody has to do anything, and
\* at most MaxFailures of them fail.
FairSpec == Spec /\ WF_vars(Clockwork)

=============================================================================
