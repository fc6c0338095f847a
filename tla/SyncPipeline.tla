---------------------------- MODULE SyncPipeline ----------------------------
(***************************************************************************)
(* The review queue and the sync pipeline that fills, classifies and posts *)
(* it (ingestion/sync.py, ingestion/matching.py), run by several callers   *)
(* (the web app's Sync Now and the routine job) and interleaved with a     *)
(* human labelling rows (webapp/review_queue_bp.py).                       *)
(*                                                                         *)
(* A sync is one database transaction at READ COMMITTED, serialised by a   *)
(* transaction-scoped advisory lock.  Its loops read a snapshot first and  *)
(* update the rows one by one, by id: the label of a human can commit in   *)
(* between.  Amounts, dates and descriptions are abstracted to the         *)
(* relations the matching rules compute from them.                         *)
(***************************************************************************)
EXTENDS Naturals, Sequences

CONSTANTS
    Line,        \* statement lines and Payoneer CSV rows that can be staged
    Sync,        \* callers of the pipeline: web requests, the routine job
    Payout,      \* ebay_expected_payouts
    Invoice,     \* invoices with an amount
    Withdrawal,  \* payoneer_withdrawals, each already posted
    Sale,        \* consignment_sales, confirmed and posted
    Bridging,    \* lines with a wallet_group_id (the others are Master lines)
    Inflow,      \* lines with a positive amount (the others are outflows)
    BankLine,    \* lines of source_type bank_statement (the others are Payoneer rows)
    Near,        \* pairs of lines equal within the amount and date tolerances
    Fits,        \* <<line, x>>: line and x equal within the rule's tolerances
    Purpose,     \* the category an invoice's purpose gives to its line
    Keyword,     \* <<line, category>>: an active keyword rule hits the line
    HumanLabel,  \* categories a human uses: a bound on the labels explored
    HumanRef,    \* references a human fills in: a bound, likewise
    Fragile,     \* lines an attempt to post may fail on: a bound, likewise
    NULL

Resource == Payout \cup Withdrawal \cup Sale

\* "operating_expense" stands for every outflow category that posts one entry
\* from the paying account; the others have control flow of their own.
Category == {"revenue_settlement", "consignment_payout", "internal_transfer",
             "internal_transfer_landing", "operating_expense", "cogs_refund",
             "inventory_deposit", "other"}

\* CATEGORY_OPTIONS: internal_transfer_landing is never offered to a human.
Selectable == Category \ {"internal_transfer_landing"}

\* The CHECK constraint on bank_keyword_rules.category; as in Category, its other
\* outflow categories are "operating_expense".
KeywordCategory == {"revenue_settlement", "consignment_payout", "internal_transfer",
                    "operating_expense", "other"}

Ref == Sale \cup {"text"}

Reason == {"sign", "reference", "error"}

ASSUME LineAssumption ==
    /\ Bridging \subseteq Line /\ Inflow \subseteq Line /\ BankLine \subseteq Line
    /\ Line \ BankLine \subseteq Bridging
    /\ \A p \in Near : p \in Line \X Line
    /\ \A l, m \in Line : <<l, m>> \in Near => <<m, l>> \in Near
    /\ \A f \in Fits : f \in Line \X (Resource \cup Invoice)
    /\ \A k \in Keyword : k \in Line \X KeywordCategory
    /\ Purpose \in [Invoice -> {"operating_expense", "consignment_payout"}]
    /\ HumanLabel \subseteq Selectable
    /\ HumanRef \subseteq Ref
    /\ Fragile \subseteq Line
    /\ Line \cap Resource = {}

ASSUME NullAssumption ==
    NULL \notin Line \cup Sync \cup Resource \cup Invoice \cup Category \cup Ref

VARIABLES
    uploaded,    \* lines of the documents now in Drive
    rows,        \* review_queue, committed versions
    claims,      \* what consumed each payout, withdrawal and sale, committed
    draft,       \* review_queue, version a transaction has written
    claimDraft,  \* likewise for claims
    writer,      \* the transaction holding a row lock on a line or resource
    holder,      \* the transaction holding the advisory lock
    pc,          \* where each caller is in run_sync_for_period
    todo,        \* lines of the current snapshot still to be visited
    snap,        \* the rows as post_pending_rows' snapshot saw them
    pick         \* the counterpart _post_internal_transfer selected, not yet claimed

vars == <<uploaded, rows, claims, draft, claimDraft, writer, holder, pc, todo, snap, pick>>

store == <<rows, claims, draft, claimDraft, writer>>

-----------------------------------------------------------------------------

\* posts lists the categories of the journal entries made for the row, entry
\* names the row or withdrawal whose journal entry the row is linked to.
Row == [status     : {"absent", "needs_review", "matched"},
        category   : Category \cup {NULL},
        labeled    : BOOLEAN,
        ref        : Ref \cup {NULL},
        invoice    : Invoice \cup {NULL},
        withdrawal : Withdrawal \cup {NULL},
        account    : BOOLEAN,
        paired     : Line \cup {NULL},
        reasons    : SUBSET Reason,
        entry      : Line \cup Withdrawal \cup {NULL},
        posts      : Seq(Category)]

NoRow == [status |-> "absent", category |-> NULL, labeled |-> FALSE, ref |-> NULL,
          invoice |-> NULL, withdrawal |-> NULL, account |-> FALSE, paired |-> NULL,
          reasons |-> {}, entry |-> NULL, posts |-> <<>>]

Init ==
    /\ uploaded = {}
    /\ rows = [l \in Line |-> NoRow]
    /\ claims = [x \in Resource |-> NULL]
    /\ draft = rows
    /\ claimDraft = claims
    /\ writer = [x \in Line \cup Resource |-> NULL]
    /\ holder = NULL
    /\ pc = [s \in Sync |-> "idle"]
    /\ todo = [s \in Sync |-> {}]
    /\ snap = [s \in Sync |-> rows]
    /\ pick = [s \in Sync |-> NULL]

-----------------------------------------------------------------------------
(* READ COMMITTED: a transaction sees the committed rows and its own writes, *)
(* and a row it has written is locked against the others until it ends.      *)

View(s, l) == IF writer[l] = s THEN draft[l] ELSE rows[l]

Claimant(s, x) == IF writer[x] = s THEN claimDraft[x] ELSE claims[x]

Free(s, X) == \A x \in X : writer[x] \in {NULL, s}

\* UPDATE of the lines in DOMAIN new and of resource x (none when NULL) by s.
Write(s, new, x, claimant) ==
    LET touched == DOMAIN new \cup ({x} \ {NULL}) IN
    /\ Free(s, touched)
    /\ draft' = [l \in Line |-> IF l \in DOMAIN new THEN new[l] ELSE draft[l]]
    /\ claimDraft' = [y \in Resource |-> IF y = x THEN claimant ELSE claimDraft[y]]
    /\ writer' = [y \in Line \cup Resource |-> IF y \in touched THEN s ELSE writer[y]]
    /\ UNCHANGED <<rows, claims>>

WriteRow(s, l, row) == Write(s, [m \in {l} |-> row], NULL, NULL)

Drop(s, l) == todo' = [todo EXCEPT ![s] = @ \ {l}]

-----------------------------------------------------------------------------
(* Documents arrive in Drive, a human labels a row. *)

Upload(l) ==
    /\ l \notin uploaded
    /\ uploaded' = uploaded \cup {l}
    /\ UNCHANGED <<store, holder, pc, todo, snap, pick>>

\* Mutant of Correctable: the guard forgets posted rows.
CorrectableAlways(l) == rows[l].status # "absent"

\* label_row's posted_at IS NULL guard.
Correctable(l) == rows[l].entry = NULL

\* The account is left alone unless the human picks one.
Labelled(row, c, ref, acct) ==
    [row EXCEPT !.category = c, !.ref = ref, !.labeled = TRUE, !.reasons = {},
                !.account = @ \/ acct]

\* label_row: its UPDATE waits for the row lock, then applies to unposted rows.
LabelRow(l, c, ref, acct) ==
    /\ acct => c = "revenue_settlement"
    /\ c = "inventory_deposit" => ref # NULL
    /\ writer[l] = NULL
    /\ rows[l].status # "absent"
    /\ Correctable(l)
    /\ rows' = [rows EXCEPT ![l] = Labelled(@, c, ref, acct)]
    /\ draft' = [draft EXCEPT ![l] = Labelled(rows[l], c, ref, acct)]
    /\ UNCHANGED <<uploaded, claims, claimDraft, writer, holder, pc, todo, snap, pick>>

-----------------------------------------------------------------------------
(* run_sync_for_period: the advisory lock, then staging. *)

\* Mutant of LockFree: no advisory lock.
LockIgnored == holder \in Sync \cup {NULL}

\* pg_try_advisory_xact_lock; a caller that fails raises SyncAlreadyRunningError.
LockFree == holder = NULL

Begin(s) ==
    /\ pc[s] = "idle"
    /\ LockFree
    /\ holder' = s
    /\ pc' = [pc EXCEPT ![s] = "stage"]
    /\ UNCHANGED <<uploaded, store, todo, snap, pick>>

\* stage_raw_lines for every document: ON CONFLICT DO NOTHING keeps old rows.
StageRawLines(s) ==
    LET new == {l \in uploaded : View(s, l).status = "absent"} IN
    /\ pc[s] = "stage"
    /\ Write(s, [l \in new |-> [NoRow EXCEPT !.status = "needs_review"]], NULL, NULL)
    /\ pc' = [pc EXCEPT ![s] = "staged"]
    /\ UNCHANGED <<uploaded, holder, todo, snap, pick>>

-----------------------------------------------------------------------------
(* run_auto_match: rules (a) to (e), each the set of outcomes it may return  *)
(* (the code takes the first candidate of an unordered query).               *)

RuleA(s, l) ==
    {[row |-> [View(s, l) EXCEPT !.category = "revenue_settlement", !.account = TRUE],
      resource |-> p] :
        p \in {p \in Payout : /\ l \in Inflow \ BankLine
                              /\ <<l, p>> \in Fits
                              /\ Claimant(s, p) = NULL}}

RuleB(s, l) ==
    {[row |-> [View(s, l) EXCEPT !.category = Purpose[i], !.invoice = i, !.ref = "text"],
      resource |-> NULL] :
        i \in {i \in Invoice : l \notin Inflow /\ <<l, i>> \in Fits}}

\* Mutant of Landings: a withdrawal already reconciled is offered again.
LandingsAgain(s, l) == {w \in Withdrawal : l \in Bridging \cap Inflow /\ <<l, w>> \in Fits}

\* Withdrawals whose landing l may be, none reconciled with a line yet.
Landings(s, l) ==
    {w \in Withdrawal : /\ l \in Bridging \cap Inflow
                        /\ <<l, w>> \in Fits
                        /\ Claimant(s, w) = NULL}

RuleCLanding(s, l) ==
    {[row |-> [View(s, l) EXCEPT !.category = "internal_transfer_landing", !.withdrawal = w],
      resource |-> w] : w \in Landings(s, l)}

\* A sweep leaves Bridging and lands in Main.
SweepSide(l) == (l \in Bridging) # (l \in Inflow)

\* Two lines that could be the two ends of one sweep.
Opposite(l, m) ==
    SweepSide(l) /\ SweepSide(m) /\ (m \in Bridging) # (l \in Bridging) /\ <<l, m>> \in Near

OtherEnd(s, l) == {m \in BankLine \ {l} : View(s, m).status # "absent" /\ Opposite(l, m)}

RuleCSweep(s, l) ==
    {[row |-> [View(s, l) EXCEPT !.category = "internal_transfer"], resource |-> NULL] :
        m \in {m \in OtherEnd(s, l) : View(s, m).category \in {NULL, "internal_transfer"}}}

RuleD(s, l) ==
    {[row |-> [View(s, l) EXCEPT !.category = "consignment_payout", !.ref = a],
      resource |-> NULL] :
        a \in {a \in Sale : l \notin Inflow /\ <<l, a>> \in Fits /\ Claimant(s, a) = NULL}}

RuleE(s, l) ==
    {[row |-> [View(s, l) EXCEPT !.category = k[2]], resource |-> NULL] :
        k \in {k \in Keyword : k[1] = l}}

\* The first rule with a candidate decides.
RuleOutcomes(s, l) ==
    LET rule == <<RuleA(s, l), RuleB(s, l), RuleCLanding(s, l),
                  RuleCSweep(s, l), RuleD(s, l), RuleE(s, l)>>
    IN  UNION {rule[i] : i \in {i \in 1..6 : \A j \in 1..(i - 1) : rule[j] = {}}}

Unclassified(s) == {l \in Line : View(s, l).status # "absent" /\ View(s, l).category = NULL}

StartAutoMatch(s) ==
    /\ pc[s] = "staged"
    /\ pc' = [pc EXCEPT ![s] = "match"]
    /\ todo' = [todo EXCEPT ![s] = Unclassified(s)]
    /\ UNCHANGED <<uploaded, store, holder, snap, pick>>

\* The UPDATE names the row by id only.
AutoMatchRow(s, l) ==
    /\ pc[s] = "match"
    /\ l \in todo[s]
    /\ \/ /\ RuleOutcomes(s, l) = {}
          /\ UNCHANGED store
       \/ \E o \in RuleOutcomes(s, l) :
             Write(s, [m \in {l} |-> [o.row EXCEPT !.status = "matched"]], o.resource, l)
    /\ Drop(s, l)
    /\ UNCHANGED <<uploaded, holder, pc, snap, pick>>

-----------------------------------------------------------------------------
(* post_pending_rows: every unposted row as the snapshot saw it. *)

\* _DIRECTIONAL_CATEGORY_SIGNS.
SignMismatch(l, c) ==
    \/ c \in {"operating_expense", "consignment_payout", "inventory_deposit"} /\ l \in Inflow
    \/ c \in {"revenue_settlement", "cogs_refund"} /\ l \notin Inflow

MissingReference(r) == r.category = "inventory_deposit" /\ r.ref = NULL

\* The account a category needs cannot be resolved, or the scope is refused.
WrongScope(l, r) ==
    \/ r.category = "revenue_settlement" /\ (~r.account \/ l \notin Bridging)
    \/ r.category \in {"cogs_refund", "inventory_deposit"} /\ (l \in Bridging \/ r.account)

\* _post_internal_transfer raises for a row that is no side of a sweep.
WrongDirection(s, l, r) ==
    /\ r.category = "internal_transfer"
    /\ View(s, l).paired = NULL
    /\ ~SweepSide(l)

\* Mutant of Pending: only auto-matched rows, never the labelled ones.
PendingMatched(s) == {l \in Line : View(s, l).status = "matched" /\ View(s, l).entry = NULL}

Pending(s) == {l \in Line : View(s, l).status # "absent" /\ View(s, l).entry = NULL}

StartPosting(s) ==
    /\ pc[s] = "match"
    /\ todo[s] = {}
    /\ pc' = [pc EXCEPT ![s] = "post"]
    /\ todo' = [todo EXCEPT ![s] = Pending(s)]
    /\ snap' = [snap EXCEPT ![s] = [l \in Line |-> IF l \in Pending(s) THEN View(s, l) ELSE NoRow]]
    /\ UNCHANGED <<uploaded, store, holder, pick>>

Visiting(s, l) == pc[s] = "post" /\ l \in todo[s] /\ pick[s] = NULL

\* Mutant of Flagged: the reason is recorded, the status is not.
FlaggedQuietly(row, reason) == [row EXCEPT !.reasons = @ \cup {reason}]

Flagged(row, reason) ==
    [row EXCEPT !.status = "needs_review", !.reasons = @ \cup {reason}]

\* Why a labelled row is not posted: the two checks before the attempt, then
\* the exception the attempt raises (its writes undone by the SAVEPOINT).
Refusal(s, l, r) ==
    CASE SignMismatch(l, r.category) -> "sign"
      [] ~SignMismatch(l, r.category) /\ MissingReference(r) -> "reference"
      [] OTHER -> IF WrongScope(l, r) \/ WrongDirection(s, l, r) THEN "error" ELSE NULL

FlagRow(s, l) ==
    LET why == Refusal(s, l, snap[s][l]) IN
    /\ Visiting(s, l)
    /\ why # NULL
    /\ WriteRow(s, l, Flagged(View(s, l), why))
    /\ Drop(s, l)
    /\ UNCHANGED <<uploaded, holder, pc, snap, pick>>

\* Mutant of Unclaimed: a counterpart another row has claimed is offered again.
UnclaimedOrNot(s, l) == {m \in OtherEnd(s, l) : View(s, m).category = "internal_transfer"}

\* Counterparts _post_internal_transfer may still claim.
Unclaimed(s, l) ==
    {m \in OtherEnd(s, l) : /\ View(s, m).category = "internal_transfer"
                            /\ View(s, m).paired = NULL}

\* Nothing to post yet: no label, no link, no counterpart or one not posted.
NotReady(s, l, r) ==
    LET mate == View(s, l).paired IN
    \/ r.category = NULL
    \/ r.category = "internal_transfer_landing" /\ r.withdrawal = NULL
    \/ /\ r.category = "internal_transfer"
       /\ IF mate # NULL THEN View(s, mate).entry = NULL
                         ELSE SweepSide(l) /\ Unclaimed(s, l) = {}

SkipRow(s, l) ==
    /\ Visiting(s, l)
    /\ NotReady(s, l, snap[s][l])
    /\ Drop(s, l)
    /\ UNCHANGED <<uploaded, store, holder, pc, snap, pick>>

\* Mutant of Settled: a status the schema does not know.
SettledPosted(row, e, made) ==
    [row EXCEPT !.status = "posted", !.entry = e, !.reasons = {}, !.posts = @ \o made]

\* The columns post_pending_rows sets on a row linked to entry e.
Settled(row, e, made) ==
    [row EXCEPT !.status = "matched", !.entry = e, !.reasons = {}, !.posts = @ \o made]

\* The sale a consignor payout's reference names, if still owed.
Owed(s, r) ==
    {a \in Sale : r.category = "consignment_payout" /\ a = r.ref /\ Claimant(s, a) = NULL}

\* A category that makes one entry from the row alone.
Ordinary(r) == r.category \notin {NULL, "internal_transfer", "internal_transfer_landing"}

\* One entry from the row alone; a consignor payout also
\* marks the sale it reimburses.
PostRow(s, l) ==
    LET r == snap[s][l]
        new == [m \in {l} |-> Settled(View(s, l), l, <<r.category>>)]
    IN
    /\ Visiting(s, l)
    /\ Ordinary(r)
    /\ Refusal(s, l, r) = NULL
    /\ \/ Owed(s, r) = {} /\ Write(s, new, NULL, NULL)
       \/ \E a \in Owed(s, r) : Write(s, new, a, l)
    /\ Drop(s, l)
    /\ UNCHANGED <<uploaded, holder, pc, snap, pick>>

\* _post_internal_transfer_landing: link to the entry the withdrawal made.
LinkLanding(s, l) ==
    LET r == snap[s][l] IN
    /\ Visiting(s, l)
    /\ r.category = "internal_transfer_landing"
    /\ r.withdrawal # NULL
    /\ WriteRow(s, l, Settled(View(s, l), r.withdrawal, <<>>))
    /\ Drop(s, l)
    /\ UNCHANGED <<uploaded, holder, pc, snap, pick>>

\* _post_internal_transfer, already paired: link to the counterpart's entry.
LinkPair(s, l) ==
    LET mate == View(s, l).paired IN
    /\ Visiting(s, l)
    /\ snap[s][l].category = "internal_transfer"
    /\ mate # NULL
    /\ View(s, mate).entry # NULL
    /\ WriteRow(s, l, Settled(View(s, l), View(s, mate).entry, <<>>))
    /\ Drop(s, l)
    /\ UNCHANGED <<uploaded, holder, pc, snap, pick>>

\* _post_internal_transfer, unpaired: SELECT a counterpart ...
PickCounterpart(s, l) ==
    /\ Visiting(s, l)
    /\ snap[s][l].category = "internal_transfer"
    /\ View(s, l).paired = NULL
    /\ SweepSide(l)
    /\ \E m \in Unclaimed(s, l) : pick' = [pick EXCEPT ![s] = [row |-> l, match |-> m, entry |-> View(s, m).entry]]
    /\ UNCHANGED <<uploaded, store, holder, pc, todo, snap>>

\* ... then claim both sides, and post unless the counterpart already has.
ClaimPair(s) ==
    LET l == pick[s].row
        m == pick[s].match
        e == pick[s].entry
        claimed == [View(s, l) EXCEPT !.paired = m]
        mine == IF e = NULL THEN Settled(claimed, l, <<"internal_transfer">>)
                            ELSE Settled(claimed, e, <<>>)
    IN
    /\ pick[s] # NULL
    /\ Write(s, [k \in {l, m} |-> IF k = l THEN mine ELSE [View(s, m) EXCEPT !.paired = l]],
             NULL, NULL)
    /\ pick' = [pick EXCEPT ![s] = NULL]
    /\ Drop(s, l)
    /\ UNCHANGED <<uploaded, holder, pc, snap>>

\* Mutant of Undone: without the SAVEPOINT the entry or the claimed pair stays.
HalfDone(s, l) ==
    LET failed == Flagged(View(s, l), "error")
        m == pick[s].match
    IN
    IF pick[s] = NULL
    THEN [k \in {l} |-> [failed EXCEPT !.posts = Append(@, snap[s][l].category)]]
    ELSE [k \in {l, m} |-> IF k = l THEN [failed EXCEPT !.paired = m]
                                     ELSE [View(s, m) EXCEPT !.paired = l]]

\* What an attempt that raised half way leaves: its writes are undone.
Undone(s, l) == [k \in {l} |-> Flagged(View(s, l), "error")]

\* The attempt raises after some of its statements: the SAVEPOINT around it ends,
\* the row is flagged and the loop goes on.
AttemptFails(s, l) ==
    /\ \/ pick[s] # NULL /\ pick[s].row = l
       \/ /\ Visiting(s, l)
          /\ Ordinary(snap[s][l])
          /\ Refusal(s, l, snap[s][l]) = NULL
    /\ Write(s, Undone(s, l), NULL, NULL)
    /\ pick' = [pick EXCEPT ![s] = NULL]
    /\ Drop(s, l)
    /\ UNCHANGED <<uploaded, holder, pc, snap>>

-----------------------------------------------------------------------------
(* The caller commits once at the end; any failure or crash rolls all back.  *)

Finish(s) ==
    /\ writer' = [x \in Line \cup Resource |-> IF writer[x] = s THEN NULL ELSE writer[x]]
    /\ holder' = IF holder = s THEN NULL ELSE holder
    /\ pc' = [pc EXCEPT ![s] = "idle"]
    /\ todo' = [todo EXCEPT ![s] = {}]
    /\ snap' = [snap EXCEPT ![s] = [l \in Line |-> NoRow]]
    /\ pick' = [pick EXCEPT ![s] = NULL]
    /\ UNCHANGED uploaded

Commit(s) ==
    /\ pc[s] = "post"
    /\ todo[s] = {}
    /\ rows' = [l \in Line |-> View(s, l)]
    /\ claims' = [x \in Resource |-> Claimant(s, x)]
    /\ UNCHANGED <<draft, claimDraft>>
    /\ Finish(s)

Rollback(s) ==
    /\ pc[s] # "idle"
    /\ draft' = [l \in Line |-> IF writer[l] = s THEN rows[l] ELSE draft[l]]
    /\ claimDraft' = [x \in Resource |-> IF writer[x] = s THEN claims[x] ELSE claimDraft[x]]
    /\ UNCHANGED <<rows, claims>>
    /\ Finish(s)

-----------------------------------------------------------------------------

Human ==
    \E l \in Line :
        \/ Upload(l)
        \/ \E c \in HumanLabel, ref \in HumanRef \cup {NULL}, acct \in BOOLEAN :
              LabelRow(l, c, ref, acct)

Visit(s, l) ==
    \/ AutoMatchRow(s, l)
    \/ FlagRow(s, l)
    \/ SkipRow(s, l)
    \/ PostRow(s, l)
    \/ LinkLanding(s, l)
    \/ LinkPair(s, l)
    \/ PickCounterpart(s, l)

\* A step of the pipeline once it holds the lock, short of the commit.
Advance(s) ==
    \/ StageRawLines(s)
    \/ StartAutoMatch(s)
    \/ StartPosting(s)
    \/ ClaimPair(s)
    \/ \E l \in Line : Visit(s, l)

\* Everything but failures.
Orderly ==
    \/ Human
    \/ \E s \in Sync : Begin(s) \/ Advance(s) \/ Commit(s)

Failure(s) == Rollback(s) \/ \E l \in Fragile : AttemptFails(s, l)

Next == Orderly \/ \E s \in Sync : Failure(s)

Spec == Init /\ [][Next]_vars

\* The routine job keeps calling the pipeline and attempts eventually stop
\* failing.  A rollback restores a state reachable without it, so behaviours
\* without rollbacks stand for the suffix after the last one.
FairSpec ==
    /\ Init /\ [][Orderly \/ \E s \in Sync, l \in Fragile : AttemptFails(s, l)]_vars
    /\ <>[][Orderly]_vars
    /\ WF_vars(\E s \in Sync : Begin(s))
    /\ \A s \in Sync : WF_vars(Advance(s)) /\ WF_vars(Commit(s))

=============================================================================
