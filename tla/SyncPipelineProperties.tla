----------------------- MODULE SyncPipelineProperties -----------------------
(* What is claimed of SyncPipeline, and what the repository claims that the  *)
(* code does not keep.                                                       *)
EXTENDS SyncPipeline

\* Every variable has its type, and a row nobody has locked has one version.
TypeOK ==
    /\ uploaded \subseteq Line
    /\ \A l \in Line : writer[l] = NULL => draft[l] = rows[l]
    /\ rows \in [Line -> Row]
    /\ draft \in [Line -> Row]
    /\ claims \in [Resource -> Line \cup {NULL}]
    /\ claimDraft \in [Resource -> Line \cup {NULL}]
    /\ writer \in [Line \cup Resource -> Sync \cup {NULL}]
    /\ holder \in Sync \cup {NULL}
    /\ pc \in [Sync -> {"idle", "stage", "staged", "match", "post"}]
    /\ todo \in [Sync -> SUBSET Line]
    /\ snap \in [Sync -> [Line -> Row]]
    /\ pick \in [Sync -> {NULL} \cup [row : Line, match : Line,
                                      entry : Line \cup Withdrawal \cup {NULL}]]

\* A row makes at most one journal entry of its own, and none before it is
\* marked posted: "a row never posts twice" (matching.py, posting step), under
\* concurrent callers, rollbacks and labels saved while a sync runs.
PostedOnce ==
    \A l \in Line : rows[l].posts # <<>> => Len(rows[l].posts) = 1 /\ rows[l].entry = l

\* Pairing is mutual and a paired sweep is booked as a transfer by one side at
\* most: the guard of _post_internal_transfer against a third coincidental row.
SweepBookedOnce ==
    \A l, m \in Line :
        rows[l].paired = m =>
            /\ rows[m].paired = l
            /\ ~(rows[l].posts = <<"internal_transfer">> /\ rows[m].posts = <<"internal_transfer">>)

\* A withdrawal is reconciled with one landing line, and that line books
\* nothing: the withdrawal already did (_try_rule_c_landing_echo).
LandingEchoBooksNothing ==
    \A w \in Withdrawal, l \in Line :
        rows[l].withdrawal = w => claims[w] = l /\ rows[l].posts = <<>>

\* An auto-matched row that is not booked is a sweep waiting for its pair:
\* every other failure to post is shown as needs_review (post_pending_rows).
NothingSilentlyStuck ==
    \A l \in Line :
        (rows[l].status = "matched" /\ rows[l].entry = NULL /\ ~rows[l].labeled)
            => rows[l].category = "internal_transfer"

\* A booked row keeps its category, entry and reference: corrections to a
\* posted row are out of scope (label_row's posted_at IS NULL guard).
PostedRowFrozen ==
    [][\A l \in Line :
          rows[l].entry # NULL =>
              /\ rows'[l].entry = rows[l].entry
              /\ rows'[l].posts = rows[l].posts
              /\ rows'[l].category = rows[l].category
              /\ rows'[l].ref = rows[l].ref]_vars

\* A payout, withdrawal or sale once consumed stays with its line
\* (matched_at, bridging_landing_..., reimbursed_journal_entry_id).
ClaimsStand ==
    [][\A x \in Resource : claims[x] # NULL => claims'[x] = claims[x]]_vars

\* The committed queue books each line once, for good, in whole commits.
Book == INSTANCE BookOnce WITH
    External <- Withdrawal,
    seen <- {l \in Line : rows[l].status # "absent"},
    book <- [l \in Line |-> rows[l].entry],
    made <- {l \in Line : rows[l].posts # <<>>}

ImplementsBookOnce == Book!BookSpec

\* A row labelled with an ordinary expense category of the right direction is
\* booked by a later sync unless it is relabelled: "picked up here on the next
\* sync" (post_pending_rows).
LabeledRowIsBooked ==
    \A l \in Line : \A c \in {"operating_expense", "other"} :
        (rows[l].category = c /\ ~SignMismatch(l, c)) ~> (rows[l].entry # NULL \/ rows[l].category # c)

\* Two ends of a sweep both labelled internal_transfer do not wait for each
\* other: one of them is booked, or a relabelling makes the question moot.
SweepIsNotStranded ==
    \A l, m \in Line :
        (/\ l \in BankLine /\ m \in BankLine /\ l # m /\ Opposite(l, m)
         /\ rows[l].category = "internal_transfer"
         /\ rows[m].category = "internal_transfer")
        ~> (\/ rows[l].entry # NULL \/ rows[m].entry # NULL
            \/ rows[l].category # "internal_transfer" \/ rows[m].category # "internal_transfer")

-----------------------------------------------------------------------------
(* Claims of the repository that the code does not keep. *)

\* run_auto_match "never re-touches a row a human already labeled": no step of
\* a sync changes the category of a labelled row.
LabelStands ==
    [][\A l \in Line :
          rows[l].labeled /\ pc' # pc => rows'[l].category = rows[l].category]_vars

\* A sale is reimbursed through reimbursed_journal_entry_id, which drops it out
\* of rule (d)'s candidates: one consignor payout per sale.
SaleReimbursedOnce ==
    \A l, m \in Line :
        (/\ l # m /\ rows[l].ref \in Sale /\ rows[l].ref = rows[m].ref
         /\ ~rows[l].labeled /\ ~rows[m].labeled)
            => ~(rows[l].posts = <<"consignment_payout">> /\ rows[m].posts = <<"consignment_payout">>)

=============================================================================
