---------------------- MODULE PayoneerIngestProperties ----------------------
(* What is claimed of PayoneerIngest, and what the repository claims that    *)
(* the code does not keep.                                                   *)
EXTENDS PayoneerIngest

\* Every variable has its type, and between syncs there is one store
\* and no orphan half resolved.
TypeOK ==
    /\ drive \subseteq Item
    /\ db \in Store
    /\ work \in Store
    /\ locked \subseteq Txn
    /\ pc \in {"idle", "rows", "staged", "match", "post"}
    /\ period \in Period \cup {NULL}
    /\ (pc = "idle") = (period = NULL)
    /\ files \subseteq Item
    /\ todo \subseteq Txn
    /\ used \subseteq Confirmation
    /\ generic \subseteq Payment \cup Charge
    /\ orphan \in Txn \cup {NULL}
    /\ orphan # NULL => pc = "rows"
    /\ snap \in [Txn -> Row]
    /\ pc = "idle" => work = db

\* However often and from however many folders an export is read, at most one
\* entry is posted directly for each of its transactions
\* (payoneer_csv_posted_transactions).
DirectOnce == \A t \in Txn : Len(db.direct[t]) <= 1

\* A payout is confirmed by one payment at most, and is never confirmed by one
\* payment while rule (a) consumed it for another (matched_at).
PayoutConfirmedOnce ==
    \A t \in Txn, p \in Payout :
        (\E i \in DOMAIN db.direct[t] : db.direct[t][i] = p) => db.taken[p] = t

\* No untouched review row is left for a payment that was posted directly, and
\* a row resolved as a duplicate stands beside a direct entry
\* (_resolve_orphaned_review_queue_duplicate).
NoOrphanLeft ==
    \A t \in Txn :
        /\ db.direct[t] # <<>> => ~(db.rows[t].status = "unposted" /\ db.rows[t].category = NULL)
        /\ db.rows[t].status = "resolved" => db.direct[t] # <<>>

\* A transaction comes to be booked both directly and from its review row only
\* if the row had been given a category before: never an untouched one.
TwiceBooked(store, t) == store.direct[t] # <<>> /\ store.rows[t].status = "posted"

UntouchedNeverTwice ==
    [][\A t \in Txn :
          (TwiceBooked(db', t) /\ ~TwiceBooked(db, t)) => db.rows[t].category # NULL]_vars

\* Every completed transaction the last sync of a period read is booked, shown
\* in the review queue, or warned about on the period's document.
NothingDropped ==
    \A f \in Period : \A t \in db.read[f] :
        \/ db.direct[t] # <<>>
        \/ t \notin Withdrawal /\ db.rows[t].status # "absent"
        \/ t \in db.warned[f]

\* The direct entries implement BookOnce: a transaction is booked directly at most
\* once and for good, after a document with it was uploaded, and what a sync books
\* appears at once.
Book == INSTANCE BookOnce WITH
    Line <- Txn,
    External <- {},
    seen <- drive \cap Txn,
    book <- [t \in Txn |-> IF t \in db.marked THEN t ELSE NULL],
    made <- {t \in Txn : db.direct[t] # <<>>}

ImplementsBookOnce == Book!BookSpec

\* A withdrawal with its confirmation in the same folder is booked by some
\* later sync ("needs the confirmation PDF ingested before this can be booked").
WithdrawalIsBooked ==
    \A w \in Withdrawal, c \in Confirmation, f \in Period :
        (/\ {w, c} \subseteq drive
         /\ {<<f, w>>, <<f, c>>} \subseteq Folder
         /\ c = Referenced[w] \/ <<w, c>> \in Fits)
        ~> (db.direct[w] # <<>>)

\* A payout that arrived with a payment naming or fitting it does not stay
\* expected for ever, unless the payment was booked against another one.
PayoutIsConfirmed ==
    \A t \in Payment, p \in Payout :
        (/\ {t, p} \subseteq drive
         /\ \E f \in Period : <<f, t>> \in Folder
         /\ \E f \in Period : <<f, p>> \in Folder
         /\ p = Named[t] \/ <<t, p>> \in Fits)
        ~> (db.taken[p] # NULL \/ db.direct[t] # <<>>)

-----------------------------------------------------------------------------
(* A claim of the repository that the code does not keep. *)

\* The fallback matches "against any unused confirmation": a withdrawal
\* confirmation books one withdrawal.
ConfirmationUsedOnce ==
    \A v, w \in Withdrawal : \A i \in DOMAIN db.direct[v], j \in DOMAIN db.direct[w] :
        db.direct[v][i] = db.direct[w][j] => v = w

=============================================================================
