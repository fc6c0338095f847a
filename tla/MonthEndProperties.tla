------------------------- MODULE MonthEndProperties -------------------------
(* What the month's close should guarantee. *)
EXTENDS MonthEnd

\* The shape of the state.
TypeOK ==
    /\ today \in Day /\ due \subseteq {"fx", "provision", "manual"}
    /\ todo \in Seq(Account \X Month) /\ attempted \subseteq Account \X Month
    /\ folders \subseteq (Month \cup {Months + 1}) \X Place /\ missed \subseteq Month \cup {Months + 1}
    /\ \A d \in Doc : {drive[d], src[d]} \subseteq {0} \cup DOMAIN Versions[d]
    /\ row \in [Row -> {"absent", "needs_review", "labelled", "refused", "posted"}]
    /\ check \in [Balanced -> {"none", "ok", "material"}]
    /\ {opening, referenced} \subseteq BOOLEAN /\ seeded \subseteq DOMAIN Rate
    /\ \A j \in Runner : job[j].at \in {"idle", "book", "usd", "post"}
    /\ restated \in Seq(Int) /\ failures \in 0..MaxFailures

\* The badge "must never be wrong": in a scope shown as Final every expected
\* document has been ingested, every row staged from one is booked, and opening
\* balance and all lines of the statement last read are in the ledger, though
\* the check behind the badge was made before its own sync posted anything.  (A
\* line a reverted statement no longer has may be booked by the very sync whose
\* check found agreement: README, "What the code does not keep".)
FinalIsHonest ==
    \A s \in Scope : Final(s) =>
        \A d \in Expected(s) :
            /\ src[d] # 0
            /\ \A r \in RowsOf(d) : row[r] # "absent" => row[r] = "posted"
            /\ d \in Balanced => opening /\ Content(d, src[d]) \subseteq Posted(d)

\* However cron's and a manual run overlap, a wallet group is revalued at most
\* once for a month, and no entry is left without its fx_revaluations row.
RevaluedOnce ==
    /\ Len(reval) <= 1
    /\ Len(restated) = Len(reval)

\* A revaluation restates the wallet to its real dollars at the rate it used, an
\* earlier revaluation notwithstanding, unless a posting of that month came
\* between its queries or after them.
RevaluedAtBalance ==
    \A i \in DOMAIN reval :
        LET posted == UNION {Posted(d) : d \in WalletDoc} IN
        (~reval[i].torn /\ posted = reval[i].rows)
            => BookValue = (PriorUsd + Cardinality(posted)) * reval[i].rate

\* "The user should always find a folder ready": a month begins without one of its
\* upload folders only if the one run of the 25th before it failed and nobody ran
\* the script again by the month's end.
FolderIsReady ==
    PeriodOf(today) \notin missed => FoldersFor(PeriodOf(today), Place) \subseteq folders

\* From 15 days before a month's end to 7 days after it no day passes without a
\* sync of that month for every account, whatever happened to the others.
CloseIsSwept ==
    [][today' # today =>
          \A a \in Account, m \in Month :
              today \in (LastDay[m] - 15)..(LastDay[m] + 7) => <<a, m>> \in attempted]_vars

\* All files are there, what was staged from them is booked or has a label that can
\* be posted (a refused one waits for a human), and no row is left of a file since
\* replaced: nothing is left for a human to do.
Complete ==
    /\ opening
    /\ \A d \in Doc :
          /\ drive[d] # 0
          /\ \A r \in RowsOf(d) :
                IF r \in Content(d, drive[d]) THEN row[r] \in {"labelled", "posted"} \/ r \in Matched
                                              ELSE row[r] = "absent"

\* What is complete three days before the tail ends becomes Final by the routine
\* runs alone, one failed sync included, unless somebody intervenes: the first
\* run books, the next refreshes the balance check.
ReportSettles ==
    (today = LastDay[Closing] + 4 /\ Complete) ~> (Final("consolidated") \/ ~Complete)

-----------------------------------------------------------------------------
(* A claim of the repository that the code does not keep. *)

\* "If no rate has been seeded for that date, it skips": a month is revalued at
\* the closing rate published for it.
RevaluedAtClosingRate ==
    \A i \in DOMAIN reval : reval[i].rate = Rate[Len(Rate)]

=============================================================================
