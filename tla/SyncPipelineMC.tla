--------------------------- MODULE SyncPipelineMC ---------------------------
(* Small instances of SyncPipeline for TLC. *)
EXTENDS SyncPipelineProperties

CONSTANTS b1, b2, m1, c1, c2, p1, d1, d2, e1, wd, pay, bill, owed

NoRelation == {}
NoPurpose == [i \in {} |-> "operating_expense"]

\* Two Bridging outflows that both look like the other end of one Master inflow.
SweepLines == {b1, b2, m1}
SweepBridging == {b1, b2}
SweepInflow == {m1}
SweepNear == {<<b1, m1>>, <<m1, b1>>, <<b2, m1>>, <<m1, b2>>}

\* The two ends of one sweep, and a Master debit that looks like a bill.
PairLines == {b1, m1, d2}
PairFits == {<<d2, bill>>}
PairPurpose == [i \in {bill} |-> "operating_expense"]
PairBridging == {b1}
PairNear == {<<b1, m1>>, <<m1, b1>>}

\* Two Bridging credits that both look like one withdrawal landing in Bridging, a
\* Payoneer credit that looks like an expected payout, a Master debit that looks
\* like the consignor payout owed, and a Bridging credit a keyword rule takes for
\* an expense.
ClaimLines == {c1, c2, p1, d1, e1}
ClaimBridging == {c1, c2, p1, e1}
ClaimBank == {c1, c2, d1, e1}
ClaimFits == {<<c1, wd>>, <<c2, wd>>, <<p1, pay>>, <<d1, owed>>}
ClaimKeyword == {<<e1, "operating_expense">>}

\* Two Master debits that both look like the consignor payout owed.
TwinLines == {d1, d2}
TwinFits == {<<d1, owed>>, <<d2, owed>>}

=============================================================================
