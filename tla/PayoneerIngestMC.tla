-------------------------- MODULE PayoneerIngestMC --------------------------
(* Small instances of PayoneerIngest for TLC. *)
EXTENDS PayoneerIngestProperties

CONSTANTS apr, may, t1, t2, p1, p2, w1, w2, d1, d2, fee

Nothing == {}
NoName == [t \in {} |-> NULL]

\* One export in both periods' folders; each period has a payout of its own.  t1
\* names its payout, and the amounts of both payments and payouts agree;
\* a keyword rule knows t2.
PayFolder == ({apr, may} \X {t1, t2}) \cup {<<apr, p1>>, <<may, p2>>}
PayNamed == [t \in {t1, t2} |-> IF t = t1 THEN p1 ELSE NULL]
PayFits == {t1, t2} \X {p1, p2}
PayRule == {<<t2, "other">>}

\* The same with a withdrawal that names its confirmation, which is in the second
\* period's folder only.
AllFolder == PayFolder \cup {<<apr, w1>>, <<may, w1>>, <<may, d1>>}
AllFits == PayFits \cup {<<w1, d1>>}
AllReferenced == [w \in {w1} |-> d1]

\* Two withdrawals of one amount without a usable Reference ID, in one period.
OneCashFolder == {apr} \X {w1, w2, d1, d2}
CashFits == {w1, w2} \X {d1, d2}
BlankReferenced == [w \in {w1, w2} |-> NULL]

\* One payment that fits a payout of each period, and one withdrawal whose
\* confirmation is in the second period's folder only; and a fee.
MixFolder == ({apr, may} \X {t1, w1}) \cup {<<apr, p1>>, <<may, p2>>, <<may, d1>>, <<apr, fee>>}
OnlyFee == {fee}
BlankNamed == [t \in {t1} |-> NULL]
MixReferenced == [w \in {w1} |-> NULL]
MixFits == ({t1} \X {p1, p2}) \cup {<<w1, d1>>}

=============================================================================
