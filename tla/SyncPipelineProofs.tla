------------------------- MODULE SyncPipelineProofs -------------------------
(***************************************************************************)
(* Proofs about SyncPipeline for every set of lines, callers and documents:  *)
(* each line is booked once (IInv), for good and as BookOnce allows (JInv),  *)
(* what it consumed stays with it (KInv), and none is left matched and       *)
(* unbooked unseen (SInv).                                                   *)
(***************************************************************************)
EXTENDS SyncPipelineProperties, SequenceTheorems, TLAPS

-----------------------------------------------------------------------------
(* Types. *)

\* What a transaction sees of a row or of a claim is a row or a claim.
LEMMA ViewType ==
    ASSUME TypeOK, NEW s, NEW l \in Line
    PROVE  View(s, l) \in Row
BY DEF TypeOK, View

LEMMA ClaimantType ==
    ASSUME TypeOK, NEW s, NEW x \in Resource
    PROVE  Claimant(s, x) \in Line \cup {NULL}
BY DEF TypeOK, Claimant

LEMMA NoRowType == NoRow \in Row
<1>1. <<>> \in Seq(Category)
  OBVIOUS
<1> QED  BY <1>1 DEF NoRow, Row, Ref

\* A write replaces some drafts by rows, locks them, and touches nothing else.
LEMMA WriteType ==
    ASSUME TypeOK, NEW s \in Sync, NEW D \in SUBSET Line, NEW new \in [D -> Row],
           NEW x \in Resource \cup {NULL}, NEW c \in Line \cup {NULL},
           Write(s, new, x, c)
    PROVE  /\ draft' \in [Line -> Row]
           /\ claimDraft' \in [Resource -> Line \cup {NULL}]
           /\ writer' \in [Line \cup Resource -> Sync \cup {NULL}]
           /\ rows' = rows /\ claims' = claims
           /\ \A l \in Line : writer'[l] = NULL => draft'[l] = rows'[l]
<1>1. DOMAIN new = D
  OBVIOUS
<1>2. s # NULL
  BY NullAssumption
<1>3. draft' = [l \in Line |-> IF l \in D THEN new[l] ELSE draft[l]]
  BY <1>1 DEF Write
<1>4. draft' \in [Line -> Row]
  BY <1>3 DEF TypeOK
<1>5. claimDraft' \in [Resource -> Line \cup {NULL}]
  BY DEF Write, TypeOK
<1>6. writer' \in [Line \cup Resource -> Sync \cup {NULL}]
  BY DEF Write, TypeOK
<1>7. rows' = rows /\ claims' = claims
  BY DEF Write
<1>8. ASSUME NEW l \in Line, writer'[l] = NULL
      PROVE  draft'[l] = rows'[l]
  <2>1. l \notin D /\ writer'[l] = writer[l]
    BY <1>1, <1>2, <1>8 DEF Write
  <2> QED  BY <2>1, <1>3, <1>7, <1>8 DEF TypeOK
<1> QED  BY <1>4, <1>5, <1>6, <1>7, <1>8

LEMMA WriteRowType ==
    ASSUME TypeOK, NEW s \in Sync, NEW l \in Line, NEW row \in Row,
           WriteRow(s, l, row)
    PROVE  /\ draft' \in [Line -> Row]
           /\ claimDraft' \in [Resource -> Line \cup {NULL}]
           /\ writer' \in [Line \cup Resource -> Sync \cup {NULL}]
           /\ rows' = rows /\ claims' = claims
           /\ \A m \in Line : writer'[m] = NULL => draft'[m] = rows'[m]
<1>1. Write(s, [m \in {l} |-> row], NULL, NULL)
  BY DEF WriteRow
<1>2. [m \in {l} |-> row] \in [{l} -> Row] /\ {l} \in SUBSET Line
  OBVIOUS
<1> QED  BY <1>1, <1>2, WriteType

\* What each rule, and each way of settling or flagging, makes of a row is a row.
LEMMA RuleType ==
    ASSUME TypeOK, NEW s \in Sync, NEW l \in Line, NEW o \in RuleOutcomes(s, l)
    PROVE  o.row \in Row /\ o.resource \in Resource \cup {NULL}
<1> DEFINE rule == <<RuleA(s, l), RuleB(s, l), RuleCLanding(s, l),
                     RuleCSweep(s, l), RuleD(s, l), RuleE(s, l)>>
<1>1. PICK i \in 1..6 : o \in rule[i]
  BY DEF RuleOutcomes
<1> DEFINE v == View(s, l)
<1>2. v \in Row
  BY ViewType
<1> HIDE DEF v, rule
<1>3. CASE o \in RuleA(s, l)
  <2>1. PICK p \in Payout : o = [row |-> [v EXCEPT !.category = "revenue_settlement", !.account = TRUE], resource |-> p]
    BY <1>3 DEF RuleA, v
  <2> DEFINE row == [v EXCEPT !.category = "revenue_settlement", !.account = TRUE]
  <2>2. row \in Row
    BY <1>2 DEF Row, Category
  <2>3. o = [row |-> row, resource |-> p]
    BY <2>1
  <2> HIDE DEF row
  <2> QED  BY <2>2, <2>3 DEF Resource
<1>4. CASE o \in RuleB(s, l)
  <2>1. PICK bill \in Invoice : o = [row |-> [v EXCEPT !.category = Purpose[bill], !.invoice = bill, !.ref = "text"], resource |-> NULL]
    BY <1>4 DEF RuleB, v
  <2> DEFINE row == [v EXCEPT !.category = Purpose[bill], !.invoice = bill, !.ref = "text"]
  <2>2. row \in Row
    BY <1>2, LineAssumption DEF Row, Category, Ref
  <2>3. o = [row |-> row, resource |-> NULL]
    BY <2>1
  <2> HIDE DEF row
  <2> QED  BY <2>2, <2>3 DEF Resource
<1>5. CASE o \in RuleCLanding(s, l)
  <2>1. PICK w \in Withdrawal : o = [row |-> [v EXCEPT !.category = "internal_transfer_landing", !.withdrawal = w], resource |-> w]
    BY <1>5 DEF RuleCLanding, v, Landings
  <2> DEFINE row == [v EXCEPT !.category = "internal_transfer_landing", !.withdrawal = w]
  <2>2. row \in Row
    BY <1>2 DEF Row, Category
  <2>3. o = [row |-> row, resource |-> w]
    BY <2>1
  <2> HIDE DEF row
  <2> QED  BY <2>2, <2>3 DEF Resource
<1>6. CASE o \in RuleCSweep(s, l)
  <2>1. PICK m \in Line : o = [row |-> [v EXCEPT !.category = "internal_transfer"], resource |-> NULL]
    BY <1>6 DEF RuleCSweep, v, OtherEnd
  <2> DEFINE row == [v EXCEPT !.category = "internal_transfer"]
  <2>2. row \in Row
    BY <1>2 DEF Row, Category
  <2>3. o = [row |-> row, resource |-> NULL]
    BY <2>1
  <2> HIDE DEF row
  <2> QED  BY <2>2, <2>3 DEF Resource
<1>7. CASE o \in RuleD(s, l)
  <2>1. PICK a \in Sale : o = [row |-> [v EXCEPT !.category = "consignment_payout", !.ref = a], resource |-> NULL]
    BY <1>7 DEF RuleD, v
  <2> DEFINE row == [v EXCEPT !.category = "consignment_payout", !.ref = a]
  <2>2. row \in Row
    BY <1>2 DEF Row, Category, Ref
  <2>3. o = [row |-> row, resource |-> NULL]
    BY <2>1
  <2> HIDE DEF row
  <2> QED  BY <2>2, <2>3 DEF Resource
<1>8. CASE o \in RuleE(s, l)
  <2>1. PICK k \in Keyword : o = [row |-> [v EXCEPT !.category = k[2]], resource |-> NULL]
    BY <1>8 DEF RuleE, v
  <2> DEFINE row == [v EXCEPT !.category = k[2]]
  <2>2. row \in Row
    BY <1>2, LineAssumption DEF Row, Category, KeywordCategory
  <2>3. o = [row |-> row, resource |-> NULL]
    BY <2>1
  <2> HIDE DEF row
  <2> QED  BY <2>2, <2>3 DEF Resource
<1>9. o \in RuleA(s, l) \/ o \in RuleB(s, l) \/ o \in RuleCLanding(s, l)
      \/ o \in RuleCSweep(s, l) \/ o \in RuleD(s, l) \/ o \in RuleE(s, l)
  BY <1>1 DEF rule
<1> QED  BY <1>9, <1>3, <1>4, <1>5, <1>6, <1>7, <1>8

LEMMA SettledType ==
    ASSUME NEW row \in Row, NEW e \in Line \cup Withdrawal \cup {NULL},
           NEW made \in Seq(Category)
    PROVE  Settled(row, e, made) \in Row
<1>1. row.posts \o made \in Seq(Category)
  BY DEF Row
<1> QED  BY <1>1 DEF Settled, Row

LEMMA LinkedType ==
    ASSUME NEW row \in Row, NEW e \in Line \cup Withdrawal \cup {NULL}
    PROVE  Settled(row, e, <<>>) \in Row
<1>1. <<>> \in Seq(Category)
  OBVIOUS
<1> QED  BY <1>1, SettledType

LEMMA FlaggedType ==
    ASSUME NEW row \in Row, NEW reason \in Reason
    PROVE  Flagged(row, reason) \in Row
BY DEF Flagged, Row

LEMMA LabelledType ==
    ASSUME NEW row \in Row, NEW c \in Category, NEW ref \in Ref \cup {NULL},
           NEW acct \in BOOLEAN
    PROVE  Labelled(row, c, ref, acct) \in Row
BY DEF Labelled, Row

LEMMA RefusalType ==
    ASSUME NEW s, NEW l, NEW r
    PROVE  Refusal(s, l, r) \in Reason \cup {NULL}
BY DEF Refusal, Reason

LEMMA TypeInit == Init => TypeOK
<1> SUFFICES ASSUME Init PROVE TypeOK
  OBVIOUS
<1>1. rows \in [Line -> Row]
  BY NoRowType DEF Init
<1>2. snap \in [Sync -> [Line -> Row]]
  BY <1>1 DEF Init
<1> QED  BY <1>1, <1>2 DEF Init, TypeOK

\* A step of the pipeline that only writes keeps the rest of TypeOK.
LEMMA TypeStep == TypeOK /\ [Next]_vars => TypeOK'
<1> SUFFICES ASSUME TypeOK, [Next]_vars PROVE TypeOK'
  OBVIOUS
<1>1. CASE UNCHANGED vars
  BY <1>1 DEF vars, TypeOK
<1>2. ASSUME NEW l \in Line, Upload(l) PROVE TypeOK'
  BY <1>2 DEF Upload, store, TypeOK
<1>3. ASSUME NEW l \in Line, NEW c \in HumanLabel, NEW ref \in HumanRef \cup {NULL},
             NEW acct \in BOOLEAN, LabelRow(l, c, ref, acct)
      PROVE  TypeOK'
  <2>1. c \in Category /\ ref \in Ref \cup {NULL}
    BY LineAssumption DEF Selectable
  <2>2. rows[l] \in Row
    BY DEF TypeOK
  <2>3. Labelled(rows[l], c, ref, acct) \in Row
    BY <2>1, <2>2, LabelledType
  <2>4. rows' = [rows EXCEPT ![l] = Labelled(rows[l], c, ref, acct)]
    BY <1>3 DEF LabelRow
  <2> QED  BY <1>3, <2>3, <2>4 DEF LabelRow, TypeOK
<1>4. ASSUME NEW s \in Sync, Begin(s) PROVE TypeOK'
  BY <1>4 DEF Begin, store, TypeOK
<1>5. ASSUME NEW s \in Sync, StageRawLines(s) PROVE TypeOK'
  <2> DEFINE new == {l \in uploaded : View(s, l).status = "absent"}
             staged == [l \in new |-> [NoRow EXCEPT !.status = "needs_review"]]
  <2>1. [NoRow EXCEPT !.status = "needs_review"] \in Row
    BY NoRowType DEF Row
  <2>2. new \in SUBSET Line
    BY DEF TypeOK
  <2>3. staged \in [new -> Row]
    BY <2>1
  <2>4. Write(s, staged, NULL, NULL)
    BY <1>5 DEF StageRawLines
  <2> HIDE DEF new, staged
  <2> QED  BY <1>5, <2>2, <2>3, <2>4, WriteType DEF StageRawLines, TypeOK
<1>6. ASSUME NEW s \in Sync, StartAutoMatch(s) PROVE TypeOK'
  BY <1>6 DEF StartAutoMatch, Unclassified, store, TypeOK
<1>7. ASSUME NEW s \in Sync, StartPosting(s) PROVE TypeOK'
  <2>1. [l \in Line |-> IF l \in Pending(s) THEN View(s, l) ELSE NoRow] \in [Line -> Row]
    BY ViewType, NoRowType
  <2>2. Pending(s) \subseteq Line
    BY DEF Pending
  <2> QED  BY <1>7, <2>1, <2>2 DEF StartPosting, store, TypeOK
<1>8. ASSUME NEW s \in Sync, ClaimPair(s) PROVE TypeOK'
  <2> DEFINE l == pick[s].row
             m == pick[s].match
             e == pick[s].entry
             claimed == [View(s, l) EXCEPT !.paired = m]
             mine == IF e = NULL THEN Settled(claimed, l, <<"internal_transfer">>)
                                 ELSE Settled(claimed, e, <<>>)
             theirs == [View(s, m) EXCEPT !.paired = l]
             new == [k \in {l, m} |-> IF k = l THEN mine ELSE theirs]
  <2>1. l \in Line /\ m \in Line /\ e \in Line \cup Withdrawal \cup {NULL}
    BY <1>8 DEF ClaimPair, TypeOK
  <2>2. View(s, l) \in Row /\ View(s, m) \in Row
    BY <2>1, ViewType
  <2>3. claimed \in Row /\ theirs \in Row
    BY <2>1, <2>2 DEF Row
  <2>4. <<"internal_transfer">> \in Seq(Category) /\ <<>> \in Seq(Category)
    BY DEF Category
  <2>5. mine \in Row
    <3> HIDE DEF claimed, l, m, e
    <3> QED  BY <2>1, <2>3, <2>4, SettledType
  <2>6. Write(s, new, NULL, NULL)
    BY <1>8 DEF ClaimPair
  <2>7. new \in [{l, m} -> Row] /\ {l, m} \in SUBSET Line
    <3> HIDE DEF mine, theirs, l, m
    <3> QED  BY <2>1, <2>3, <2>5
  <2>8. UNCHANGED <<uploaded, holder, pc, snap>> /\ pick' = [pick EXCEPT ![s] = NULL]
        /\ Drop(s, l)
    BY <1>8 DEF ClaimPair
  <2> HIDE DEF new, l, m
  <2> QED  BY <2>6, <2>7, <2>8, WriteType DEF Drop, TypeOK
<1>9. ASSUME NEW s \in Sync, NEW l \in Line, AutoMatchRow(s, l) PROVE TypeOK'
  <2>1. CASE RuleOutcomes(s, l) = {} /\ UNCHANGED store
    BY <1>9, <2>1 DEF AutoMatchRow, Drop, store, TypeOK
  <2>2. ASSUME NEW o \in RuleOutcomes(s, l),
               Write(s, [m \in {l} |-> [o.row EXCEPT !.status = "matched"]], o.resource, l)
        PROVE  TypeOK'
    <3>1. o.row \in Row /\ o.resource \in Resource \cup {NULL}
      BY RuleType
    <3>2. [o.row EXCEPT !.status = "matched"] \in Row
      BY <3>1 DEF Row
    <3> DEFINE new == [m \in {l} |-> [o.row EXCEPT !.status = "matched"]]
    <3>3. new \in [{l} -> Row] /\ {l} \in SUBSET Line
      BY <3>2
    <3>4. Write(s, new, o.resource, l)
      BY <2>2
    <3> HIDE DEF new
    <3> QED  BY <1>9, <3>1, <3>3, <3>4, WriteType DEF AutoMatchRow, Drop, TypeOK
  <2> QED  BY <1>9, <2>1, <2>2 DEF AutoMatchRow
<1>10. ASSUME NEW s \in Sync, NEW l \in Line, FlagRow(s, l) PROVE TypeOK'
  <2> DEFINE why == Refusal(s, l, snap[s][l])
  <2>1. why \in Reason /\ View(s, l) \in Row
    BY <1>10, RefusalType, ViewType DEF FlagRow
  <2> HIDE DEF why
  <2>2. Flagged(View(s, l), why) \in Row
    BY <2>1, FlaggedType
  <2>3. WriteRow(s, l, Flagged(View(s, l), why))
    BY <1>10 DEF FlagRow, why
  <2> QED  BY <1>10, <2>2, <2>3, WriteRowType DEF FlagRow, Drop, TypeOK
<1>11. ASSUME NEW s \in Sync, NEW l \in Line, SkipRow(s, l) PROVE TypeOK'
  BY <1>11 DEF SkipRow, Drop, store, TypeOK
<1>12. ASSUME NEW s \in Sync, NEW l \in Line, PostRow(s, l) PROVE TypeOK'
  <2> DEFINE c == snap[s][l].category
             new == [m \in {l} |-> Settled(View(s, l), l, <<c>>)]
  <2>1. snap[s][l] \in Row /\ View(s, l) \in Row
    BY ViewType DEF TypeOK
  <2>2. c \in Category
    BY <1>12, <2>1 DEF PostRow, Ordinary, Row
  <2>3. <<c>> \in Seq(Category)
    BY <2>2
  <2>4. Settled(View(s, l), l, <<c>>) \in Row
    BY <2>1, <2>3, SettledType
  <2>5. new \in [{l} -> Row] /\ {l} \in SUBSET Line
    BY <2>4
  <2>6. PICK x \in Resource \cup {NULL}, a \in Line \cup {NULL} : Write(s, new, x, a)
    BY <1>12 DEF PostRow, Owed, Resource
  <2> HIDE DEF new
  <2> QED  BY <1>12, <2>5, <2>6, WriteType DEF PostRow, Drop, TypeOK
<1>13. ASSUME NEW s \in Sync, NEW l \in Line, LinkLanding(s, l) PROVE TypeOK'
  <2> DEFINE w == snap[s][l].withdrawal
  <2>1. snap[s][l] \in Row /\ View(s, l) \in Row
    BY ViewType DEF TypeOK
  <2>2. w \in Withdrawal
    BY <1>13, <2>1 DEF LinkLanding, Row
  <2>3. Settled(View(s, l), w, <<>>) \in Row
    BY <2>1, <2>2, LinkedType
  <2>4. WriteRow(s, l, Settled(View(s, l), w, <<>>))
    BY <1>13 DEF LinkLanding
  <2> QED  BY <1>13, <2>3, <2>4, WriteRowType DEF LinkLanding, Drop, TypeOK
<1>14. ASSUME NEW s \in Sync, NEW l \in Line, LinkPair(s, l) PROVE TypeOK'
  <2> DEFINE e == View(s, View(s, l).paired).entry
  <2>1. View(s, l) \in Row
    BY ViewType
  <2>2. View(s, l).paired \in Line
    BY <1>14, <2>1 DEF LinkPair, Row
  <2>3. e \in Line \cup Withdrawal \cup {NULL}
    BY <2>2, ViewType DEF Row
  <2>4. Settled(View(s, l), e, <<>>) \in Row
    BY <2>1, <2>3, LinkedType
  <2>5. WriteRow(s, l, Settled(View(s, l), e, <<>>))
    BY <1>14 DEF LinkPair
  <2> QED  BY <1>14, <2>4, <2>5, WriteRowType DEF LinkPair, Drop, TypeOK
<1>15. ASSUME NEW s \in Sync, NEW l \in Line, PickCounterpart(s, l) PROVE TypeOK'
  <2>1. PICK m \in Unclaimed(s, l) :
           pick' = [pick EXCEPT ![s] = [row |-> l, match |-> m, entry |-> View(s, m).entry]]
    BY <1>15 DEF PickCounterpart
  <2>2. m \in Line
    BY LineAssumption DEF Unclaimed, OtherEnd
  <2>3. View(s, m).entry \in Line \cup Withdrawal \cup {NULL}
    BY <2>2, ViewType DEF Row
  <2> QED  BY <1>15, <2>1, <2>2, <2>3 DEF PickCounterpart, store, TypeOK
<1>16. ASSUME NEW s \in Sync, Finish(s)
       PROVE  /\ uploaded' \subseteq Line
              /\ writer' \in [Line \cup Resource -> Sync \cup {NULL}]
              /\ holder' \in Sync \cup {NULL}
              /\ pc' \in [Sync -> {"idle", "stage", "staged", "match", "post"}]
              /\ todo' \in [Sync -> SUBSET Line]
              /\ snap' \in [Sync -> [Line -> Row]]
              /\ pick' \in [Sync -> {NULL} \cup [row : Line, match : Line,
                                                entry : Line \cup Withdrawal \cup {NULL}]]
              /\ \A x \in Line \cup Resource :
                    writer'[x] = NULL <=> writer[x] \in {NULL, s}
  <2>1. snap' \in [Sync -> [Line -> Row]]
    BY <1>16, NoRowType DEF Finish, TypeOK
  <2> QED  BY <1>16, <2>1, NullAssumption DEF Finish, TypeOK
<1>17. ASSUME NEW s \in Sync, Commit(s) PROVE TypeOK'
  <2>1. rows' = [l \in Line |-> View(s, l)] /\ claims' = [x \in Resource |-> Claimant(s, x)]
        /\ Finish(s) /\ UNCHANGED <<draft, claimDraft>>
    BY <1>17 DEF Commit
  <2>2. rows' \in [Line -> Row] /\ claims' \in [Resource -> Line \cup {NULL}]
    BY <2>1, ViewType, ClaimantType
  <2>3. ASSUME NEW l \in Line, writer'[l] = NULL PROVE draft'[l] = rows'[l]
    BY <1>16, <2>1, <2>3 DEF View, TypeOK
  <2> QED  BY <1>16, <2>1, <2>2, <2>3 DEF TypeOK
<1>18. ASSUME NEW s \in Sync, Rollback(s) PROVE TypeOK'
  <2>1. Finish(s) /\ UNCHANGED <<rows, claims>>
        /\ draft' = [l \in Line |-> IF writer[l] = s THEN rows[l] ELSE draft[l]]
        /\ claimDraft' = [x \in Resource |-> IF writer[x] = s THEN claims[x] ELSE claimDraft[x]]
    BY <1>18 DEF Rollback
  <2>2. draft' \in [Line -> Row] /\ claimDraft' \in [Resource -> Line \cup {NULL}]
    BY <2>1 DEF TypeOK
  <2>3. ASSUME NEW l \in Line, writer'[l] = NULL PROVE draft'[l] = rows'[l]
    BY <1>16, <2>1, <2>3 DEF TypeOK
  <2> QED  BY <1>16, <2>1, <2>2, <2>3 DEF TypeOK
<1>19. ASSUME NEW s \in Sync, NEW l \in Fragile, AttemptFails(s, l) PROVE TypeOK'
  <2>1. l \in Line /\ pick' = [pick EXCEPT ![s] = NULL] /\ Drop(s, l)
        /\ UNCHANGED <<uploaded, holder, pc, snap>>
    BY <1>19, LineAssumption DEF AttemptFails
  <2> DEFINE row == Flagged(View(s, l), "error")
  <2>2. row \in Row
    BY <2>1, ViewType, FlaggedType DEF Reason
  <2>3. WriteRow(s, l, row)
    BY <1>19 DEF AttemptFails, Undone, WriteRow
  <2> HIDE DEF row
  <2> QED  BY <2>1, <2>2, <2>3, WriteRowType DEF Drop, TypeOK
<1> QED  BY <1>1, <1>2, <1>3, <1>4, <1>5, <1>6, <1>7, <1>8, <1>9, <1>10, <1>11, <1>12,
            <1>13, <1>14, <1>15, <1>17, <1>18, <1>19
         DEF Next, Orderly, Failure, Human, Advance, Visit

\* Every reachable state has the types TypeOK gives, whatever the lines, callers
\* and documents, and a row no transaction has locked has one version.
THEOREM TypeCorrect == Spec => []TypeOK
<1> QED  BY TypeInit, TypeStep, PTL DEF Spec

-----------------------------------------------------------------------------
(* The inductive invariant behind PostedOnce and SweepBookedOnce.  Neither   *)
(* is inductive: they speak of the committed rows, and a commit publishes    *)
(* the drafts; a draft is sound because the lock lets one transaction write, *)
(* because a row still to be visited is not posted, and because nothing but  *)
(* the claim itself pairs the row and the counterpart it selected.           *)

\* One transaction at a time runs, and only it holds row locks.
OneWriter ==
    /\ \A s \in Sync : pc[s] # "idle" => holder = s
    /\ \A x \in Line \cup Resource : writer[x] # NULL => writer[x] = holder

\* A version of the queue: staged rows only are booked or paired, a row's own
\* entry is the one it is linked to, and pairing is mutual and books once.
StagedFirst(q) ==
    \A l \in Line : q[l].status = "absent" =>
        q[l].posts = <<>> /\ q[l].entry = NULL /\ q[l].paired = NULL

OwnEntry(q) ==
    \A l \in Line : q[l].posts # <<>> => Len(q[l].posts) = 1 /\ q[l].entry = l

Transfer == <<"internal_transfer">>

Mutual(q) ==
    \A l, m \in Line :
        q[l].paired = m =>
            q[m].paired = l /\ ~(q[l].posts = Transfer /\ q[m].posts = Transfer)

QueueOK(q) == StagedFirst(q) /\ OwnEntry(q) /\ Mutual(q)

\* Rows the posting loop has still to visit are staged and not posted.
StillPending ==
    \A s \in Sync : pc[s] = "post" =>
        \A l \in todo[s] : draft[l].entry = NULL /\ draft[l].status # "absent"

\* What _post_internal_transfer read of the two sides still holds.
PickStands ==
    \A s \in Sync : pick[s] # NULL =>
        /\ pc[s] = "post" /\ pick[s].row \in todo[s] /\ pick[s].row # pick[s].match
        /\ draft[pick[s].row].paired = NULL
        /\ draft[pick[s].match].paired = NULL
        /\ draft[pick[s].match].status # "absent"
        /\ pick[s].entry = draft[pick[s].match].entry

IInv == TypeOK /\ OneWriter /\ QueueOK(rows) /\ QueueOK(draft) /\ StillPending /\ PickStands

-----------------------------------------------------------------------------
(* Lemmas about versions of the queue. *)

\* Changes that leave entries, posts and pairing alone keep a version sound.
LEMMA KeptQueue ==
    ASSUME NEW q \in [Line -> Row], NEW q2 \in [Line -> Row], QueueOK(q),
           \A l \in Line : /\ q2[l].posts = q[l].posts
                           /\ q2[l].entry = q[l].entry
                           /\ q2[l].paired = q[l].paired
                           /\ q2[l].status = "absent" => q[l].status = "absent"
    PROVE  QueueOK(q2)
BY DEF QueueOK, StagedFirst, OwnEntry, Mutual

\* A row not posted yet has posted nothing.
LEMMA NothingYet ==
    ASSUME NEW q \in [Line -> Row], QueueOK(q), NEW l \in Line, q[l].entry = NULL
    PROVE  q[l].posts = <<>>
BY NullAssumption DEF QueueOK, OwnEntry

LEMMA AppendToNone == ASSUME NEW t PROVE <<>> \o <<t>> = <<t>>
OBVIOUS

\* Settling one pending row with an entry of its own that is no transfer, or
\* by a link, keeps a version sound.
LEMMA SettledQueue ==
    ASSUME NEW q \in [Line -> Row], NEW q2 \in [Line -> Row], QueueOK(q),
           NEW l \in Line, q[l].entry = NULL,
           \A k \in Line \ {l} : q2[k] = q[k],
           q2[l].status # "absent", q2[l].paired = q[l].paired,
           \/ q2[l].posts = <<>>
           \/ Len(q2[l].posts) = 1 /\ q2[l].posts # Transfer /\ q2[l].entry = l
    PROVE  QueueOK(q2)
<1>1. StagedFirst(q2)
  BY DEF QueueOK, StagedFirst
<1>2. OwnEntry(q2)
  BY DEF QueueOK, OwnEntry
<1>3. <<>> # Transfer
  BY DEF Transfer
<1>4. Mutual(q2)
  BY <1>3 DEF QueueOK, Mutual
<1> QED  BY <1>1, <1>2, <1>4 DEF QueueOK

\* Pairing a pending row with a counterpart that nobody has claimed, and
\* booking the transfer unless the counterpart is booked, keeps it sound.
LEMMA PairedQueue ==
    ASSUME NEW q \in [Line -> Row], NEW q2 \in [Line -> Row], QueueOK(q),
           NEW l \in Line, NEW m \in Line, l # m,
           q[l].entry = NULL, q[l].paired = NULL, q[m].paired = NULL,
           \A k \in Line \ {l, m} : q2[k] = q[k],
           q2[l].status # "absent", q2[m].status # "absent",
           q2[l].paired = m, q2[m].paired = l,
           q2[m].posts = q[m].posts, q2[m].entry = q[m].entry,
           \/ q2[l].posts = <<>>
           \/ q[m].entry = NULL /\ Len(q2[l].posts) = 1 /\ q2[l].entry = l
    PROVE  QueueOK(q2)
<1>1. StagedFirst(q2)
  BY DEF QueueOK, StagedFirst
<1>2. OwnEntry(q2)
  BY DEF QueueOK, OwnEntry
<1>3. <<>> # Transfer /\ NULL \notin Line
  BY NullAssumption DEF Transfer
<1>4. ~(q2[l].posts = Transfer /\ q2[m].posts = Transfer)
  BY <1>3, NothingYet
<1>5. ASSUME NEW k \in Line PROVE q[k].paired \notin {l, m}
  <2>1. q[k].paired = l => q[l].paired = k
    BY DEF QueueOK, Mutual
  <2>2. q[k].paired = m => q[m].paired = k
    BY DEF QueueOK, Mutual
  <2> QED  BY <1>3, <2>1, <2>2
<1>6. ASSUME NEW a \in Line, NEW b \in Line, q2[a].paired = b
      PROVE  q2[b].paired = a /\ ~(q2[a].posts = Transfer /\ q2[b].posts = Transfer)
  <2>1. CASE a \in {l, m}
    BY <1>4, <1>6, <2>1
  <2>2. CASE a \notin {l, m}
    <3>1. q[a].paired = b /\ b \notin {l, m}
      BY <1>5, <1>6, <2>2
    <3> QED  BY <2>2, <3>1 DEF QueueOK, Mutual
  <2> QED  BY <2>1, <2>2
<1> QED  BY <1>1, <1>2, <1>6 DEF QueueOK, Mutual

-----------------------------------------------------------------------------
(* Lemmas about the transaction that runs. *)

\* The transaction that runs sees its draft of every row.
LEMMA RunnerSees ==
    ASSUME TypeOK, OneWriter, NEW s \in Sync, pc[s] # "idle", NEW l \in Line
    PROVE  View(s, l) = draft[l]
BY NullAssumption DEF TypeOK, OneWriter, View

\* An attempt that fails flags a row the loop has still to visit, and that is all.
LEMMA AttemptFacts ==
    ASSUME TypeOK, OneWriter, PickStands, NEW s \in Sync, NEW l \in Fragile, AttemptFails(s, l)
    PROVE  /\ l \in Line /\ pc[s] = "post" /\ pc[s] # "idle" /\ l \in todo[s]
           /\ UNCHANGED <<uploaded, holder, pc, snap>> /\ Drop(s, l)
           /\ pick'[s] = NULL /\ \A t \in Sync \ {s} : pick'[t] = pick[t]
           /\ View(s, l) = draft[l] /\ draft[l] \in Row
           /\ Flagged(View(s, l), "error") \in Row
           /\ WriteRow(s, l, Flagged(View(s, l), "error"))
<1>1. l \in Line /\ UNCHANGED <<uploaded, holder, pc, snap>> /\ Drop(s, l)
      /\ pick' = [pick EXCEPT ![s] = NULL]
  BY LineAssumption DEF AttemptFails
<1>2. pc[s] = "post" /\ pc[s] # "idle" /\ l \in todo[s]
  BY DEF AttemptFails, Visiting, PickStands
<1>3. View(s, l) = draft[l] /\ draft[l] \in Row
  BY <1>1, <1>2, RunnerSees DEF TypeOK
<1>4. Flagged(View(s, l), "error") \in Row
  BY <1>3, FlaggedType DEF Reason
<1>5. WriteRow(s, l, Flagged(View(s, l), "error"))
  BY DEF AttemptFails, Undone, WriteRow
<1>6. pick'[s] = NULL /\ \A t \in Sync \ {s} : pick'[t] = pick[t]
  BY <1>1 DEF TypeOK
<1> QED  BY <1>1, <1>2, <1>3, <1>4, <1>5, <1>6

\* What its write does to the drafts and the locks.
LEMMA WriteDrafts ==
    ASSUME TypeOK, OneWriter, NEW s \in Sync, pc[s] # "idle",
           NEW D \in SUBSET Line, NEW new \in [D -> Row],
           NEW x \in Resource \cup {NULL}, NEW c, Write(s, new, x, c)
    PROVE  /\ \A l \in D : draft'[l] = new[l]
           /\ \A l \in Line \ D : draft'[l] = draft[l]
           /\ rows' = rows
           /\ \A y \in Line \cup Resource : writer'[y] \in {writer[y], s}
<1>1. DOMAIN new = D
  OBVIOUS
<1> QED  BY <1>1 DEF Write, TypeOK

\* A step of the transaction that runs keeps IInv if it keeps its own part.
LEMMA RunnerStep ==
    ASSUME IInv, TypeOK', NEW s \in Sync, pc[s] # "idle", holder' = holder, rows' = rows,
           \A t \in Sync \ {s} : pc'[t] = pc[t] /\ pick'[t] = pick[t],
           \A y \in Line \cup Resource : writer'[y] \in {writer[y], s},
           QueueOK(draft'),
           pc'[s] = "post" => \A l \in todo'[s] : draft'[l].entry = NULL /\ draft'[l].status # "absent",
           pick'[s] # NULL =>
              /\ pc'[s] = "post" /\ pick'[s].row \in todo'[s] /\ pick'[s].row # pick'[s].match
              /\ draft'[pick'[s].row].paired = NULL
              /\ draft'[pick'[s].match].paired = NULL
              /\ draft'[pick'[s].match].status # "absent"
              /\ pick'[s].entry = draft'[pick'[s].match].entry
    PROVE  IInv'
<1>1. holder = s
  BY DEF IInv, OneWriter
<1>2. \A t \in Sync \ {s} : pc[t] = "idle" /\ pick[t] = NULL
  BY <1>1 DEF IInv, OneWriter, PickStands
<1>3. OneWriter'
  BY <1>1, <1>2 DEF IInv, OneWriter
<1>4. StillPending'
  BY <1>2 DEF StillPending
<1>5. PickStands'
  BY <1>2 DEF PickStands
<1>6. QueueOK(rows)' /\ QueueOK(draft)'
  BY DEF IInv, QueueOK, StagedFirst, OwnEntry, Mutual
<1> QED  BY <1>3, <1>4, <1>5, <1>6 DEF IInv

\* No rule touches the columns of a row that say what it booked.
LEMMA RuleKeeps ==
    ASSUME TypeOK, NEW s \in Sync, NEW l \in Line, NEW o \in RuleOutcomes(s, l)
    PROVE  /\ o.row.posts = View(s, l).posts
           /\ o.row.entry = View(s, l).entry
           /\ o.row.paired = View(s, l).paired
<1> DEFINE rule == <<RuleA(s, l), RuleB(s, l), RuleCLanding(s, l),
                     RuleCSweep(s, l), RuleD(s, l), RuleE(s, l)>>
           v == View(s, l)
<1>1. PICK i \in 1..6 : o \in rule[i]
  BY DEF RuleOutcomes
<1>2. v \in Row
  BY ViewType
<1> SUFFICES o.row.posts = v.posts /\ o.row.entry = v.entry /\ o.row.paired = v.paired
  OBVIOUS
<1> HIDE DEF v, rule
<1>3. CASE o \in RuleA(s, l)
  <2>1. PICK p \in Payout : o = [row |-> [v EXCEPT !.category = "revenue_settlement", !.account = TRUE], resource |-> p]
    BY <1>3 DEF RuleA, v
  <2> DEFINE row == [v EXCEPT !.category = "revenue_settlement", !.account = TRUE]
  <2>2. row.posts = v.posts /\ row.entry = v.entry /\ row.paired = v.paired
    BY <1>2 DEF Row
  <2>3. o = [row |-> row, resource |-> p]
    BY <2>1
  <2> HIDE DEF row
  <2> QED  BY <2>2, <2>3
<1>4. CASE o \in RuleB(s, l)
  <2>1. PICK bill \in Invoice : o = [row |-> [v EXCEPT !.category = Purpose[bill], !.invoice = bill, !.ref = "text"], resource |-> NULL]
    BY <1>4 DEF RuleB, v
  <2> DEFINE row == [v EXCEPT !.category = Purpose[bill], !.invoice = bill, !.ref = "text"]
  <2>2. row.posts = v.posts /\ row.entry = v.entry /\ row.paired = v.paired
    BY <1>2 DEF Row
  <2>3. o = [row |-> row, resource |-> NULL]
    BY <2>1
  <2> HIDE DEF row
  <2> QED  BY <2>2, <2>3
<1>5. CASE o \in RuleCLanding(s, l)
  <2>1. PICK w \in Withdrawal : o = [row |-> [v EXCEPT !.category = "internal_transfer_landing", !.withdrawal = w], resource |-> w]
    BY <1>5 DEF RuleCLanding, v, Landings
  <2> DEFINE row == [v EXCEPT !.category = "internal_transfer_landing", !.withdrawal = w]
  <2>2. row.posts = v.posts /\ row.entry = v.entry /\ row.paired = v.paired
    BY <1>2 DEF Row
  <2>3. o = [row |-> row, resource |-> w]
    BY <2>1
  <2> HIDE DEF row
  <2> QED  BY <2>2, <2>3
<1>6. CASE o \in RuleCSweep(s, l)
  <2>1. PICK m \in Line : o = [row |-> [v EXCEPT !.category = "internal_transfer"], resource |-> NULL]
    BY <1>6 DEF RuleCSweep, v, OtherEnd
  <2> DEFINE row == [v EXCEPT !.category = "internal_transfer"]
  <2>2. row.posts = v.posts /\ row.entry = v.entry /\ row.paired = v.paired
    BY <1>2 DEF Row
  <2>3. o = [row |-> row, resource |-> NULL]
    BY <2>1
  <2> HIDE DEF row
  <2> QED  BY <2>2, <2>3
<1>7. CASE o \in RuleD(s, l)
  <2>1. PICK a \in Sale : o = [row |-> [v EXCEPT !.category = "consignment_payout", !.ref = a], resource |-> NULL]
    BY <1>7 DEF RuleD, v
  <2> DEFINE row == [v EXCEPT !.category = "consignment_payout", !.ref = a]
  <2>2. row.posts = v.posts /\ row.entry = v.entry /\ row.paired = v.paired
    BY <1>2 DEF Row
  <2>3. o = [row |-> row, resource |-> NULL]
    BY <2>1
  <2> HIDE DEF row
  <2> QED  BY <2>2, <2>3
<1>8. CASE o \in RuleE(s, l)
  <2>1. PICK k \in Keyword : o = [row |-> [v EXCEPT !.category = k[2]], resource |-> NULL]
    BY <1>8 DEF RuleE, v
  <2> DEFINE row == [v EXCEPT !.category = k[2]]
  <2>2. row.posts = v.posts /\ row.entry = v.entry /\ row.paired = v.paired
    BY <1>2 DEF Row
  <2>3. o = [row |-> row, resource |-> NULL]
    BY <2>1
  <2> HIDE DEF row
  <2> QED  BY <2>2, <2>3
<1>9. o \in RuleA(s, l) \/ o \in RuleB(s, l) \/ o \in RuleCLanding(s, l)
      \/ o \in RuleCSweep(s, l) \/ o \in RuleD(s, l) \/ o \in RuleE(s, l)
  BY <1>1 DEF rule
<1> QED  BY <1>9, <1>3, <1>4, <1>5, <1>6, <1>7, <1>8

LEMMA SettledFields ==
    ASSUME NEW row \in Row, NEW e, NEW made
    PROVE  /\ Settled(row, e, made).posts = row.posts \o made
           /\ Settled(row, e, made).entry = e
           /\ Settled(row, e, made).paired = row.paired
           /\ Settled(row, e, made).status = "matched"
BY DEF Settled, Row

LEMMA PairedFields ==
    ASSUME NEW row \in Row, NEW m \in Line \cup {NULL}
    PROVE  /\ [row EXCEPT !.paired = m] \in Row
           /\ [row EXCEPT !.paired = m].posts = row.posts
           /\ [row EXCEPT !.paired = m].entry = row.entry
           /\ [row EXCEPT !.paired = m].paired = m
           /\ [row EXCEPT !.paired = m].status = row.status
BY DEF Row

LEMMA FlaggedFields ==
    ASSUME NEW row \in Row, NEW reason
    PROVE  /\ Flagged(row, reason).posts = row.posts
           /\ Flagged(row, reason).entry = row.entry
           /\ Flagged(row, reason).paired = row.paired
           /\ Flagged(row, reason).status = "needs_review"
BY DEF Flagged, Row

LEMMA LabelledFields ==
    ASSUME NEW row \in Row, NEW c, NEW ref, NEW acct
    PROVE  /\ Labelled(row, c, ref, acct).posts = row.posts
           /\ Labelled(row, c, ref, acct).entry = row.entry
           /\ Labelled(row, c, ref, acct).paired = row.paired
           /\ Labelled(row, c, ref, acct).status = row.status
BY DEF Labelled, Row

-----------------------------------------------------------------------------
(* The invariant holds at the start and every step keeps it. *)

LEMMA InvInit == Init => IInv
<1> SUFFICES ASSUME Init PROVE IInv
  OBVIOUS
<1>1. TypeOK
  BY TypeInit
<1>2. rows = [l \in Line |-> NoRow] /\ draft = rows
  BY DEF Init
<1>3. /\ NoRow.posts = <<>> /\ NoRow.entry = NULL /\ NoRow.paired = NULL
  BY DEF NoRow
<1>4. QueueOK(rows)
  BY <1>2, <1>3, NullAssumption DEF QueueOK, StagedFirst, OwnEntry, Mutual
<1>5. OneWriter /\ StillPending /\ PickStands
  BY DEF Init, OneWriter, StillPending, PickStands
<1> QED  BY <1>1, <1>2, <1>4, <1>5 DEF IInv

\* The write of a visit: one row, and possibly what consumes a resource.
RowWrite(s, l, row) ==
    \E x \in Resource \cup {NULL}, c \in Line \cup {NULL} : Write(s, [m \in {l} |-> row], x, c)

LEMMA VisitDrafts ==
    ASSUME TypeOK, OneWriter, NEW s \in Sync, NEW l \in Line, pc[s] # "idle",
           NEW row \in Row, RowWrite(s, l, row)
    PROVE  /\ draft'[l] = row
           /\ \A k \in Line \ {l} : draft'[k] = draft[k]
           /\ rows' = rows
           /\ \A y \in Line \cup Resource : writer'[y] \in {writer[y], s}
<1> DEFINE new == [m \in {l} |-> row]
<1>1. new \in [{l} -> Row] /\ {l} \in SUBSET Line /\ new[l] = row
  OBVIOUS
<1>2. PICK x \in Resource \cup {NULL}, c \in Line \cup {NULL} : Write(s, new, x, c)
  BY DEF RowWrite
<1> HIDE DEF new
<1> QED  BY <1>1, <1>2, WriteDrafts

\* A visit that rewrites one row keeps IInv if it keeps the drafts sound.
LEMMA VisitStep ==
    ASSUME IInv, TypeOK', NEW s \in Sync, NEW l \in Line,
           pc[s] \in {"match", "post"}, pick'[s] = NULL, \A t \in Sync \ {s} : pick'[t] = pick[t],
           UNCHANGED <<holder, pc>>, Drop(s, l),
           NEW row \in Row, RowWrite(s, l, row),
           QueueOK(draft')
    PROVE  IInv'
<1>1. TypeOK /\ OneWriter /\ pc[s] # "idle"
  BY DEF IInv
<1>2. /\ \A k \in Line \ {l} : draft'[k] = draft[k]
      /\ rows' = rows
      /\ \A y \in Line \cup Resource : writer'[y] \in {writer[y], s}
  BY <1>1, VisitDrafts
<1>3. todo'[s] = todo[s] \ {l} /\ pc' = pc
  BY <1>1 DEF Drop, TypeOK
<1>4. \A k \in todo'[s] : k \in todo[s] /\ draft'[k] = draft[k]
  BY <1>1, <1>2, <1>3 DEF TypeOK
<1>5. pc'[s] = "post" =>
        \A k \in todo'[s] : draft'[k].entry = NULL /\ draft'[k].status # "absent"
  BY <1>3, <1>4 DEF IInv, StillPending
<1> QED  BY <1>1, <1>2, <1>3, <1>5, RunnerStep

\* A visit that keeps what the row booked.
LEMMA KeepingVisit ==
    ASSUME IInv, TypeOK', NEW s \in Sync, NEW l \in Line,
           pc[s] \in {"match", "post"}, pick'[s] = NULL, \A t \in Sync \ {s} : pick'[t] = pick[t],
           UNCHANGED <<holder, pc>>, Drop(s, l),
           NEW row \in Row, RowWrite(s, l, row),
           row.posts = View(s, l).posts, row.entry = View(s, l).entry,
           row.paired = View(s, l).paired, row.status # "absent"
    PROVE  IInv'
<1>1. TypeOK /\ OneWriter /\ pc[s] # "idle" /\ QueueOK(draft)
  BY DEF IInv
<1>2. View(s, l) = draft[l]
  BY <1>1, RunnerSees
<1>3. draft'[l] = row /\ \A k \in Line \ {l} : draft'[k] = draft[k]
  BY <1>1, VisitDrafts
<1>4. draft \in [Line -> Row] /\ draft' \in [Line -> Row]
  BY DEF IInv, TypeOK
<1>5. QueueOK(draft')
  BY <1>1, <1>2, <1>3, <1>4, KeptQueue
<1> QED  BY <1>5, VisitStep

\* A visit that settles the row: with one entry of its own, or with a link.
LEMMA SettlingVisit ==
    ASSUME IInv, TypeOK', NEW s \in Sync, NEW l \in Line, Visiting(s, l),
           UNCHANGED <<holder, pc, pick>>, Drop(s, l),
           NEW row \in Row, RowWrite(s, l, row),
           NEW made \in Seq(Category), row.posts = View(s, l).posts \o made,
           row.paired = View(s, l).paired, row.status # "absent",
           \/ made = <<>>
           \/ row.entry = l /\ \E k \in Category \ {"internal_transfer"} : made = <<k>>
    PROVE  IInv'
<1>1. TypeOK /\ OneWriter /\ pc[s] = "post" /\ pick[s] = NULL /\ l \in todo[s] /\ QueueOK(draft)
  BY DEF IInv, Visiting
<1>2. View(s, l) = draft[l]
  BY <1>1, RunnerSees
<1>3. draft'[l] = row /\ \A k \in Line \ {l} : draft'[k] = draft[k]
  <2>1. TypeOK /\ OneWriter /\ pc[s] # "idle"
    BY <1>1
  <2> QED  BY <2>1, VisitDrafts
<1>4. draft \in [Line -> Row] /\ draft' \in [Line -> Row]
  BY DEF IInv, TypeOK
<1>5. draft[l].entry = NULL
  BY <1>1 DEF IInv, StillPending
<1>6. draft[l].posts = <<>>
  BY <1>1, <1>4, <1>5, NothingYet
<1>7. row.posts = made
  BY <1>2, <1>6, ConcatEmptySeq
<1>8. \/ row.posts = <<>>
      \/ Len(row.posts) = 1 /\ row.posts # Transfer /\ row.entry = l
  BY <1>7 DEF Transfer
<1>9. QueueOK(draft')
  BY <1>1, <1>2, <1>3, <1>4, <1>5, <1>8, SettledQueue
<1>10. pick'[s] = NULL /\ \A t \in Sync \ {s} : pick'[t] = pick[t]
  BY <1>1
<1> QED  BY <1>1, <1>9, <1>10, VisitStep

LEMMA InvStep == IInv /\ [Next]_vars => IInv'
<1> SUFFICES ASSUME IInv, [Next]_vars PROVE IInv'
  OBVIOUS
<1>0. TypeOK /\ TypeOK' /\ OneWriter /\ QueueOK(rows) /\ QueueOK(draft)
      /\ rows \in [Line -> Row] /\ draft \in [Line -> Row]
      /\ rows' \in [Line -> Row] /\ draft' \in [Line -> Row]
  BY TypeStep DEF IInv, TypeOK
<1>1. CASE UNCHANGED vars
  <2>1. QueueOK(rows)' /\ QueueOK(draft)'
    BY <1>0, <1>1 DEF vars, QueueOK, StagedFirst, OwnEntry, Mutual
  <2> QED  BY <1>0, <1>1, <2>1 DEF vars, IInv, OneWriter, StillPending, PickStands
<1>2. ASSUME NEW l \in Line, Upload(l) PROVE IInv'
  <2>1. QueueOK(rows)' /\ QueueOK(draft)'
    BY <1>0, <1>2 DEF Upload, store, QueueOK, StagedFirst, OwnEntry, Mutual
  <2> QED  BY <1>0, <1>2, <2>1 DEF Upload, store, IInv, OneWriter, StillPending, PickStands
<1>3. ASSUME NEW l \in Line, NEW c \in HumanLabel, NEW ref \in HumanRef \cup {NULL},
             NEW acct \in BOOLEAN, LabelRow(l, c, ref, acct)
      PROVE  IInv'
  <2> DEFINE row == Labelled(rows[l], c, ref, acct)
  <2>1. /\ row.posts = rows[l].posts /\ row.entry = rows[l].entry
        /\ row.paired = rows[l].paired /\ row.status = rows[l].status
    BY <1>0, LabelledFields
  <2>2. /\ rows' = [rows EXCEPT ![l] = row] /\ draft' = [draft EXCEPT ![l] = row]
        /\ draft[l] = rows[l]
    BY <1>0, <1>3 DEF LabelRow, TypeOK
  <2> HIDE DEF row
  <2>3. \A k \in Line :
           /\ rows'[k].posts = rows[k].posts /\ rows'[k].entry = rows[k].entry
           /\ rows'[k].paired = rows[k].paired /\ rows'[k].status = rows[k].status
    BY <1>0, <2>1, <2>2
  <2>4. \A k \in Line :
           /\ draft'[k].posts = draft[k].posts /\ draft'[k].entry = draft[k].entry
           /\ draft'[k].paired = draft[k].paired /\ draft'[k].status = draft[k].status
    BY <1>0, <2>1, <2>2
  <2>5. QueueOK(rows') /\ QueueOK(draft')
    BY <1>0, <2>3, <2>4, KeptQueue
  <2>6. QueueOK(rows)' /\ QueueOK(draft)'
    BY <2>5 DEF QueueOK, StagedFirst, OwnEntry, Mutual
  <2>7. UNCHANGED <<writer, holder, pc, todo, pick>>
    BY <1>3 DEF LabelRow
  <2>8. OneWriter'
    BY <1>0, <2>7 DEF OneWriter
  <2>9. StillPending'
    BY <1>0, <2>4, <2>7 DEF StillPending, IInv, TypeOK
  <2>10. PickStands'
    <3>1. ASSUME NEW s \in Sync, pick[s] # NULL
          PROVE  pick[s].row \in Line /\ pick[s].match \in Line
      BY <1>0, <3>1 DEF TypeOK
    <3> QED  BY <2>4, <2>7, <3>1 DEF PickStands, IInv
  <2> QED  BY <1>0, <2>6, <2>8, <2>9, <2>10 DEF IInv

<1>4. ASSUME NEW s \in Sync, Begin(s) PROVE IInv'
  <2>1. QueueOK(rows)' /\ QueueOK(draft)'
    BY <1>0, <1>4 DEF Begin, store, QueueOK, StagedFirst, OwnEntry, Mutual
  <2>2. holder = NULL /\ holder' = s /\ pc' = [pc EXCEPT ![s] = "stage"]
        /\ UNCHANGED <<draft, writer, todo, pick>>
    BY <1>4 DEF Begin, LockFree, store
  <2>3. \A t \in Sync : pc[t] = "idle" /\ pick[t] = NULL
    BY <2>2, NullAssumption DEF IInv, OneWriter, PickStands
  <2>4. OneWriter'
    BY <1>0, <2>2, <2>3 DEF OneWriter, TypeOK
  <2>5. StillPending' /\ PickStands'
    BY <1>0, <2>2, <2>3 DEF StillPending, PickStands, TypeOK
  <2> QED  BY <1>0, <2>1, <2>4, <2>5 DEF IInv
<1>5. ASSUME NEW s \in Sync, StageRawLines(s) PROVE IInv'
  <2> DEFINE new == {l \in uploaded : View(s, l).status = "absent"}
             fresh == [NoRow EXCEPT !.status = "needs_review"]
             staged == [l \in new |-> fresh]
  <2>1. fresh \in Row /\ fresh.posts = <<>> /\ fresh.entry = NULL /\ fresh.paired = NULL
        /\ fresh.status = "needs_review"
    BY NoRowType DEF Row, NoRow
  <2> HIDE DEF fresh
  <2>2. new \in SUBSET Line /\ staged \in [new -> Row] /\ \A l \in new : staged[l] = fresh
    BY <1>0, <2>1 DEF TypeOK
  <2>3. Write(s, staged, NULL, NULL)
    BY <1>5 DEF StageRawLines, fresh
  <2>4. pc[s] = "stage" /\ pc' = [pc EXCEPT ![s] = "staged"] /\ UNCHANGED <<holder, todo, pick>>
    BY <1>5 DEF StageRawLines
  <2>5. pc[s] # "idle"
    BY <2>4
  <2>6. \A l \in new : draft[l].status = "absent"
    BY <1>0, <2>2, <2>5, RunnerSees
  <2> HIDE DEF new, staged
  <2>7. /\ \A l \in new : draft'[l] = fresh
        /\ \A l \in Line \ new : draft'[l] = draft[l]
        /\ rows' = rows
        /\ \A y \in Line \cup Resource : writer'[y] \in {writer[y], s}
    BY <1>0, <2>2, <2>3, <2>5, WriteDrafts
  <2>8. \A l \in Line :
           /\ draft'[l].posts = draft[l].posts
           /\ draft'[l].entry = draft[l].entry
           /\ draft'[l].paired = draft[l].paired
           /\ draft'[l].status = "absent" => draft[l].status = "absent"
    BY <1>0, <2>1, <2>2, <2>6, <2>7 DEF QueueOK, StagedFirst
  <2>9. QueueOK(draft')
    <3>1. draft \in [Line -> Row] /\ draft' \in [Line -> Row] /\ QueueOK(draft)
      BY <1>0
    <3> QED  BY <2>8, <3>1, KeptQueue
  <2>10. pc'[s] = "staged" /\ pick'[s] = NULL
         /\ \A t \in Sync \ {s} : pc'[t] = pc[t] /\ pick'[t] = pick[t]
    BY <1>0, <2>4 DEF IInv, PickStands, TypeOK
  <2> QED  BY <1>0, <2>4, <2>5, <2>7, <2>9, <2>10, RunnerStep
<1>6. ASSUME NEW s \in Sync, StartAutoMatch(s) PROVE IInv'
  <2>1. pc[s] = "staged" /\ pc' = [pc EXCEPT ![s] = "match"]
        /\ UNCHANGED <<rows, draft, writer, holder, pick>>
    BY <1>6 DEF StartAutoMatch, store
  <2>2. pc[s] # "idle" /\ pc'[s] = "match" /\ pick'[s] = NULL /\ QueueOK(draft')
        /\ \A t \in Sync \ {s} : pc'[t] = pc[t] /\ pick'[t] = pick[t]
    BY <1>0, <2>1 DEF IInv, PickStands, TypeOK
  <2> QED  BY <1>0, <2>1, <2>2, RunnerStep
<1>7. ASSUME NEW s \in Sync, StartPosting(s) PROVE IInv'
  <2>1. pc[s] = "match" /\ pc' = [pc EXCEPT ![s] = "post"]
        /\ todo' = [todo EXCEPT ![s] = Pending(s)]
        /\ UNCHANGED <<rows, draft, writer, holder, pick>>
    BY <1>7 DEF StartPosting, store
  <2>2. pc[s] # "idle" /\ pick'[s] = NULL /\ QueueOK(draft')
        /\ \A t \in Sync \ {s} : pc'[t] = pc[t] /\ pick'[t] = pick[t]
    BY <1>0, <2>1 DEF IInv, PickStands, TypeOK
  <2>3. \A l \in todo'[s] : draft'[l].entry = NULL /\ draft'[l].status # "absent"
    <3>1. \A l \in Line : View(s, l) = draft[l]
      BY <1>0, <2>2, RunnerSees
    <3>2. todo'[s] = Pending(s)
      BY <1>0, <2>1 DEF TypeOK
    <3> QED  BY <2>1, <3>1, <3>2 DEF Pending
  <2> QED  BY <1>0, <2>1, <2>2, <2>3, RunnerStep
<1>8. ASSUME NEW s \in Sync, ClaimPair(s) PROVE IInv'
  <2> DEFINE l == pick[s].row
             m == pick[s].match
             e == pick[s].entry
             claimed == [View(s, l) EXCEPT !.paired = m]
             mine == IF e = NULL THEN Settled(claimed, l, Transfer)
                                 ELSE Settled(claimed, e, <<>>)
             theirs == [View(s, m) EXCEPT !.paired = l]
             new == [k \in {l, m} |-> IF k = l THEN mine ELSE theirs]
  <2>1. pick[s] # NULL /\ Write(s, new, NULL, NULL) /\ UNCHANGED <<holder, pc>>
        /\ pick' = [pick EXCEPT ![s] = NULL] /\ Drop(s, l)
    BY <1>8 DEF ClaimPair, Transfer
  <2>2. l \in Line /\ m \in Line /\ e \in Line \cup Withdrawal \cup {NULL}
    BY <1>0, <2>1 DEF TypeOK
  <2>3. /\ pc[s] = "post" /\ l \in todo[s] /\ l # m /\ draft[l].paired = NULL
        /\ draft[m].paired = NULL /\ draft[m].status # "absent" /\ e = draft[m].entry
    BY <2>1 DEF IInv, PickStands
  <2>4. pc[s] # "idle"
    BY <2>3
  <2>5. View(s, l) = draft[l] /\ View(s, m) = draft[m] /\ draft[l] \in Row /\ draft[m] \in Row
    BY <1>0, <2>2, <2>4, RunnerSees
  <2>6. draft[l].entry = NULL /\ draft[l].status # "absent"
    BY <2>3 DEF IInv, StillPending
  <2>7. draft[l].posts = <<>>
    BY <1>0, <2>2, <2>6, NothingYet
  <2> HIDE DEF l, m, e
  <2>8. claimed \in Row /\ claimed.posts = <<>> /\ claimed.paired = m
    BY <2>2, <2>5, <2>7, PairedFields
  <2>9. theirs \in Row /\ theirs.posts = draft[m].posts /\ theirs.entry = draft[m].entry
        /\ theirs.paired = l /\ theirs.status = draft[m].status
    BY <2>2, <2>5, PairedFields
  <2> HIDE DEF claimed, theirs
  <2>10. Transfer \in Seq(Category) /\ Len(Transfer) = 1
    BY DEF Transfer, Category
  <2>11. /\ mine \in Row /\ mine.paired = m /\ mine.status # "absent"
         /\ \/ mine.posts = <<>>
            \/ draft[m].entry = NULL /\ Len(mine.posts) = 1 /\ mine.entry = l
    <3>1. CASE e = NULL
      <4>1. mine = Settled(claimed, l, Transfer)
        BY <3>1
      <4>2. mine.posts = <<>> \o Transfer /\ mine.entry = l /\ mine.paired = m
            /\ mine.status = "matched" /\ mine \in Row
        BY <2>2, <2>8, <2>10, <4>1, SettledFields, SettledType
      <4>3. mine.posts = Transfer
        BY <2>10, <4>2, ConcatEmptySeq
      <4> QED  BY <2>3, <2>10, <3>1, <4>2, <4>3
    <3>2. CASE e # NULL
      <4>1. mine = Settled(claimed, e, <<>>)
        BY <3>2
      <4>2. mine.posts = <<>> \o <<>> /\ mine.paired = m
            /\ mine.status = "matched" /\ mine \in Row
        BY <2>2, <2>8, <4>1, SettledFields, LinkedType
      <4> QED  BY <4>2
    <3> QED  BY <3>1, <3>2
  <2> HIDE DEF mine
  <2>12. new \in [{l, m} -> Row] /\ {l, m} \in SUBSET Line /\ new[l] = mine /\ new[m] = theirs
    BY <2>2, <2>3, <2>9, <2>11
  <2> HIDE DEF new
  <2>13. /\ \A k \in {l, m} : draft'[k] = new[k]
         /\ \A k \in Line \ {l, m} : draft'[k] = draft[k]
         /\ rows' = rows
         /\ \A y \in Line \cup Resource : writer'[y] \in {writer[y], s}
    BY <1>0, <2>1, <2>4, <2>12, WriteDrafts
  <2>14. QueueOK(draft')
    BY <1>0, <2>2, <2>3, <2>6, <2>9, <2>11, <2>12, <2>13, PairedQueue
  <2>15. todo'[s] = todo[s] \ {l} /\ pick'[s] = NULL
         /\ \A t \in Sync \ {s} : pc'[t] = pc[t] /\ pick'[t] = pick[t]
    BY <1>0, <2>1 DEF Drop, TypeOK
  <2>16. \A k \in todo'[s] : draft'[k].entry = NULL /\ draft'[k].status # "absent"
    <3>1. \A k \in todo[s] : draft[k].entry = NULL /\ draft[k].status # "absent"
      BY <2>3 DEF IInv, StillPending
    <3>2. todo'[s] \subseteq Line \ {l} /\ todo'[s] \subseteq todo[s]
      BY <1>0, <2>15 DEF TypeOK
    <3>3. m \in todo[s] => draft'[m].entry = NULL /\ draft'[m].status # "absent"
      BY <2>9, <2>12, <2>13, <3>1
    <3> QED  BY <2>13, <3>1, <3>2, <3>3
  <2> QED  BY <1>0, <2>1, <2>4, <2>13, <2>14, <2>15, <2>16, RunnerStep
<1>9. ASSUME NEW s \in Sync, NEW l \in Line, AutoMatchRow(s, l) PROVE IInv'
  <2>1. pc[s] = "match" /\ pc[s] # "idle" /\ pick[s] = NULL
        /\ UNCHANGED <<holder, pc, pick>> /\ Drop(s, l)
    BY <1>9 DEF AutoMatchRow, IInv, PickStands
  <2>2. CASE UNCHANGED store
    <3>1. pc'[s] = "match" /\ pick'[s] = NULL /\ QueueOK(draft') /\ rows' = rows /\ writer' = writer
      BY <1>0, <2>1, <2>2 DEF store
    <3> QED  BY <1>0, <2>1, <3>1, RunnerStep
  <2>3. ASSUME NEW o \in RuleOutcomes(s, l),
               Write(s, [m \in {l} |-> [o.row EXCEPT !.status = "matched"]], o.resource, l)
        PROVE  IInv'
    <3> DEFINE row == [o.row EXCEPT !.status = "matched"]
    <3>1. o.row \in Row /\ o.resource \in Resource \cup {NULL}
      BY <1>0, RuleType
    <3>2. /\ row \in Row /\ row.status = "matched" /\ row.posts = o.row.posts
          /\ row.entry = o.row.entry /\ row.paired = o.row.paired
      BY <3>1 DEF Row
    <3>3. RowWrite(s, l, row)
      BY <2>3, <3>1 DEF RowWrite
    <3> HIDE DEF row
    <3>4. row.posts = View(s, l).posts /\ row.entry = View(s, l).entry
          /\ row.paired = View(s, l).paired /\ row.status # "absent"
      BY <1>0, <3>2, RuleKeeps
    <3>5. pc[s] \in {"match", "post"} /\ row \in Row /\ TypeOK'
      BY <1>0, <2>1, <3>2
    <3> QED  BY <2>1, <3>3, <3>4, <3>5, KeepingVisit
  <2> QED  BY <1>9, <2>2, <2>3 DEF AutoMatchRow
<1>10. ASSUME NEW s \in Sync, NEW l \in Line, FlagRow(s, l) PROVE IInv'
  <2> DEFINE why == Refusal(s, l, snap[s][l])
             row == Flagged(View(s, l), why)
  <2>1. pc[s] \in {"match", "post"} /\ pick[s] = NULL /\ UNCHANGED <<holder, pc, pick>>
        /\ Drop(s, l) /\ TypeOK'
    BY <1>0, <1>10 DEF FlagRow, Visiting
  <2>2. why \in Reason /\ View(s, l) \in Row
    BY <1>0, <1>10, RefusalType, ViewType DEF FlagRow
  <2>3. RowWrite(s, l, row)
    BY <1>10 DEF FlagRow, WriteRow, RowWrite
  <2> HIDE DEF why
  <2>4. row \in Row
    BY <2>2, FlaggedType
  <2>5. row.posts = View(s, l).posts /\ row.entry = View(s, l).entry
        /\ row.paired = View(s, l).paired /\ row.status # "absent"
    BY <2>2, FlaggedFields
  <2> HIDE DEF row
  <2> QED  BY <2>1, <2>3, <2>4, <2>5, KeepingVisit
<1>11. ASSUME NEW s \in Sync, NEW l \in Line, SkipRow(s, l) PROVE IInv'
  <2>1. /\ pc[s] = "post" /\ pc[s] # "idle" /\ pick[s] = NULL /\ pick'[s] = NULL
        /\ UNCHANGED <<rows, draft, writer, holder, pc, pick>>
        /\ todo'[s] \subseteq todo[s]
    BY <1>0, <1>11 DEF SkipRow, Visiting, Drop, store, TypeOK
  <2>2. \A k \in todo'[s] : draft'[k].entry = NULL /\ draft'[k].status # "absent"
    BY <2>1 DEF IInv, StillPending
  <2>3. QueueOK(draft') /\ \A t \in Sync \ {s} : pc'[t] = pc[t] /\ pick'[t] = pick[t]
    BY <1>0, <2>1
  <2> QED  BY <1>0, <2>1, <2>2, <2>3, RunnerStep
<1>12. ASSUME NEW s \in Sync, NEW l \in Line, PostRow(s, l) PROVE IInv'
  <2> DEFINE c == snap[s][l].category
             made == <<c>>
             row == Settled(View(s, l), l, made)
  <2>1. Visiting(s, l) /\ UNCHANGED <<holder, pc, pick>> /\ Drop(s, l) /\ TypeOK'
    BY <1>0, <1>12 DEF PostRow
  <2>2. snap[s][l] \in Row /\ View(s, l) \in Row
    BY <1>0, ViewType DEF TypeOK
  <2>3. c \in Category \ {"internal_transfer"}
    BY <1>12, <2>2 DEF PostRow, Ordinary, Row
  <2>4. RowWrite(s, l, row)
    BY <1>12 DEF PostRow, Owed, Resource, RowWrite
  <2> HIDE DEF c
  <2>5. made \in Seq(Category)
    BY <2>3
  <2>6. row \in Row
    BY <2>2, <2>5, SettledType
  <2>7. row.posts = View(s, l).posts \o made /\ row.entry = l
        /\ row.paired = View(s, l).paired /\ row.status # "absent"
    BY <2>2, SettledFields
  <2>8. \E k \in Category \ {"internal_transfer"} : made = <<k>>
    BY <2>3
  <2> HIDE DEF row, made
  <2> QED  BY <2>1, <2>4, <2>5, <2>6, <2>7, <2>8, SettlingVisit
<1>13. ASSUME NEW s \in Sync, NEW l \in Line, LinkLanding(s, l) PROVE IInv'
  <2> DEFINE e == snap[s][l].withdrawal
             made == <<>>
             row == Settled(View(s, l), e, made)
  <2>1. Visiting(s, l) /\ UNCHANGED <<holder, pc, pick>> /\ Drop(s, l) /\ TypeOK'
    BY <1>0, <1>13 DEF LinkLanding
  <2>2. snap[s][l] \in Row /\ View(s, l) \in Row
    BY <1>0, ViewType DEF TypeOK
  <2>3. e \in Withdrawal
    BY <1>13, <2>2 DEF LinkLanding, Row
  <2>4. RowWrite(s, l, row)
    BY <1>13 DEF LinkLanding, WriteRow, RowWrite
  <2> HIDE DEF e
  <2>5. row \in Row
    BY <2>2, <2>3, LinkedType
  <2> HIDE DEF made
  <2>6. row.posts = View(s, l).posts \o made
        /\ row.paired = View(s, l).paired /\ row.status # "absent"
    BY <2>2, SettledFields
  <2>7. made = <<>> /\ made \in Seq(Category)
    BY DEF made
  <2> HIDE DEF row
  <2> QED  BY <2>1, <2>4, <2>5, <2>6, <2>7, SettlingVisit
<1>14. ASSUME NEW s \in Sync, NEW l \in Line, LinkPair(s, l) PROVE IInv'
  <2> DEFINE e == View(s, View(s, l).paired).entry
             made == <<>>
             row == Settled(View(s, l), e, made)
  <2>1. Visiting(s, l) /\ UNCHANGED <<holder, pc, pick>> /\ Drop(s, l) /\ TypeOK'
    BY <1>0, <1>14 DEF LinkPair
  <2>2. View(s, l) \in Row
    BY <1>0, ViewType
  <2>3. View(s, l).paired \in Line
    BY <1>14, <2>2 DEF LinkPair, Row
  <2>4. e \in Line \cup Withdrawal \cup {NULL}
    BY <1>0, <2>3, ViewType DEF Row
  <2>5. RowWrite(s, l, row)
    BY <1>14 DEF LinkPair, WriteRow, RowWrite
  <2> HIDE DEF e
  <2>6. row \in Row
    BY <2>2, <2>4, LinkedType
  <2> HIDE DEF made
  <2>7. row.posts = View(s, l).posts \o made
        /\ row.paired = View(s, l).paired /\ row.status # "absent"
    BY <2>2, SettledFields
  <2>8. made = <<>> /\ made \in Seq(Category)
    BY DEF made
  <2> HIDE DEF row
  <2> QED  BY <2>1, <2>5, <2>6, <2>7, <2>8, SettlingVisit
<1>15. ASSUME NEW s \in Sync, NEW l \in Line, PickCounterpart(s, l) PROVE IInv'
  <2>1. PICK m \in Unclaimed(s, l) :
           pick' = [pick EXCEPT ![s] = [row |-> l, match |-> m, entry |-> View(s, m).entry]]
    BY <1>15 DEF PickCounterpart
  <2>2. m \in Line /\ m # l /\ View(s, m).status # "absent" /\ View(s, m).paired = NULL
    BY LineAssumption DEF Unclaimed, OtherEnd
  <2>3. /\ pc[s] = "post" /\ pc[s] # "idle" /\ l \in todo[s] /\ View(s, l).paired = NULL
        /\ UNCHANGED <<rows, draft, writer, holder, pc, todo>>
    BY <1>15 DEF PickCounterpart, Visiting, store
  <2>4. View(s, l) = draft[l] /\ View(s, m) = draft[m]
    BY <1>0, <2>2, <2>3, RunnerSees
  <2>5. pick'[s].row = l /\ pick'[s].match = m /\ pick'[s].entry = draft[m].entry
    BY <1>0, <2>1, <2>4 DEF TypeOK
  <2>6. \A t \in Sync \ {s} : pc'[t] = pc[t] /\ pick'[t] = pick[t]
    BY <1>0, <2>1, <2>3 DEF TypeOK
  <2>7. \A k \in todo'[s] : draft'[k].entry = NULL /\ draft'[k].status # "absent"
    BY <2>3 DEF IInv, StillPending
  <2>8. QueueOK(draft') /\ \A y \in Line \cup Resource : writer'[y] \in {writer[y], s}
    BY <1>0, <2>3
  <2> QED  BY <1>0, <2>2, <2>3, <2>4, <2>5, <2>6, <2>7, <2>8, RunnerStep
<1>16. ASSUME NEW s \in Sync, pc[s] # "idle", Finish(s)
       PROVE  OneWriter' /\ StillPending' /\ PickStands'
  <2>1. holder = s /\ \A t \in Sync \ {s} : pc[t] = "idle" /\ pick[t] = NULL
    BY <1>0, <1>16 DEF OneWriter, IInv, PickStands
  <2>2. \A t \in Sync : pc'[t] = "idle" /\ pick'[t] = NULL
    BY <1>0, <1>16, <2>1 DEF Finish, TypeOK
  <2>3. \A x \in Line \cup Resource : writer'[x] = NULL
    BY <1>0, <1>16, <2>1, NullAssumption DEF Finish, OneWriter, TypeOK
  <2> QED  BY <2>2, <2>3 DEF OneWriter, StillPending, PickStands
<1>17. ASSUME NEW s \in Sync, Commit(s) PROVE IInv'
  <2>1. pc[s] # "idle" /\ Finish(s) /\ rows' = [l \in Line |-> View(s, l)] /\ draft' = draft
    BY <1>17 DEF Commit
  <2>2. \A l \in Line : rows'[l] = draft[l]
    BY <1>0, <2>1, RunnerSees
  <2>3. QueueOK(rows)' /\ QueueOK(draft)'
    BY <1>0, <2>1, <2>2 DEF QueueOK, StagedFirst, OwnEntry, Mutual
  <2> QED  BY <1>0, <1>16, <2>1, <2>3 DEF IInv
<1>18. ASSUME NEW s \in Sync, Rollback(s) PROVE IInv'
  <2>1. pc[s] # "idle" /\ Finish(s) /\ rows' = rows
        /\ draft' = [l \in Line |-> IF writer[l] = s THEN rows[l] ELSE draft[l]]
    BY <1>18 DEF Rollback
  <2>2. holder = s
    BY <1>0, <2>1 DEF OneWriter
  <2>3. \A l \in Line : draft'[l] = rows[l]
    BY <1>0, <2>1, <2>2, NullAssumption DEF OneWriter, TypeOK
  <2>4. QueueOK(rows)' /\ QueueOK(draft)'
    BY <1>0, <2>1, <2>3 DEF QueueOK, StagedFirst, OwnEntry, Mutual
  <2> QED  BY <1>0, <1>16, <2>1, <2>4 DEF IInv
<1>19. ASSUME NEW s \in Sync, NEW l \in Fragile, AttemptFails(s, l) PROVE IInv'
  <2> DEFINE row == Flagged(View(s, l), "error")
  <2>1. PickStands
    BY DEF IInv
  <2>2. /\ l \in Line /\ pc[s] \in {"match", "post"} /\ UNCHANGED <<holder, pc>> /\ Drop(s, l)
        /\ pick'[s] = NULL /\ \A t \in Sync \ {s} : pick'[t] = pick[t]
        /\ View(s, l) \in Row /\ row \in Row /\ WriteRow(s, l, row) /\ TypeOK'
    BY <1>0, <1>19, <2>1, AttemptFacts
  <2>3. RowWrite(s, l, row)
    BY <2>2 DEF WriteRow, RowWrite
  <2>4. row.posts = View(s, l).posts /\ row.entry = View(s, l).entry
        /\ row.paired = View(s, l).paired /\ row.status # "absent"
    BY <2>2, FlaggedFields
  <2> HIDE DEF row
  <2> QED  BY <2>2, <2>3, <2>4, KeepingVisit
<1> QED  BY <1>1, <1>2, <1>3, <1>4, <1>5, <1>6, <1>7, <1>8, <1>9, <1>10, <1>11, <1>12,
            <1>13, <1>14, <1>15, <1>17, <1>18, <1>19
         DEF Next, Orderly, Failure, Human, Advance, Visit

LEMMA InvAlways == Spec => []IInv
<1> QED  BY InvInit, InvStep, PTL DEF Spec

\* No row posts twice and none posts without being linked to its own entry,
\* for any number of lines and callers, whatever they interleave with.
THEOREM PostedOnceAlways == Spec => []PostedOnce
<1>1. IInv => PostedOnce
  BY DEF IInv, QueueOK, OwnEntry, PostedOnce
<1> QED  BY <1>1, InvAlways, PTL

\* Pairing is mutual and a pair books at most one transfer, however many lines
\* look like the other end of one sweep.
THEOREM SweepBookedOnceAlways == Spec => []SweepBookedOnce
<1>1. IInv => SweepBookedOnce
  BY DEF IInv, QueueOK, Mutual, Transfer, SweepBookedOnce
<1> QED  BY <1>1, InvAlways, PTL


-----------------------------------------------------------------------------
(* The inductive invariant.  A commit replaces the committed rows by the     *)
(* drafts of one transaction, so what is to be shown of a commit is to be    *)
(* kept of the pair of versions: a draft stands by every row already booked. *)
(* It does because the loops only rewrite rows that are not booked: posting  *)
(* because its snapshot is of unposted rows, matching because it visits rows *)
(* without a category, and a row is never booked without one.                *)

\* Version q2 keeps what version q booked, and every row staged in q.
Stands(q, q2) ==
    \A l \in Line :
        /\ q[l].status # "absent" => q2[l].status # "absent"
        /\ q[l].entry # NULL =>
              /\ q2[l].entry = q[l].entry /\ q2[l].posts = q[l].posts
              /\ q2[l].category = q[l].category /\ q2[l].ref = q[l].ref

\* A booked row has a category, and the row whose entry it shares made one.
Named(q) == \A l \in Line : q[l].entry # NULL => q[l].category # NULL

EntryMade(q) == \A l \in Line : q[l].entry \in Line => q[q[l].entry].posts # <<>>

BookOK(q) == Named(q) /\ EntryMade(q)

\* Rows the matching loop has still to visit are not booked.
MatchPending ==
    \A s \in Sync : pc[s] = "match" => \A l \in todo[s] : draft[l].entry = NULL

\* A row whose snapshot had a category has one when it is posted, whoever
\* labelled it since.
SnapNamed ==
    \A s \in Sync : pc[s] = "post" =>
        \A l \in todo[s] : snap[s][l].category # NULL => draft[l].category # NULL

PickNamed == \A s \in Sync : pick[s] # NULL => draft[pick[s].row].category # NULL

JInv ==
    /\ IInv
    /\ Stands(rows, draft)
    /\ BookOK(rows) /\ BookOK(draft)
    /\ MatchPending /\ SnapNamed /\ PickNamed

-----------------------------------------------------------------------------
(* Lemmas about versions of the queue. *)

\* What a transaction's write does: what was booked stands, and a row it books
\* is named and shares an entry that was made.
Extends(q, q2) ==
    /\ Stands(q, q2)
    /\ \A l \in Line : q[l].entry = NULL /\ q2[l].entry # NULL =>
          /\ q2[l].category # NULL
          /\ q2[l].entry \in Line => q2[q2[l].entry].posts # <<>>

LEMMA StandsOnward ==
    ASSUME NEW q, NEW q2, NEW q3, Stands(q, q2), Stands(q2, q3)
    PROVE  Stands(q, q3)
BY DEF Stands

LEMMA MadeStands ==
    ASSUME NEW q, NEW q2, QueueOK(q), Stands(q, q2), NEW l \in Line, q[l].posts # <<>>
    PROVE  q2[l].posts # <<>>
<1>1. q[l].entry = l /\ l # NULL
  BY NullAssumption DEF QueueOK, OwnEntry
<1> QED  BY <1>1 DEF Stands

LEMMA ExtendsOK ==
    ASSUME NEW q, NEW q2, QueueOK(q), BookOK(q), Extends(q, q2)
    PROVE  BookOK(q2)
<1>1. Named(q2)
  BY DEF BookOK, Named, Extends, Stands
<1>2. ASSUME NEW l \in Line, q2[l].entry \in Line PROVE q2[q2[l].entry].posts # <<>>
  <2>1. CASE q[l].entry = NULL
    BY <1>2, <2>1, NullAssumption DEF Extends
  <2>2. CASE q[l].entry # NULL
    <3>1. q2[l].entry = q[l].entry
      BY <2>2 DEF Extends, Stands
    <3>2. q[q[l].entry].posts # <<>>
      BY <1>2, <3>1 DEF BookOK, EntryMade
    <3> QED  BY <1>2, <3>1, <3>2, MadeStands DEF Extends
  <2> QED  BY <2>1, <2>2
<1> QED  BY <1>1, <1>2 DEF BookOK, EntryMade

-----------------------------------------------------------------------------
(* Lemmas about the transaction that runs. *)

\* A step of the transaction that runs keeps JInv if it extends the drafts and
\* keeps its own part of the bookkeeping.
LEMMA RunnerBooks ==
    ASSUME JInv, IInv', NEW s \in Sync, pc[s] # "idle", rows' = rows,
           \A t \in Sync \ {s} : pc'[t] = pc[t] /\ pick'[t] = pick[t],
           Extends(draft, draft'),
           pc'[s] = "match" => \A l \in todo'[s] : draft'[l].entry = NULL,
           pc'[s] = "post" =>
              \A l \in todo'[s] : snap'[s][l].category # NULL => draft'[l].category # NULL,
           pick'[s] # NULL => draft'[pick'[s].row].category # NULL
    PROVE  JInv'
<1>1. \A t \in Sync \ {s} : pc[t] = "idle" /\ pick[t] = NULL
  BY DEF JInv, IInv, OneWriter, PickStands
<1>2. MatchPending' /\ SnapNamed' /\ PickNamed'
  BY <1>1 DEF MatchPending, SnapNamed, PickNamed
<1>3. Stands(rows, draft')
  BY StandsOnward DEF JInv, Extends
<1>4. BookOK(draft')
  BY ExtendsOK DEF JInv, IInv
<1>5. Stands(rows, draft)' /\ BookOK(rows)' /\ BookOK(draft)'
  BY <1>3, <1>4 DEF JInv, Stands, BookOK, Named, EntryMade
<1> QED  BY <1>2, <1>5 DEF JInv

\* A step that leaves the rows and the drafts alone.
LEMMA RunnerReads ==
    ASSUME JInv, IInv', NEW s \in Sync, pc[s] # "idle", UNCHANGED <<rows, draft>>,
           \A t \in Sync \ {s} : pc'[t] = pc[t] /\ pick'[t] = pick[t],
           pc'[s] = "match" => \A l \in todo'[s] : draft[l].entry = NULL,
           pc'[s] = "post" =>
              \A l \in todo'[s] : snap'[s][l].category # NULL => draft[l].category # NULL,
           pick'[s] # NULL => draft[pick'[s].row].category # NULL
    PROVE  JInv'
<1>1. Extends(draft, draft')
  BY DEF Extends, Stands
<1> QED  BY <1>1, RunnerBooks

\* A visit that rewrites a row not booked yet: it stays so, or it is booked
\* under a category with an entry that was made.
LEMMA VisitBooks ==
    ASSUME JInv, IInv', NEW s \in Sync, NEW l \in Line,
           pc[s] \in {"match", "post"}, l \in todo[s],
           pick'[s] = NULL, \A t \in Sync \ {s} : pick'[t] = pick[t],
           UNCHANGED <<holder, pc, snap>>, Drop(s, l),
           NEW row \in Row, RowWrite(s, l, row), row.status # "absent",
           row.entry # NULL =>
              /\ row.category # NULL
              /\ row.entry \in Line => \/ row.entry = l /\ row.posts # <<>>
                                       \/ draft[row.entry].posts # <<>>
    PROVE  JInv'
<1>1. TypeOK /\ OneWriter /\ pc[s] # "idle" /\ QueueOK(draft)
  BY DEF JInv, IInv
<1>2. /\ draft'[l] = row
      /\ \A k \in Line \ {l} : draft'[k] = draft[k]
      /\ rows' = rows
  BY <1>1, VisitDrafts
<1>3. draft[l].entry = NULL
  BY DEF JInv, MatchPending, IInv, StillPending
<1>4. draft \in [Line -> Row]
  BY <1>1 DEF TypeOK
<1>5. draft[l].posts = <<>>
  BY <1>1, <1>3, <1>4, NothingYet
<1>6. Extends(draft, draft')
  <2>1. Stands(draft, draft')
    BY <1>2, <1>3 DEF Stands
  <2>2. row.entry \in Line => draft'[row.entry].posts # <<>>
    BY <1>2, <1>5, NullAssumption
  <2> QED  BY <1>2, <2>1, <2>2 DEF Extends
<1>7. todo'[s] = todo[s] \ {l} /\ pc' = pc /\ snap' = snap
  BY <1>1 DEF Drop, TypeOK
<1>8. \A k \in todo'[s] : k \in todo[s] /\ draft'[k] = draft[k]
  BY <1>1, <1>2, <1>7 DEF TypeOK
<1>9. pc'[s] = "match" => \A k \in todo'[s] : draft'[k].entry = NULL
  BY <1>7, <1>8 DEF JInv, MatchPending
<1>10. pc'[s] = "post" =>
        \A k \in todo'[s] : snap'[s][k].category # NULL => draft'[k].category # NULL
  BY <1>7, <1>8 DEF JInv, SnapNamed
<1>11. pick'[s] = NULL /\ \A t \in Sync \ {s} : pc'[t] = pc[t] /\ pick'[t] = pick[t]
  BY <1>7
<1> QED  BY <1>1, <1>2, <1>6, <1>9, <1>10, <1>11, RunnerBooks

-----------------------------------------------------------------------------
(* The invariant holds at the start and every step keeps it. *)

LEMMA BookInvInit == Init => JInv
<1> SUFFICES ASSUME Init PROVE JInv
  OBVIOUS
<1>1. IInv
  BY InvInit
<1>2. rows = [l \in Line |-> NoRow] /\ draft = rows /\ NoRow.entry = NULL
  BY DEF Init, NoRow
<1>3. Stands(rows, draft) /\ BookOK(rows) /\ BookOK(draft)
  BY <1>2, NullAssumption DEF Stands, BookOK, Named, EntryMade
<1>4. MatchPending /\ SnapNamed /\ PickNamed
  BY DEF Init, MatchPending, SnapNamed, PickNamed
<1> QED  BY <1>1, <1>3, <1>4 DEF JInv

\* A label reaches rows that are not booked, and names them.
LEMMA LabelBooks ==
    ASSUME JInv, IInv', NEW l \in Line, NEW c \in HumanLabel,
           NEW ref \in HumanRef \cup {NULL}, NEW acct \in BOOLEAN, LabelRow(l, c, ref, acct)
    PROVE  JInv' /\ Stands(rows, rows')
<1> DEFINE row == Labelled(rows[l], c, ref, acct)
<1>1. TypeOK /\ rows \in [Line -> Row] /\ draft \in [Line -> Row] /\ QueueOK(rows) /\ QueueOK(draft)
  BY DEF JInv, IInv, TypeOK
<1>2. /\ rows' = [rows EXCEPT ![l] = row] /\ draft' = [draft EXCEPT ![l] = row]
      /\ draft[l] = rows[l] /\ rows[l].entry = NULL
      /\ UNCHANGED <<pc, todo, snap, pick>>
  BY <1>1 DEF LabelRow, Correctable, TypeOK
<1>3. /\ row.posts = rows[l].posts /\ row.entry = rows[l].entry /\ row.status = rows[l].status
      /\ row.category = c
  <2>1. rows[l] \in Row
    BY <1>1
  <2>2. row.category = c
    BY <2>1 DEF Labelled, Row
  <2> QED  BY <2>1, <2>2, LabelledFields
<1>4. c # NULL
  BY LineAssumption, NullAssumption DEF Selectable
<1> HIDE DEF row
<1>5. /\ rows'[l] = row /\ \A k \in Line \ {l} : rows'[k] = rows[k]
      /\ draft'[l] = row /\ \A k \in Line \ {l} : draft'[k] = draft[k]
  BY <1>1, <1>2
<1>6. Extends(rows, rows') /\ Extends(draft, draft')
  BY <1>2, <1>3, <1>5 DEF Extends, Stands
<1>7. BookOK(rows') /\ BookOK(draft')
  BY <1>1, <1>6, ExtendsOK DEF JInv
<1>8. Stands(rows', draft')
  BY <1>2, <1>3, <1>5 DEF JInv, Stands
<1>9. \A k \in Line : /\ draft'[k].entry = draft[k].entry
                      /\ draft[k].category # NULL => draft'[k].category # NULL
  BY <1>2, <1>3, <1>4, <1>5
<1>10. \A s \in Sync : todo[s] \subseteq Line /\ (pick[s] # NULL => pick[s].row \in Line)
  BY <1>1 DEF TypeOK
<1>11. MatchPending'
  BY <1>2, <1>9, <1>10 DEF JInv, MatchPending
<1>12. SnapNamed'
  BY <1>2, <1>9, <1>10 DEF JInv, SnapNamed
<1>13. PickNamed'
  BY <1>2, <1>9, <1>10 DEF JInv, PickNamed
<1>14. Stands(rows, draft)' /\ BookOK(rows)' /\ BookOK(draft)'
  BY <1>7, <1>8 DEF Stands, BookOK, Named, EntryMade
<1> QED  BY <1>6, <1>11, <1>12, <1>13, <1>14 DEF JInv, Extends

\* A pair is claimed by a row not booked yet; its counterpart is only paired.
LEMMA ClaimBooks ==
    ASSUME JInv, IInv', NEW s \in Sync, ClaimPair(s)
    PROVE  JInv'
<1> DEFINE l == pick[s].row
           m == pick[s].match
           e == pick[s].entry
           claimed == [View(s, l) EXCEPT !.paired = m]
           mine == IF e = NULL THEN Settled(claimed, l, Transfer)
                               ELSE Settled(claimed, e, <<>>)
           theirs == [View(s, m) EXCEPT !.paired = l]
           new == [k \in {l, m} |-> IF k = l THEN mine ELSE theirs]
<1>0. TypeOK /\ OneWriter /\ QueueOK(draft) /\ draft \in [Line -> Row]
  BY DEF JInv, IInv, TypeOK
<1>1. pick[s] # NULL /\ Write(s, new, NULL, NULL) /\ UNCHANGED <<holder, pc, snap>>
      /\ pick' = [pick EXCEPT ![s] = NULL] /\ Drop(s, l)
  BY DEF ClaimPair, Transfer
<1>2. l \in Line /\ m \in Line /\ e \in Line \cup Withdrawal \cup {NULL}
  BY <1>0, <1>1 DEF TypeOK
<1>3. /\ pc[s] = "post" /\ l \in todo[s] /\ l # m
      /\ draft[m].status # "absent" /\ e = draft[m].entry
  BY <1>1 DEF JInv, IInv, PickStands
<1>4. draft[l].category # NULL
  BY <1>1 DEF JInv, PickNamed
<1>5. pc[s] # "idle"
  BY <1>3
<1>6. View(s, l) = draft[l] /\ View(s, m) = draft[m] /\ draft[l] \in Row /\ draft[m] \in Row
  BY <1>0, <1>2, <1>5, RunnerSees
<1>7. draft[l].entry = NULL
  BY <1>3 DEF JInv, IInv, StillPending
<1>8. draft[l].posts = <<>>
  BY <1>0, <1>2, <1>7, NothingYet
<1> HIDE DEF l, m, e
<1>9. claimed \in Row /\ claimed.posts = <<>> /\ claimed.category = draft[l].category
  <2>1. claimed.category = draft[l].category
    BY <1>6 DEF Row
  <2> QED  BY <1>2, <1>6, <1>8, <2>1, PairedFields
<1>10. /\ theirs \in Row /\ theirs.posts = draft[m].posts /\ theirs.entry = draft[m].entry
       /\ theirs.status = draft[m].status /\ theirs.category = draft[m].category
       /\ theirs.ref = draft[m].ref
  <2>1. theirs.category = draft[m].category /\ theirs.ref = draft[m].ref
    BY <1>6 DEF Row
  <2> QED  BY <1>2, <1>6, <2>1, PairedFields
<1> HIDE DEF claimed, theirs
<1>11. Transfer \in Seq(Category) /\ Len(Transfer) = 1
  BY DEF Transfer, Category
<1>12. /\ mine \in Row /\ mine.status # "absent" /\ mine.category # NULL
       /\ \/ mine.posts # <<>> /\ mine.entry = l
          \/ mine.entry = e /\ e # NULL
  <2>1. CASE e = NULL
    <3>1. mine = Settled(claimed, l, Transfer)
      BY <2>1
    <3>2. mine.posts = <<>> \o Transfer /\ mine.entry = l
          /\ mine.status = "matched" /\ mine \in Row
      BY <1>2, <1>9, <1>11, <3>1, SettledFields, SettledType
    <3>3. mine.posts = Transfer
      BY <1>11, <3>2, ConcatEmptySeq
    <3>4. mine.category = claimed.category
      BY <1>9, <3>1 DEF Settled, Row
    <3>5. Transfer # <<>>
      BY DEF Transfer
    <3>6. mine.status # "absent" /\ mine.posts # <<>> /\ mine.category # NULL
      BY <1>4, <1>9, <3>2, <3>3, <3>4, <3>5
    <3> QED  BY <3>2, <3>6
  <2>2. CASE e # NULL
    <3>1. mine = Settled(claimed, e, <<>>)
      BY <2>2
    <3>2. mine.entry = e /\ mine.status = "matched" /\ mine \in Row
      BY <1>2, <1>9, <3>1, SettledFields, LinkedType
    <3>3. mine.category = claimed.category
      BY <1>9, <3>1 DEF Settled, Row
    <3> QED  BY <1>4, <1>9, <2>2, <3>2, <3>3
  <2> QED  BY <2>1, <2>2
<1> HIDE DEF mine
<1>13. new \in [{l, m} -> Row] /\ {l, m} \in SUBSET Line /\ new[l] = mine /\ new[m] = theirs
  BY <1>2, <1>3, <1>10, <1>12
<1> HIDE DEF new
<1>14. /\ draft'[l] = mine /\ draft'[m] = theirs
       /\ \A k \in Line \ {l, m} : draft'[k] = draft[k]
       /\ rows' = rows
  BY <1>0, <1>1, <1>5, <1>13, WriteDrafts
<1>15. Stands(draft, draft')
  BY <1>7, <1>10, <1>12, <1>14 DEF Stands
<1>16. ASSUME e \in Line PROVE draft'[e].posts # <<>>
  <2>1. draft[e].posts # <<>>
    BY <1>2, <1>3, <1>16 DEF JInv, BookOK, EntryMade
  <2> QED  BY <1>0, <1>15, <1>16, <2>1, MadeStands
<1>17. Extends(draft, draft')
  BY <1>10, <1>12, <1>14, <1>15, <1>16 DEF Extends
<1>18. todo'[s] = todo[s] \ {l} /\ pick'[s] = NULL /\ pc' = pc /\ snap' = snap
       /\ \A t \in Sync \ {s} : pc'[t] = pc[t] /\ pick'[t] = pick[t]
  BY <1>0, <1>1 DEF Drop, TypeOK
<1>19. \A k \in todo'[s] : snap'[s][k].category # NULL => draft'[k].category # NULL
  <2>1. \A k \in todo'[s] : k \in todo[s] /\ k \in Line \ {l}
    BY <1>0, <1>18 DEF TypeOK
  <2>2. \A k \in todo[s] : snap[s][k].category # NULL => draft[k].category # NULL
    BY <1>3 DEF JInv, SnapNamed
  <2> QED  BY <1>10, <1>14, <1>18, <2>1, <2>2
<1> QED  BY <1>3, <1>5, <1>14, <1>17, <1>18, <1>19, RunnerBooks

LEMMA BookInvStep == JInv /\ [Next]_vars => JInv' /\ Stands(rows, rows')
<1> SUFFICES ASSUME JInv, [Next]_vars PROVE JInv' /\ Stands(rows, rows')
  OBVIOUS
<1>0. IInv' /\ IInv /\ TypeOK /\ OneWriter /\ QueueOK(draft)
      /\ rows \in [Line -> Row] /\ draft \in [Line -> Row]
  BY InvStep DEF JInv, IInv, TypeOK
<1>1. Stands(rows, rows)
  BY DEF Stands
<1>2. CASE UNCHANGED vars
  <2>1. JInv'
    BY <1>0, <1>2 DEF vars, JInv, Stands, BookOK, Named, EntryMade,
                      MatchPending, SnapNamed, PickNamed
  <2> QED  BY <1>1, <1>2, <2>1 DEF vars
<1>3. ASSUME NEW l \in Line, Upload(l) PROVE JInv' /\ rows' = rows
  BY <1>0, <1>3 DEF Upload, store, JInv, Stands, BookOK, Named, EntryMade,
                    MatchPending, SnapNamed, PickNamed
<1>4. ASSUME NEW l \in Line, NEW c \in HumanLabel, NEW ref \in HumanRef \cup {NULL},
             NEW acct \in BOOLEAN, LabelRow(l, c, ref, acct)
      PROVE  JInv' /\ Stands(rows, rows')
  BY <1>0, <1>4, LabelBooks
<1>5. ASSUME NEW s \in Sync, Begin(s) PROVE JInv' /\ rows' = rows
  <2>1. /\ UNCHANGED <<rows, draft, todo, snap, pick>>
        /\ \A t \in Sync : pc'[t] \in {"match", "post"} => pc'[t] = pc[t]
    BY <1>0, <1>5 DEF Begin, store, TypeOK
  <2>2. MatchPending' /\ SnapNamed' /\ PickNamed'
    BY <2>1 DEF JInv, MatchPending, SnapNamed, PickNamed
  <2>3. Stands(rows, draft)' /\ BookOK(rows)' /\ BookOK(draft)'
    BY <2>1 DEF JInv, Stands, BookOK, Named, EntryMade
  <2> QED  BY <1>0, <2>1, <2>2, <2>3 DEF JInv
<1>6. ASSUME NEW s \in Sync, StageRawLines(s) PROVE JInv' /\ rows' = rows
  <2> DEFINE new == {l \in uploaded : View(s, l).status = "absent"}
             fresh == [NoRow EXCEPT !.status = "needs_review"]
             staged == [l \in new |-> fresh]
  <2>1. fresh \in Row /\ fresh.posts = <<>> /\ fresh.entry = NULL
        /\ fresh.status = "needs_review"
    BY NoRowType DEF Row, NoRow
  <2> HIDE DEF fresh
  <2>2. new \in SUBSET Line /\ staged \in [new -> Row] /\ \A l \in new : staged[l] = fresh
    BY <1>0, <2>1 DEF TypeOK
  <2>3. Write(s, staged, NULL, NULL)
    BY <1>6 DEF StageRawLines, fresh
  <2>4. pc[s] = "stage" /\ pc' = [pc EXCEPT ![s] = "staged"] /\ UNCHANGED <<todo, snap, pick>>
    BY <1>6 DEF StageRawLines
  <2>5. pc[s] # "idle" /\ pick[s] = NULL
    BY <2>4 DEF JInv, IInv, PickStands
  <2>6. \A l \in new : draft[l].entry = NULL
    BY <1>0, <2>2, <2>5, RunnerSees DEF QueueOK, StagedFirst
  <2> HIDE DEF new, staged
  <2>7. /\ \A l \in new : draft'[l] = fresh
        /\ \A l \in Line \ new : draft'[l] = draft[l]
        /\ rows' = rows
    BY <1>0, <2>2, <2>3, <2>5, WriteDrafts
  <2>8. Extends(draft, draft')
    BY <2>1, <2>6, <2>7 DEF Extends, Stands
  <2>9. pc'[s] = "staged" /\ pick'[s] = NULL
        /\ \A t \in Sync \ {s} : pc'[t] = pc[t] /\ pick'[t] = pick[t]
    BY <1>0, <2>4, <2>5 DEF TypeOK
  <2> QED  BY <1>0, <2>5, <2>7, <2>8, <2>9, RunnerBooks
<1>7. ASSUME NEW s \in Sync, StartAutoMatch(s) PROVE JInv' /\ rows' = rows
  <2>1. pc[s] = "staged" /\ pc' = [pc EXCEPT ![s] = "match"]
        /\ todo' = [todo EXCEPT ![s] = Unclassified(s)]
        /\ UNCHANGED <<rows, draft, snap, pick>>
    BY <1>7 DEF StartAutoMatch, store
  <2>2. pc[s] # "idle" /\ pc'[s] = "match" /\ pick'[s] = NULL
        /\ \A t \in Sync \ {s} : pc'[t] = pc[t] /\ pick'[t] = pick[t]
    BY <1>0, <2>1 DEF IInv, PickStands, TypeOK
  <2>3. \A l \in todo'[s] : draft[l].entry = NULL
    <3>1. \A l \in Line : View(s, l) = draft[l]
      BY <1>0, <2>2, RunnerSees
    <3>2. todo'[s] = Unclassified(s)
      BY <1>0, <2>1 DEF TypeOK
    <3> QED  BY <3>1, <3>2 DEF Unclassified, JInv, BookOK, Named
  <2> QED  BY <1>0, <2>1, <2>2, <2>3, RunnerReads
<1>8. ASSUME NEW s \in Sync, StartPosting(s) PROVE JInv' /\ rows' = rows
  <2>1. pc[s] = "match" /\ pc' = [pc EXCEPT ![s] = "post"]
        /\ todo' = [todo EXCEPT ![s] = Pending(s)]
        /\ snap' = [snap EXCEPT ![s] = [l \in Line |-> IF l \in Pending(s) THEN View(s, l) ELSE NoRow]]
        /\ UNCHANGED <<rows, draft, pick>>
    BY <1>8 DEF StartPosting, store
  <2>2. pc[s] # "idle" /\ pc'[s] = "post" /\ pick'[s] = NULL
        /\ \A t \in Sync \ {s} : pc'[t] = pc[t] /\ pick'[t] = pick[t]
    BY <1>0, <2>1 DEF IInv, PickStands, TypeOK
  <2>3. \A l \in todo'[s] : snap'[s][l].category # NULL => draft[l].category # NULL
    <3>1. \A l \in Line : View(s, l) = draft[l]
      BY <1>0, <2>2, RunnerSees
    <3>2. todo'[s] = Pending(s) /\ Pending(s) \subseteq Line
      BY <1>0, <2>1 DEF TypeOK, Pending
    <3>3. \A l \in Pending(s) : snap'[s][l] = View(s, l)
      BY <1>0, <2>1, <3>2 DEF TypeOK
    <3> QED  BY <3>1, <3>2, <3>3
  <2> QED  BY <1>0, <2>1, <2>2, <2>3, RunnerReads
<1>9. ASSUME NEW s \in Sync, ClaimPair(s) PROVE JInv' /\ rows' = rows
  <2>1. rows' = rows
    BY <1>9 DEF ClaimPair, Write
  <2> QED  BY <1>0, <1>9, <2>1, ClaimBooks
<1>10. ASSUME NEW s \in Sync, NEW l \in Line, AutoMatchRow(s, l) PROVE JInv' /\ rows' = rows
  <2>1. pc[s] = "match" /\ pc[s] # "idle" /\ pick[s] = NULL /\ l \in todo[s]
        /\ UNCHANGED <<holder, pc, snap, pick>> /\ Drop(s, l)
    BY <1>10 DEF AutoMatchRow, JInv, IInv, PickStands
  <2>2. CASE UNCHANGED store
    <3>1. UNCHANGED <<rows, draft>> /\ pc'[s] = "match" /\ pick'[s] = NULL
          /\ \A t \in Sync \ {s} : pc'[t] = pc[t] /\ pick'[t] = pick[t]
      BY <2>1, <2>2 DEF store
    <3>2. \A k \in todo'[s] : draft[k].entry = NULL
      BY <1>0, <2>1 DEF Drop, TypeOK, JInv, MatchPending
    <3> QED  BY <1>0, <2>1, <3>1, <3>2, RunnerReads
  <2>3. ASSUME NEW o \in RuleOutcomes(s, l),
               Write(s, [m \in {l} |-> [o.row EXCEPT !.status = "matched"]], o.resource, l)
        PROVE  JInv' /\ rows' = rows
    <3> DEFINE row == [o.row EXCEPT !.status = "matched"]
    <3>1. o.row \in Row /\ o.resource \in Resource \cup {NULL}
      BY <1>0, RuleType
    <3>2. row \in Row /\ row.status = "matched" /\ row.entry = o.row.entry
      BY <3>1 DEF Row
    <3>3. RowWrite(s, l, row) /\ rows' = rows
      BY <2>3, <3>1 DEF RowWrite, Write
    <3> HIDE DEF row
    <3>4. View(s, l) = draft[l] /\ o.row.entry = View(s, l).entry
      BY <1>0, <2>1, RunnerSees, RuleKeeps
    <3>5. row.entry = NULL
      BY <2>1, <3>2, <3>4 DEF JInv, MatchPending
    <3>6. pc[s] \in {"match", "post"} /\ row.status # "absent"
      BY <2>1, <3>2
    <3> QED  BY <1>0, <2>1, <3>2, <3>3, <3>5, <3>6, VisitBooks
  <2> QED  BY <1>10, <2>2, <2>3 DEF AutoMatchRow, store
<1>11. ASSUME NEW s \in Sync, NEW l \in Line, Visiting(s, l)
       PROVE  /\ pc[s] \in {"match", "post"} /\ pc[s] # "idle" /\ pick[s] = NULL /\ l \in todo[s]
              /\ View(s, l) = draft[l] /\ View(s, l) \in Row /\ draft[l].entry = NULL
              /\ snap[s][l] \in Row
              /\ snap[s][l].category # NULL => View(s, l).category # NULL
  <2>1. pc[s] = "post" /\ pc[s] # "idle" /\ pick[s] = NULL /\ l \in todo[s]
    BY <1>11 DEF Visiting
  <2>2. View(s, l) = draft[l] /\ View(s, l) \in Row /\ snap[s][l] \in Row
    BY <1>0, <2>1, RunnerSees, ViewType DEF TypeOK
  <2>3. draft[l].entry = NULL
    BY <1>0, <2>1 DEF IInv, StillPending
  <2>4. snap[s][l].category # NULL => draft[l].category # NULL
    BY <2>1 DEF JInv, SnapNamed
  <2> QED  BY <2>1, <2>2, <2>3, <2>4
<1>12. ASSUME NEW s \in Sync, NEW l \in Line, FlagRow(s, l) PROVE JInv' /\ rows' = rows
  <2> DEFINE why == Refusal(s, l, snap[s][l])
             row == Flagged(View(s, l), why)
  <2>1. Visiting(s, l) /\ UNCHANGED <<holder, pc, snap, pick>> /\ Drop(s, l)
    BY <1>12 DEF FlagRow
  <2>2. why \in Reason /\ View(s, l) \in Row
    BY <1>0, <1>12, RefusalType, ViewType DEF FlagRow
  <2>3. RowWrite(s, l, row) /\ rows' = rows
    BY <1>12 DEF FlagRow, WriteRow, RowWrite, Write
  <2> HIDE DEF why
  <2>4. row \in Row
    BY <2>2, FlaggedType
  <2>5. row.entry = View(s, l).entry /\ row.status # "absent"
    BY <2>2, FlaggedFields
  <2> HIDE DEF row
  <2>6. row.entry = NULL
    BY <1>11, <2>1, <2>5
  <2> QED  BY <1>0, <1>11, <2>1, <2>3, <2>4, <2>5, <2>6, VisitBooks
<1>13. ASSUME NEW s \in Sync, NEW l \in Line, SkipRow(s, l) PROVE JInv' /\ rows' = rows
  <2>1. Visiting(s, l) /\ Drop(s, l) /\ UNCHANGED <<rows, draft, pc, snap, pick>>
    BY <1>13 DEF SkipRow, store
  <2>2. pc'[s] = "post" /\ pick'[s] = NULL
        /\ \A t \in Sync \ {s} : pc'[t] = pc[t] /\ pick'[t] = pick[t]
    BY <2>1 DEF Visiting
  <2>3. \A k \in todo'[s] : snap'[s][k].category # NULL => draft[k].category # NULL
    BY <1>0, <2>1, <2>2 DEF Drop, TypeOK, JInv, SnapNamed
  <2> QED  BY <1>0, <1>11, <2>1, <2>2, <2>3, RunnerReads
<1>14. ASSUME NEW s \in Sync, NEW l \in Line, PostRow(s, l) PROVE JInv' /\ rows' = rows
  <2> DEFINE c == snap[s][l].category
             made == <<c>>
             row == Settled(View(s, l), l, made)
  <2>1. Visiting(s, l) /\ UNCHANGED <<holder, pc, snap, pick>> /\ Drop(s, l)
    BY <1>14 DEF PostRow
  <2>2. c \in Category /\ c # NULL
    BY <1>11, <1>14, <2>1 DEF PostRow, Ordinary, Row
  <2>3. RowWrite(s, l, row) /\ rows' = rows
    <3>1. RowWrite(s, l, row)
      BY <1>14 DEF PostRow, Owed, Resource, RowWrite
    <3> HIDE DEF row
    <3>2. rows' = rows
      BY <3>1 DEF RowWrite, Write
    <3> QED  BY <3>1, <3>2
  <2>4. View(s, l) \in Row /\ View(s, l).category # NULL
    BY <1>11, <2>1, <2>2
  <2> HIDE DEF c
  <2>5. made \in Seq(Category)
    BY <2>2
  <2>6. row \in Row
    BY <2>4, <2>5, SettledType
  <2>7. row.posts = View(s, l).posts \o made /\ row.entry = l /\ row.status # "absent"
    BY <2>4, SettledFields
  <2>8. row.category = View(s, l).category
    BY <2>4 DEF Settled, Row
  <2>9. View(s, l).posts = <<>>
    BY <1>0, <1>11, <2>1, NothingYet
  <2>10. row.posts # <<>>
    <3>1. made # <<>>
      OBVIOUS
    <3> HIDE DEF row, made
    <3>2. row.posts = made
      BY <2>5, <2>7, <2>9, ConcatEmptySeq
    <3> QED  BY <3>1, <3>2
  <2> HIDE DEF row, made
  <2> QED  BY <1>0, <1>11, <2>1, <2>3, <2>4, <2>6, <2>7, <2>8, <2>10, VisitBooks
<1>15. ASSUME NEW s \in Sync, NEW l \in Line, LinkLanding(s, l) PROVE JInv' /\ rows' = rows
  <2> DEFINE e == snap[s][l].withdrawal
             row == Settled(View(s, l), e, <<>>)
  <2>1. Visiting(s, l) /\ UNCHANGED <<holder, pc, snap, pick>> /\ Drop(s, l)
    BY <1>15 DEF LinkLanding
  <2>2. e \in Withdrawal /\ snap[s][l].category # NULL
    BY <1>11, <1>15, <2>1, NullAssumption DEF LinkLanding, Row, Category
  <2>3. RowWrite(s, l, row) /\ rows' = rows
    BY <1>15 DEF LinkLanding, WriteRow, RowWrite, Write
  <2>4. View(s, l) \in Row /\ View(s, l).category # NULL
    BY <1>11, <2>1, <2>2
  <2> HIDE DEF e
  <2>5. row \in Row
    BY <2>2, <2>4, LinkedType
  <2>6. row.entry = e /\ row.status # "absent"
    BY <2>4, SettledFields
  <2>7. row.category = View(s, l).category
    BY <2>4 DEF Settled, Row
  <2> HIDE DEF row
  <2>8. row.entry \notin Line /\ row.category # NULL
    BY <2>2, <2>4, <2>6, <2>7, LineAssumption DEF Resource
  <2> QED  BY <1>0, <1>11, <2>1, <2>3, <2>5, <2>6, <2>8, VisitBooks
<1>16. ASSUME NEW s \in Sync, NEW l \in Line, LinkPair(s, l) PROVE JInv' /\ rows' = rows
  <2> DEFINE m == View(s, l).paired
             e == View(s, m).entry
             row == Settled(View(s, l), e, <<>>)
  <2>1. Visiting(s, l) /\ UNCHANGED <<holder, pc, snap, pick>> /\ Drop(s, l)
    BY <1>16 DEF LinkPair
  <2>2. snap[s][l].category # NULL
    BY <1>16, NullAssumption DEF LinkPair, Category
  <2>3. RowWrite(s, l, row) /\ rows' = rows
    BY <1>16 DEF LinkPair, WriteRow, RowWrite, Write
  <2>4. View(s, l) \in Row /\ View(s, l).category # NULL
    BY <1>11, <2>1, <2>2
  <2>5. m \in Line
    BY <1>16, <2>4 DEF LinkPair, Row
  <2>6. View(s, m) = draft[m] /\ View(s, m) \in Row
    BY <1>0, <1>11, <2>1, <2>5, RunnerSees, ViewType
  <2> HIDE DEF m
  <2>7. e \in Line \cup Withdrawal \cup {NULL}
    BY <2>6 DEF Row
  <2>8. e \in Line => draft[e].posts # <<>>
    BY <2>5, <2>6 DEF JInv, BookOK, EntryMade
  <2> HIDE DEF e
  <2>9. row \in Row
    BY <2>4, <2>7, LinkedType
  <2>10. row.entry = e /\ row.status # "absent"
    BY <2>4, SettledFields
  <2>11. row.category = View(s, l).category
    BY <2>4 DEF Settled, Row
  <2> HIDE DEF row
  <2> QED  BY <1>0, <1>11, <2>1, <2>3, <2>4, <2>8, <2>9, <2>10, <2>11, VisitBooks
<1>17. ASSUME NEW s \in Sync, NEW l \in Line, PickCounterpart(s, l) PROVE JInv' /\ rows' = rows
  <2>1. PICK m \in Unclaimed(s, l) :
           pick' = [pick EXCEPT ![s] = [row |-> l, match |-> m, entry |-> View(s, m).entry]]
    BY <1>17 DEF PickCounterpart
  <2>2. Visiting(s, l) /\ snap[s][l].category # NULL
        /\ UNCHANGED <<rows, draft, pc, todo, snap>>
    BY <1>17, NullAssumption DEF PickCounterpart, store, Category
  <2>3. pick'[s].row = l /\ \A t \in Sync \ {s} : pc'[t] = pc[t] /\ pick'[t] = pick[t]
    BY <1>0, <2>1, <2>2 DEF TypeOK
  <2>4. draft[l].category # NULL
    BY <1>11, <2>2
  <2>5. /\ pc'[s] = "match" => \A k \in todo'[s] : draft[k].entry = NULL
        /\ pc'[s] = "post" =>
              \A k \in todo'[s] : snap'[s][k].category # NULL => draft[k].category # NULL
    BY <2>2 DEF JInv, MatchPending, SnapNamed
  <2> QED  BY <1>0, <1>11, <2>2, <2>3, <2>4, <2>5, RunnerReads
<1>18. ASSUME NEW s \in Sync, pc[s] # "idle", Finish(s)
       PROVE  MatchPending' /\ SnapNamed' /\ PickNamed'
  <2>1. \A t \in Sync \ {s} : pc[t] = "idle" /\ pick[t] = NULL
    BY <1>0, <1>18 DEF OneWriter, IInv, PickStands
  <2>2. \A t \in Sync : pc'[t] = "idle" /\ pick'[t] = NULL
    BY <1>0, <1>18, <2>1 DEF Finish, TypeOK
  <2> QED  BY <2>2 DEF MatchPending, SnapNamed, PickNamed
<1>19. ASSUME NEW s \in Sync, Commit(s) PROVE JInv' /\ Stands(rows, rows')
  <2>1. pc[s] # "idle" /\ Finish(s) /\ rows' = [l \in Line |-> View(s, l)] /\ draft' = draft
    BY <1>19 DEF Commit
  <2>2. \A l \in Line : rows'[l] = draft[l]
    BY <1>0, <2>1, RunnerSees
  <2>3. Stands(rows, draft)' /\ BookOK(rows)' /\ BookOK(draft)' /\ Stands(rows, rows')
    BY <1>0, <2>1, <2>2 DEF JInv, Stands, BookOK, Named, EntryMade
  <2> QED  BY <1>0, <1>18, <2>1, <2>3 DEF JInv
<1>20. ASSUME NEW s \in Sync, Rollback(s) PROVE JInv' /\ rows' = rows
  <2>1. pc[s] # "idle" /\ Finish(s) /\ rows' = rows
        /\ draft' = [l \in Line |-> IF writer[l] = s THEN rows[l] ELSE draft[l]]
    BY <1>20 DEF Rollback
  <2>2. holder = s
    BY <1>0, <2>1 DEF OneWriter
  <2>3. \A l \in Line : draft'[l] = rows[l]
    BY <1>0, <2>1, <2>2, NullAssumption DEF OneWriter, TypeOK
  <2>4. Stands(rows, draft)' /\ BookOK(rows)' /\ BookOK(draft)'
    BY <1>0, <2>1, <2>3 DEF JInv, Stands, BookOK, Named, EntryMade
  <2> QED  BY <1>0, <1>18, <2>1, <2>4 DEF JInv
<1>21. ASSUME NEW s \in Sync, NEW l \in Fragile, AttemptFails(s, l) PROVE JInv' /\ rows' = rows
  <2> DEFINE row == Flagged(View(s, l), "error")
  <2>1. PickStands /\ StillPending
    BY <1>0 DEF IInv
  <2>2. /\ l \in Line /\ pc[s] = "post" /\ l \in todo[s]
        /\ UNCHANGED <<holder, pc, snap>> /\ Drop(s, l)
        /\ pick'[s] = NULL /\ \A t \in Sync \ {s} : pick'[t] = pick[t]
        /\ View(s, l) = draft[l] /\ draft[l] \in Row /\ row \in Row /\ WriteRow(s, l, row)
    BY <1>0, <1>21, <2>1, AttemptFacts
  <2>3. RowWrite(s, l, row) /\ rows' = rows
    BY <2>2 DEF WriteRow, RowWrite, Write
  <2>4. row.entry = draft[l].entry /\ row.status # "absent"
    BY <2>2, FlaggedFields
  <2> HIDE DEF row
  <2>5. row.entry = NULL
    BY <2>1, <2>2, <2>4 DEF StillPending
  <2> QED  BY <1>0, <2>2, <2>3, <2>4, <2>5, VisitBooks
<1> QED  BY <1>1, <1>2, <1>3, <1>4, <1>5, <1>6, <1>7, <1>8, <1>9, <1>10, <1>12, <1>13,
            <1>14, <1>15, <1>16, <1>17, <1>19, <1>20, <1>21
         DEF Next, Orderly, Failure, Human, Advance, Visit

LEMMA BookInvAlways == Spec => []JInv
<1>1. JInv /\ [Next]_vars => JInv'
  BY BookInvStep
<1> QED  BY <1>1, BookInvInit, PTL DEF Spec

-----------------------------------------------------------------------------

\* A booked row keeps its category, entry and reference in every step, for any
\* number of lines and callers: label_row refuses posted rows, and no loop of a
\* sync ever rewrites one, whatever a human labels meanwhile.
THEOREM PostedRowFrozenAlways == Spec => PostedRowFrozen
<1>1. JInv /\ [Next]_vars =>
        [\A l \in Line :
          rows[l].entry # NULL =>
              /\ rows'[l].entry = rows[l].entry
              /\ rows'[l].posts = rows[l].posts
              /\ rows'[l].category = rows[l].category
              /\ rows'[l].ref = rows[l].ref]_vars
  BY BookInvStep DEF Stands
<1> QED  BY <1>1, BookInvAlways, PTL DEF Spec, PostedRowFrozen

\* The committed queue implements BookOnce: a line is booked once and for good,
\* shares an entry some line or withdrawal has made by then, and a sync's whole
\* work appears in its commit.
THEOREM ImplementsBookOnceAlways == Spec => ImplementsBookOnce
<1>1. Init => Book!BookInit
  BY DEF Init, NoRow, Book!BookInit
<1>2. JInv /\ JInv' /\ Stands(rows, rows') => Book!Settle
  <2> SUFFICES ASSUME JInv, JInv', Stands(rows, rows')
               PROVE  Book!Settle
    OBVIOUS
  <2> DEFINE seen == {l \in Line : rows[l].status # "absent"}
             book == [l \in Line |-> rows[l].entry]
             made == {l \in Line : rows[l].posts # <<>>}
  <2>1. rows' \in [Line -> Row] /\ QueueOK(rows) /\ QueueOK(rows') /\ BookOK(rows')
    BY DEF JInv, IInv, TypeOK, QueueOK, StagedFirst, OwnEntry, Mutual, BookOK, Named, EntryMade
  <2>2. \A l \in Line : rows'[l].entry \in Line \cup Withdrawal \cup {NULL}
    BY <2>1 DEF Row
  <2>3. book' \in [Line -> Line \cup Withdrawal \cup {NULL}]
    BY <2>2
  <2>4. seen \subseteq seen'
    BY DEF Stands
  <2>5. \A l \in Line : Book!Books(l) \/ book'[l] = book[l]
    BY DEF Stands, Book!Books
  <2>6. ASSUME NEW l \in Line, Book!Books(l)
        PROVE  l \in seen' /\ book'[l] \in made' \cup Withdrawal
    <3>1. rows'[l].entry # NULL
      BY <2>6 DEF Book!Books
    <3>2. l \in seen'
      BY <2>1, <3>1 DEF QueueOK, StagedFirst
    <3>3. rows'[l].entry \in Line => rows'[rows'[l].entry].posts # <<>>
      BY <2>1 DEF BookOK, EntryMade
    <3> QED  BY <2>2, <3>1, <3>2, <3>3
  <2>7. ASSUME NEW l \in Line
        PROVE  l \in made' <=> l \in made \/ (Book!Books(l) /\ book'[l] = l)
    <3>1. l # NULL
      BY NullAssumption
    <3>2. l \in made => l \in made'
      BY <2>1, MadeStands
    <3>3. Book!Books(l) /\ book'[l] = l => l \in made'
      BY <2>1 DEF BookOK, EntryMade
    <3>4. l \in made' /\ l \notin made => Book!Books(l) /\ book'[l] = l
      BY <2>1, <3>1 DEF Stands, QueueOK, OwnEntry, Book!Books
    <3> QED  BY <3>2, <3>3, <3>4
  <2>8. made' = made \cup {l \in Line : Book!Books(l) /\ book'[l] = l}
    BY <2>7
  <2> QED  BY <2>3, <2>4, <2>5, <2>6, <2>8 DEF Book!Settle, Book!Books
<1>3. JInv /\ [Next]_vars => [Book!Settle]_(Book!bookVars)
  BY <1>2, BookInvStep
<1> QED  BY <1>1, <1>3, BookInvAlways, PTL DEF Spec, ImplementsBookOnce, Book!BookSpec


-----------------------------------------------------------------------------
(* The inductive invariant.  The rules and the posting loop read a claim in  *)
(* one step and write it in the same one, so a draft of the claims extends   *)
(* the committed claims.  A landing books nothing because the sync that      *)
(* matches it holds its row lock until it has linked it: no label can turn a *)
(* matched landing that is not linked yet into a row that posts.             *)

Landing == "internal_transfer_landing"

\* The draft of the claims keeps the committed ones, and a resource nobody has
\* locked has one version.
ClaimsExtend ==
    /\ \A x \in Resource : writer[x] = NULL => claimDraft[x] = claims[x]
    /\ \A x \in Resource : claims[x] # NULL => claimDraft[x] = claims[x]

\* A landing is its withdrawal's one landing, staged, and books nothing.
EchoOK(q, cl) ==
    \A l \in Line : q[l].withdrawal # NULL =>
        q[l].status # "absent" /\ cl[q[l].withdrawal] = l /\ q[l].posts = <<>>

\* A committed landing is linked; one that is not yet is locked by the sync.
LandingLinked == \A l \in Line : rows[l].withdrawal # NULL => rows[l].entry # NULL

LandingLocked ==
    \A l \in Line : draft[l].withdrawal # NULL /\ draft[l].entry = NULL =>
        writer[l] # NULL /\ draft[l].category = Landing

\* No row still to be matched is a landing.
MatchFresh ==
    \A s \in Sync : pc[s] = "match" => \A l \in todo[s] : draft[l].withdrawal = NULL

\* Every landing not linked yet is still to be visited, as a landing.
PostEcho ==
    \A s \in Sync : pc[s] = "post" =>
        /\ \A l \in Line : draft[l].withdrawal # NULL /\ draft[l].entry = NULL => l \in todo[s]
        /\ \A l \in todo[s] : draft[l].withdrawal # NULL =>
              snap[s][l].category = Landing /\ snap[s][l].withdrawal # NULL

PickEcho == \A s \in Sync : pick[s] # NULL => draft[pick[s].row].withdrawal = NULL

KInv ==
    /\ JInv
    /\ ClaimsExtend
    /\ EchoOK(rows, claims) /\ EchoOK(draft, claimDraft)
    /\ LandingLinked /\ LandingLocked
    /\ MatchFresh /\ PostEcho /\ PickEcho

-----------------------------------------------------------------------------
(* Lemmas about the transaction that runs. *)

\* It sees its draft of every claim.
LEMMA RunnerClaims ==
    ASSUME TypeOK, OneWriter, ClaimsExtend, NEW s \in Sync, pc[s] # "idle", NEW x \in Resource
    PROVE  Claimant(s, x) = claimDraft[x]
BY NullAssumption DEF TypeOK, OneWriter, ClaimsExtend, Claimant, Resource

\* What its write does to the claims and the locks.
LEMMA WriteClaims ==
    ASSUME TypeOK, NEW s \in Sync, NEW D \in SUBSET Line, NEW new \in [D -> Row],
           NEW x \in Resource \cup {NULL}, NEW c, Write(s, new, x, c)
    PROVE  /\ claims' = claims
           /\ \A y \in Resource : IF y = x THEN claimDraft'[y] = c ELSE claimDraft'[y] = claimDraft[y]
           /\ \A y \in D : writer'[y] = s
           /\ \A y \in Line \cup Resource : writer[y] # NULL => writer'[y] # NULL
           /\ \A y \in Resource : writer'[y] = NULL => writer[y] = NULL /\ y # x
<1>1. DOMAIN new = D
  OBVIOUS
<1>2. s # NULL
  BY NullAssumption
<1>3. writer' = [y \in Line \cup Resource |-> IF y \in D \cup ({x} \ {NULL}) THEN s ELSE writer[y]]
  BY <1>1 DEF Write
<1>4. claims' = claims /\ \A y \in Resource : IF y = x THEN claimDraft'[y] = c ELSE claimDraft'[y] = claimDraft[y]
  BY DEF Write
<1>5. \A y \in Resource : y # NULL
  BY NullAssumption
<1> QED  BY <1>2, <1>3, <1>4, <1>5

\* A rule offers a resource that nothing consumed, and makes a landing of a row
\* for the withdrawal it consumes only.
LEMMA RuleClaims ==
    ASSUME TypeOK, NEW s \in Sync, NEW l \in Line, NEW o \in RuleOutcomes(s, l)
    PROVE  /\ o.resource # NULL => Claimant(s, o.resource) = NULL
           /\ \/ o.row.withdrawal = View(s, l).withdrawal
              \/ o.row.withdrawal = o.resource /\ o.resource \in Withdrawal /\ o.row.category = Landing
<1> DEFINE rule == <<RuleA(s, l), RuleB(s, l), RuleCLanding(s, l),
                     RuleCSweep(s, l), RuleD(s, l), RuleE(s, l)>>
           v == View(s, l)
<1>1. PICK i \in 1..6 : o \in rule[i]
  BY DEF RuleOutcomes
<1>2. v \in Row
  BY ViewType
<1> SUFFICES /\ o.resource # NULL => Claimant(s, o.resource) = NULL
             /\ \/ o.row.withdrawal = v.withdrawal
                \/ o.row.withdrawal = o.resource /\ o.resource \in Withdrawal /\ o.row.category = Landing
  OBVIOUS
<1> HIDE DEF v, rule
<1>3. CASE o \in RuleA(s, l)
  <2>1. PICK p \in Payout : o = [row |-> [v EXCEPT !.category = "revenue_settlement", !.account = TRUE], resource |-> p] /\ Claimant(s, p) = NULL
    BY <1>3 DEF RuleA, v
  <2> DEFINE row == [v EXCEPT !.category = "revenue_settlement", !.account = TRUE]
  <2>2. row.withdrawal = v.withdrawal
    BY <1>2 DEF Row
  <2>3. o = [row |-> row, resource |-> p]
    BY <2>1
  <2>4. Claimant(s, p) = NULL
    BY <2>1
  <2> HIDE DEF row
  <2> QED  BY <2>2, <2>3, <2>4
<1>4. CASE o \in RuleB(s, l)
  <2>1. PICK bill \in Invoice : o = [row |-> [v EXCEPT !.category = Purpose[bill], !.invoice = bill, !.ref = "text"], resource |-> NULL]
    BY <1>4 DEF RuleB, v
  <2> DEFINE row == [v EXCEPT !.category = Purpose[bill], !.invoice = bill, !.ref = "text"]
  <2>2. row.withdrawal = v.withdrawal
    BY <1>2 DEF Row
  <2>3. o = [row |-> row, resource |-> NULL]
    BY <2>1
  <2> HIDE DEF row
  <2> QED  BY <2>2, <2>3
<1>5. CASE o \in RuleCLanding(s, l)
  <2>1. PICK w \in Withdrawal : o = [row |-> [v EXCEPT !.category = "internal_transfer_landing", !.withdrawal = w], resource |-> w] /\ Claimant(s, w) = NULL
    BY <1>5 DEF RuleCLanding, v, Landings
  <2> DEFINE row == [v EXCEPT !.category = "internal_transfer_landing", !.withdrawal = w]
  <2>2. row.withdrawal = w /\ row.category = Landing
    BY <1>2 DEF Row, Landing
  <2>3. o = [row |-> row, resource |-> w]
    BY <2>1
  <2>4. Claimant(s, w) = NULL
    BY <2>1
  <2> HIDE DEF row
  <2> QED  BY <2>2, <2>3, <2>4
<1>6. CASE o \in RuleCSweep(s, l)
  <2>1. PICK m \in Line : o = [row |-> [v EXCEPT !.category = "internal_transfer"], resource |-> NULL]
    BY <1>6 DEF RuleCSweep, v, OtherEnd
  <2> DEFINE row == [v EXCEPT !.category = "internal_transfer"]
  <2>2. row.withdrawal = v.withdrawal
    BY <1>2 DEF Row
  <2>3. o = [row |-> row, resource |-> NULL]
    BY <2>1
  <2> HIDE DEF row
  <2> QED  BY <2>2, <2>3
<1>7. CASE o \in RuleD(s, l)
  <2>1. PICK a \in Sale : o = [row |-> [v EXCEPT !.category = "consignment_payout", !.ref = a], resource |-> NULL]
    BY <1>7 DEF RuleD, v
  <2> DEFINE row == [v EXCEPT !.category = "consignment_payout", !.ref = a]
  <2>2. row.withdrawal = v.withdrawal
    BY <1>2 DEF Row
  <2>3. o = [row |-> row, resource |-> NULL]
    BY <2>1
  <2> HIDE DEF row
  <2> QED  BY <2>2, <2>3
<1>8. CASE o \in RuleE(s, l)
  <2>1. PICK k \in Keyword : o = [row |-> [v EXCEPT !.category = k[2]], resource |-> NULL]
    BY <1>8 DEF RuleE, v
  <2> DEFINE row == [v EXCEPT !.category = k[2]]
  <2>2. row.withdrawal = v.withdrawal
    BY <1>2 DEF Row
  <2>3. o = [row |-> row, resource |-> NULL]
    BY <2>1
  <2> HIDE DEF row
  <2> QED  BY <2>2, <2>3
<1>9. o \in RuleA(s, l) \/ o \in RuleB(s, l) \/ o \in RuleCLanding(s, l)
      \/ o \in RuleCSweep(s, l) \/ o \in RuleD(s, l) \/ o \in RuleE(s, l)
  BY <1>1 DEF rule
<1> QED  BY <1>9, <1>3, <1>4, <1>5, <1>6, <1>7, <1>8

\* A step of the transaction that runs keeps KInv if it keeps its own part.
LEMMA RunnerKeeps ==
    ASSUME KInv, JInv', NEW s \in Sync, pc[s] # "idle", rows' = rows, claims' = claims,
           \A t \in Sync \ {s} : pc'[t] = pc[t] /\ pick'[t] = pick[t],
           \A x \in Resource : writer'[x] = NULL => writer[x] = NULL /\ claimDraft'[x] = claimDraft[x],
           \A x \in Resource : claimDraft[x] # NULL => claimDraft'[x] = claimDraft[x],
           EchoOK(draft', claimDraft'),
           LandingLocked',
           pc'[s] = "match" => \A l \in todo'[s] : draft'[l].withdrawal = NULL,
           pc'[s] = "post" =>
              /\ \A l \in Line : draft'[l].withdrawal # NULL /\ draft'[l].entry = NULL => l \in todo'[s]
              /\ \A l \in todo'[s] : draft'[l].withdrawal # NULL =>
                    snap'[s][l].category = Landing /\ snap'[s][l].withdrawal # NULL,
           pick'[s] # NULL => draft'[pick'[s].row].withdrawal = NULL
    PROVE  KInv'
<1>1. \A t \in Sync \ {s} : pc[t] = "idle" /\ pick[t] = NULL
  BY DEF KInv, JInv, IInv, OneWriter, PickStands
<1>2. MatchFresh' /\ PostEcho' /\ PickEcho'
  BY <1>1 DEF MatchFresh, PostEcho, PickEcho
<1>3. ClaimsExtend'
  BY DEF KInv, ClaimsExtend
<1>4. EchoOK(rows, claims)' /\ EchoOK(draft, claimDraft)' /\ LandingLinked'
  BY DEF KInv, EchoOK, LandingLinked
<1> QED  BY <1>2, <1>3, <1>4 DEF KInv

\* A step that writes nothing.
LEMMA RunnerWaits ==
    ASSUME KInv, JInv', NEW s \in Sync, pc[s] # "idle", UNCHANGED store,
           \A t \in Sync \ {s} : pc'[t] = pc[t] /\ pick'[t] = pick[t],
           pc'[s] = "match" => \A l \in todo'[s] : draft[l].withdrawal = NULL,
           pc'[s] = "post" =>
              /\ \A l \in Line : draft[l].withdrawal # NULL /\ draft[l].entry = NULL => l \in todo'[s]
              /\ \A l \in todo'[s] : draft[l].withdrawal # NULL =>
                    snap'[s][l].category = Landing /\ snap'[s][l].withdrawal # NULL,
           pick'[s] # NULL => draft[pick'[s].row].withdrawal = NULL
    PROVE  KInv'
<1>1. UNCHANGED <<rows, claims, draft, claimDraft, writer>>
  BY DEF store
<1>2. EchoOK(draft', claimDraft') /\ LandingLocked'
  BY <1>1 DEF KInv, EchoOK, LandingLocked
<1> QED  BY <1>1, <1>2, RunnerKeeps

\* The write of a visit, with the resource it consumes for its row if any.
Consumes(s, l, row, x) == Write(s, [m \in {l} |-> row], x, IF x = NULL THEN NULL ELSE l)

\* A visit that rewrites one row: a landing it leaves is this row's, has posted
\* nothing, and is linked unless it is only matched.
LEMMA VisitKeeps ==
    ASSUME KInv, JInv', NEW s \in Sync, NEW l \in Line,
           pc[s] \in {"match", "post"}, l \in todo[s],
           pick'[s] = NULL, \A t \in Sync \ {s} : pick'[t] = pick[t],
           UNCHANGED <<holder, pc, snap>>, Drop(s, l),
           NEW row \in Row, NEW x \in Resource \cup {NULL},
           Consumes(s, l, row, x),
           x # NULL => claimDraft[x] = NULL,
           row.withdrawal # NULL =>
              /\ row.status # "absent" /\ row.posts = <<>>
              /\ row.withdrawal = x \/ row.withdrawal = draft[l].withdrawal
              /\ row.entry = NULL => pc[s] = "match" /\ row.category = Landing
    PROVE  KInv'
<1> DEFINE new == [m \in {l} |-> row]
           c == IF x = NULL THEN NULL ELSE l
<1>1. TypeOK /\ OneWriter /\ pc[s] # "idle" /\ draft \in [Line -> Row]
  BY DEF KInv, JInv, IInv, TypeOK
<1>2. new \in [{l} -> Row] /\ {l} \in SUBSET Line /\ new[l] = row
  OBVIOUS
<1>3. Write(s, new, x, c)
  BY DEF Consumes
<1>4. l # NULL /\ s # NULL /\ NULL \notin Resource
  BY NullAssumption
<1>5. \A w \in Resource : w = x => c = l
  BY <1>4
<1> HIDE DEF new, c
<1>6. /\ draft'[l] = row
      /\ \A k \in Line \ {l} : draft'[k] = draft[k]
      /\ rows' = rows
  BY <1>1, <1>2, <1>3, WriteDrafts
<1>7. /\ claims' = claims
      /\ \A y \in Resource : IF y = x THEN claimDraft'[y] = c ELSE claimDraft'[y] = claimDraft[y]
      /\ writer'[l] = s
      /\ \A y \in Line \cup Resource : writer[y] # NULL => writer'[y] # NULL
      /\ \A y \in Resource : writer'[y] = NULL => writer[y] = NULL /\ y # x
  <2>1. TypeOK
    BY <1>1
  <2>2. Write(s, new, x, c) /\ new \in [{l} -> Row] /\ {l} \in SUBSET Line
    BY <1>2, <1>3
  <2>3. /\ claims' = claims
        /\ \A y \in Resource : IF y = x THEN claimDraft'[y] = c ELSE claimDraft'[y] = claimDraft[y]
        /\ \A y \in {l} : writer'[y] = s
        /\ \A y \in Line \cup Resource : writer[y] # NULL => writer'[y] # NULL
        /\ \A y \in Resource : writer'[y] = NULL => writer[y] = NULL /\ y # x
    BY ONLY <2>1, <2>2, s \in Sync, x \in Resource \cup {NULL}, WriteClaims
  <2> QED  BY <2>3
<1>8. \A y \in Resource : claimDraft[y] # NULL => claimDraft'[y] = claimDraft[y]
  BY <1>4, <1>7
<1>9. \A k \in Line : draft[k].withdrawal # NULL =>
        draft[k].withdrawal \in Resource /\ claimDraft[draft[k].withdrawal] = k /\ k # NULL
  BY <1>1, NullAssumption DEF KInv, EchoOK, Row, Resource
<1>10. row.withdrawal # NULL => claimDraft'[row.withdrawal] = l
  <2>1. row.withdrawal # NULL => row.withdrawal \in Resource
    BY DEF Row, Resource
  <2> QED  BY <1>5, <1>7, <1>8, <1>9, <2>1
<1>11. EchoOK(draft', claimDraft')
  <2> SUFFICES ASSUME NEW k \in Line, draft'[k].withdrawal # NULL
               PROVE  /\ draft'[k].status # "absent" /\ draft'[k].posts = <<>>
                      /\ claimDraft'[draft'[k].withdrawal] = k
    BY DEF EchoOK
  <2>1. CASE k = l
    BY <1>6, <1>10, <2>1
  <2>2. CASE k # l
    BY <1>6, <1>8, <1>9, <2>2 DEF KInv, EchoOK
  <2> QED  BY <2>1, <2>2
<1>12. LandingLocked'
  <2> SUFFICES ASSUME NEW k \in Line, draft'[k].withdrawal # NULL, draft'[k].entry = NULL
               PROVE  writer'[k] # NULL /\ draft'[k].category = Landing
    BY DEF LandingLocked
  <2>1. CASE k = l
    BY <1>4, <1>6, <1>7, <2>1
  <2>2. CASE k # l
    BY <1>6, <1>7, <2>2 DEF KInv, LandingLocked
  <2> QED  BY <2>1, <2>2
<1>13. todo'[s] = todo[s] \ {l} /\ pc' = pc /\ snap' = snap
  BY <1>1 DEF Drop, TypeOK
<1>14. \A k \in todo'[s] : k \in todo[s] /\ k \in Line /\ draft'[k] = draft[k]
  BY <1>1, <1>6, <1>13 DEF TypeOK
<1>15. pc'[s] = "match" => \A k \in todo'[s] : draft'[k].withdrawal = NULL
  BY <1>13, <1>14 DEF KInv, MatchFresh
<1>16. pc'[s] = "post" =>
         /\ \A k \in Line : draft'[k].withdrawal # NULL /\ draft'[k].entry = NULL => k \in todo'[s]
         /\ \A k \in todo'[s] : draft'[k].withdrawal # NULL =>
               snap'[s][k].category = Landing /\ snap'[s][k].withdrawal # NULL
  <2> SUFFICES ASSUME pc[s] = "post"
               PROVE  /\ \A k \in Line : draft'[k].withdrawal # NULL /\ draft'[k].entry = NULL => k \in todo'[s]
                      /\ \A k \in todo'[s] : draft'[k].withdrawal # NULL =>
                            snap'[s][k].category = Landing /\ snap'[s][k].withdrawal # NULL
    BY <1>13
  <2>1. draft'[l].withdrawal # NULL => draft'[l].entry # NULL
    BY <1>6
  <2> QED  BY <1>6, <1>13, <1>14, <2>1 DEF KInv, PostEcho
<1>17. /\ pick'[s] = NULL /\ \A t \in Sync \ {s} : pc'[t] = pc[t] /\ pick'[t] = pick[t]
       /\ \A y \in Resource : writer'[y] = NULL => writer[y] = NULL /\ claimDraft'[y] = claimDraft[y]
  BY <1>7, <1>13
<1> QED  BY <1>1, <1>6, <1>7, <1>8, <1>11, <1>12, <1>15, <1>16, <1>17, RunnerKeeps

\* A visit that consumes nothing and leaves no landing that is not linked.
LEMMA PlainVisit ==
    ASSUME KInv, JInv', NEW s \in Sync, NEW l \in Line,
           pc[s] \in {"match", "post"}, l \in todo[s],
           pick'[s] = NULL, \A t \in Sync \ {s} : pick'[t] = pick[t],
           UNCHANGED <<holder, pc, snap>>, Drop(s, l),
           NEW row \in Row, WriteRow(s, l, row),
           row.withdrawal = draft[l].withdrawal,
           row.withdrawal # NULL => row.status # "absent" /\ row.posts = <<>> /\ row.entry # NULL
    PROVE  KInv'
<1>1. Consumes(s, l, row, NULL)
  BY DEF WriteRow, Consumes
<1> QED  BY <1>1, VisitKeeps

-----------------------------------------------------------------------------
(* The invariant holds at the start and every step keeps it. *)

LEMMA ClaimInvInit == Init => KInv
<1> SUFFICES ASSUME Init PROVE KInv
  OBVIOUS
<1>1. JInv
  BY BookInvInit
<1>2. /\ rows = [l \in Line |-> NoRow] /\ draft = rows /\ NoRow.withdrawal = NULL
      /\ claimDraft = claims
  BY DEF Init, NoRow
<1>3. /\ ClaimsExtend /\ EchoOK(rows, claims) /\ EchoOK(draft, claimDraft)
      /\ LandingLinked /\ LandingLocked
  BY <1>2 DEF ClaimsExtend, EchoOK, LandingLinked, LandingLocked
<1>4. MatchFresh /\ PostEcho /\ PickEcho
  BY DEF Init, MatchFresh, PostEcho, PickEcho
<1> QED  BY <1>1, <1>3, <1>4 DEF KInv

\* A label reaches no landing: a committed one is linked, one that is not is locked.
LEMMA LabelKeeps ==
    ASSUME KInv, JInv', NEW l \in Line, NEW c \in HumanLabel,
           NEW ref \in HumanRef \cup {NULL}, NEW acct \in BOOLEAN, LabelRow(l, c, ref, acct)
    PROVE  KInv' /\ claims' = claims
<1> DEFINE row == Labelled(rows[l], c, ref, acct)
<1>1. TypeOK /\ rows \in [Line -> Row] /\ draft \in [Line -> Row]
  BY DEF KInv, JInv, IInv, TypeOK
<1>2. /\ rows' = [rows EXCEPT ![l] = row] /\ draft' = [draft EXCEPT ![l] = row]
      /\ draft[l] = rows[l] /\ rows[l].entry = NULL
      /\ UNCHANGED <<claims, claimDraft, writer, pc, todo, snap, pick>>
  BY <1>1 DEF LabelRow, Correctable, TypeOK
<1>3. row.withdrawal = NULL
  <2>1. row.withdrawal = rows[l].withdrawal
    BY <1>1 DEF Labelled, Row
  <2> QED  BY <1>2, <2>1 DEF KInv, LandingLinked
<1> HIDE DEF row
<1>4. /\ rows'[l] = row /\ \A k \in Line \ {l} : rows'[k] = rows[k]
      /\ draft'[l] = row /\ \A k \in Line \ {l} : draft'[k] = draft[k]
  BY <1>1, <1>2
<1>5. ClaimsExtend' /\ LandingLinked' /\ LandingLocked'
  BY <1>2, <1>3, <1>4 DEF KInv, ClaimsExtend, LandingLinked, LandingLocked
<1>6. EchoOK(rows', claims') /\ EchoOK(draft', claimDraft')
  BY <1>2, <1>3, <1>4 DEF KInv, EchoOK
<1>7. EchoOK(rows, claims)' /\ EchoOK(draft, claimDraft)'
  BY <1>6 DEF EchoOK
<1>8. \A s \in Sync : todo[s] \subseteq Line /\ (pick[s] # NULL => pick[s].row \in Line)
  BY <1>1 DEF TypeOK
<1>9. \A k \in Line : draft[k].withdrawal = NULL => draft'[k].withdrawal = NULL
  BY <1>3, <1>4
<1>10. MatchFresh' /\ PickEcho'
  BY <1>2, <1>8, <1>9 DEF KInv, MatchFresh, PickEcho
<1>11. PostEcho'
  BY <1>2, <1>3, <1>4, <1>8 DEF KInv, PostEcho
<1> QED  BY <1>2, <1>5, <1>7, <1>10, <1>11 DEF KInv

\* Neither side of a pair that is claimed is a landing still to be linked.
LEMMA ClaimKeeps ==
    ASSUME KInv, JInv', NEW s \in Sync, ClaimPair(s)
    PROVE  KInv' /\ claims' = claims
<1> DEFINE l == pick[s].row
           m == pick[s].match
           e == pick[s].entry
           claimed == [View(s, l) EXCEPT !.paired = m]
           mine == IF e = NULL THEN Settled(claimed, l, Transfer)
                               ELSE Settled(claimed, e, <<>>)
           theirs == [View(s, m) EXCEPT !.paired = l]
           new == [k \in {l, m} |-> IF k = l THEN mine ELSE theirs]
<1>0. TypeOK /\ OneWriter /\ draft \in [Line -> Row]
  BY DEF KInv, JInv, IInv, TypeOK
<1>1. pick[s] # NULL /\ Write(s, new, NULL, NULL) /\ UNCHANGED <<holder, pc, snap>>
      /\ pick' = [pick EXCEPT ![s] = NULL] /\ Drop(s, l)
  BY DEF ClaimPair, Transfer
<1>2. l \in Line /\ m \in Line /\ e \in Line \cup Withdrawal \cup {NULL}
  BY <1>0, <1>1 DEF TypeOK
<1>3. pc[s] = "post" /\ pc[s] # "idle" /\ l \in todo[s] /\ l # m
  BY <1>1 DEF KInv, JInv, IInv, PickStands
<1>4. draft[l].withdrawal = NULL
  BY <1>1 DEF KInv, PickEcho
<1>5. View(s, l) = draft[l] /\ View(s, m) = draft[m] /\ draft[l] \in Row /\ draft[m] \in Row
  BY <1>0, <1>2, <1>3, RunnerSees
<1> HIDE DEF l, m, e
<1>6. claimed \in Row /\ claimed.withdrawal = NULL
  <2>1. claimed.withdrawal = draft[l].withdrawal
    BY <1>5 DEF Row
  <2> QED  BY <1>2, <1>4, <1>5, <2>1, PairedFields
<1>7. /\ theirs \in Row /\ theirs.posts = draft[m].posts /\ theirs.entry = draft[m].entry
      /\ theirs.status = draft[m].status /\ theirs.category = draft[m].category
      /\ theirs.withdrawal = draft[m].withdrawal
  <2>1. theirs.category = draft[m].category /\ theirs.withdrawal = draft[m].withdrawal
    BY <1>5 DEF Row
  <2> QED  BY <1>2, <1>5, <2>1, PairedFields
<1> HIDE DEF claimed, theirs
<1>8. mine \in Row /\ mine.withdrawal = NULL
  <2>1. Transfer \in Seq(Category)
    BY DEF Transfer, Category
  <2>2. mine \in Row
    <3>1. Settled(claimed, l, Transfer) \in Row
      BY <1>2, <1>6, <2>1, SettledType
    <3>2. Settled(claimed, e, <<>>) \in Row
      BY <1>2, <1>6, LinkedType
    <3> QED  BY <3>1, <3>2
  <2>3. mine.withdrawal = claimed.withdrawal
    BY <1>6 DEF Settled, Row
  <2> QED  BY <1>6, <2>2, <2>3
<1> HIDE DEF mine
<1>9. new \in [{l, m} -> Row] /\ {l, m} \in SUBSET Line /\ new[l] = mine /\ new[m] = theirs
  BY <1>2, <1>3, <1>7, <1>8
<1> HIDE DEF new
<1>10. /\ draft'[l] = mine /\ draft'[m] = theirs
       /\ \A k \in Line \ {l, m} : draft'[k] = draft[k]
       /\ rows' = rows
  BY <1>0, <1>1, <1>3, <1>9, WriteDrafts
<1>11. Write(s, new, NULL, NULL) /\ new \in [{l, m} -> Row] /\ {l, m} \in SUBSET Line
  BY <1>1, <1>9
<1>12. /\ claims' = claims
       /\ \A y \in Resource : IF y = NULL THEN claimDraft'[y] = NULL ELSE claimDraft'[y] = claimDraft[y]
       /\ \A y \in {l, m} : writer'[y] = s
       /\ \A y \in Line \cup Resource : writer[y] # NULL => writer'[y] # NULL
       /\ \A y \in Resource : writer'[y] = NULL => writer[y] = NULL /\ y # NULL
  <2>1. TypeOK /\ NULL \in Resource \cup {NULL}
    BY <1>0
  <2> QED  BY ONLY <2>1, <1>11, s \in Sync, WriteClaims
<1>13. \A y \in Resource : claimDraft'[y] = claimDraft[y]
  BY <1>12, NullAssumption
<1>14. \A k \in Line : draft'[k].withdrawal # NULL =>
         /\ k # l /\ draft'[k].withdrawal = draft[k].withdrawal
         /\ draft'[k].status = draft[k].status /\ draft'[k].posts = draft[k].posts
         /\ draft'[k].entry = draft[k].entry /\ draft'[k].category = draft[k].category
  BY <1>7, <1>8, <1>10
<1>15. \A k \in Line : draft[k].withdrawal # NULL => draft[k].withdrawal \in Resource
  BY <1>0 DEF Row, Resource
<1>16. EchoOK(draft', claimDraft')
  BY <1>13, <1>14, <1>15 DEF KInv, EchoOK
<1>17. LandingLocked'
  BY <1>12, <1>14 DEF KInv, LandingLocked
<1>18. todo'[s] = todo[s] \ {l} /\ todo[s] \subseteq Line /\ pick'[s] = NULL /\ pc' = pc /\ snap' = snap
       /\ \A t \in Sync \ {s} : pc'[t] = pc[t] /\ pick'[t] = pick[t]
  BY <1>0, <1>1 DEF Drop, TypeOK
<1>19. /\ \A k \in Line : draft'[k].withdrawal # NULL /\ draft'[k].entry = NULL => k \in todo'[s]
       /\ \A k \in todo'[s] : draft'[k].withdrawal # NULL =>
             snap'[s][k].category = Landing /\ snap'[s][k].withdrawal # NULL
  BY <1>3, <1>14, <1>18 DEF KInv, PostEcho
<1>20. \A y \in Resource : writer'[y] = NULL => writer[y] = NULL
  BY <1>12
<1> QED  BY <1>3, <1>10, <1>12, <1>13, <1>16, <1>17, <1>18, <1>19, <1>20, RunnerKeeps

LEMMA ClaimInvStep ==
    KInv /\ [Next]_vars => KInv' /\ \A x \in Resource : claims[x] # NULL => claims'[x] = claims[x]
<1> SUFFICES ASSUME KInv, [Next]_vars
             PROVE  KInv' /\ \A x \in Resource : claims[x] # NULL => claims'[x] = claims[x]
  OBVIOUS
<1>0. JInv' /\ JInv /\ IInv /\ TypeOK /\ OneWriter /\ QueueOK(draft) /\ ClaimsExtend
      /\ rows \in [Line -> Row] /\ draft \in [Line -> Row]
  BY BookInvStep DEF KInv, JInv, IInv, TypeOK
<1>1. CASE UNCHANGED vars
  <2>1. ClaimsExtend' /\ EchoOK(rows, claims)' /\ EchoOK(draft, claimDraft)'
        /\ LandingLinked' /\ LandingLocked'
    BY <1>1 DEF vars, KInv, ClaimsExtend, EchoOK, LandingLinked, LandingLocked
  <2>2. MatchFresh' /\ PostEcho' /\ PickEcho'
    BY <1>1 DEF vars, KInv, MatchFresh, PostEcho, PickEcho
  <2> QED  BY <1>0, <1>1, <2>1, <2>2 DEF vars, KInv
<1>2. ASSUME NEW l \in Line, Upload(l) PROVE KInv' /\ claims' = claims
  <2>1. UNCHANGED <<rows, claims, draft, claimDraft, writer, pc, todo, snap, pick>>
    BY <1>2 DEF Upload, store
  <2>2. ClaimsExtend' /\ EchoOK(rows, claims)' /\ EchoOK(draft, claimDraft)'
        /\ LandingLinked' /\ LandingLocked'
    BY <2>1 DEF KInv, ClaimsExtend, EchoOK, LandingLinked, LandingLocked
  <2>3. MatchFresh' /\ PostEcho' /\ PickEcho'
    BY <2>1 DEF KInv, MatchFresh, PostEcho, PickEcho
  <2> QED  BY <1>0, <2>1, <2>2, <2>3 DEF KInv
<1>3. ASSUME NEW l \in Line, NEW c \in HumanLabel, NEW ref \in HumanRef \cup {NULL},
             NEW acct \in BOOLEAN, LabelRow(l, c, ref, acct)
      PROVE  KInv' /\ claims' = claims
  BY <1>0, <1>3, LabelKeeps
<1>4. ASSUME NEW s \in Sync, Begin(s) PROVE KInv' /\ claims' = claims
  <2>1. /\ UNCHANGED <<rows, claims, draft, claimDraft, writer, todo, snap, pick>>
        /\ \A t \in Sync : pc'[t] \in {"match", "post"} => pc'[t] = pc[t]
    BY <1>0, <1>4 DEF Begin, store, TypeOK
  <2>2. ClaimsExtend' /\ EchoOK(rows, claims)' /\ EchoOK(draft, claimDraft)'
        /\ LandingLinked' /\ LandingLocked'
    BY <2>1 DEF KInv, ClaimsExtend, EchoOK, LandingLinked, LandingLocked
  <2>3. MatchFresh' /\ PostEcho' /\ PickEcho'
    BY <2>1 DEF KInv, MatchFresh, PostEcho, PickEcho
  <2> QED  BY <1>0, <2>1, <2>2, <2>3 DEF KInv
<1>5. ASSUME NEW s \in Sync, StageRawLines(s) PROVE KInv' /\ claims' = claims
  <2> DEFINE new == {l \in uploaded : View(s, l).status = "absent"}
             fresh == [NoRow EXCEPT !.status = "needs_review"]
             staged == [l \in new |-> fresh]
  <2>1. fresh \in Row /\ fresh.withdrawal = NULL
    BY NoRowType DEF Row, NoRow
  <2> HIDE DEF fresh
  <2>2. new \in SUBSET Line /\ staged \in [new -> Row] /\ \A l \in new : staged[l] = fresh
    BY <1>0, <2>1 DEF TypeOK
  <2>3. Write(s, staged, NULL, NULL)
    BY <1>5 DEF StageRawLines, fresh
  <2>4. pc[s] = "stage" /\ pc' = [pc EXCEPT ![s] = "staged"] /\ UNCHANGED <<todo, snap, pick>>
    BY <1>5 DEF StageRawLines
  <2>5. pc[s] # "idle" /\ pick[s] = NULL
    BY <2>4 DEF KInv, JInv, IInv, PickStands
  <2> HIDE DEF new, staged
  <2>6. /\ \A l \in new : draft'[l] = fresh
        /\ \A l \in Line \ new : draft'[l] = draft[l]
        /\ rows' = rows
    BY <1>0, <2>2, <2>3, <2>5, WriteDrafts
  <2>7. /\ claims' = claims
        /\ \A y \in Resource : IF y = NULL THEN claimDraft'[y] = NULL ELSE claimDraft'[y] = claimDraft[y]
        /\ \A y \in new : writer'[y] = s
        /\ \A y \in Line \cup Resource : writer[y] # NULL => writer'[y] # NULL
        /\ \A y \in Resource : writer'[y] = NULL => writer[y] = NULL /\ y # NULL
    <3>1. TypeOK
      BY <1>0
    <3>2. new \in SUBSET Line /\ staged \in [new -> Row] /\ NULL \in Resource \cup {NULL}
      BY <2>2
    <3> QED  BY <3>1, <3>2, <2>3, WriteClaims, SMTT(60)
  <2>8. \A y \in Resource : claimDraft'[y] = claimDraft[y]
    BY <2>7, NullAssumption
  <2>9. \A k \in Line : draft'[k].withdrawal # NULL => draft'[k] = draft[k]
    BY <2>1, <2>6
  <2>10. \A k \in Line : draft[k].withdrawal # NULL => draft[k].withdrawal \in Resource
    BY <1>0 DEF Row, Resource
  <2>11. EchoOK(draft', claimDraft')
    BY <2>8, <2>9, <2>10 DEF KInv, EchoOK
  <2>12. LandingLocked'
    BY <2>7, <2>9 DEF KInv, LandingLocked
  <2>13. pc'[s] = "staged" /\ pick'[s] = NULL
        /\ \A t \in Sync \ {s} : pc'[t] = pc[t] /\ pick'[t] = pick[t]
    BY <1>0, <2>4, <2>5 DEF TypeOK
  <2>14. \A y \in Resource : writer'[y] = NULL => writer[y] = NULL
    BY <2>7
  <2> QED  BY <1>0, <2>5, <2>6, <2>7, <2>8, <2>11, <2>12, <2>13, <2>14, RunnerKeeps
<1>6. ASSUME NEW s \in Sync, StartAutoMatch(s) PROVE KInv' /\ claims' = claims
  <2>1. pc[s] = "staged" /\ pc' = [pc EXCEPT ![s] = "match"]
        /\ todo' = [todo EXCEPT ![s] = Unclassified(s)]
        /\ UNCHANGED <<store, snap, pick>> /\ claims' = claims
    BY <1>6 DEF StartAutoMatch, store
  <2>2. pc[s] # "idle" /\ pc'[s] = "match" /\ pick'[s] = NULL
        /\ \A t \in Sync \ {s} : pc'[t] = pc[t] /\ pick'[t] = pick[t]
    BY <1>0, <2>1 DEF IInv, PickStands, TypeOK
  <2>3. \A l \in todo'[s] : draft[l].withdrawal = NULL
    <3>1. \A l \in Line : View(s, l) = draft[l]
      BY <1>0, <2>2, RunnerSees
    <3>2. todo'[s] = Unclassified(s)
      BY <1>0, <2>1 DEF TypeOK
    <3>3. Landing # NULL
      BY NullAssumption DEF Landing, Category
    <3>4. \A l \in todo'[s] : l \in Line /\ draft[l].category = NULL
      BY <3>1, <3>2 DEF Unclassified
    <3>5. \A l \in todo'[s] : draft[l].entry = NULL
      BY <1>0, <3>4 DEF JInv, BookOK, Named
    <3> QED  BY <3>3, <3>4, <3>5 DEF KInv, LandingLocked
  <2> QED  BY <1>0, <2>1, <2>2, <2>3, RunnerWaits
<1>7. ASSUME NEW s \in Sync, StartPosting(s) PROVE KInv' /\ claims' = claims
  <2>1. pc[s] = "match" /\ pc' = [pc EXCEPT ![s] = "post"]
        /\ todo' = [todo EXCEPT ![s] = Pending(s)]
        /\ snap' = [snap EXCEPT ![s] = [l \in Line |-> IF l \in Pending(s) THEN View(s, l) ELSE NoRow]]
        /\ UNCHANGED <<store, pick>> /\ claims' = claims
    BY <1>7 DEF StartPosting, store
  <2>2. pc[s] # "idle" /\ pc'[s] = "post" /\ pick'[s] = NULL
        /\ \A t \in Sync \ {s} : pc'[t] = pc[t] /\ pick'[t] = pick[t]
    BY <1>0, <2>1 DEF IInv, PickStands, TypeOK
  <2>3. \A l \in Line : View(s, l) = draft[l]
    BY <1>0, <2>2, RunnerSees
  <2>4. todo'[s] = Pending(s)
    BY <1>0, <2>1 DEF TypeOK
  <2>5. \A l \in Pending(s) : l \in Line /\ snap'[s][l] = draft[l] /\ draft[l].entry = NULL
    BY <1>0, <2>1, <2>3 DEF TypeOK, Pending
  <2>6. \A l \in Line : draft[l].withdrawal # NULL /\ draft[l].entry = NULL => l \in todo'[s]
    BY <2>3, <2>4 DEF KInv, EchoOK, Pending
  <2>7. \A l \in todo'[s] : draft[l].withdrawal # NULL =>
          snap'[s][l].category = Landing /\ snap'[s][l].withdrawal # NULL
    BY <2>4, <2>5 DEF KInv, LandingLocked
  <2> QED  BY <1>0, <2>1, <2>2, <2>6, <2>7, RunnerWaits
<1>8. ASSUME NEW s \in Sync, ClaimPair(s) PROVE KInv' /\ claims' = claims
  BY <1>0, <1>8, ClaimKeeps
<1>9. ASSUME NEW s \in Sync, NEW l \in Line, AutoMatchRow(s, l) PROVE KInv' /\ claims' = claims
  <2>1. pc[s] = "match" /\ pc[s] # "idle" /\ pc[s] \in {"match", "post"} /\ pick[s] = NULL
        /\ l \in todo[s] /\ UNCHANGED <<holder, pc, snap, pick>> /\ Drop(s, l)
    BY <1>9 DEF AutoMatchRow, KInv, JInv, IInv, PickStands
  <2>2. CASE UNCHANGED store
    <3>1. UNCHANGED store /\ claims' = claims /\ pc'[s] = "match" /\ pick'[s] = NULL
          /\ \A t \in Sync \ {s} : pc'[t] = pc[t] /\ pick'[t] = pick[t]
      BY <2>1, <2>2 DEF store
    <3>2. \A k \in todo'[s] : draft[k].withdrawal = NULL
      BY <1>0, <2>1 DEF Drop, TypeOK, KInv, MatchFresh
    <3> QED  BY <1>0, <2>1, <3>1, <3>2, RunnerWaits
  <2>3. ASSUME NEW o \in RuleOutcomes(s, l),
               Write(s, [m \in {l} |-> [o.row EXCEPT !.status = "matched"]], o.resource, l)
        PROVE  KInv' /\ claims' = claims
    <3> DEFINE row == [o.row EXCEPT !.status = "matched"]
               x == o.resource
    <3>1. o.row \in Row /\ x \in Resource \cup {NULL}
      BY <1>0, RuleType
    <3>2. row \in Row /\ row.status = "matched" /\ row.posts = o.row.posts
          /\ row.withdrawal = o.row.withdrawal /\ row.category = o.row.category
      BY <3>1 DEF Row
    <3>3. Consumes(s, l, row, x) /\ claims' = claims
      <4>1. Write(s, [m \in {l} |-> row], x, l)
        BY <2>3
      <4>2. claims' = claims
        BY <4>1 DEF Write
      <4>3. CASE x # NULL
        BY <4>1, <4>2, <4>3 DEF Consumes
      <4>4. CASE x = NULL
        <5>1. Write(s, [m \in {l} |-> row], NULL, NULL)
          <6> HIDE DEF row
          <6> QED  BY <4>1, <4>4, NullAssumption DEF Write
        <5> QED  BY <4>2, <4>4, <5>1 DEF Consumes
      <4> QED  BY <4>3, <4>4
    <3>4. View(s, l) = draft[l] /\ o.row.posts = draft[l].posts
      BY <1>0, <2>1, RunnerSees, RuleKeeps
    <3>5. draft[l].withdrawal = NULL /\ draft[l].entry = NULL
      BY <2>1 DEF KInv, MatchFresh, JInv, MatchPending
    <3>6. draft[l].posts = <<>>
      BY <1>0, <3>5, NothingYet
    <3>7. /\ x # NULL => Claimant(s, x) = NULL
          /\ \/ o.row.withdrawal = View(s, l).withdrawal
             \/ o.row.withdrawal = x /\ x \in Withdrawal /\ o.row.category = Landing
      BY <1>0, RuleClaims
    <3> HIDE DEF row, x
    <3>8. x # NULL => claimDraft[x] = NULL
      BY <1>0, <2>1, <3>1, <3>7, RunnerClaims
    <3>9. row.withdrawal # NULL =>
              /\ row.status # "absent" /\ row.posts = <<>>
              /\ row.withdrawal = x \/ row.withdrawal = draft[l].withdrawal
              /\ row.entry = NULL => pc[s] = "match" /\ row.category = Landing
      BY <2>1, <3>2, <3>4, <3>5, <3>6, <3>7
    <3> QED  BY <1>0, <2>1, <3>1, <3>2, <3>3, <3>8, <3>9, VisitKeeps
  <2> QED  BY <1>9, <2>2, <2>3 DEF AutoMatchRow, store
<1>10. ASSUME NEW s \in Sync, NEW l \in Line, Visiting(s, l)
       PROVE  /\ pc[s] = "post" /\ pc[s] \in {"match", "post"} /\ pc[s] # "idle"
              /\ pick[s] = NULL /\ l \in todo[s]
              /\ View(s, l) = draft[l] /\ draft[l] \in Row /\ snap[s][l] \in Row
              /\ draft[l].posts = <<>>
              /\ draft[l].withdrawal # NULL =>
                    snap[s][l].category = Landing /\ snap[s][l].withdrawal # NULL
  <2>1. pc[s] = "post" /\ pc[s] # "idle" /\ pick[s] = NULL /\ l \in todo[s]
    BY <1>10 DEF Visiting
  <2>2. View(s, l) = draft[l] /\ draft[l] \in Row /\ snap[s][l] \in Row
    BY <1>0, <2>1, RunnerSees DEF TypeOK
  <2>3. draft[l].entry = NULL
    BY <1>0, <2>1 DEF IInv, StillPending
  <2>4. draft[l].posts = <<>>
    BY <1>0, <2>3, NothingYet
  <2>5. draft[l].withdrawal # NULL => snap[s][l].category = Landing /\ snap[s][l].withdrawal # NULL
    BY <2>1 DEF KInv, PostEcho
  <2> QED  BY <2>1, <2>2, <2>4, <2>5
<1>11. ASSUME NEW s \in Sync, NEW l \in Line, FlagRow(s, l) PROVE KInv' /\ claims' = claims
  <2> DEFINE why == Refusal(s, l, snap[s][l])
             row == Flagged(View(s, l), why)
  <2>1. Visiting(s, l) /\ UNCHANGED <<holder, pc, snap, pick>> /\ Drop(s, l) /\ WriteRow(s, l, row)
    BY <1>11 DEF FlagRow
  <2>2. why \in Reason /\ why # NULL
    BY <1>11, RefusalType DEF FlagRow
  <2>3. draft[l].withdrawal = NULL
    <3>1. snap[s][l].category = Landing => why = NULL
      BY DEF Refusal, SignMismatch, MissingReference, WrongScope, WrongDirection, Landing
    <3> QED  BY <1>10, <2>1, <2>2, <3>1
  <2>4. claims' = claims
    BY <2>1 DEF WriteRow, Write
  <2> HIDE DEF why
  <2>5. View(s, l) = draft[l] /\ draft[l] \in Row
    BY <1>10, <2>1
  <2>6. row \in Row
    BY <2>2, <2>5, FlaggedType
  <2>7. row.withdrawal = draft[l].withdrawal
    BY <2>5 DEF Flagged, Row
  <2> HIDE DEF row
  <2> QED  BY <1>0, <1>10, <2>1, <2>3, <2>4, <2>6, <2>7, PlainVisit
<1>12. ASSUME NEW s \in Sync, NEW l \in Line, SkipRow(s, l) PROVE KInv' /\ claims' = claims
  <2>1. Visiting(s, l) /\ Drop(s, l) /\ UNCHANGED <<store, pc, snap, pick>> /\ claims' = claims
        /\ NotReady(s, l, snap[s][l])
    BY <1>12 DEF SkipRow, store
  <2>2. draft[l].withdrawal = NULL
    <3>1. snap[s][l].category = Landing /\ snap[s][l].withdrawal # NULL => ~NotReady(s, l, snap[s][l])
      BY NullAssumption DEF NotReady, Landing, Category
    <3> QED  BY <1>10, <2>1, <3>1
  <2>3. pc'[s] = "post" /\ pick'[s] = NULL
        /\ \A t \in Sync \ {s} : pc'[t] = pc[t] /\ pick'[t] = pick[t]
    BY <2>1 DEF Visiting
  <2>4. /\ \A k \in Line : draft[k].withdrawal # NULL /\ draft[k].entry = NULL => k \in todo'[s]
        /\ \A k \in todo'[s] : draft[k].withdrawal # NULL =>
              snap'[s][k].category = Landing /\ snap'[s][k].withdrawal # NULL
    <3>1. todo'[s] = todo[s] \ {l} /\ pc[s] = "post" /\ snap' = snap
      BY <1>0, <1>10, <2>1 DEF Drop, TypeOK
    <3> QED  BY <2>2, <3>1 DEF KInv, PostEcho
  <2> QED  BY <1>0, <1>10, <2>1, <2>3, <2>4, RunnerWaits
<1>13. ASSUME NEW s \in Sync, NEW l \in Line, PostRow(s, l) PROVE KInv' /\ claims' = claims
  <2> DEFINE c == snap[s][l].category
             made == <<c>>
             row == Settled(View(s, l), l, made)
  <2>1. Visiting(s, l) /\ UNCHANGED <<holder, pc, snap, pick>> /\ Drop(s, l)
        /\ c \notin {NULL, Landing}
    BY <1>13 DEF PostRow, Ordinary, Landing
  <2>2. View(s, l) = draft[l] /\ draft[l] \in Row /\ draft[l].withdrawal = NULL /\ c \in Category
    BY <1>10, <2>1 DEF Row
  <2>3. PICK x \in Resource \cup {NULL} :
           /\ Consumes(s, l, row, x)
           /\ x # NULL => Claimant(s, x) = NULL
    <3> HIDE DEF row
    <3>1. CASE Write(s, [m \in {l} |-> row], NULL, NULL)
      BY <3>1 DEF Consumes
    <3>2. ASSUME NEW a \in Owed(s, snap[s][l]), Write(s, [m \in {l} |-> row], a, l)
          PROVE  /\ a \in Resource /\ a # NULL
                 /\ Consumes(s, l, row, a)
                 /\ Claimant(s, a) = NULL
      <4>1. a \in Resource /\ a # NULL /\ Claimant(s, a) = NULL
        BY NullAssumption DEF Owed, Resource
      <4> QED  BY <3>2, <4>1 DEF Consumes
    <3>3. \/ Write(s, [m \in {l} |-> row], NULL, NULL)
          \/ \E a \in Owed(s, snap[s][l]) : Write(s, [m \in {l} |-> row], a, l)
      BY <1>13 DEF PostRow, row
    <3> QED  BY <3>1, <3>2, <3>3
  <2> HIDE DEF c
  <2>4. made \in Seq(Category)
    BY <2>2
  <2>5. row \in Row
    BY <2>2, <2>4, SettledType
  <2>6. row.withdrawal = draft[l].withdrawal
    BY <2>2 DEF Settled, Row
  <2> HIDE DEF row, made
  <2>7. claims' = claims
    BY <2>3 DEF Consumes, Write
  <2>8. x # NULL => claimDraft[x] = NULL
    BY <1>0, <1>10, <2>1, <2>3, RunnerClaims
  <2>9. row.withdrawal = NULL
    BY <2>2, <2>6
  <2> QED  BY <1>0, <1>10, <2>1, <2>3, <2>5, <2>7, <2>8, <2>9, VisitKeeps
<1>14. ASSUME NEW s \in Sync, NEW l \in Line, LinkLanding(s, l) PROVE KInv' /\ claims' = claims
  <2> DEFINE e == snap[s][l].withdrawal
             row == Settled(View(s, l), e, <<>>)
  <2>1. Visiting(s, l) /\ UNCHANGED <<holder, pc, snap, pick>> /\ Drop(s, l)
        /\ WriteRow(s, l, row) /\ e # NULL
    BY <1>14 DEF LinkLanding
  <2>2. View(s, l) = draft[l] /\ draft[l] \in Row /\ e \in Withdrawal /\ draft[l].posts = <<>>
    BY <1>10, <2>1 DEF Row
  <2>3. claims' = claims
    BY <2>1 DEF WriteRow, Write
  <2> HIDE DEF e
  <2>4. row \in Row
    BY <2>2, LinkedType
  <2>5. row.posts = <<>> \o <<>> /\ row.entry = e /\ row.status = "matched"
    BY <2>2, SettledFields
  <2>6. row.withdrawal = draft[l].withdrawal
    BY <2>2 DEF Settled, Row
  <2> HIDE DEF row
  <2>7. row.status # "absent" /\ row.posts = <<>> /\ row.entry # NULL
    BY <2>1, <2>5
  <2> QED  BY <1>0, <1>10, <2>1, <2>3, <2>4, <2>6, <2>7, PlainVisit
<1>15. ASSUME NEW s \in Sync, NEW l \in Line, LinkPair(s, l) PROVE KInv' /\ claims' = claims
  <2> DEFINE m == View(s, l).paired
             e == View(s, m).entry
             row == Settled(View(s, l), e, <<>>)
  <2>1. Visiting(s, l) /\ UNCHANGED <<holder, pc, snap, pick>> /\ Drop(s, l)
        /\ WriteRow(s, l, row) /\ snap[s][l].category # Landing /\ m # NULL
    BY <1>15 DEF LinkPair, Landing
  <2>2. View(s, l) = draft[l] /\ draft[l] \in Row /\ draft[l].withdrawal = NULL
    BY <1>10, <2>1
  <2>3. claims' = claims
    BY <2>1 DEF WriteRow, Write
  <2>4. m \in Line
    BY <2>1, <2>2 DEF Row
  <2> HIDE DEF m
  <2>5. View(s, m) \in Row
    BY <1>0, <2>4, ViewType
  <2>6. e \in Line \cup Withdrawal \cup {NULL}
    BY <2>5 DEF Row
  <2> HIDE DEF e
  <2>7. row \in Row
    BY <2>2, <2>6, LinkedType
  <2>8. row.withdrawal = draft[l].withdrawal
    BY <2>2 DEF Settled, Row
  <2> HIDE DEF row
  <2>9. row.withdrawal = NULL
    BY <2>2, <2>8
  <2> QED  BY <1>0, <1>10, <2>1, <2>3, <2>7, <2>8, <2>9, PlainVisit
<1>16. ASSUME NEW s \in Sync, NEW l \in Line, PickCounterpart(s, l) PROVE KInv' /\ claims' = claims
  <2>1. PICK m \in Unclaimed(s, l) :
           pick' = [pick EXCEPT ![s] = [row |-> l, match |-> m, entry |-> View(s, m).entry]]
    BY <1>16 DEF PickCounterpart
  <2>2. Visiting(s, l) /\ snap[s][l].category # Landing
        /\ UNCHANGED <<store, pc, todo, snap>> /\ claims' = claims
    BY <1>16 DEF PickCounterpart, store, Landing
  <2>3. pick'[s].row = l /\ \A t \in Sync \ {s} : pc'[t] = pc[t] /\ pick'[t] = pick[t]
    BY <1>0, <2>1, <2>2 DEF TypeOK
  <2>4. draft[l].withdrawal = NULL /\ pc[s] = "post" /\ pc[s] # "idle"
    BY <1>10, <2>2
  <2>5. /\ \A k \in Line : draft[k].withdrawal # NULL /\ draft[k].entry = NULL => k \in todo'[s]
        /\ \A k \in todo'[s] : draft[k].withdrawal # NULL =>
              snap'[s][k].category = Landing /\ snap'[s][k].withdrawal # NULL
    BY <2>2, <2>4 DEF KInv, PostEcho
  <2>6. pc'[s] = "post"
    BY <2>2, <2>4
  <2> QED  BY <1>0, <2>2, <2>3, <2>4, <2>5, <2>6, RunnerWaits
<1>17. ASSUME NEW s \in Sync, pc[s] # "idle", Finish(s)
       PROVE  MatchFresh' /\ PostEcho' /\ PickEcho'
  <2>1. \A t \in Sync \ {s} : pc[t] = "idle" /\ pick[t] = NULL
    BY <1>0, <1>17 DEF OneWriter, IInv, PickStands
  <2>2. \A t \in Sync : pc'[t] = "idle" /\ pick'[t] = NULL
    BY <1>0, <1>17, <2>1 DEF Finish, TypeOK
  <2> QED  BY <2>2 DEF MatchFresh, PostEcho, PickEcho
<1>18. ASSUME NEW s \in Sync, Commit(s)
       PROVE  KInv' /\ \A x \in Resource : claims[x] # NULL => claims'[x] = claims[x]
  <2>1. pc[s] = "post" /\ pc[s] # "idle" /\ todo[s] = {} /\ Finish(s)
        /\ rows' = [l \in Line |-> View(s, l)] /\ claims' = [x \in Resource |-> Claimant(s, x)]
        /\ draft' = draft /\ claimDraft' = claimDraft
    BY <1>18 DEF Commit
  <2>2. /\ \A l \in Line : rows'[l] = draft[l]
        /\ \A x \in Resource : claims'[x] = claimDraft[x]
    BY <1>0, <2>1, RunnerSees, RunnerClaims
  <2>3. ClaimsExtend' /\ \A x \in Resource : claims[x] # NULL => claims'[x] = claims[x]
    BY <2>1, <2>2 DEF KInv, ClaimsExtend
  <2>4. \A k \in Line : draft[k].withdrawal # NULL =>
          draft[k].withdrawal \in Resource /\ draft[k].entry # NULL
    BY <1>0, <2>1 DEF Row, Resource, KInv, PostEcho
  <2>5. EchoOK(rows, claims)' /\ EchoOK(draft, claimDraft)' /\ LandingLinked' /\ LandingLocked'
    BY <2>1, <2>2, <2>4 DEF KInv, EchoOK, LandingLinked, LandingLocked
  <2> QED  BY <1>0, <1>17, <2>1, <2>3, <2>5 DEF KInv
<1>19. ASSUME NEW s \in Sync, Rollback(s) PROVE KInv' /\ claims' = claims
  <2>1. pc[s] # "idle" /\ Finish(s) /\ rows' = rows /\ claims' = claims
        /\ draft' = [l \in Line |-> IF writer[l] = s THEN rows[l] ELSE draft[l]]
        /\ claimDraft' = [x \in Resource |-> IF writer[x] = s THEN claims[x] ELSE claimDraft[x]]
    BY <1>19 DEF Rollback
  <2>2. holder = s
    BY <1>0, <2>1 DEF OneWriter
  <2>3. \A l \in Line : draft'[l] = rows[l]
    BY <1>0, <2>1, <2>2, NullAssumption DEF OneWriter, TypeOK
  <2>4. \A x \in Resource : claimDraft'[x] = claims[x]
    BY <1>0, <2>1, <2>2, NullAssumption DEF OneWriter, ClaimsExtend
  <2>5. \A k \in Line : rows[k].withdrawal # NULL => rows[k].withdrawal \in Resource
    BY <1>0 DEF Row, Resource
  <2>6. ClaimsExtend' /\ LandingLinked' /\ LandingLocked'
    BY <2>1, <2>3, <2>4 DEF KInv, ClaimsExtend, LandingLinked, LandingLocked
  <2>7. EchoOK(rows, claims)' /\ EchoOK(draft, claimDraft)'
    BY <2>1, <2>3, <2>4, <2>5 DEF KInv, EchoOK
  <2> QED  BY <1>0, <1>17, <2>1, <2>6, <2>7 DEF KInv
<1>20. ASSUME NEW s \in Sync, NEW l \in Fragile, AttemptFails(s, l) PROVE KInv' /\ claims' = claims
  <2> DEFINE row == Flagged(View(s, l), "error")
  <2>1. PickStands
    BY <1>0 DEF IInv
  <2>2. /\ l \in Line /\ pc[s] = "post" /\ l \in todo[s]
        /\ UNCHANGED <<holder, pc, snap>> /\ Drop(s, l)
        /\ pick'[s] = NULL /\ \A t \in Sync \ {s} : pick'[t] = pick[t]
        /\ View(s, l) = draft[l] /\ draft[l] \in Row /\ row \in Row /\ WriteRow(s, l, row)
    BY <1>0, <1>20, <2>1, AttemptFacts
  <2>3. draft[l].withdrawal = NULL
    <3>1. CASE pick[s] # NULL /\ pick[s].row = l
      BY <3>1 DEF KInv, PickEcho
    <3>2. CASE Ordinary(snap[s][l])
      BY <2>2, <3>2 DEF KInv, PostEcho, Ordinary, Landing
    <3> QED  BY <1>20, <3>1, <3>2 DEF AttemptFails
  <2>4. claims' = claims
    BY <2>2 DEF WriteRow, Write
  <2>5. row.withdrawal = draft[l].withdrawal
    BY <2>2 DEF Flagged, Row
  <2> HIDE DEF row
  <2> QED  BY <1>0, <2>2, <2>3, <2>4, <2>5, PlainVisit
<1> QED  BY <1>1, <1>2, <1>3, <1>4, <1>5, <1>6, <1>7, <1>8, <1>9, <1>11, <1>12, <1>13,
            <1>14, <1>15, <1>16, <1>18, <1>19, <1>20
         DEF Next, Orderly, Failure, Human, Advance, Visit

LEMMA ClaimInvAlways == Spec => []KInv
<1>1. KInv /\ [Next]_vars => KInv'
  BY ClaimInvStep
<1> QED  BY <1>1, ClaimInvInit, PTL DEF Spec

-----------------------------------------------------------------------------

\* A payout, withdrawal or sale once consumed stays with its line in every step,
\* for any number of candidates: the advisory lock keeps every other sync from
\* coming between the query that finds it free and the UPDATE that marks it.
THEOREM ClaimsStandAlways == Spec => ClaimsStand
<1>1. KInv /\ [Next]_vars => [\A x \in Resource : claims[x] # NULL => claims'[x] = claims[x]]_vars
  BY ClaimInvStep
<1> QED  BY <1>1, ClaimInvAlways, PTL DEF Spec, ClaimsStand

\* The landing of a withdrawal is one line that books nothing, whatever labels
\* humans save while a sync runs.
THEOREM LandingEchoBooksNothingAlways == Spec => []LandingEchoBooksNothing
<1>1. KInv => LandingEchoBooksNothing
  <2> SUFFICES ASSUME KInv, NEW w \in Withdrawal, NEW l \in Line, rows[l].withdrawal = w
               PROVE  claims[w] = l /\ rows[l].posts = <<>>
    BY DEF LandingEchoBooksNothing
  <2>1. w # NULL
    BY NullAssumption DEF Resource
  <2> QED  BY <2>1 DEF KInv, EchoOK
<1> QED  BY <1>1, ClaimInvAlways, PTL

-----------------------------------------------------------------------------
(* The inductive invariant behind NothingSilentlyStuck.  A row the rules     *)
(* classified and nobody booked or labelled is provisional: it exists only   *)
(* in the draft of the sync that matched it, which still has to visit it     *)
(* with the category the rule gave it, and a visit with such a category      *)
(* books the row or flags it.  It needs the bookkeeping of landings: one     *)
(* without its withdrawal would be skipped.                                  *)

\* A row run_auto_match left as matched, neither booked nor labelled, that is
\* not waiting for the other end of a sweep.
Provisional(row) ==
    /\ row.status = "matched" /\ row.entry = NULL /\ ~row.labeled
    /\ row.category # "internal_transfer"

\* A provisional row is locked, has a category, and a landing has its withdrawal.
ProvisionalLocked ==
    \A l \in Line : Provisional(draft[l]) =>
        /\ writer[l] # NULL /\ draft[l].category # NULL
        /\ draft[l].category = Landing => draft[l].withdrawal # NULL

\* While the sync posts, it has still to visit the row, as the rule left it.
ProvisionalAhead ==
    \A s \in Sync : pc[s] = "post" =>
        \A l \in Line : Provisional(draft[l]) =>
            l \in todo[s] /\ snap[s][l].category = draft[l].category

SInv ==
    /\ KInv
    /\ \A l \in Line : ~Provisional(rows[l])
    /\ ProvisionalLocked /\ ProvisionalAhead

\* A step of the transaction that runs keeps SInv if it keeps its own part.
LEMMA RunnerDrafts ==
    ASSUME SInv, KInv', NEW s \in Sync, pc[s] # "idle", rows' = rows,
           \A t \in Sync \ {s} : pc'[t] = pc[t],
           \A l \in Line : writer[l] # NULL => writer'[l] # NULL,
           \A l \in Line : Provisional(draft'[l]) =>
              \/ draft'[l] = draft[l]
              \/ /\ writer'[l] # NULL /\ draft'[l].category # NULL
                 /\ draft'[l].category = Landing => draft'[l].withdrawal # NULL,
           pc'[s] = "post" =>
              \A l \in Line : Provisional(draft'[l]) =>
                 l \in todo'[s] /\ snap'[s][l].category = draft'[l].category
    PROVE  SInv'
<1>1. \A t \in Sync \ {s} : pc[t] = "idle"
  BY DEF SInv, KInv, JInv, IInv, OneWriter
<1>2. ProvisionalAhead'
  BY <1>1 DEF ProvisionalAhead
<1>3. ProvisionalLocked'
  BY DEF SInv, ProvisionalLocked
<1> QED  BY <1>2, <1>3 DEF SInv

\* A visit of the posting loop after which the row is not provisional.
LEMMA VisitEnds ==
    ASSUME SInv, KInv', NEW s \in Sync, NEW l \in Line,
           pc[s] = "post", pc' = pc, snap' = snap, Drop(s, l),
           NEW row \in Row, NEW x \in Resource \cup {NULL}, NEW c,
           Write(s, [m \in {l} |-> row], x, c),
           row.status # "matched" \/ row.entry # NULL
    PROVE  SInv'
<1> DEFINE new == [m \in {l} |-> row]
<1>1. TypeOK /\ OneWriter /\ pc[s] # "idle"
  BY DEF SInv, KInv, JInv, IInv
<1>2. new \in [{l} -> Row] /\ {l} \in SUBSET Line /\ new[l] = row
  OBVIOUS
<1>3. Write(s, new, x, c)
  OBVIOUS
<1> HIDE DEF new
<1>4. draft'[l] = row /\ rows' = rows /\ \A k \in Line \ {l} : draft'[k] = draft[k]
  BY <1>1, <1>2, <1>3, WriteDrafts
<1>5. \A k \in Line : writer[k] # NULL => writer'[k] # NULL
  BY <1>1, <1>2, <1>3, WriteClaims
<1>6. ~Provisional(draft'[l])
  BY <1>4 DEF Provisional
<1>7. todo'[s] = todo[s] \ {l}
  BY <1>1 DEF Drop, TypeOK
<1>8. \A k \in Line : Provisional(draft'[k]) =>
        /\ draft'[k] = draft[k]
        /\ k \in todo'[s] /\ snap'[s][k].category = draft'[k].category
  BY <1>4, <1>6, <1>7 DEF SInv, ProvisionalAhead
<1> QED  BY <1>1, <1>4, <1>5, <1>8, RunnerDrafts

LEMMA StuckInit == Init => SInv
<1> SUFFICES ASSUME Init PROVE SInv
  OBVIOUS
<1>1. KInv
  BY ClaimInvInit
<1>2. \A l \in Line : ~Provisional(rows[l]) /\ ~Provisional(draft[l])
  BY DEF Init, Provisional, NoRow
<1> QED  BY <1>1, <1>2 DEF SInv, ProvisionalLocked, ProvisionalAhead

\* A rule gives a row a category, and a landing its withdrawal; keyword rules are
\* never for landings (the CHECK constraint on their category).
LEMMA RuleNames ==
    ASSUME TypeOK, NEW s \in Sync, NEW l \in Line, NEW o \in RuleOutcomes(s, l)
    PROVE  /\ o.row.category # NULL
           /\ o.row.category = Landing => o.row.withdrawal # NULL
<1> DEFINE rule == <<RuleA(s, l), RuleB(s, l), RuleCLanding(s, l),
                     RuleCSweep(s, l), RuleD(s, l), RuleE(s, l)>>
           v == View(s, l)
<1>1. PICK i \in 1..6 : o \in rule[i]
  BY DEF RuleOutcomes
<1>2. v \in Row
  BY ViewType
<1>3. \A c \in Category : c # NULL
  BY NullAssumption
<1>4. Category # {} /\ "revenue_settlement" \in Category /\ Landing \in Category
      /\ "internal_transfer" \in Category /\ "consignment_payout" \in Category
      /\ "operating_expense" \in Category /\ KeywordCategory \subseteq Category
      /\ Landing \notin KeywordCategory
  BY DEF Category, Landing, KeywordCategory
<1> HIDE DEF v, rule
<1>5. CASE o \in RuleA(s, l)
  <2>1. PICK p \in Payout : o = [row |-> [v EXCEPT !.category = "revenue_settlement", !.account = TRUE], resource |-> p]
    BY <1>5 DEF RuleA, v
  <2>2. o.row.category = "revenue_settlement"
    BY <1>2, <2>1 DEF Row
  <2> QED  BY <1>3, <1>4, <2>2 DEF Landing
<1>6. CASE o \in RuleB(s, l)
  <2>1. PICK bill \in Invoice : o = [row |-> [v EXCEPT !.category = Purpose[bill], !.invoice = bill, !.ref = "text"], resource |-> NULL]
    BY <1>6 DEF RuleB, v
  <2>2. o.row.category = Purpose[bill]
    BY <1>2, <2>1 DEF Row
  <2>3. Purpose[bill] \in {"operating_expense", "consignment_payout"}
    BY LineAssumption
  <2> QED  BY <1>3, <1>4, <2>2, <2>3 DEF Landing
<1>7. CASE o \in RuleCLanding(s, l)
  <2>1. PICK w \in Withdrawal : o = [row |-> [v EXCEPT !.category = "internal_transfer_landing", !.withdrawal = w], resource |-> w]
    BY <1>7 DEF RuleCLanding, v, Landings
  <2>2. o.row.category = Landing /\ o.row.withdrawal = w
    BY <1>2, <2>1 DEF Row, Landing
  <2>3. w # NULL
    BY NullAssumption DEF Resource
  <2> QED  BY <1>3, <1>4, <2>2, <2>3
<1>8. CASE o \in RuleCSweep(s, l)
  <2>1. PICK m \in Line : o = [row |-> [v EXCEPT !.category = "internal_transfer"], resource |-> NULL]
    BY <1>8 DEF RuleCSweep, v, OtherEnd
  <2>2. o.row.category = "internal_transfer"
    BY <1>2, <2>1 DEF Row
  <2> QED  BY <1>3, <1>4, <2>2 DEF Landing
<1>9. CASE o \in RuleD(s, l)
  <2>1. PICK a \in Sale : o = [row |-> [v EXCEPT !.category = "consignment_payout", !.ref = a], resource |-> NULL]
    BY <1>9 DEF RuleD, v
  <2>2. o.row.category = "consignment_payout"
    BY <1>2, <2>1 DEF Row
  <2> QED  BY <1>3, <1>4, <2>2 DEF Landing
<1>10. CASE o \in RuleE(s, l)
  <2>1. PICK k \in Keyword : o = [row |-> [v EXCEPT !.category = k[2]], resource |-> NULL]
    BY <1>10 DEF RuleE, v
  <2>2. o.row.category = k[2]
    BY <1>2, <2>1 DEF Row
  <2>3. k[2] \in KeywordCategory
    BY LineAssumption
  <2> QED  BY <1>3, <1>4, <2>2, <2>3
<1>11. o \in RuleA(s, l) \/ o \in RuleB(s, l) \/ o \in RuleCLanding(s, l)
       \/ o \in RuleCSweep(s, l) \/ o \in RuleD(s, l) \/ o \in RuleE(s, l)
  BY <1>1 DEF rule
<1> QED  BY <1>5, <1>6, <1>7, <1>8, <1>9, <1>10, <1>11

LEMMA StuckStep == SInv /\ [Next]_vars => SInv'
<1> SUFFICES ASSUME SInv, [Next]_vars PROVE SInv'
  OBVIOUS
<1>0. KInv /\ KInv' /\ JInv /\ IInv /\ TypeOK /\ OneWriter
      /\ rows \in [Line -> Row] /\ draft \in [Line -> Row]
  BY ClaimInvStep DEF SInv, KInv, JInv, IInv, TypeOK
<1>1. CASE UNCHANGED vars
  BY <1>0, <1>1 DEF vars, SInv, ProvisionalLocked, ProvisionalAhead
<1>2. ASSUME NEW l \in Line, Upload(l) PROVE SInv'
  BY <1>0, <1>2 DEF Upload, store, SInv, ProvisionalLocked, ProvisionalAhead
<1>3. ASSUME NEW l \in Line, NEW c \in HumanLabel, NEW ref \in HumanRef \cup {NULL},
             NEW acct \in BOOLEAN, LabelRow(l, c, ref, acct)
      PROVE  SInv'
  <2> DEFINE row == Labelled(rows[l], c, ref, acct)
  <2>1. row.labeled = TRUE
    BY <1>0 DEF Labelled, Row
  <2> HIDE DEF row
  <2>2. rows' = [rows EXCEPT ![l] = row] /\ draft' = [draft EXCEPT ![l] = row]
        /\ UNCHANGED <<writer, pc, todo, snap>>
    BY <1>3 DEF LabelRow, row
  <2>3. ~Provisional(row)
    BY <2>1 DEF Provisional
  <2>4. rows'[l] = row /\ draft'[l] = row
        /\ \A k \in Line \ {l} : rows'[k] = rows[k] /\ draft'[k] = draft[k]
    BY <1>0, <2>2
  <2>5. \A k \in Line : ~Provisional(rows'[k]) /\ (Provisional(draft'[k]) => draft'[k] = draft[k])
    BY <2>3, <2>4 DEF SInv
  <2> QED  BY <1>0, <2>2, <2>5 DEF SInv, ProvisionalLocked, ProvisionalAhead
<1>4. ASSUME NEW s \in Sync, Begin(s) PROVE SInv'
  <2>1. UNCHANGED <<rows, draft, writer, todo, snap>>
        /\ \A t \in Sync : pc'[t] = "post" => pc[t] = "post"
    BY <1>0, <1>4 DEF Begin, store, TypeOK
  <2> QED  BY <1>0, <2>1 DEF SInv, ProvisionalLocked, ProvisionalAhead
<1>5. ASSUME NEW s \in Sync, StageRawLines(s) PROVE SInv'
  <2> DEFINE new == {l \in uploaded : View(s, l).status = "absent"}
             fresh == [NoRow EXCEPT !.status = "needs_review"]
             staged == [l \in new |-> fresh]
  <2>1. fresh \in Row /\ fresh.status = "needs_review"
    BY NoRowType DEF Row, NoRow
  <2> HIDE DEF fresh
  <2>2. new \in SUBSET Line /\ staged \in [new -> Row] /\ \A l \in new : staged[l] = fresh
    BY <1>0, <2>1 DEF TypeOK
  <2>3. Write(s, staged, NULL, NULL)
    BY <1>5 DEF StageRawLines, fresh
  <2>4. pc[s] = "stage" /\ pc[s] # "idle" /\ pc' = [pc EXCEPT ![s] = "staged"]
    BY <1>5 DEF StageRawLines
  <2> HIDE DEF new, staged
  <2>5. /\ \A l \in new : draft'[l] = fresh
        /\ \A l \in Line \ new : draft'[l] = draft[l]
        /\ rows' = rows
    BY <1>0, <2>2, <2>3, <2>4, WriteDrafts
  <2>6. \A l \in Line : writer[l] # NULL => writer'[l] # NULL
    <3>1. TypeOK /\ new \in SUBSET Line /\ staged \in [new -> Row] /\ NULL \in Resource \cup {NULL}
      BY <1>0, <2>2
    <3> QED  BY <2>3, <3>1, WriteClaims
  <2>7. \A l \in Line : Provisional(draft'[l]) => draft'[l] = draft[l]
    BY <2>1, <2>5 DEF Provisional
  <2>8. pc'[s] = "staged" /\ \A t \in Sync \ {s} : pc'[t] = pc[t]
    BY <1>0, <2>4 DEF TypeOK
  <2> QED  BY <1>0, <2>4, <2>5, <2>6, <2>7, <2>8, RunnerDrafts
<1>6. ASSUME NEW s \in Sync, StartAutoMatch(s) PROVE SInv'
  <2>1. UNCHANGED <<rows, draft, writer>> /\ pc[s] # "idle" /\ pc' = [pc EXCEPT ![s] = "match"]
    BY <1>6 DEF StartAutoMatch, store
  <2>2. pc'[s] = "match" /\ \A t \in Sync \ {s} : pc'[t] = pc[t]
    BY <1>0, <2>1 DEF TypeOK
  <2> QED  BY <1>0, <2>1, <2>2, RunnerDrafts
<1>7. ASSUME NEW s \in Sync, StartPosting(s) PROVE SInv'
  <2>1. /\ UNCHANGED <<rows, draft, writer>> /\ pc[s] # "idle"
        /\ pc' = [pc EXCEPT ![s] = "post"] /\ todo' = [todo EXCEPT ![s] = Pending(s)]
        /\ snap' = [snap EXCEPT ![s] = [l \in Line |-> IF l \in Pending(s) THEN View(s, l) ELSE NoRow]]
    BY <1>7 DEF StartPosting, store
  <2>2. /\ pc'[s] = "post" /\ todo'[s] = Pending(s)
        /\ \A t \in Sync \ {s} : pc'[t] = pc[t]
        /\ \A l \in Line : l \in Pending(s) => snap'[s][l] = View(s, l)
    BY <1>0, <2>1 DEF TypeOK
  <2>3. \A l \in Line : View(s, l) = draft[l]
    BY <1>0, <2>1, RunnerSees
  <2>4. \A l \in Line : Provisional(draft'[l]) =>
           l \in todo'[s] /\ snap'[s][l].category = draft'[l].category
    <3> SUFFICES ASSUME NEW l \in Line, Provisional(draft'[l])
                 PROVE  l \in todo'[s] /\ snap'[s][l].category = draft'[l].category
      OBVIOUS
    <3>1. draft' = draft
      BY <2>1
    <3>2. draft[l].status # "absent" /\ draft[l].entry = NULL
      BY <3>1 DEF Provisional
    <3>3. l \in Pending(s)
      BY <2>3, <3>2 DEF Pending
    <3>4. snap'[s][l] = draft[l]
      BY <2>2, <2>3, <3>3
    <3> QED  BY <2>2, <3>1, <3>3, <3>4
  <2> QED  BY <1>0, <2>1, <2>2, <2>4, RunnerDrafts
<1>8. ASSUME NEW s \in Sync, ClaimPair(s) PROVE SInv'
  <2> DEFINE l == pick[s].row
             m == pick[s].match
             e == pick[s].entry
             claimed == [View(s, l) EXCEPT !.paired = m]
             mine == IF e = NULL THEN Settled(claimed, l, Transfer)
                                 ELSE Settled(claimed, e, <<>>)
             theirs == [View(s, m) EXCEPT !.paired = l]
             new == [k \in {l, m} |-> IF k = l THEN mine ELSE theirs]
  <2>1. pick[s] # NULL /\ Write(s, new, NULL, NULL) /\ UNCHANGED <<pc, snap>> /\ Drop(s, l)
    BY <1>8 DEF ClaimPair, Transfer
  <2>2. l \in Line /\ m \in Line /\ e \in Line \cup Withdrawal \cup {NULL}
    BY <1>0, <2>1 DEF TypeOK
  <2>3. pc[s] = "post" /\ pc[s] # "idle" /\ l # m
    BY <1>0, <2>1 DEF IInv, PickStands
  <2>4. View(s, l) = draft[l] /\ View(s, m) = draft[m] /\ draft[l] \in Row /\ draft[m] \in Row
    BY <1>0, <2>2, <2>3, RunnerSees
  <2> HIDE DEF l, m, e
  <2>5. claimed \in Row
    BY <2>2, <2>4, PairedFields
  <2>6. /\ theirs \in Row /\ theirs.category = draft[m].category
        /\ theirs.withdrawal = draft[m].withdrawal
        /\ Provisional(theirs) => Provisional(draft[m])
    BY <2>2, <2>4 DEF Row, Provisional
  <2> HIDE DEF claimed, theirs
  <2>7. mine \in Row /\ ~Provisional(mine)
    <3>1. Transfer \in Seq(Category) /\ l # NULL
      BY <2>2, NullAssumption DEF Transfer, Category
    <3>2. CASE e = NULL
      <4>1. mine = Settled(claimed, l, Transfer)
        BY <3>2
      <4>2. mine \in Row /\ mine.entry = l
        BY <2>2, <2>5, <3>1, <4>1, SettledType, SettledFields
      <4> QED  BY <3>1, <4>2 DEF Provisional
    <3>3. CASE e # NULL
      <4>1. mine = Settled(claimed, e, <<>>)
        BY <3>3
      <4>2. mine \in Row /\ mine.entry = e
        BY <2>2, <2>5, <4>1, LinkedType, SettledFields
      <4> QED  BY <3>3, <4>2 DEF Provisional
    <3> QED  BY <3>2, <3>3
  <2> HIDE DEF mine
  <2>8. new \in [{l, m} -> Row] /\ {l, m} \in SUBSET Line /\ new[l] = mine /\ new[m] = theirs
    BY <2>2, <2>3, <2>6, <2>7
  <2> HIDE DEF new
  <2>9. /\ draft'[l] = mine /\ draft'[m] = theirs
        /\ \A k \in Line \ {l, m} : draft'[k] = draft[k]
        /\ rows' = rows
    BY <1>0, <2>1, <2>3, <2>8, WriteDrafts
  <2>10. \A k \in Line : writer[k] # NULL => writer'[k] # NULL
    <3>1. TypeOK /\ NULL \in Resource \cup {NULL}
      BY <1>0
    <3> QED  BY <2>1, <2>8, <3>1, WriteClaims
  <2>11. \A k \in Line : Provisional(draft'[k]) =>
            /\ Provisional(draft[k]) /\ k # l
            /\ draft'[k].category = draft[k].category
            /\ draft'[k].withdrawal = draft[k].withdrawal
    BY <2>6, <2>7, <2>9
  <2>12. todo'[s] = todo[s] \ {l} /\ pc' = pc /\ snap' = snap
    BY <1>0, <2>1 DEF Drop, TypeOK
  <2>13. \A k \in Line : Provisional(draft'[k]) =>
            /\ writer'[k] # NULL /\ draft'[k].category # NULL
            /\ draft'[k].category = Landing => draft'[k].withdrawal # NULL
    BY <2>10, <2>11 DEF SInv, ProvisionalLocked
  <2>14. \A k \in Line : Provisional(draft'[k]) =>
            k \in todo'[s] /\ snap'[s][k].category = draft'[k].category
    BY <2>3, <2>11, <2>12 DEF SInv, ProvisionalAhead
  <2> QED  BY <1>0, <2>3, <2>9, <2>10, <2>12, <2>13, <2>14, RunnerDrafts
<1>9. ASSUME NEW s \in Sync, NEW l \in Line, AutoMatchRow(s, l) PROVE SInv'
  <2>1. pc[s] = "match" /\ pc[s] # "idle" /\ pc' = pc
    BY <1>9 DEF AutoMatchRow
  <2>2. CASE UNCHANGED store
    <3>1. UNCHANGED <<rows, draft, writer>>
      BY <2>2 DEF store
    <3> QED  BY <1>0, <2>1, <3>1, RunnerDrafts
  <2>3. ASSUME NEW o \in RuleOutcomes(s, l),
               Write(s, [m \in {l} |-> [o.row EXCEPT !.status = "matched"]], o.resource, l)
        PROVE  SInv'
    <3> DEFINE row == [o.row EXCEPT !.status = "matched"]
               new == [m \in {l} |-> row]
               x == o.resource
    <3>1. o.row \in Row /\ x \in Resource \cup {NULL}
      BY <1>0, RuleType
    <3>2. row \in Row /\ row.category = o.row.category /\ row.withdrawal = o.row.withdrawal
      BY <3>1 DEF Row
    <3>3. row.category # NULL /\ (row.category = Landing => row.withdrawal # NULL)
      BY <1>0, <3>2, RuleNames
    <3> HIDE DEF row
    <3>4. new \in [{l} -> Row] /\ {l} \in SUBSET Line /\ new[l] = row
      BY <3>2
    <3>5. Write(s, new, x, l)
      BY <2>3 DEF row
    <3> HIDE DEF new, x
    <3>6. draft'[l] = row /\ rows' = rows /\ \A k \in Line \ {l} : draft'[k] = draft[k]
      BY <1>0, <2>1, <3>1, <3>4, <3>5, WriteDrafts
    <3>7. writer'[l] = s /\ \A k \in Line : writer[k] # NULL => writer'[k] # NULL
      BY <1>0, <3>1, <3>4, <3>5, WriteClaims
    <3>8. s # NULL
      BY NullAssumption
    <3>9. \A k \in Line : Provisional(draft'[k]) =>
             \/ draft'[k] = draft[k]
             \/ /\ writer'[k] # NULL /\ draft'[k].category # NULL
                /\ draft'[k].category = Landing => draft'[k].withdrawal # NULL
      BY <3>3, <3>6, <3>7, <3>8
    <3> QED  BY <1>0, <2>1, <3>6, <3>7, <3>9, RunnerDrafts
  <2> QED  BY <1>9, <2>2, <2>3 DEF AutoMatchRow
<1>10. ASSUME NEW s \in Sync, NEW l \in Line, Visiting(s, l)
       PROVE  pc[s] = "post" /\ pc[s] # "idle" /\ l \in todo[s] /\ View(s, l) = draft[l]
              /\ draft[l] \in Row /\ snap[s][l] \in Row
  <2>1. pc[s] = "post" /\ pc[s] # "idle" /\ l \in todo[s]
    BY <1>10 DEF Visiting
  <2> QED  BY <1>0, <2>1, RunnerSees DEF TypeOK
<1>11. ASSUME NEW s \in Sync, NEW l \in Line, FlagRow(s, l) PROVE SInv'
  <2> DEFINE why == Refusal(s, l, snap[s][l])
             row == Flagged(View(s, l), why)
  <2>1. Visiting(s, l) /\ UNCHANGED <<pc, snap>> /\ Drop(s, l) /\ WriteRow(s, l, row)
    BY <1>11 DEF FlagRow
  <2>2. why \in Reason
    BY <1>11, RefusalType DEF FlagRow
  <2> HIDE DEF why
  <2>3. row \in Row /\ row.status = "needs_review"
    BY <1>10, <2>1, <2>2, FlaggedType, FlaggedFields
  <2> HIDE DEF row
  <2>4. Write(s, [m \in {l} |-> row], NULL, NULL)
    BY <2>1 DEF WriteRow
  <2>5. row.status # "matched"
    BY <2>3
  <2> QED  BY <1>0, <1>10, <2>1, <2>3, <2>4, <2>5, VisitEnds
<1>12. ASSUME NEW s \in Sync, NEW l \in Line, SkipRow(s, l) PROVE SInv'
  <2>1. Visiting(s, l) /\ Drop(s, l) /\ UNCHANGED <<rows, draft, writer, pc, snap>>
        /\ NotReady(s, l, snap[s][l])
    BY <1>12 DEF SkipRow, store
  <2>2. pc[s] = "post" /\ pc[s] # "idle"
    BY <1>10, <2>1
  <2>3. ~Provisional(draft[l])
    <3> SUFFICES ASSUME Provisional(draft[l]) PROVE FALSE
      OBVIOUS
    <3> DEFINE c == snap[s][l].category
    <3>1. c # NULL /\ c # "internal_transfer" /\ (c = Landing => draft[l].withdrawal # NULL)
      BY <2>2 DEF SInv, ProvisionalLocked, ProvisionalAhead, Provisional
    <3>2. c = Landing => snap[s][l].withdrawal # NULL
      BY <1>0, <1>10, <2>1, <2>2, <3>1 DEF KInv, PostEcho
    <3> QED  BY <2>1, <3>1, <3>2 DEF NotReady, Landing
  <2>4. todo'[s] = todo[s] \ {l}
    BY <1>0, <2>1 DEF Drop, TypeOK
  <2>5. \A k \in Line : Provisional(draft'[k]) =>
           k \in todo'[s] /\ snap'[s][k].category = draft'[k].category
    BY <2>1, <2>2, <2>3, <2>4 DEF SInv, ProvisionalAhead
  <2> QED  BY <1>0, <2>1, <2>2, <2>5, RunnerDrafts
<1>13. ASSUME NEW s \in Sync, NEW l \in Line, PostRow(s, l) PROVE SInv'
  <2> DEFINE c == snap[s][l].category
             made == <<c>>
             row == Settled(View(s, l), l, made)
  <2>1. Visiting(s, l) /\ UNCHANGED <<pc, snap>> /\ Drop(s, l) /\ c # NULL
    BY <1>13 DEF PostRow, Ordinary
  <2>2. PICK x \in Resource \cup {NULL}, a \in Line \cup {NULL} : Write(s, [m \in {l} |-> row], x, a)
    BY <1>13 DEF PostRow, Owed, Resource
  <2>3. View(s, l) \in Row /\ c \in Category
    BY <1>10, <2>1 DEF Row
  <2> HIDE DEF c
  <2>4. made \in Seq(Category)
    BY <2>3
  <2>5. row \in Row /\ row.entry = l
    BY <2>3, <2>4, SettledType, SettledFields
  <2>6. row.entry # NULL
    BY <2>5, NullAssumption
  <2> HIDE DEF row, made
  <2> QED  BY <1>0, <1>10, <2>1, <2>2, <2>5, <2>6, VisitEnds
<1>14. ASSUME NEW s \in Sync, NEW l \in Line, LinkLanding(s, l) PROVE SInv'
  <2> DEFINE e == snap[s][l].withdrawal
             row == Settled(View(s, l), e, <<>>)
  <2>1. Visiting(s, l) /\ UNCHANGED <<pc, snap>> /\ Drop(s, l)
        /\ Write(s, [m \in {l} |-> row], NULL, NULL) /\ e # NULL
    BY <1>14 DEF LinkLanding, WriteRow
  <2>2. View(s, l) \in Row /\ e \in Withdrawal
    BY <1>10, <2>1 DEF Row
  <2> HIDE DEF e
  <2>3. row \in Row /\ row.entry = e
    BY <2>2, LinkedType, SettledFields
  <2> HIDE DEF row
  <2> QED  BY <1>0, <1>10, <2>1, <2>3, VisitEnds
<1>15. ASSUME NEW s \in Sync, NEW l \in Line, LinkPair(s, l) PROVE SInv'
  <2> DEFINE m == View(s, l).paired
             e == View(s, m).entry
             row == Settled(View(s, l), e, <<>>)
  <2>1. Visiting(s, l) /\ UNCHANGED <<pc, snap>> /\ Drop(s, l)
        /\ Write(s, [k \in {l} |-> row], NULL, NULL) /\ m # NULL /\ e # NULL
    BY <1>15 DEF LinkPair, WriteRow
  <2>2. View(s, l) \in Row /\ m \in Line
    BY <1>10, <2>1 DEF Row
  <2> HIDE DEF m
  <2>3. e \in Line \cup Withdrawal \cup {NULL}
    <3>1. View(s, m) \in Row
      BY <1>0, <2>2, ViewType
    <3> QED  BY <3>1 DEF Row
  <2> HIDE DEF e
  <2>4. row \in Row /\ row.entry = e
    BY <2>2, <2>3, LinkedType, SettledFields
  <2> HIDE DEF row
  <2> QED  BY <1>0, <1>10, <2>1, <2>4, VisitEnds
<1>16. ASSUME NEW s \in Sync, NEW l \in Line, PickCounterpart(s, l) PROVE SInv'
  <2>1. Visiting(s, l) /\ UNCHANGED <<rows, draft, writer, pc, todo, snap>>
    BY <1>16 DEF PickCounterpart, store
  <2> QED  BY <1>0, <2>1 DEF SInv, ProvisionalLocked, ProvisionalAhead
<1>17. ASSUME NEW s \in Sync, pc[s] # "idle", Finish(s),
              \A l \in Line : ~Provisional(rows'[l]) /\ ~Provisional(draft'[l])
       PROVE  SInv'
  <2>1. ProvisionalLocked' /\ ProvisionalAhead'
    BY <1>17 DEF ProvisionalLocked, ProvisionalAhead
  <2> QED  BY <1>0, <1>17, <2>1 DEF SInv
<1>18. ASSUME NEW s \in Sync, Commit(s) PROVE SInv'
  <2>1. pc[s] = "post" /\ pc[s] # "idle" /\ todo[s] = {} /\ Finish(s)
        /\ rows' = [l \in Line |-> View(s, l)] /\ draft' = draft
    BY <1>18 DEF Commit
  <2>2. \A l \in Line : rows'[l] = draft[l]
    BY <1>0, <2>1, RunnerSees
  <2>3. \A l \in Line : ~Provisional(draft[l])
    BY <2>1 DEF SInv, ProvisionalAhead
  <2> QED  BY <1>17, <2>1, <2>2, <2>3
<1>19. ASSUME NEW s \in Sync, Rollback(s) PROVE SInv'
  <2>1. pc[s] # "idle" /\ Finish(s) /\ rows' = rows
        /\ draft' = [l \in Line |-> IF writer[l] = s THEN rows[l] ELSE draft[l]]
    BY <1>19 DEF Rollback
  <2>2. holder = s
    BY <1>0, <2>1 DEF OneWriter
  <2>3. \A l \in Line : draft'[l] = rows[l]
    BY <1>0, <2>1, <2>2, NullAssumption DEF OneWriter, TypeOK
  <2> QED  BY <1>17, <2>1, <2>3 DEF SInv
<1>20. ASSUME NEW s \in Sync, NEW l \in Fragile, AttemptFails(s, l) PROVE SInv'
  <2> DEFINE row == Flagged(View(s, l), "error")
  <2>1. PickStands
    BY <1>0 DEF IInv
  <2>2. /\ l \in Line /\ pc[s] = "post" /\ UNCHANGED <<pc, snap>> /\ Drop(s, l)
        /\ View(s, l) \in Row /\ row \in Row /\ WriteRow(s, l, row)
    BY <1>0, <1>20, <2>1, AttemptFacts
  <2>3. row.status # "matched"
    BY <2>2, FlaggedFields
  <2>4. Write(s, [m \in {l} |-> row], NULL, NULL)
    BY <2>2 DEF WriteRow
  <2> HIDE DEF row
  <2> QED  BY <1>0, <2>2, <2>3, <2>4, VisitEnds
<1> QED  BY <1>1, <1>2, <1>3, <1>4, <1>5, <1>6, <1>7, <1>8, <1>9, <1>11, <1>12, <1>13,
            <1>14, <1>15, <1>16, <1>18, <1>19, <1>20
         DEF Next, Orderly, Failure, Human, Advance, Visit

LEMMA StuckAlways == Spec => []SInv
<1>1. SInv /\ [Next]_vars => SInv'
  BY StuckStep
<1> QED  BY <1>1, StuckInit, PTL DEF Spec

\* A row a rule classified never stays unbooked without a sign: after every commit
\* it is booked, or shown as needs_review, or is a sweep waiting for its other end.
THEOREM NothingSilentlyStuckAlways == Spec => []NothingSilentlyStuck
<1>1. SInv => NothingSilentlyStuck
  BY DEF SInv, NothingSilentlyStuck, Provisional
<1> QED  BY <1>1, StuckAlways, PTL

=============================================================================
