------------------------ MODULE PayoneerIngestProofs ------------------------
(***************************************************************************)
(* The proofs about PayoneerIngest.  db is what was last committed, so each *)
(* property is proved of work as well: a commit publishes it.              *)
(***************************************************************************)
EXTENDS PayoneerIngestProperties, SequenceTheorems, TLAPS

-----------------------------------------------------------------------------
(* Types.                                                                    *)

LEMMA NoRowType == NoRow \in Row
  BY DEF NoRow, Row

LEMMA EmptyStoreType == EmptyStore \in Store
  BY NoRowType DEF EmptyStore, Store

LEMMA RowsType ==
  ASSUME NEW s \in Store, NEW t \in Txn, NEW r \in Row
  PROVE  [s EXCEPT !.rows[t] = r] \in Store
  BY DEF Store

LEMMA TakenType ==
  ASSUME NEW s \in Store, NEW p \in Payout, NEW t \in Txn
  PROVE  [s EXCEPT !.taken[p] = t] \in Store
  BY DEF Store

LEMMA PostType ==
  ASSUME NEW s \in Store, NEW t \in Txn, NEW x \in Source
  PROVE  PostDirectly(s, t, x) \in Store
<1>1. Append(s.direct[t], x) \in Seq(Source)
  BY DEF Store
<1> QED  BY <1>1 DEF Store, PostDirectly

\* The part of TypeOK that every step of the loops leaves to other facts.
LEMMA TypeInit == Init => TypeOK
  BY NoRowType, EmptyStoreType, ItemAssumption DEF Init, TypeOK

LEMMA TypeHuman == TypeOK /\ Human => TypeOK'
<1> SUFFICES ASSUME TypeOK, Human PROVE TypeOK'
  OBVIOUS
<1>1. ASSUME NEW x \in Item, Upload(x) PROVE TypeOK'
  BY <1>1 DEF TypeOK, Upload
<1>2. ASSUME NEW t \in Txn, NEW c \in HumanLabel, NEW acct \in BOOLEAN, LabelRow(t, c, acct)
      PROVE  TypeOK'
  <2> DEFINE row == [db.rows[t] EXCEPT !.category = c, !.account = @ \/ acct]
  <2>1. db.rows[t] \in Row /\ c \in Category
    BY ItemAssumption DEF TypeOK, Store
  <2>2. row \in Row
    BY <2>1 DEF Row
  <2>3. db' = [db EXCEPT !.rows[t] = row] /\ work' = [work EXCEPT !.rows[t] = row]
    BY <1>2 DEF LabelRow
  <2> HIDE DEF row
  <2>4. db' \in Store /\ work' \in Store
    BY <2>2, <2>3, RowsType DEF TypeOK
  <2>5. pc = "idle" => work' = db'
    BY <2>3 DEF TypeOK
  <2> QED  BY <1>2, <2>4, <2>5 DEF TypeOK, LabelRow
<1> QED  BY <1>1, <1>2 DEF Human

LEMMA TypeBegin ==
  ASSUME TypeOK, NEW f \in Period, Begin(f)
  PROVE  TypeOK'
<1>1. files' \subseteq Item
  BY DEF Begin, InFolder, TypeOK
<1>2. work' \in Store
  BY <1>1 DEF Begin, TypeOK, Store
<1>3. todo' \subseteq Txn
  BY DEF Begin
<1> QED  BY <1>1, <1>2, <1>3, ItemAssumption DEF Begin, TypeOK

LEMMA TypeRow ==
  ASSUME TypeOK, NEW t \in Txn,
         SkipPosted(t) \/ ConfirmPayout(t) \/ StageLater(t) \/ BookWithdrawal(t) \/ WarnWithdrawal(t)
  PROVE  TypeOK'
<1>1. CASE SkipPosted(t)
  BY <1>1 DEF SkipPosted, Visiting, Done, TypeOK
<1>2. CASE ConfirmPayout(t)
  <2>1. PICK p \in Expected(t) : work' = [PostDirectly(work, t, p) EXCEPT !.taken[p] = t]
    BY <1>2 DEF ConfirmPayout
  <2>2. p \in Payout /\ p \in Source
    BY DEF Expected, Source
  <2>3. work' \in Store
    BY <2>1, <2>2, PostType, TakenType DEF TypeOK
  <2> QED  BY <1>2, <2>3 DEF ConfirmPayout, Visiting, Done, TypeOK
<1>3. CASE StageLater(t)
  BY <1>3 DEF StageLater, Visiting, Done, TypeOK, Generic
<1>4. CASE BookWithdrawal(t)
  <2>1. PICK c \in Matching(t) : work' = PostDirectly(work, t, c) /\ used' = used \cup {c}
    BY <1>4 DEF BookWithdrawal
  <2>2. c \in Confirmation /\ c \in Source
    BY <1>4, ItemAssumption DEF Matching, Source, BookWithdrawal, TypeOK, Item
  <2>3. work' \in Store
    BY <2>1, <2>2, PostType DEF TypeOK
  <2> QED  BY <1>4, <2>1, <2>2, <2>3 DEF BookWithdrawal, Visiting, Done, TypeOK
<1>5. CASE WarnWithdrawal(t)
  <2>1. work' \in Store
    BY <1>5 DEF WarnWithdrawal, Visiting, TypeOK, Store
  <2> QED  BY <1>5, <2>1 DEF WarnWithdrawal, Visiting, Done, TypeOK
<1> QED  BY <1>1, <1>2, <1>3, <1>4, <1>5

LEMMA TypeStage ==
  ASSUME TypeOK, ResolveOrphan \/ StageRawLines \/ StartAutoMatch \/ StartPosting
  PROVE  TypeOK'
<1>1. CASE ResolveOrphan
  <2>1. orphan \in Txn
    BY <1>1 DEF ResolveOrphan, TypeOK
  <2>2. work.rows[orphan] \in Row
    BY <2>1 DEF TypeOK, Store
  <2>3. Resolved(work.rows[orphan]) \in Row
    BY <2>2 DEF Row, Resolved, Category
  <2>4. work' \in Store
    BY <1>1, <2>1, <2>3, RowsType DEF ResolveOrphan, TypeOK
  <2> QED  BY <1>1, <2>1, <2>4 DEF ResolveOrphan, TypeOK
<1>2. CASE StageRawLines
  <2> DEFINE new == {t \in generic : work.rows[t].status = "absent"}
             staged == [t \in Txn |-> IF t \in new THEN [NoRow EXCEPT !.status = "unposted"]
                                                   ELSE work.rows[t]]
  <2>1. new \subseteq Txn
    BY DEF TypeOK, Txn
  <2>2. staged \in [Txn -> Row]
    BY DEF NoRow, Row, TypeOK, Store
  <2>3. work' = [work EXCEPT !.rows = staged] /\ locked' = locked \cup new
    BY <1>2 DEF StageRawLines
  <2> HIDE DEF new, staged
  <2>4. work' \in Store /\ locked' \subseteq Txn
    BY <2>1, <2>2, <2>3 DEF TypeOK, Store
  <2> QED  BY <1>2, <2>4 DEF StageRawLines, TypeOK
<1>3. CASE StartAutoMatch
  BY <1>3 DEF StartAutoMatch, TypeOK
<1>4. CASE StartPosting
  BY <1>4 DEF StartPosting, TypeOK, Store
<1> QED  BY <1>1, <1>2, <1>3, <1>4

LEMMA TypeQueue ==
  ASSUME TypeOK, NEW t \in Txn, AutoMatchRow(t) \/ PostRow(t)
  PROVE  TypeOK'
<1> DEFINE row == work.rows[t]
<1>1. row \in Row
  BY DEF TypeOK, Store
<1>2. CASE AutoMatchRow(t)
  <2>1. ASSUME NEW p \in RuleA(t),
               work' = [work EXCEPT !.taken[p] = t, !.rows[t].category = "revenue_settlement",
                                    !.rows[t].account = TRUE]
        PROVE  work' \in Store
    <3> DEFINE new == [row EXCEPT !.category = "revenue_settlement", !.account = TRUE]
    <3>1. new \in Row
      BY <1>1 DEF Row, Category
    <3>2. p \in Payout
      BY DEF RuleA
    <3>3. work' = [[work EXCEPT !.taken[p] = t] EXCEPT !.rows[t] = new]
      BY <2>1, <1>1 DEF TypeOK, Store, Row
    <3> HIDE DEF new
    <3> QED  BY <3>1, <3>2, <3>3, TakenType, RowsType DEF TypeOK
  <2>2. ASSUME NEW r \in OtherRule, work' = [work EXCEPT !.rows[t].category = r[2]]
        PROVE  work' \in Store
    <3> DEFINE new == [row EXCEPT !.category = r[2]]
    <3>1. new \in Row
      BY <1>1, ItemAssumption DEF Row
    <3>2. work' = [work EXCEPT !.rows[t] = new]
      BY <2>2
    <3> HIDE DEF new
    <3> QED  BY <3>1, <3>2, RowsType DEF TypeOK
  <2>3. work' \in Store
    BY <1>2, <2>1, <2>2 DEF AutoMatchRow, TypeOK
  <2> QED  BY <1>2, <2>3 DEF AutoMatchRow, Done, TypeOK
<1>3. CASE PostRow(t)
  <2> DEFINE new == [row EXCEPT !.status = "posted"]
  <2>1. new \in Row
    BY <1>1 DEF Row
  <2>2. work' = work \/ work' = [work EXCEPT !.rows[t] = new]
    BY <1>3 DEF PostRow
  <2> HIDE DEF new
  <2>3. work' \in Store
    BY <2>1, <2>2, RowsType DEF TypeOK
  <2> QED  BY <1>3, <2>3 DEF PostRow, Done, TypeOK
<1> QED  BY <1>2, <1>3

LEMMA TypeEnd == TypeOK /\ (Commit \/ Rollback) => TypeOK'
  BY NoRowType DEF Commit, Rollback, Idle, TypeOK

LEMMA TypeStep == TypeOK /\ [Next]_vars => TypeOK'
<1> SUFFICES ASSUME TypeOK, [Next]_vars PROVE TypeOK'
  OBVIOUS
<1>1. CASE UNCHANGED vars
  BY <1>1 DEF vars, TypeOK
<1>2. CASE Next
  <2>1. ASSUME NEW t \in Txn, Visit(t) PROVE TypeOK'
    BY <2>1, TypeRow, TypeQueue DEF Visit
  <2>2. ASSUME Advance PROVE TypeOK'
    BY <2>1, <2>2, TypeStage, TypeEnd DEF Advance
  <2> QED  BY <1>2, <2>2, TypeHuman, TypeBegin, TypeEnd DEF Next, Orderly
<1> QED  BY <1>1, <1>2

\* Every variable has its type, for any set of documents and any folders.
THEOREM TypeCorrect == Spec => []TypeOK
  BY TypeInit, TypeStep, PTL DEF Spec

-----------------------------------------------------------------------------
(* The inductive invariant.                                                  *)

\* A transaction has one direct entry if it is marked and none otherwise.
MarksAgree(s) == \A t \in Txn : Len(s.direct[t]) = IF t \in s.marked THEN 1 ELSE 0

\* What a payment was booked against is consumed by it.
SourcesTaken(s) ==
    \A t \in Txn, p \in Payout :
        (\E i \in DOMAIN s.direct[t] : s.direct[t][i] = p) => s.taken[p] = t

ResolvedIsMarked(s) == \A t \in Txn : s.rows[t].status = "resolved" => t \in s.marked

\* A withdrawal is booked or warned about, never staged.
NeverStaged(s) == \A t \in Withdrawal : s.rows[t].status = "absent"

Sound(s) ==
    /\ s.marked \subseteq Payment \cup Withdrawal
    /\ NeverStaged(s)
    /\ MarksAgree(s)
    /\ SourcesTaken(s)
    /\ ResolvedIsMarked(s)

\* No marked transaction but o has an untouched row.
Clean(s, o) ==
    \A t \in s.marked \ {o} : ~(s.rows[t].status = "unposted" /\ s.rows[t].category = NULL)

\* What a run will stage is not booked, the orphan it resolves is, and it posts
\* the row of no withdrawal.
RunStands ==
    /\ generic \cap work.marked = {}
    /\ pc = "rows" => todo \cap generic = {}
    /\ pc = "idle" => generic = {}
    /\ orphan # NULL => orphan \in work.marked \cap Payment
    /\ pc = "post" => todo \cap Withdrawal = {}

IInv ==
    /\ TypeOK
    /\ Sound(db) /\ Clean(db, NULL)
    /\ Sound(work) /\ Clean(work, orphan)
    /\ RunStands

-----------------------------------------------------------------------------
(* What a step does to a store.                                              *)

\* A rewrite that posts nothing directly.
LEMMA KeptStore ==
  ASSUME NEW s \in Store, NEW n \in Store, Sound(s),
         n.direct = s.direct, n.marked = s.marked,
         \A p \in Payout : s.taken[p] # NULL => n.taken[p] = s.taken[p],
         \A t \in Txn : n.rows[t].status = "resolved" => s.rows[t].status = "resolved" \/ t \in s.marked,
         \A t \in Withdrawal : n.rows[t].status = s.rows[t].status
  PROVE  Sound(n)
<1>1. MarksAgree(n) /\ n.marked \subseteq Payment \cup Withdrawal
  BY DEF Sound, MarksAgree
<1>2. SourcesTaken(n)
  <2> SUFFICES ASSUME NEW t \in Txn, NEW p \in Payout, \E i \in DOMAIN s.direct[t] : s.direct[t][i] = p
               PROVE  n.taken[p] = t
    BY DEF SourcesTaken
  <2>1. s.taken[p] = t
    BY DEF Sound, SourcesTaken
  <2> QED  BY <2>1, ItemAssumption DEF Item
<1>3. ResolvedIsMarked(n) /\ NeverStaged(n)
  BY DEF Sound, ResolvedIsMarked, NeverStaged
<1> QED  BY <1>1, <1>2, <1>3 DEF Sound

LEMMA KeptClean ==
  ASSUME NEW s \in Store, NEW n \in Store, NEW o, Clean(s, o), n.marked = s.marked,
         \A t \in s.marked \ {o} :
            n.rows[t] = s.rows[t] \/ n.rows[t].status # "unposted" \/ n.rows[t].category # NULL
  PROVE  Clean(n, o)
  BY DEF Clean

\* Posting directly for a transaction that is not marked.
LEMMA PostedStore ==
  ASSUME NEW s \in Store, NEW n \in Store, Sound(s),
         NEW t \in Payment \cup Withdrawal, t \notin s.marked, NEW x \in Source,
         n.direct = [s.direct EXCEPT ![t] = Append(@, x)],
         n.marked = s.marked \cup {t},
         n.rows = s.rows,
         \A p \in Payout : s.taken[p] # NULL => n.taken[p] = s.taken[p],
         x \in Payout => n.taken[x] = t
  PROVE  Sound(n)
<1>1. t \in Txn /\ s.direct[t] \in Seq(Source) /\ s.direct \in [Txn -> Seq(Source)]
  BY DEF Txn, Store
<1>2. Len(s.direct[t]) = 0
  BY <1>1 DEF Sound, MarksAgree
<1>3. s.direct[t] = <<>>
  BY <1>1, <1>2, EmptySeq
<1>4. n.direct[t] = <<x>>
  BY <1>1, <1>3
<1>5. \A u \in Txn : u # t => n.direct[u] = s.direct[u]
  BY <1>1
<1>6. MarksAgree(n)
  BY <1>1, <1>4, <1>5 DEF Sound, MarksAgree
<1>7. SourcesTaken(n)
  <2> SUFFICES ASSUME NEW u \in Txn, NEW p \in Payout, NEW i \in DOMAIN n.direct[u], n.direct[u][i] = p
               PROVE  n.taken[p] = u
    BY DEF SourcesTaken
  <2>1. CASE u = t
    BY <2>1, <1>4
  <2>2. CASE u # t
    <3>1. s.taken[p] = u
      BY <2>2, <1>5 DEF Sound, SourcesTaken
    <3> QED  BY <3>1, ItemAssumption DEF Item
  <2> QED  BY <2>1, <2>2
<1>8. /\ ResolvedIsMarked(n) /\ NeverStaged(n)
      /\ n.marked \subseteq Payment \cup Withdrawal
  BY DEF Sound, ResolvedIsMarked, NeverStaged
<1> QED  BY <1>6, <1>7, <1>8 DEF Sound

-----------------------------------------------------------------------------
(* The invariant is inductive.                                               *)

LEMMA InvInit == Init => IInv
<1> SUFFICES ASSUME Init PROVE IInv
  OBVIOUS
<1>1. TypeOK
  BY TypeInit
<1>2. Sound(EmptyStore)
  <2>1. MarksAgree(EmptyStore)
    BY DEF MarksAgree, EmptyStore
  <2>2. SourcesTaken(EmptyStore)
    BY DEF SourcesTaken, EmptyStore
  <2>3. ResolvedIsMarked(EmptyStore) /\ EmptyStore.marked = {}
    BY DEF ResolvedIsMarked, EmptyStore, NoRow
  <2>4. NeverStaged(EmptyStore)
    BY DEF NeverStaged, EmptyStore, NoRow, Txn
  <2> QED  BY <2>1, <2>2, <2>3, <2>4 DEF Sound
<1>3. Clean(EmptyStore, NULL)
  BY DEF Clean, EmptyStore
<1>4. RunStands
  BY DEF Init, RunStands
<1> QED  BY <1>1, <1>2, <1>3, <1>4 DEF Init, IInv

LEMMA InvHuman == ASSUME IInv, Human PROVE IInv'
<1>0. TypeOK'
  BY TypeHuman DEF IInv
<1>1. ASSUME NEW x \in Item, Upload(x) PROVE IInv'
  BY <1>0, <1>1 DEF Upload, IInv, RunStands
<1>2. ASSUME NEW t \in Txn, NEW c \in HumanLabel, NEW acct \in BOOLEAN, LabelRow(t, c, acct)
      PROVE  IInv'
  <2> DEFINE row == [db.rows[t] EXCEPT !.category = c, !.account = @ \/ acct]
  <2>1. db.rows[t] \in Row /\ c \in Category /\ db.rows[t].status = "unposted"
    BY <1>2, ItemAssumption DEF IInv, TypeOK, Store, LabelRow
  <2>9. t \notin Withdrawal
    BY <2>1 DEF IInv, Sound, NeverStaged
  <2>2. row.status = "unposted" /\ row.category # NULL
    BY <2>1, ItemAssumption DEF Row
  <2>3. db' = [db EXCEPT !.rows[t] = row] /\ work' = [work EXCEPT !.rows[t] = row]
    BY <1>2 DEF LabelRow
  <2> HIDE DEF row
  <2>4. db \in Store /\ work \in Store /\ db' \in Store /\ work' \in Store
    BY <1>0 DEF IInv, TypeOK
  <2>5. ASSUME NEW s \in Store, NEW n \in Store, n = [s EXCEPT !.rows[t] = row], NEW o, Sound(s), Clean(s, o)
        PROVE  Sound(n) /\ Clean(n, o)
    <3>1. n.direct = s.direct /\ n.marked = s.marked /\ n.taken = s.taken
      BY <2>5 DEF Store
    <3>2. \A u \in Txn : n.rows[u] = IF u = t THEN row ELSE s.rows[u]
      BY <2>5 DEF Store
    <3>3. s.marked \subseteq Txn
      BY DEF Store
    <3>4. \A u \in Txn : n.rows[u].status = "resolved" => s.rows[u].status = "resolved" \/ u \in s.marked
      BY <2>2, <3>2
    <3>5. \A u \in Withdrawal : n.rows[u].status = s.rows[u].status
      BY <2>9, <3>2 DEF Txn
    <3>6. Sound(n)
      <4>1. \A p \in Payout : s.taken[p] # NULL => n.taken[p] = s.taken[p]
        BY <3>1
      <4>2. Sound(s)
        BY <2>5
      <4> QED  BY <3>1, <3>4, <3>5, <4>1, <4>2, KeptStore
    <3>7. Clean(n, o)
      <4>1. Clean(s, o)
        BY <2>5
      <4> QED  BY <2>2, <3>1, <3>2, <3>3, <4>1 DEF Clean
    <3> QED  BY <3>6, <3>7
  <2>6. Sound(db') /\ Clean(db', NULL)
    BY <2>3, <2>4, <2>5 DEF IInv
  <2>7. Sound(work') /\ Clean(work', orphan)
    BY <2>3, <2>4, <2>5 DEF IInv
  <2>8. RunStands'
    BY <1>2, <2>3, <2>4 DEF IInv, RunStands, LabelRow, Store
  <2> QED  BY <1>0, <1>2, <2>6, <2>7, <2>8 DEF IInv, LabelRow
<1> QED  BY <1>1, <1>2 DEF Human

LEMMA InvBegin == ASSUME IInv, NEW f \in Period, Begin(f) PROVE IInv'
<1>0. TypeOK'
  BY TypeBegin DEF IInv
<1>1. work \in Store /\ work' \in Store
  BY <1>0 DEF IInv, TypeOK
<1>2. /\ work'.direct = work.direct /\ work'.marked = work.marked
      /\ work'.taken = work.taken /\ work'.rows = work.rows
  BY <1>1 DEF Begin, Store
<1>3. Sound(work')
  BY <1>1, <1>2, KeptStore DEF IInv
<1>4. Clean(work', orphan)
  BY <1>1, <1>2, KeptClean DEF IInv
<1>5. RunStands'
  BY <1>2 DEF Begin, IInv, RunStands
<1> QED  BY <1>0, <1>3, <1>4, <1>5 DEF Begin, IInv

LEMMA InvRow ==
  ASSUME IInv, NEW t \in Txn,
         SkipPosted(t) \/ ConfirmPayout(t) \/ StageLater(t) \/ BookWithdrawal(t) \/ WarnWithdrawal(t)
  PROVE  IInv'
<1>0. TypeOK'
  BY TypeRow DEF IInv
<1>1. work \in Store /\ work' \in Store
  BY <1>0 DEF IInv, TypeOK
<1>2. CASE SkipPosted(t)
  BY <1>0, <1>2 DEF SkipPosted, Visiting, Done, IInv, RunStands
<1>3. CASE ConfirmPayout(t)
  <2>1. PICK p \in Expected(t) : work' = [PostDirectly(work, t, p) EXCEPT !.taken[p] = t]
    BY <1>3 DEF ConfirmPayout
  <2>2. p \in Payout /\ p \in Source /\ work.taken[p] = NULL
    BY DEF Expected, Source, Unmatched
  <2>3. /\ work'.direct = [work.direct EXCEPT ![t] = Append(@, p)]
        /\ work'.marked = work.marked \cup {t}
        /\ work'.rows = work.rows
        /\ work'.taken = [work.taken EXCEPT ![p] = t]
    BY <1>1, <2>1 DEF PostDirectly, Store
  <2>4. t \in Payment /\ t \notin work.marked /\ t \in todo /\ orphan = NULL /\ pc = "rows"
    BY <1>3 DEF ConfirmPayout, AlreadyPosted, Visiting
  <2>5. work'.taken[p] = t /\ \A q \in Payout : work.taken[q] # NULL => work'.taken[q] = work.taken[q]
    BY <1>1, <2>2, <2>3 DEF Store
  <2>6. Sound(work')
    BY <1>1, <2>2, <2>3, <2>4, <2>5, PostedStore DEF IInv
  <2>7. Clean(work', orphan')
    <3>1. orphan' = IF Orphan(t) THEN t ELSE NULL
      BY <1>3 DEF ConfirmPayout
    <3>2. NULL \notin work.marked \cup {t}
      BY <1>1, <2>4, ItemAssumption DEF Store, Item, Txn
    <3> QED  BY <2>3, <2>4, <3>1, <3>2 DEF IInv, Clean, Orphan
  <2>8. RunStands'
    BY <1>3, <2>3, <2>4 DEF IInv, RunStands, ConfirmPayout, Done
  <2> QED  BY <1>0, <1>3, <2>6, <2>7, <2>8 DEF IInv, ConfirmPayout
<1>4. CASE StageLater(t)
  <2>1. t \notin work.marked
    BY <1>4, ItemAssumption DEF StageLater, Generic, AlreadyPosted, IInv, Sound
  <2>2. RunStands'
    BY <1>4, <2>1 DEF StageLater, Visiting, Done, IInv, RunStands
  <2> QED  BY <1>0, <1>4, <2>2 DEF StageLater, IInv
<1>5. CASE BookWithdrawal(t)
  <2>1. PICK c \in Matching(t) : work' = PostDirectly(work, t, c)
    BY <1>5 DEF BookWithdrawal
  <2>2. c \in Confirmation /\ c \in Source /\ c \notin Payout
    BY <1>5, ItemAssumption DEF Matching, Source, BookWithdrawal, IInv, TypeOK, Item
  <2>3. /\ work'.direct = [work.direct EXCEPT ![t] = Append(@, c)]
        /\ work'.marked = work.marked \cup {t}
        /\ work'.rows = work.rows
        /\ work'.taken = work.taken
    BY <1>1, <2>1 DEF PostDirectly, Store
  <2>4. t \in Withdrawal /\ t \notin work.marked /\ orphan = NULL /\ pc = "rows"
    BY <1>5 DEF BookWithdrawal, AlreadyPosted, Visiting
  <2>5. Sound(work')
    BY <1>1, <2>2, <2>3, <2>4, PostedStore DEF IInv
  <2>6. Clean(work', orphan)
    BY <2>3, <2>4 DEF IInv, Clean, Sound, NeverStaged
  <2>7. t \notin generic
    BY <2>4, ItemAssumption DEF IInv, TypeOK
  <2>8. RunStands'
    BY <1>5, <2>3, <2>4, <2>7 DEF IInv, RunStands, BookWithdrawal, Done
  <2> QED  BY <1>0, <1>5, <2>5, <2>6, <2>8 DEF IInv, BookWithdrawal
<1>6. CASE WarnWithdrawal(t)
  <2>1. /\ work'.direct = work.direct /\ work'.marked = work.marked
        /\ work'.taken = work.taken /\ work'.rows = work.rows
    BY <1>1, <1>6 DEF WarnWithdrawal, Store
  <2>2. Sound(work') /\ Clean(work', orphan)
    BY <1>1, <2>1, KeptStore, KeptClean DEF IInv
  <2>3. RunStands'
    BY <1>6, <2>1 DEF WarnWithdrawal, Visiting, Done, IInv, RunStands
  <2> QED  BY <1>0, <1>6, <2>2, <2>3 DEF WarnWithdrawal, IInv
<1> QED  BY <1>2, <1>3, <1>4, <1>5, <1>6

LEMMA InvStage ==
  ASSUME IInv, ResolveOrphan \/ StageRawLines \/ StartAutoMatch \/ StartPosting
  PROVE  IInv'
<1>0. TypeOK'
  BY TypeStage DEF IInv
<1>1. work \in Store /\ work' \in Store
  BY <1>0 DEF IInv, TypeOK
<1>2. CASE ResolveOrphan
  <2>1. orphan \in Txn /\ orphan \in work.marked /\ orphan \notin Withdrawal
    BY <1>2, ItemAssumption DEF ResolveOrphan, IInv, TypeOK, RunStands
  <2>2. work' = [work EXCEPT !.rows[orphan] = Resolved(@)]
    BY <1>2 DEF ResolveOrphan
  <2>3. work'.direct = work.direct /\ work'.marked = work.marked /\ work'.taken = work.taken
    BY <1>1, <2>2 DEF Store
  <2>4. /\ \A u \in Txn : u # orphan => work'.rows[u] = work.rows[u]
        /\ work'.rows[orphan].status = "resolved"
    BY <1>1, <2>1, <2>2 DEF Store, Row, Resolved
  <2>5. Sound(work')
    <3>1. \A u \in Withdrawal : work'.rows[u].status = work.rows[u].status
      BY <2>1, <2>4 DEF Txn
    <3>2. \A u \in Txn : work'.rows[u].status = "resolved" => work.rows[u].status = "resolved" \/ u \in work.marked
      BY <2>1, <2>4
    <3> QED  BY <1>1, <2>3, <3>1, <3>2, KeptStore DEF IInv
  <2>6. Clean(work', orphan')
    BY <1>1, <2>3, <2>4 DEF IInv, Clean, Store
  <2>7. RunStands'
    BY <1>2, <2>3 DEF IInv, RunStands, ResolveOrphan
  <2> QED  BY <1>0, <1>2, <2>5, <2>6, <2>7 DEF IInv, ResolveOrphan
<1>3. CASE StageRawLines
  <2> DEFINE new == {t \in generic : work.rows[t].status = "absent"}
             staged == [t \in Txn |-> IF t \in new THEN [NoRow EXCEPT !.status = "unposted"]
                                                   ELSE work.rows[t]]
  <2>1. work' = [work EXCEPT !.rows = staged]
    BY <1>3 DEF StageRawLines
  <2>2. work'.direct = work.direct /\ work'.marked = work.marked /\ work'.taken = work.taken
    BY <1>1, <2>1 DEF Store
  <2>3. \A u \in Txn : work'.rows[u] = work.rows[u] \/ (u \in generic /\ work'.rows[u].status = "unposted")
    BY <1>1, <2>1 DEF Store, NoRow
  <2>4. generic \cap Withdrawal = {} /\ generic \cap work.marked = {}
    BY ItemAssumption DEF IInv, TypeOK, RunStands
  <2>5. Sound(work')
    <3>1. \A u \in Withdrawal : work'.rows[u].status = work.rows[u].status
      BY <2>3, <2>4 DEF Txn
    <3>2. \A u \in Txn : work'.rows[u].status = "resolved" => work.rows[u].status = "resolved" \/ u \in work.marked
      BY <2>3
    <3> QED  BY <1>1, <2>2, <3>1, <3>2, KeptStore DEF IInv
  <2>6. Clean(work', orphan)
    BY <1>1, <2>2, <2>3, <2>4 DEF IInv, Clean, Store
  <2>7. RunStands'
    BY <1>3, <2>2 DEF IInv, RunStands, StageRawLines
  <2> QED  BY <1>0, <1>3, <2>5, <2>6, <2>7 DEF IInv, StageRawLines
<1>4. CASE StartAutoMatch
  <2>1. RunStands'
    BY <1>4 DEF IInv, RunStands, StartAutoMatch
  <2> QED  BY <1>0, <1>4, <2>1 DEF IInv, StartAutoMatch
<1>5. CASE StartPosting
  <2>1. todo' \cap Withdrawal = {}
    BY <1>5 DEF IInv, StartPosting, Sound, NeverStaged
  <2>2. RunStands'
    BY <1>5, <2>1 DEF IInv, RunStands, StartPosting
  <2> QED  BY <1>0, <1>5, <2>2 DEF IInv, StartPosting
<1> QED  BY <1>2, <1>3, <1>4, <1>5

\* Of one store and the next: rows are labelled, payouts consumed.
OnlyLabels(s, n) ==
    /\ n.direct = s.direct /\ n.marked = s.marked
    /\ \A p \in Payout : s.taken[p] # NULL => n.taken[p] = s.taken[p]
    /\ \A u \in Txn : n.rows[u].status = s.rows[u].status
    /\ \A u \in Txn : n.rows[u] = s.rows[u] \/ n.rows[u].category # NULL

LEMMA InvQueue ==
  ASSUME IInv, NEW t \in Txn, AutoMatchRow(t) \/ PostRow(t)
  PROVE  IInv'
<1>0. TypeOK'
  BY TypeQueue DEF IInv
<1>1. work \in Store /\ work' \in Store /\ work.rows[t] \in Row
  BY <1>0 DEF IInv, TypeOK, Store
<1>2. CASE AutoMatchRow(t)
  <2>1. OnlyLabels(work, work')
    <3>1. ASSUME NEW p \in RuleA(t),
                 work' = [work EXCEPT !.taken[p] = t, !.rows[t].category = "revenue_settlement",
                                      !.rows[t].account = TRUE]
          PROVE  OnlyLabels(work, work')
      <4>1. p \in Payout /\ work.taken[p] = NULL
        BY DEF RuleA, Unmatched
      <4>2. work'.direct = work.direct /\ work'.marked = work.marked
        BY <1>1, <3>1 DEF Store
      <4>3. work'.taken = [work.taken EXCEPT ![p] = t]
        BY <1>1, <3>1 DEF Store
      <4> DEFINE new == [work.rows[t] EXCEPT !.category = "revenue_settlement", !.account = TRUE]
      <4>4. work' = [[work EXCEPT !.taken[p] = t] EXCEPT !.rows[t] = new]
        BY <3>1 DEF IInv, TypeOK, Store, Row
      <4>5. new.status = work.rows[t].status /\ new.category # NULL
        BY <1>1, ItemAssumption DEF Row, Category
      <4> HIDE DEF new
      <4>6. \A u \in Txn : work'.rows[u] = IF u = t THEN new ELSE work.rows[u]
        BY <1>1, <4>4 DEF Store
      <4> QED  BY <1>1, <4>1, <4>2, <4>3, <4>5, <4>6 DEF OnlyLabels, Store
    <3>2. ASSUME NEW r \in OtherRule, work' = [work EXCEPT !.rows[t].category = r[2]]
          PROVE  OnlyLabels(work, work')
      <4>1. r[2] # NULL
        BY ItemAssumption
      <4>2. /\ work'.direct = work.direct /\ work'.marked = work.marked
            /\ work'.taken = work.taken
            /\ work'.rows = [work.rows EXCEPT ![t] = [@ EXCEPT !.category = r[2]]]
        BY <1>1, <3>2 DEF Store, Row
      <4>3. \A u \in Txn : u # t => work'.rows[u] = work.rows[u]
        BY <1>1, <4>2 DEF Store
      <4>4. work'.rows[t].status = work.rows[t].status /\ work'.rows[t].category # NULL
        BY <1>1, <4>1, <4>2 DEF Store, Row
      <4> QED  BY <4>2, <4>3, <4>4 DEF OnlyLabels
    <3>3. ASSUME UNCHANGED work PROVE OnlyLabels(work, work')
      BY <3>3 DEF OnlyLabels
    <3> QED  BY <1>2, <3>1, <3>2, <3>3 DEF AutoMatchRow
  <2>2. Sound(work')
    BY <1>1, <2>1, KeptStore DEF IInv, Txn, OnlyLabels
  <2>3. Clean(work', orphan)
    BY <1>1, <2>1 DEF IInv, Clean, Store, OnlyLabels
  <2>4. RunStands'
    BY <1>2, <2>1 DEF IInv, RunStands, AutoMatchRow, Done, OnlyLabels
  <2> QED  BY <1>0, <1>2, <2>2, <2>3, <2>4 DEF IInv, AutoMatchRow
<1>3. CASE PostRow(t)
  <2>1. pc = "post" /\ t \notin Withdrawal
    BY <1>3 DEF PostRow, IInv, RunStands
  <2>2. work' = work \/ work' = [work EXCEPT !.rows[t].status = "posted"]
    BY <1>3 DEF PostRow
  <2>3. work'.direct = work.direct /\ work'.marked = work.marked /\ work'.taken = work.taken
    BY <1>1, <2>2 DEF Store
  <2>4. \A u \in Txn : work'.rows[u] = work.rows[u] \/ (u = t /\ work'.rows[u].status = "posted")
    BY <1>1, <2>2 DEF Store, Row
  <2>5. Sound(work')
    <3>1. \A u \in Withdrawal : work'.rows[u].status = work.rows[u].status
      BY <2>1, <2>4 DEF Txn
    <3>2. \A u \in Txn : work'.rows[u].status = "resolved" => work.rows[u].status = "resolved" \/ u \in work.marked
      BY <2>4
    <3> QED  BY <1>1, <2>3, <3>1, <3>2, KeptStore DEF IInv
  <2>6. Clean(work', orphan)
    BY <1>1, <2>3, <2>4 DEF IInv, Clean, Store
  <2>7. RunStands'
    BY <1>3, <2>1, <2>3 DEF IInv, RunStands, PostRow, Done
  <2> QED  BY <1>0, <1>3, <2>5, <2>6, <2>7 DEF IInv, PostRow
<1> QED  BY <1>2, <1>3

LEMMA InvEnd == ASSUME IInv, Commit \/ Rollback PROVE IInv'
<1>0. TypeOK'
  BY TypeEnd DEF IInv
<1>1. RunStands'
  BY DEF RunStands, Commit, Rollback, Idle
<1>2. CASE Commit
  <2>1. orphan = NULL /\ orphan' = NULL
    BY <1>2 DEF Commit, Idle, IInv, TypeOK
  <2> QED  BY <1>0, <1>1, <1>2, <2>1 DEF IInv, Commit
<1>3. CASE Rollback
  BY <1>0, <1>1, <1>3 DEF IInv, Rollback, Idle
<1> QED  BY <1>2, <1>3

LEMMA InvStep == IInv /\ [Next]_vars => IInv'
<1> SUFFICES ASSUME IInv, [Next]_vars PROVE IInv'
  OBVIOUS
<1>1. CASE UNCHANGED vars
  BY <1>1 DEF vars, IInv, TypeOK, RunStands
<1>2. CASE Next
  <2>1. ASSUME NEW t \in Txn, Visit(t) PROVE IInv'
    BY <2>1, InvRow, InvQueue DEF Visit
  <2>2. ASSUME Advance PROVE IInv'
    BY <2>1, <2>2, InvStage, InvEnd DEF Advance
  <2> QED  BY <1>2, <2>2, InvHuman, InvBegin, InvEnd DEF Next, Orderly
<1> QED  BY <1>1, <1>2

LEMMA InvAlways == Spec => []IInv
  BY InvInit, InvStep, PTL DEF Spec

-----------------------------------------------------------------------------
(* What the invariant gives of the committed store.                          *)

\* At most one direct entry per transaction, however often its export is read.
THEOREM DirectOnceAlways == Spec => []DirectOnce
<1>1. IInv => DirectOnce
  <2> SUFFICES ASSUME IInv, NEW t \in Txn PROVE Len(db.direct[t]) <= 1
    BY DEF DirectOnce
  <2> QED  BY DEF IInv, Sound, MarksAgree
<1> QED  BY <1>1, InvAlways, PTL

\* A payout a payment was booked against was consumed by that payment.
THEOREM PayoutConfirmedOnceAlways == Spec => []PayoutConfirmedOnce
<1>1. IInv => PayoutConfirmedOnce
  BY DEF IInv, Sound, SourcesTaken, PayoutConfirmedOnce
<1> QED  BY <1>1, InvAlways, PTL

\* No untouched row is left beside a direct entry.
THEOREM NoOrphanLeftAlways == Spec => []NoOrphanLeft
<1>1. IInv => NoOrphanLeft
  <2> SUFFICES ASSUME IInv, NEW t \in Txn
               PROVE  /\ db.direct[t] # <<>> => ~(db.rows[t].status = "unposted" /\ db.rows[t].category = NULL)
                      /\ db.rows[t].status = "resolved" => db.direct[t] # <<>>
    BY DEF NoOrphanLeft
  <2>1. db.direct[t] \in Seq(Source) /\ t # NULL
    BY ItemAssumption DEF IInv, TypeOK, Store, Item
  <2>2. Len(db.direct[t]) = IF t \in db.marked THEN 1 ELSE 0
    BY DEF IInv, Sound, MarksAgree
  <2>3. db.direct[t] # <<>> <=> t \in db.marked
    BY <2>1, <2>2, EmptySeq
  <2> QED  BY <2>1, <2>3 DEF IInv, Sound, ResolvedIsMarked, Clean
<1> QED  BY <1>1, InvAlways, PTL

-----------------------------------------------------------------------------
(* Nothing that was read is dropped.                                         *)

\* A transaction that period f's sync read is booked, staged or warned about.
Accounted(s, t, f) ==
    \/ t \in s.marked
    \/ t \notin Withdrawal /\ s.rows[t].status # "absent"
    \/ t \in s.warned[f]

\* The running sync has still to come to it, or to stage it.
Ahead(t, f) == pc = "rows" /\ f = period /\ t \in todo \cup generic

DInv ==
    /\ IInv
    /\ \A f \in Period : \A t \in db.read[f] : Accounted(db, t, f)
    /\ \A f \in Period : \A t \in work.read[f] : Accounted(work, t, f) \/ Ahead(t, f)

\* What was accounted for in the store s is in the store n.
Keeps(s, n) ==
    /\ n.read = s.read
    /\ s.marked \subseteq n.marked
    /\ \A t \in Txn : s.rows[t].status # "absent" => n.rows[t].status # "absent"
    /\ \A f \in Period : s.warned[f] \subseteq n.warned[f]

LEMMA KeepsAccounted ==
  ASSUME NEW s \in Store, NEW n \in Store, Keeps(s, n), NEW f \in Period, NEW t \in Txn,
         Accounted(s, t, f)
  PROVE  Accounted(n, t, f)
BY DEF Keeps, Accounted

\* A step of the run that leaves nothing behind.
LEMMA DMoves ==
  ASSUME DInv, IInv', db' = db, Keeps(work, work'),
         \A f \in Period, t \in Txn : Ahead(t, f) => Accounted(work', t, f) \/ Ahead(t, f)'
  PROVE  DInv'
<1>1. PICK s, n : s = work /\ n = work'
  OBVIOUS
<1>2. s \in Store /\ n \in Store /\ Keeps(s, n) /\ n.read = s.read
  BY <1>1 DEF DInv, IInv, TypeOK, Keeps
<1>3. ASSUME NEW f \in Period, NEW t \in n.read[f]
      PROVE  Accounted(n, t, f) \/ Ahead(t, f)'
  <2>1. t \in Txn
    BY <1>2 DEF Store
  <2>2. Accounted(s, t, f) \/ Ahead(t, f)
    BY <1>1, <1>2 DEF DInv
  <2> QED  BY <1>1, <1>2, <2>1, <2>2, KeepsAccounted
<1> QED  BY <1>1, <1>3 DEF DInv

LEMMA DInit == Init => DInv
<1> SUFFICES ASSUME Init PROVE DInv
  OBVIOUS
<1>1. db = EmptyStore /\ work = EmptyStore
  BY DEF Init
<1>2. \A f \in Period : EmptyStore.read[f] = {}
  BY DEF EmptyStore
<1> QED  BY <1>1, <1>2, InvInit DEF DInv

LEMMA DHuman == ASSUME DInv, IInv', Human PROVE DInv'
<1>1. ASSUME NEW x \in Item, Upload(x) PROVE DInv'
  BY <1>1 DEF Upload, DInv, Ahead
<1>2. ASSUME NEW t \in Txn, NEW c \in HumanLabel, NEW acct \in BOOLEAN, LabelRow(t, c, acct)
      PROVE  DInv'
  <2>1. PICK row : row = [db.rows[t] EXCEPT !.category = c, !.account = @ \/ acct]
    OBVIOUS
  <2>2. PICK d, w, e, n : d = db /\ w = work /\ e = db' /\ n = work'
    OBVIOUS
  <2>3. /\ e = [d EXCEPT !.rows[t] = row] /\ n = [w EXCEPT !.rows[t] = row]
        /\ d.rows[t].status = "unposted" /\ d.rows[t] \in Row
    BY <1>2, <2>1, <2>2 DEF LabelRow, DInv, IInv, TypeOK, Store
  <2>4. row.status # "absent"
    BY <2>1, <2>2, <2>3 DEF Row
  <2>5. d \in Store /\ w \in Store /\ e \in Store /\ n \in Store
    BY <2>2 DEF DInv, IInv, TypeOK
  <2>6. Keeps(d, e) /\ Keeps(w, n)
    BY <2>3, <2>4, <2>5 DEF Keeps, Store
  <2>7. ASSUME NEW f \in Period, NEW u \in e.read[f] PROVE Accounted(e, u, f)
    <3>1. u \in Txn /\ u \in d.read[f]
      BY <2>5, <2>6 DEF Keeps, Store
    <3> QED  BY <2>2, <2>5, <2>6, <3>1, KeepsAccounted DEF DInv
  <2>8. ASSUME NEW f \in Period, NEW u \in n.read[f] PROVE Accounted(n, u, f) \/ Ahead(u, f)
    <3>1. u \in Txn /\ u \in w.read[f]
      BY <2>5, <2>6 DEF Keeps, Store
    <3> QED  BY <2>2, <2>5, <2>6, <3>1, KeepsAccounted DEF DInv
  <2>9. pc' = pc /\ period' = period /\ todo' = todo /\ generic' = generic
    BY <1>2 DEF LabelRow
  <2>10. \A u, f : Ahead(u, f)' <=> Ahead(u, f)
    BY <2>9 DEF Ahead
  <2> QED  BY <2>2, <2>7, <2>8, <2>10 DEF DInv
<1> QED  BY <1>1, <1>2 DEF Human

LEMMA DBegin == ASSUME DInv, IInv', NEW f \in Period, Begin(f) PROVE DInv'
<1>1. PICK w, n, new : w = work /\ n = work' /\ new = files' \cap Txn
  OBVIOUS
<1>2. w \in Store /\ n \in Store
  BY <1>1 DEF DInv, IInv, TypeOK
<1>3. pc = "idle" /\ pc' = "rows" /\ period' = f /\ todo' = new /\ db' = db
  BY <1>1 DEF Begin
<1>4. /\ n.marked = w.marked /\ n.rows = w.rows
      /\ n.read = [w.read EXCEPT ![f] = new] /\ n.warned = [w.warned EXCEPT ![f] = {}]
  BY <1>1, <1>2 DEF Begin, Store
<1>5. ASSUME NEW g \in Period, NEW t \in n.read[g]
      PROVE  Accounted(n, t, g) \/ Ahead(t, g)'
  <2>1. CASE g = f
    BY <1>2, <1>3, <1>4, <2>1 DEF Ahead, Store
  <2>2. CASE g # f
    <3>1. t \in w.read[g] /\ n.warned[g] = w.warned[g]
      BY <1>2, <1>4, <2>2 DEF Store
    <3>2. Accounted(w, t, g)
      BY <1>1, <1>3, <3>1 DEF DInv, Ahead
    <3> QED  BY <1>4, <3>1, <3>2 DEF Accounted
  <2> QED  BY <2>1, <2>2
<1> QED  BY <1>1, <1>3, <1>5 DEF DInv

LEMMA DRow ==
  ASSUME DInv, IInv', NEW t \in Txn,
         SkipPosted(t) \/ ConfirmPayout(t) \/ StageLater(t) \/ BookWithdrawal(t) \/ WarnWithdrawal(t)
  PROVE  DInv'
<1>1. /\ db' = db /\ pc' = pc /\ period' = period /\ todo' = todo \ {t} /\ generic \subseteq generic'
      /\ pc = "rows"
  BY DEF SkipPosted, ConfirmPayout, StageLater, BookWithdrawal, WarnWithdrawal, Done, Visiting
<1>2. work \in Store /\ work' \in Store
  BY DEF DInv, IInv, TypeOK
<1>3. Keeps(work, work') /\ \A f \in Period : f = period => t \in generic' \/ Accounted(work', t, f)
  <2>1. CASE SkipPosted(t)
    BY <2>1 DEF SkipPosted, AlreadyPosted, Keeps, Accounted
  <2>2. CASE StageLater(t)
    BY <2>2 DEF StageLater, Keeps
  <2>3. ASSUME NEW x, work' = PostDirectly(work, t, x) \/ work' = [PostDirectly(work, t, x) EXCEPT !.taken[x] = t]
        PROVE  Keeps(work, work') /\ t \in work'.marked
    BY <1>2, <2>3 DEF PostDirectly, Keeps, Store
  <2>4. CASE ConfirmPayout(t) \/ BookWithdrawal(t)
    BY <2>3, <2>4 DEF ConfirmPayout, BookWithdrawal, Accounted
  <2>5. CASE WarnWithdrawal(t)
    <3>1. work' = [work EXCEPT !.warned[period] = @ \cup {t}]
      BY <2>5 DEF WarnWithdrawal
    <3> QED  BY <1>2, <3>1 DEF Keeps, Accounted, Store
  <2> QED  BY <2>1, <2>2, <2>4, <2>5
<1>4. \A f \in Period, u \in Txn : Ahead(u, f) => Accounted(work', u, f) \/ Ahead(u, f)'
  BY <1>1, <1>3 DEF Ahead
<1> QED  BY <1>1, <1>3, <1>4, DMoves

LEMMA DStage ==
  ASSUME DInv, IInv', ResolveOrphan \/ StageRawLines \/ StartAutoMatch \/ StartPosting
  PROVE  DInv'
<1>1. work \in Store /\ work' \in Store /\ db' = db
  BY DEF DInv, IInv, TypeOK, ResolveOrphan, StageRawLines, StartAutoMatch, StartPosting
<1>2. CASE ResolveOrphan
  <2>1. /\ work' = [work EXCEPT !.rows[orphan] = Resolved(@)]
        /\ orphan \in Txn /\ work.rows[orphan] \in Row
    BY <1>1, <1>2 DEF ResolveOrphan, DInv, IInv, TypeOK, Store
  <2>2. Resolved(work.rows[orphan]).status = "resolved"
    BY <2>1 DEF Resolved, Row
  <2>3. Keeps(work, work')
    BY <1>1, <2>1, <2>2 DEF Keeps, Store
  <2>4. \A f \in Period, u \in Txn : Ahead(u, f) => Ahead(u, f)'
    BY <1>2 DEF ResolveOrphan, Ahead
  <2> QED  BY <1>1, <2>3, <2>4, DMoves
<1>3. CASE StageRawLines
  <2>1. PICK staged : staged = [u \in Txn |-> IF u \in {v \in generic : work.rows[v].status = "absent"}
                                              THEN [NoRow EXCEPT !.status = "unposted"] ELSE work.rows[u]]
    OBVIOUS
  <2>2. work' = [work EXCEPT !.rows = staged] /\ pc = "rows" /\ todo = {}
    BY <1>3, <2>1 DEF StageRawLines
  <2>3. /\ work'.read = work.read /\ work'.marked = work.marked /\ work'.warned = work.warned
        /\ work'.rows = staged
    BY <1>1, <2>2 DEF Store
  <2>4. \A u \in Txn : (work.rows[u].status # "absent" \/ u \in generic) => staged[u].status # "absent"
    BY <2>1 DEF NoRow
  <2>5. Keeps(work, work')
    BY <2>3, <2>4 DEF Keeps
  <2>6. generic \subseteq Txn \ Withdrawal
    BY ItemAssumption DEF DInv, IInv, TypeOK, Txn
  <2>7. \A f \in Period, u \in Txn : Ahead(u, f) => Accounted(work', u, f)
    BY <2>2, <2>3, <2>4, <2>6 DEF Ahead, Accounted
  <2> QED  BY <1>1, <2>5, <2>7, DMoves
<1>4. CASE StartAutoMatch \/ StartPosting
  <2>1. work' = work /\ pc # "rows"
    BY <1>4 DEF StartAutoMatch, StartPosting
  <2>2. Keeps(work, work') /\ \A u, f : ~Ahead(u, f)
    BY <2>1 DEF Keeps, Ahead
  <2> QED  BY <1>1, <2>2, DMoves
<1> QED  BY <1>2, <1>3, <1>4

LEMMA DQueue ==
  ASSUME DInv, IInv', NEW t \in Txn, AutoMatchRow(t) \/ PostRow(t)
  PROVE  DInv'
<1>1. /\ work \in Store /\ work' \in Store /\ work.rows[t] \in Row /\ db' = db
      /\ \A u, f : ~Ahead(u, f)
  BY DEF DInv, IInv, TypeOK, Store, AutoMatchRow, PostRow, Ahead
<1>2. Keeps(work, work')
  <2>1. ASSUME NEW p \in Payout, work' = [work EXCEPT !.taken[p] = t, !.rows[t].category = "revenue_settlement",
                                                      !.rows[t].account = TRUE]
        PROVE  Keeps(work, work')
    BY <1>1, <2>1 DEF Keeps, Store, Row
  <2>2. ASSUME NEW c, work' = [work EXCEPT !.rows[t].category = c]
        PROVE  Keeps(work, work')
    BY <1>1, <2>2 DEF Keeps, Store, Row
  <2>3. ASSUME work' = [work EXCEPT !.rows[t].status = "posted"]
        PROVE  Keeps(work, work')
    BY <1>1, <2>3 DEF Keeps, Store, Row
  <2>4. ASSUME work' = work PROVE Keeps(work, work')
    BY <2>4 DEF Keeps
  <2> QED  BY <2>1, <2>2, <2>3, <2>4 DEF AutoMatchRow, PostRow, RuleA
<1> QED  BY <1>1, <1>2, DMoves

LEMMA DEnd == ASSUME DInv, IInv', Commit \/ Rollback PROVE DInv'
<1>1. CASE Commit
  <2>1. pc = "post" /\ db' = work /\ work' = work
    BY <1>1 DEF Commit
  <2>2. \A f \in Period : \A t \in work.read[f] : Accounted(work, t, f)
    BY <2>1 DEF DInv, Ahead
  <2> QED  BY <2>1, <2>2 DEF DInv
<1>2. CASE Rollback
  BY <1>2 DEF Rollback, DInv
<1> QED  BY <1>1, <1>2

LEMMA DStep == DInv /\ [Next]_vars => DInv'
<1> SUFFICES ASSUME DInv, [Next]_vars PROVE DInv'
  OBVIOUS
<1>0. IInv'
  BY InvStep DEF DInv
<1>1. CASE UNCHANGED vars
  BY <1>0, <1>1 DEF vars, DInv, Ahead
<1>2. CASE Next
  <2>1. ASSUME NEW t \in Txn, Visit(t) PROVE DInv'
    BY <1>0, <2>1, DRow, DQueue DEF Visit
  <2>2. ASSUME Advance PROVE DInv'
    BY <1>0, <2>1, <2>2, DStage, DEnd DEF Advance
  <2> QED  BY <1>0, <1>2, <2>2, DHuman, DBegin, DEnd DEF Next, Orderly
<1> QED  BY <1>1, <1>2

\* In a committed store a transaction has a direct entry exactly when it is marked.
LEMMA DirectIsMarked ==
  ASSUME NEW s \in Store, Sound(s), NEW t \in Txn
  PROVE  s.direct[t] # <<>> <=> t \in s.marked
<1>1. s.direct[t] \in Seq(Source)
  BY DEF Store
<1>2. Len(s.direct[t]) = IF t \in s.marked THEN 1 ELSE 0
  BY DEF Sound, MarksAgree
<1> QED  BY <1>1, <1>2, EmptySeq

\* Every completed transaction the last sync of a period read is booked, in the
\* review queue, or named by the warning on the period's document.
THEOREM NothingDroppedAlways == Spec => []NothingDropped
<1>1. ASSUME DInv PROVE NothingDropped
  <2> SUFFICES ASSUME NEW f \in Period, NEW t \in db.read[f]
               PROVE  \/ db.direct[t] # <<>>
                      \/ t \notin Withdrawal /\ db.rows[t].status # "absent"
                      \/ t \in db.warned[f]
    BY DEF NothingDropped
  <2>1. db \in Store /\ Sound(db) /\ Accounted(db, t, f)
    BY <1>1 DEF DInv, IInv, TypeOK
  <2>2. t \in Txn
    BY <2>1 DEF Store
  <2> QED  BY <2>1, <2>2, DirectIsMarked DEF Accounted
<1> QED  BY <1>1, DInit, DStep, PTL DEF Spec

-----------------------------------------------------------------------------
(* An untouched row is never booked beside a direct entry.                   *)

\* A row is posted under its category.
PostedNamed(s) == \A t \in Txn : s.rows[t].status = "posted" => s.rows[t].category # NULL

\* Of a transaction that is booked directly: its row, if it can still be posted or
\* is, had a category in the committed store.
TouchedBefore(d, s, o) ==
    \A t \in s.marked \ {o} :
        s.rows[t].status \in {"unposted", "posted"} => d.rows[t].category # NULL

\* Until rows are staged the run only resolves rows; when it posts, its snapshot's
\* categories stand, and the rows to post are unposted.
RowsStand ==
    /\ pc \in {"idle", "rows"} =>
          \A t \in Txn : work.rows[t] = db.rows[t] \/ work.rows[t].status = "resolved"
    /\ pc = "post" =>
          /\ \A t \in Txn : snap[t].category # NULL => work.rows[t].category # NULL
          /\ \A t \in todo : work.rows[t].status = "unposted"

UInv ==
    /\ IInv
    /\ PostedNamed(db) /\ PostedNamed(work)
    /\ TouchedBefore(db, work, orphan)
    /\ RowsStand

LEMMA UInit == Init => UInv
<1> SUFFICES ASSUME Init PROVE UInv
  OBVIOUS
<1>1. db = EmptyStore /\ work = EmptyStore /\ pc = "idle"
  BY DEF Init
<1>2. /\ EmptyStore.marked = {}
      /\ \A t \in Txn : EmptyStore.rows[t].status = "absent"
  BY DEF EmptyStore, NoRow
<1>3. PostedNamed(EmptyStore)
  BY <1>2 DEF PostedNamed
<1>4. TouchedBefore(db, work, orphan) /\ RowsStand
  BY <1>1, <1>2 DEF TouchedBefore, RowsStand
<1> QED  BY <1>1, <1>3, <1>4, InvInit DEF UInv

LEMMA UHuman == ASSUME UInv, IInv', Human PROVE UInv'
<1>1. ASSUME NEW x \in Item, Upload(x) PROVE UInv'
  BY <1>1 DEF Upload, UInv, RowsStand
<1>2. ASSUME NEW t \in Txn, NEW c \in HumanLabel, NEW acct \in BOOLEAN, LabelRow(t, c, acct)
      PROVE  UInv'
  <2>1. PICK row : row = [db.rows[t] EXCEPT !.category = c, !.account = @ \/ acct]
    OBVIOUS
  <2>2. PICK d, w, e, n : d = db /\ w = work /\ e = db' /\ n = work'
    OBVIOUS
  <2>3. /\ e = [d EXCEPT !.rows[t] = row] /\ n = [w EXCEPT !.rows[t] = row]
        /\ d.rows[t].status = "unposted" /\ d.rows[t] \in Row
    BY <1>2, <2>1, <2>2 DEF LabelRow, UInv, IInv, TypeOK, Store
  <2>4. row.status = "unposted" /\ row.category # NULL
    BY <2>1, <2>2, <2>3, ItemAssumption DEF Row
  <2>5. d \in Store /\ w \in Store /\ e \in Store /\ n \in Store
    BY <2>2 DEF UInv, IInv, TypeOK
  <2>6. /\ n.marked = w.marked
        /\ \A u \in Txn : /\ e.rows[u] = IF u = t THEN row ELSE d.rows[u]
                          /\ n.rows[u] = IF u = t THEN row ELSE w.rows[u]
        /\ n.marked \subseteq Txn
    BY <2>3, <2>5 DEF Store
  <2>7. /\ pc' = pc /\ todo' = todo /\ orphan' = orphan /\ snap' = snap /\ todo \subseteq Txn
    BY <1>2 DEF LabelRow, UInv, IInv, TypeOK
  <2>8. PostedNamed(e) /\ PostedNamed(n)
    BY <2>2, <2>4, <2>6 DEF PostedNamed, UInv
  <2>9. TouchedBefore(e, n, orphan)
    BY <2>2, <2>4, <2>6 DEF TouchedBefore, UInv
  <2>10. RowsStand'
    <3>1. pc \in {"idle", "rows"} => \A u \in Txn : n.rows[u] = e.rows[u] \/ n.rows[u].status = "resolved"
      BY <2>2, <2>6 DEF RowsStand, UInv
    <3>2. pc = "post" => /\ \A u \in Txn : snap[u].category # NULL => n.rows[u].category # NULL
                         /\ \A u \in todo : n.rows[u].status = "unposted"
      BY <2>2, <2>4, <2>6, <2>7 DEF RowsStand, UInv
    <3> QED  BY <2>2, <2>7, <3>1, <3>2 DEF RowsStand
  <2> QED  BY <2>2, <2>7, <2>8, <2>9, <2>10 DEF UInv
<1> QED  BY <1>1, <1>2 DEF Human

LEMMA UBegin == ASSUME UInv, IInv', NEW f \in Period, Begin(f) PROVE UInv'
<1>1. /\ work'.marked = work.marked /\ work'.rows = work.rows /\ db' = db /\ orphan' = orphan
      /\ pc = "idle" /\ pc' = "rows"
  BY DEF Begin, UInv, IInv, TypeOK, Store
<1> QED  BY <1>1 DEF UInv, PostedNamed, TouchedBefore, RowsStand

LEMMA URow ==
  ASSUME UInv, IInv', NEW t \in Txn,
         SkipPosted(t) \/ ConfirmPayout(t) \/ StageLater(t) \/ BookWithdrawal(t) \/ WarnWithdrawal(t)
  PROVE  UInv'
<1>1. /\ db' = db /\ pc = "rows" /\ pc' = "rows"
  BY DEF SkipPosted, ConfirmPayout, StageLater, BookWithdrawal, WarnWithdrawal, Visiting
<1>2. work \in Store /\ work' \in Store /\ db \in Store
  BY DEF UInv, IInv, TypeOK
<1>3. /\ work'.rows = work.rows
      /\ \/ work'.marked = work.marked /\ orphan' = orphan
         \/ /\ work'.marked = work.marked \cup {t} /\ orphan = NULL
            /\ orphan' = IF Orphan(t) /\ t \in Payment THEN t ELSE NULL
  <2>1. CASE SkipPosted(t) \/ StageLater(t)
    BY <2>1 DEF SkipPosted, StageLater
  <2>2. CASE WarnWithdrawal(t)
    BY <1>2, <2>2 DEF WarnWithdrawal, Store
  <2>3. CASE ConfirmPayout(t)
    BY <1>2, <2>3 DEF ConfirmPayout, PostDirectly, Store, Visiting
  <2>4. CASE BookWithdrawal(t)
    <3>1. t \notin Payment /\ orphan = NULL /\ orphan' = NULL
      BY <2>4, ItemAssumption DEF BookWithdrawal, Visiting
    <3> QED  BY <1>2, <2>4, <3>1 DEF BookWithdrawal, PostDirectly, Store
  <2> QED  BY <2>1, <2>2, <2>3, <2>4
<1>4. PostedNamed(work)' /\ RowsStand'
  BY <1>1, <1>3 DEF UInv, PostedNamed, RowsStand
<1>5. t \notin work.marked /\ work'.marked = work.marked \cup {t} =>
        t \in Payment \/ work.rows[t].status = "absent"
  <2>1. t \in Withdrawal => work.rows[t].status = "absent"
    BY DEF UInv, IInv, Sound, NeverStaged
  <2>2. work'.marked \subseteq Payment \cup Withdrawal
    BY DEF IInv, Sound
  <2> QED  BY <2>1, <2>2
<1>6. TouchedBefore(db, work', orphan')
  <2>1. SUFFICES ASSUME NEW u \in work'.marked \ {orphan'}, work.rows[u].status \in {"unposted", "posted"}
                 PROVE  db.rows[u].category # NULL
    BY <1>3 DEF TouchedBefore
  <2>2. u \in Txn
    BY <1>2 DEF Store
  <2>3. CASE u \in work.marked \ {orphan}
    BY <2>1, <2>3 DEF UInv, TouchedBefore
  <2>4. CASE u \notin work.marked \ {orphan}
    <3>1. NULL \notin Txn
      BY ItemAssumption DEF Item
    <3>2. u = t /\ t \notin work.marked /\ work'.marked = work.marked \cup {t}
          /\ ~(Orphan(t) /\ t \in Payment)
      BY <1>3, <2>1, <2>2, <2>4, <3>1
    <3>3. t \in Payment
      BY <1>5, <2>1, <3>2
    <3>4. work.rows[t] = db.rows[t]
      BY <1>1, <2>1, <2>2, <3>2 DEF UInv, RowsStand
    <3>5. work.rows[t].category # NULL
      BY <2>1, <3>2, <3>3 DEF Orphan, UInv, PostedNamed
    <3> QED  BY <3>2, <3>4, <3>5
  <2> QED  BY <2>3, <2>4
<1> QED  BY <1>1, <1>4, <1>6 DEF UInv, TouchedBefore

\* The rows of the run in later phases: what has no category in the committed store
\* becomes neither unposted nor posted if it is booked directly.
LEMMA UMoves ==
  ASSUME UInv, IInv', db' = db, orphan' = orphan, work'.marked = work.marked,
         pc' \notin {"idle", "rows"}, PostedNamed(work)', RowsStand',
         \A t \in work.marked : work'.rows[t].status \in {"unposted", "posted"} =>
            work.rows[t].status \in {"unposted", "posted"}
  PROVE  UInv'
BY DEF UInv, TouchedBefore

LEMMA UStage ==
  ASSUME UInv, IInv', ResolveOrphan \/ StageRawLines \/ StartAutoMatch \/ StartPosting
  PROVE  UInv'
<1>1. work \in Store /\ work' \in Store /\ db' = db
  BY DEF UInv, IInv, TypeOK, ResolveOrphan, StageRawLines, StartAutoMatch, StartPosting
<1>2. CASE ResolveOrphan
  <2>1. /\ work' = [work EXCEPT !.rows[orphan] = Resolved(@)] /\ orphan' = NULL
        /\ pc' = pc /\ orphan \in Txn /\ work.rows[orphan] \in Row /\ pc = "rows"
    BY <1>1, <1>2 DEF ResolveOrphan, UInv, IInv, TypeOK, Store
  <2>2. Resolved(work.rows[orphan]).status = "resolved"
    BY <2>1 DEF Resolved, Row
  <2>3. /\ work'.marked = work.marked /\ work'.rows[orphan].status = "resolved"
        /\ \A u \in Txn : u # orphan => work'.rows[u] = work.rows[u]
        /\ work.marked \subseteq Txn
    BY <1>1, <2>1, <2>2 DEF Store
  <2>4. PostedNamed(work')
    BY <2>3 DEF PostedNamed, UInv
  <2>5. TouchedBefore(db, work', NULL)
    BY <2>3 DEF TouchedBefore, UInv
  <2>6. RowsStand'
    BY <1>1, <2>1, <2>3 DEF RowsStand, UInv
  <2> QED  BY <1>1, <2>1, <2>4, <2>5, <2>6 DEF UInv, TouchedBefore, PostedNamed
<1>3. CASE StageRawLines
  <2>1. PICK staged : staged = [u \in Txn |-> IF u \in {v \in generic : work.rows[v].status = "absent"}
                                              THEN [NoRow EXCEPT !.status = "unposted"] ELSE work.rows[u]]
    OBVIOUS
  <2>2. work' = [work EXCEPT !.rows = staged] /\ pc' = "staged" /\ orphan' = orphan
    BY <1>3, <2>1 DEF StageRawLines
  <2>3. work'.marked = work.marked /\ work'.rows = staged /\ work.marked \subseteq Txn
    BY <1>1, <2>2 DEF Store
  <2>4. \A u \in Txn : (staged[u].status = "unposted" /\ u \in generic) \/ staged[u] = work.rows[u]
    BY <2>1 DEF NoRow
  <2>5. generic \cap work.marked = {}
    BY DEF UInv, IInv, RunStands
  <2>6. PostedNamed(work)' /\ RowsStand'
    BY <2>2, <2>3, <2>4 DEF PostedNamed, RowsStand, UInv
  <2> QED  BY <1>1, <2>2, <2>3, <2>4, <2>5, <2>6, UMoves
<1>4. CASE StartAutoMatch
  <2>1. work' = work /\ pc' = "match" /\ orphan' = orphan
    BY <1>4 DEF StartAutoMatch
  <2>2. PostedNamed(work)' /\ RowsStand'
    BY <2>1 DEF PostedNamed, RowsStand, UInv
  <2> QED  BY <1>1, <2>1, <2>2, UMoves
<1>5. CASE StartPosting
  <2>1. /\ work' = work /\ pc' = "post" /\ orphan' = orphan /\ snap' = work.rows
        /\ todo' = {t \in Txn : work.rows[t].status = "unposted"}
    BY <1>5 DEF StartPosting
  <2>2. PostedNamed(work)' /\ RowsStand'
    BY <2>1 DEF PostedNamed, RowsStand, UInv
  <2> QED  BY <1>1, <2>1, <2>2, UMoves
<1> QED  BY <1>2, <1>3, <1>4, <1>5

LEMMA UQueue ==
  ASSUME UInv, IInv', NEW t \in Txn, AutoMatchRow(t) \/ PostRow(t)
  PROVE  UInv'
<1>1. /\ work \in Store /\ work' \in Store /\ work.rows[t] \in Row /\ work.marked \subseteq Txn
      /\ db' = db /\ pc' = pc /\ orphan' = orphan /\ snap' = snap /\ todo' = todo \ {t}
      /\ todo \subseteq Txn
  BY DEF UInv, IInv, TypeOK, Store, AutoMatchRow, PostRow, Done
<1>2. CASE AutoMatchRow(t)
  <2>1. /\ pc = "match" /\ work'.marked = work.marked
        /\ \A u \in Txn : /\ work'.rows[u].status = work.rows[u].status
                          /\ work'.rows[u] = work.rows[u] \/ work'.rows[u].category # NULL
    <3>1. ASSUME NEW p \in Payout,
                 work' = [work EXCEPT !.taken[p] = t, !.rows[t].category = "revenue_settlement",
                                      !.rows[t].account = TRUE]
          PROVE  /\ work'.marked = work.marked
                 /\ \A u \in Txn : /\ work'.rows[u].status = work.rows[u].status
                                   /\ work'.rows[u] = work.rows[u] \/ work'.rows[u].category # NULL
      <4>1. "revenue_settlement" # NULL
        BY ItemAssumption DEF Category
      <4> QED  BY <1>1, <3>1, <4>1 DEF Store, Row
    <3>2. ASSUME NEW r \in OtherRule, work' = [work EXCEPT !.rows[t].category = r[2]]
          PROVE  /\ work'.marked = work.marked
                 /\ \A u \in Txn : /\ work'.rows[u].status = work.rows[u].status
                                   /\ work'.rows[u] = work.rows[u] \/ work'.rows[u].category # NULL
      <4>1. r[2] # NULL
        BY ItemAssumption
      <4> QED  BY <1>1, <3>2, <4>1 DEF Store, Row
    <3>3. pc = "match"
      BY <1>2 DEF AutoMatchRow
    <3> QED  BY <1>2, <3>1, <3>2, <3>3 DEF AutoMatchRow, RuleA
  <2>2. PostedNamed(work)' /\ RowsStand'
    BY <1>1, <2>1 DEF PostedNamed, RowsStand, UInv
  <2> QED  BY <1>1, <2>1, <2>2, UMoves
<1>3. CASE PostRow(t)
  <2>1. /\ pc = "post" /\ t \in todo /\ work.rows[t].status = "unposted"
    BY <1>3 DEF PostRow, UInv, RowsStand
  <2>2. CASE work' = work
    <3>1. PostedNamed(work)' /\ RowsStand'
      BY <1>1, <2>1, <2>2 DEF PostedNamed, RowsStand, UInv
    <3> QED  BY <1>1, <2>1, <2>2, <3>1, UMoves
  <2>3. CASE work' = [work EXCEPT !.rows[t].status = "posted"] /\ snap[t].category # NULL
    <3>1. /\ work'.marked = work.marked
          /\ work'.rows[t].status = "posted" /\ work'.rows[t].category = work.rows[t].category
          /\ \A u \in Txn : u # t => work'.rows[u] = work.rows[u]
      BY <1>1, <2>3 DEF Store, Row
    <3>2. work.rows[t].category # NULL
      BY <2>1, <2>3 DEF UInv, RowsStand
    <3>3. PostedNamed(work)'
      BY <3>1, <3>2 DEF PostedNamed, UInv
    <3>4. RowsStand'
      BY <1>1, <2>1, <3>1 DEF RowsStand, UInv
    <3> QED  BY <1>1, <2>1, <3>1, <3>3, <3>4, UMoves
  <2> QED  BY <1>3, <2>2, <2>3 DEF PostRow
<1> QED  BY <1>2, <1>3

LEMMA UEnd == ASSUME UInv, IInv', Commit \/ Rollback PROVE UInv'
<1>1. PICK s : s = db'
  OBVIOUS
<1>2. db' = s /\ work' = s /\ pc' = "idle" /\ orphan' = NULL /\ s \in Store
  BY <1>1 DEF Commit, Rollback, Idle, IInv, TypeOK
<1>3. PostedNamed(s)
  BY <1>1 DEF Commit, Rollback, UInv
<1>4. Clean(s, NULL)
  BY <1>1 DEF IInv
<1>5. TouchedBefore(s, s, NULL)
  BY <1>2, <1>3, <1>4 DEF TouchedBefore, PostedNamed, Clean, Store
<1>6. RowsStand'
  BY <1>2 DEF RowsStand
<1> QED  BY <1>2, <1>3, <1>5, <1>6 DEF UInv

LEMMA UStep == UInv /\ [Next]_vars => UInv'
<1> SUFFICES ASSUME UInv, [Next]_vars PROVE UInv'
  OBVIOUS
<1>0. IInv'
  BY InvStep DEF UInv
<1>1. CASE UNCHANGED vars
  BY <1>0, <1>1 DEF vars, UInv, RowsStand
<1>2. CASE Next
  <2>1. ASSUME NEW t \in Txn, Visit(t) PROVE UInv'
    BY <1>0, <2>1, URow, UQueue DEF Visit
  <2>2. ASSUME Advance PROVE UInv'
    BY <1>0, <2>1, <2>2, UStage, UEnd DEF Advance
  <2> QED  BY <1>0, <1>2, <2>2, UHuman, UBegin, UEnd DEF Next, Orderly
<1> QED  BY <1>1, <1>2

LEMMA LabelTwice ==
  ASSUME UInv, IInv', NEW t \in Txn, NEW u \in Txn, NEW c, NEW acct, LabelRow(u, c, acct)
  PROVE  TwiceBooked(db', t) => TwiceBooked(db, t)
<1>1. PICK row : row = [db.rows[u] EXCEPT !.category = c, !.account = @ \/ acct]
  OBVIOUS
<1>2. /\ db' = [db EXCEPT !.rows[u] = row] /\ db \in Store
      /\ db.rows[u].status = "unposted" /\ db.rows[u] \in Row
  BY <1>1 DEF LabelRow, UInv, IInv, TypeOK, Store
<1>3. row.status = "unposted"
  BY <1>1, <1>2 DEF Row
<1>4. /\ db'.direct = db.direct
      /\ \A v \in Txn : db'.rows[v] = IF v = u THEN row ELSE db.rows[v]
  BY <1>2 DEF Store
<1> QED  BY <1>3, <1>4 DEF TwiceBooked

\* A transaction comes to be booked both directly and from its row only if the row
\* had a category before: an untouched row is resolved when its payment is confirmed.
THEOREM UntouchedNeverTwiceAlways == Spec => UntouchedNeverTwice
<1>1. ASSUME UInv, IInv', [Next]_vars, NEW t \in Txn, TwiceBooked(db', t), ~TwiceBooked(db, t)
      PROVE  db.rows[t].category # NULL
  <2>1. CASE Commit
    <3>1. db' = work /\ work \in Store /\ orphan = NULL /\ Sound(work)
      BY <1>1, <2>1 DEF Commit, UInv, IInv, TypeOK
    <3>2. t \in work.marked /\ work.rows[t].status = "posted" /\ t # NULL
      BY <1>1, <3>1, DirectIsMarked, ItemAssumption DEF TwiceBooked, Item
    <3> QED  BY <1>1, <3>1, <3>2 DEF UInv, TouchedBefore
  <2>2. CASE \E u \in Txn, c \in HumanLabel, acct \in BOOLEAN : LabelRow(u, c, acct)
    BY <1>1, <2>2, LabelTwice
  <2>3. CASE db' = db
    BY <1>1, <2>3
  <2>4. ASSUME NEW x \in Item, Upload(x) PROVE db' = db
    BY <2>4 DEF Upload
  <2>5. ASSUME NEW f \in Period, Begin(f) PROVE db' = db
    BY <2>5 DEF Begin
  <2>6. ASSUME NEW u \in Txn, Visit(u) PROVE db' = db
    BY <2>6 DEF Visit, SkipPosted, ConfirmPayout, StageLater, BookWithdrawal, WarnWithdrawal,
                AutoMatchRow, PostRow
  <2>7. CASE ResolveOrphan \/ StageRawLines \/ StartAutoMatch \/ StartPosting \/ Rollback
    BY <2>3, <2>7 DEF ResolveOrphan, StageRawLines, StartAutoMatch, StartPosting, Rollback
  <2>8. CASE UNCHANGED vars
    BY <2>3, <2>8 DEF vars
  <2> QED  BY <1>1, <2>1, <2>2, <2>3, <2>4, <2>5, <2>6, <2>7, <2>8 DEF Next, Orderly, Human, Advance
<1>2. ASSUME UInv, IInv', [Next]_vars
      PROVE  [\A t \in Txn :
                (TwiceBooked(db', t) /\ ~TwiceBooked(db, t)) => db.rows[t].category # NULL]_vars
  BY <1>1, <1>2
<1>3. UInv => IInv
  BY DEF UInv
<1> QED  BY <1>2, <1>3, UInit, UStep, PTL DEF Spec, UntouchedNeverTwice

-----------------------------------------------------------------------------
(* The refinement of BookOnce.                                               *)

\* What is marked was uploaded, and what is marked in the committed store is in the
\* draft of it, which a run only adds to.
BInv ==
    /\ IInv
    /\ pc = "rows" => todo \subseteq drive
    /\ db.marked \subseteq work.marked /\ work.marked \subseteq drive

LEMMA BInit == Init => BInv
BY InvInit DEF Init, BInv, EmptyStore

\* A step of the run that marks nothing.
LEMMA BQuiet ==
  ASSUME BInv, IInv', db' = db, drive' = drive, work'.marked = work.marked,
         pc' = "rows" => todo' \subseteq drive
  PROVE  BInv'
BY DEF BInv

LEMMA BVisit ==
  ASSUME BInv, IInv', NEW t \in Txn, Visit(t)
  PROVE  BInv'
<1>1. work \in Store /\ db' = db /\ drive' = drive /\ pc' = pc /\ todo' = todo \ {t} /\ t \in todo
  BY DEF BInv, IInv, TypeOK, Visit, SkipPosted, ConfirmPayout, StageLater, BookWithdrawal,
         WarnWithdrawal, AutoMatchRow, PostRow, Done, Visiting
<1>2. CASE SkipPosted(t) \/ StageLater(t)
  BY <1>1, <1>2, BQuiet DEF SkipPosted, StageLater, BInv
<1>3. CASE ConfirmPayout(t) \/ BookWithdrawal(t)
  <2>1. pc = "rows"
    BY <1>3 DEF ConfirmPayout, BookWithdrawal, Visiting
  <2>2. ASSUME NEW x, work' = PostDirectly(work, t, x) \/ work' = [PostDirectly(work, t, x) EXCEPT !.taken[x] = t]
        PROVE  work'.marked = work.marked \cup {t}
    BY <1>1, <2>2 DEF PostDirectly, Store
  <2>3. work'.marked = work.marked \cup {t}
    BY <1>3, <2>2 DEF ConfirmPayout, BookWithdrawal
  <2> QED  BY <1>1, <2>1, <2>3 DEF BInv
<1>4. CASE WarnWithdrawal(t)
  <2>1. work' = [work EXCEPT !.warned[period] = @ \cup {t}]
    BY <1>4 DEF WarnWithdrawal
  <2>2. work'.marked = work.marked
    BY <1>1, <2>1 DEF Store
  <2> QED  BY <1>1, <2>2, BQuiet DEF BInv
<1>5. CASE AutoMatchRow(t) \/ PostRow(t)
  <2>1. ASSUME NEW p \in Payout, work' = [work EXCEPT !.taken[p] = t, !.rows[t].category = "revenue_settlement",
                                                      !.rows[t].account = TRUE]
        PROVE  work'.marked = work.marked
    BY <1>1, <2>1 DEF Store
  <2>2. ASSUME NEW c, work' = [work EXCEPT !.rows[t].category = c]
        PROVE  work'.marked = work.marked
    BY <1>1, <2>2 DEF Store
  <2>3. ASSUME work' = [work EXCEPT !.rows[t].status = "posted"]
        PROVE  work'.marked = work.marked
    BY <1>1, <2>3 DEF Store
  <2>4. work'.marked = work.marked
    BY <1>5, <2>1, <2>2, <2>3 DEF AutoMatchRow, PostRow, RuleA
  <2>5. pc # "rows"
    BY <1>5 DEF AutoMatchRow, PostRow
  <2> QED  BY <1>1, <2>4, <2>5, BQuiet
<1> QED  BY <1>2, <1>3, <1>4, <1>5 DEF Visit

LEMMA BHuman ==
  ASSUME BInv, IInv', Human
  PROVE  BInv' /\ db'.marked = db.marked
<1>1. ASSUME NEW x \in Item, Upload(x) PROVE BInv' /\ db'.marked = db.marked
  BY <1>1 DEF Upload, BInv
<1>2. ASSUME NEW t \in Txn, NEW c \in HumanLabel, NEW acct \in BOOLEAN, LabelRow(t, c, acct)
      PROVE  BInv' /\ db'.marked = db.marked
  <2>1. PICK row : row = [db.rows[t] EXCEPT !.category = c, !.account = @ \/ acct]
    OBVIOUS
  <2>2. db \in Store /\ work \in Store
    BY DEF BInv, IInv, TypeOK
  <2>3. db' = [db EXCEPT !.rows[t] = row] /\ work' = [work EXCEPT !.rows[t] = row]
    BY <1>2, <2>1 DEF LabelRow
  <2>4. db'.marked = db.marked /\ work'.marked = work.marked
    BY <2>2, <2>3 DEF Store
  <2>5. pc' = pc /\ todo' = todo /\ drive' = drive
    BY <1>2 DEF LabelRow
  <2> QED  BY <2>4, <2>5 DEF BInv
<1> QED  BY <1>1, <1>2 DEF Human

LEMMA BStep == BInv /\ [Next]_vars => BInv'
<1> SUFFICES ASSUME BInv, [Next]_vars PROVE BInv'
  OBVIOUS
<1>0. IInv' /\ work \in Store
  BY InvStep DEF BInv, IInv, TypeOK
<1>1. CASE UNCHANGED vars
  BY <1>0, <1>1 DEF vars, BInv
<1>2. CASE Human
  BY <1>0, <1>2, BHuman
<1>3. ASSUME NEW f \in Period, Begin(f) PROVE BInv'
  <2>1. work'.marked = work.marked
    BY <1>0, <1>3 DEF Begin, Store
  <2>2. todo' \subseteq drive /\ db' = db /\ drive' = drive
    BY <1>3 DEF Begin, InFolder
  <2> QED  BY <1>0, <2>1, <2>2, BQuiet
<1>4. ASSUME NEW t \in Txn, Visit(t) PROVE BInv'
  BY <1>0, <1>4, BVisit
<1>5. CASE ResolveOrphan
  <2>1. work' = [work EXCEPT !.rows[orphan] = Resolved(@)]
    BY <1>5 DEF ResolveOrphan
  <2>2. work'.marked = work.marked
    BY <1>0, <2>1 DEF Store
  <2> QED  BY <1>0, <1>5, <2>2, BQuiet DEF ResolveOrphan, BInv
<1>6. CASE StageRawLines
  <2>1. PICK staged : work' = [work EXCEPT !.rows = staged]
    BY <1>6 DEF StageRawLines
  <2>2. work'.marked = work.marked
    BY <1>0, <2>1 DEF Store
  <2> QED  BY <1>0, <1>6, <2>2, BQuiet DEF StageRawLines
<1>7. CASE StartAutoMatch \/ StartPosting
  BY <1>0, <1>7, BQuiet DEF StartAutoMatch, StartPosting
<1>8. CASE Commit \/ Rollback
  BY <1>0, <1>8 DEF Commit, Rollback, Idle, BInv
<1> QED  BY <1>1, <1>2, <1>3, <1>4, <1>5, <1>6, <1>7, <1>8 DEF Next, Orderly, Advance

LEMMA BInvAlways == Spec => []BInv
BY BInit, BStep, PTL DEF Spec

\* The marks of the committed store only grow.
LEMMA MarksGrow ==
  ASSUME BInv, BInv', [Next]_vars
  PROVE  db.marked \subseteq db'.marked /\ drive \subseteq drive'
<1>1. CASE Human
  BY <1>1, BHuman DEF Human, Upload, LabelRow, BInv
<1>2. CASE Commit
  BY <1>2 DEF Commit, BInv
<1>3. CASE UNCHANGED <<db, drive>>
  BY <1>3
<1> QED
  BY <1>1, <1>2, <1>3 DEF vars, Next, Orderly, Advance, Visit, Begin, SkipPosted, ConfirmPayout,
     StageLater, BookWithdrawal, WarnWithdrawal, AutoMatchRow, PostRow, ResolveOrphan, StageRawLines,
     StartAutoMatch, StartPosting, Rollback

\* The direct entries of Payoneer ingestion implement BookOnce: a transaction is
\* booked directly at most once and for good, after a document with it was uploaded.
THEOREM ImplementsBookOnceAlways == Spec => ImplementsBookOnce
<1>1. Init => Book!BookInit
  BY DEF Init, EmptyStore, Book!BookInit
<1>2. ASSUME BInv, BInv', db.marked \subseteq db'.marked, drive \subseteq drive'
      PROVE  Book!Settle
  <2> DEFINE seen == drive \cap Txn
             book == [t \in Txn |-> IF t \in db.marked THEN t ELSE NULL]
             made == {t \in Txn : db.direct[t] # <<>>}
  <2>1. /\ db \in Store /\ Sound(db) /\ db.marked \subseteq Txn
        /\ db' \in Store /\ Sound(db)' /\ db'.marked \subseteq Txn
    BY <1>2 DEF BInv, IInv, TypeOK, Store
  <2>2. NULL \notin Txn
    BY ItemAssumption DEF Item
  <2>3. made = db.marked
    BY <2>1, DirectIsMarked
  <2>4. made' = db'.marked
    <3>1. PICK s : s = db'
      OBVIOUS
    <3>2. s \in Store /\ Sound(s)
      BY <2>1, <3>1 DEF Sound, NeverStaged, MarksAgree, SourcesTaken, ResolvedIsMarked
    <3>3. {t \in Txn : s.direct[t] # <<>>} = s.marked
      BY <2>1, <3>1, <3>2, DirectIsMarked
    <3> QED  BY <3>1, <3>3
  <2>5. /\ \A t \in Txn : book[t] = IF t \in db.marked THEN t ELSE NULL
        /\ \A t \in Txn : book'[t] = IF t \in db'.marked THEN t ELSE NULL
        /\ book' \in [Txn -> Txn \cup {} \cup {NULL}]
    OBVIOUS
  <2>6. seen \subseteq seen' /\ db'.marked \subseteq seen'
    BY <1>2, <2>1 DEF BInv
  <2> HIDE DEF seen, book, made
  <2>7. \A t \in Txn : (book[t] = NULL /\ book'[t] # NULL) <=> t \in db'.marked \ db.marked
    BY <1>2, <2>2, <2>5
  <2>8. \A t \in Txn : (book[t] = NULL /\ book'[t] # NULL) \/ book'[t] = book[t]
    BY <1>2, <2>2, <2>5
  <2>9. \A t \in Txn : (book[t] = NULL /\ book'[t] # NULL) => t \in seen' /\ book'[t] \in made' \cup {}
    BY <2>4, <2>5, <2>6, <2>7
  <2>10. made' = made \cup {t \in Txn : (book[t] = NULL /\ book'[t] # NULL) /\ book'[t] = t}
    <3>1. \A t \in Txn : t \in db'.marked => book'[t] = t
      BY <2>5
    <3> QED  BY <1>2, <2>1, <2>3, <2>4, <2>7, <3>1
  <2> QED  BY <2>5, <2>6, <2>8, <2>9, <2>10 DEF Book!Settle, Book!Books, seen, book, made
<1>3. BInv /\ [Next]_vars => [Book!Settle]_(Book!bookVars)
  BY <1>2, BStep, MarksGrow
<1> QED  BY <1>1, <1>3, BInvAlways, PTL DEF Spec, ImplementsBookOnce, Book!BookSpec

=============================================================================
