-------------------------- MODULE EbayIngestProofs ---------------------------
(***************************************************************************)
(* Proofs about eBay CSV ingestion, for all reports, months and numbers of   *)
(* syncs: nothing is booked twice, what was read is accounted for, what was  *)
(* read before brings nothing new, a sale is all consigned, an order has one *)
(* outcome, and the entries implement BookOnce.                              *)
(***************************************************************************)
EXTENDS EbayIngestProperties, SumLemmas

-----------------------------------------------------------------------------
(* What the tables' operations change.                                       *)

Field == {"booked", "marked", "queue", "loose", "sales", "payouts", "raw", "warned", "export"}

\* The marks are those of the entries, and no key has two.
Marked(store) ==
    /\ store.marked = DOMAIN store.booked
    /\ \A key \in DOMAIN store.booked : store.booked[key] = 1

\* Per document an export that was uploaded.
Uploaded(store) ==
    /\ store.export \in [Document -> Nat]
    /\ \A d \in Document : store.export[d] <= folder[d]

Sound(store) ==
    /\ DOMAIN store = Field
    /\ store.loose \in Nat
    /\ Marked(store)
    /\ Uploaded(store)

\* The store differs in other tables than those Sound speaks of.
SameBooks(old, new) ==
    /\ DOMAIN new = Field
    /\ new.loose \in Nat
    /\ new.booked = old.booked /\ new.marked = old.marked /\ new.export = old.export

LEMMA SameIsSound ==
  ASSUME NEW old, NEW new, Sound(old), SameBooks(old, new)
  PROVE  Sound(new)
BY DEF Sound, SameBooks, Marked, Uploaded

LEMMA OneMoreIsNat ==
  ASSUME NEW n \in Nat
  PROVE  OneMore(n) \in Nat
BY DEF OneMore

LEMMA QueueSame ==
  ASSUME NEW store, Sound(store), NEW ref, NEW order
  PROVE  SameBooks(store, Queue(store, ref, order))
<1>1. DOMAIN store = Field /\ store.loose \in Nat /\ OneMore(store.loose) \in Nat
  BY OneMoreIsNat DEF Sound
<1>2. CASE ref = NULL
  <2>1. Queue(store, ref, order) = [store EXCEPT !.loose = OneMore(@)]
    BY <1>2 DEF Queue
  <2> QED  BY <1>1, <2>1 DEF SameBooks, Field
<1>3. CASE ref # NULL /\ \E r \in store.queue : r.ref = ref
  <2>1. Queue(store, ref, order) = store
    BY <1>3 DEF Queue
  <2> QED  BY <1>1, <2>1 DEF SameBooks, Field
<1>4. CASE ref # NULL /\ ~(\E r \in store.queue : r.ref = ref)
  <2>1. Queue(store, ref, order)
          = [store EXCEPT !.queue = @ \cup {[ref |-> ref, order |-> order]}]
    BY <1>4 DEF Queue
  <2> QED  BY <1>1, <2>1 DEF SameBooks, Field
<1> QED  BY <1>2, <1>3, <1>4

LEMMA StageSame ==
  ASSUME NEW store, Sound(store), NEW g, NEW link
  PROVE  /\ SameBooks(store, Stage(store, g, link))
         /\ SameBooks(store, Warn(store, g))
BY DEF Sound, SameBooks, Stage, Warn, Field

LEMMA SalesSame ==
  ASSUME NEW store, Sound(store), NEW new
  PROVE  /\ SameBooks(store, [store EXCEPT !.sales = new])
         /\ SameBooks(store, [store EXCEPT !.payouts = new])
BY DEF Sound, SameBooks, Field

\* A posting is sound if its key is not marked yet.
LEMMA PostSound ==
  ASSUME NEW store, Sound(store), NEW key, key \notin store.marked
  PROVE  Sound(Post(store, key))
<1> DEFINE new == Post(store, key)
<1>1. \A k \in DOMAIN store.booked \cup {key} :
        EntriesOf(store, k) + (IF k = key THEN 1 ELSE 0) = 1
  BY DEF EntriesOf, Sound, Marked
<1>2. /\ DOMAIN new = Field /\ new.loose = store.loose /\ new.export = store.export
      /\ new.marked = store.marked \cup {key}
      /\ new.booked = [k \in DOMAIN store.booked \cup {key} |->
                         EntriesOf(store, k) + IF k = key THEN 1 ELSE 0]
  BY DEF Post, Sound, Field
<1> HIDE DEF new
<1>3. /\ DOMAIN new.booked = DOMAIN store.booked \cup {key}
      /\ \A k \in DOMAIN new.booked : new.booked[k] = 1
  BY <1>1, <1>2
<1>4. Marked(new)
  BY <1>2, <1>3 DEF Sound, Marked
<1>5. Uploaded(new)
  BY <1>2 DEF Sound, Uploaded
<1>6. new.loose \in Nat
  BY <1>2 DEF Sound
<1> QED  BY <1>2, <1>4, <1>5, <1>6 DEF Sound, new

-----------------------------------------------------------------------------
(* The invariant.                                                            *)

Reading == [doc : Document, export : Nat, left : SUBSET Nat]

IInv ==
    /\ folder \in [Document -> Nat]
    /\ \A d \in Document : folder[d] <= Len(Exports[d])
    /\ rates \subseteq Date
    /\ Sound(db) /\ Sound(work)
    /\ \/ running = NULL /\ work = db
       \/ running \in Reading /\ running.export <= folder[running.doc]

LEMMA LengthIsNat ==
  ASSUME NEW d \in Document
  PROVE  Len(Exports[d]) \in Nat /\ DOMAIN Exports[d] = 1..Len(Exports[d])
<1>1. Exports[d] \in Seq({Exports[d][n] : n \in DOMAIN Exports[d]})
  BY ExportsAssumption
<1> QED  BY <1>1

LEMMA InitIInv == Init => IInv
<1> SUFFICES ASSUME Init PROVE IInv
  OBVIOUS
<1>1. /\ folder = [d \in Document |-> 0] /\ rates = {} /\ db = EmptyStore /\ work = db
      /\ running = NULL
  BY DEF Init
<1>2. \A d \in Document : folder[d] <= Len(Exports[d])
  BY <1>1, LengthIsNat
<1>3. /\ DOMAIN EmptyStore = Field
      /\ EmptyStore.loose = 0 /\ EmptyStore.booked = <<>> /\ EmptyStore.marked = {}
      /\ EmptyStore.export = [d \in Document |-> 0]
  BY DEF EmptyStore, Field
<1>4. DOMAIN <<>> = {}
  OBVIOUS
<1>5. Sound(EmptyStore)
  BY <1>1, <1>3, <1>4 DEF Sound, Marked, Uploaded
<1> QED  BY <1>1, <1>2, <1>5 DEF IInv

\* A group is done with a store that is sound.
LEMMA DoneStep ==
  ASSUME IInv, running # NULL, NEW store, Sound(store), Done(store)
  PROVE  IInv'
<1>1. running \in Reading /\ running.export <= folder[running.doc]
  BY DEF IInv
<1>2. /\ work' = store /\ running' = [running EXCEPT !.left = @ \ Current]
      /\ folder' = folder /\ rates' = rates /\ db' = db
  BY DEF Done
<1>3. running' \in Reading /\ running'.export = running.export /\ running'.doc = running.doc
  BY <1>1, <1>2 DEF Reading
<1> QED  BY <1>1, <1>2, <1>3 DEF IInv, Sound, Uploaded, Marked

\* The groups that book nothing of the report.
LEMMA QuietStep ==
  ASSUME IInv, running # NULL, NEW store, SameBooks(work, store), NEW g, NEW link,
         \/ Done(Stage(store, g, link))
         \/ Done(Stage(Warn(store, g), g, link))
  PROVE  IInv'
<1>1. Sound(work)
  BY DEF IInv
<1>2. Sound(store)
  BY <1>1, SameIsSound
<1>3. Sound(Warn(store, g))
  BY <1>2, StageSame, SameIsSound
<1>4. Sound(Stage(store, g, link)) /\ Sound(Stage(Warn(store, g), g, link))
  BY <1>2, <1>3, StageSame, SameIsSound
<1> QED  BY <1>4, DoneStep

LEMMA FlaggedSame ==
  ASSUME Sound(work)
  PROVE  SameBooks(work, work) /\ SameBooks(work, Flagged)
<1>1. SameBooks(work, work)
  BY DEF Sound, SameBooks
<1> QED  BY <1>1, QueueSame DEF Flagged

LEMMA NextIInv == IInv /\ [Next]_vars => IInv'
<1> SUFFICES ASSUME IInv, [Next]_vars PROVE IInv'
  OBVIOUS
<1>1. Sound(db) /\ Sound(work) /\ SameBooks(work, work) /\ SameBooks(work, Flagged)
  BY FlaggedSame DEF IInv
<1>2. CASE UNCHANGED vars
  BY <1>2 DEF vars, IInv, Sound, Uploaded, Marked
<1>3. ASSUME NEW d \in Document, Upload(d) PROVE IInv'
  <2>1. /\ folder[d] < Len(Exports[d]) /\ folder' = [folder EXCEPT ![d] = folder[d] + 1]
        /\ folder \in [Document -> Nat] /\ Len(Exports[d]) \in Nat
    BY <1>3, LengthIsNat DEF Upload, IInv
  <2>2. /\ folder' \in [Document -> Nat]
        /\ \A e \in Document : folder[e] <= folder'[e] /\ folder'[e] <= Len(Exports[e])
    BY <2>1 DEF IInv
  <2>3. /\ rates' = rates /\ db' = db /\ work' = work /\ running' = running
    BY <1>3 DEF Upload
  <2>4. ASSUME NEW store, Uploaded(store)
        PROVE  /\ store.export \in [Document -> Nat]
               /\ \A e \in Document : store.export[e] <= folder'[e]
    <3>1. \A e \in Document : store.export[e] \in Nat /\ folder[e] \in Nat /\ folder'[e] \in Nat
      BY <2>1, <2>2, <2>4 DEF Uploaded
    <3> QED  BY <2>2, <2>4, <3>1 DEF Uploaded
  <2>5. Uploaded(db)' /\ Uploaded(work)'
    BY <1>1, <2>3, <2>4 DEF Sound, Uploaded
  <2>6. ASSUME running \in Reading, running.export <= folder[running.doc]
        PROVE  running.export <= folder'[running.doc]
    <3>1. running.doc \in Document /\ running.export \in Nat
      BY <2>6 DEF Reading
    <3>2. folder[running.doc] \in Nat /\ folder'[running.doc] \in Nat
      BY <2>1, <2>2, <3>1
    <3> QED  BY <2>2, <2>6, <3>1, <3>2
  <2>7. \/ running' = NULL /\ work' = db'
        \/ running' \in Reading /\ running'.export <= folder'[running'.doc]
    BY <2>3, <2>6 DEF IInv
  <2>8. Sound(db)' /\ Sound(work)'
    BY <1>1, <2>3, <2>5 DEF Sound, Marked
  <2>9. rates' \subseteq Date
    BY <2>3 DEF IInv
  <2> QED  BY <2>2, <2>7, <2>8, <2>9 DEF IInv
<1>4. ASSUME NEW t \in Date, PublishRate(t) PROVE IInv'
  BY <1>4 DEF PublishRate, IInv, Sound, Uploaded, Marked
<1>5. ASSUME NEW d \in Document, Begin(d) PROVE IInv'
  <2>1. /\ folder[d] > 0 /\ folder[d] <= Len(Exports[d]) /\ folder[d] \in Nat
        /\ Len(Exports[d]) \in Nat
    BY <1>5, LengthIsNat DEF Begin, IInv
  <2>2. folder[d] \in DOMAIN Exports[d]
    BY <2>1, LengthIsNat
  <2>3. DOMAIN File(d, folder[d]) \subseteq Nat
    BY <2>2, ExportsAssumption DEF File
  <2>4. /\ running' = [doc |-> d, export |-> folder[d], left |-> DOMAIN File(d, folder[d])]
        /\ folder' = folder /\ rates' = rates /\ db' = db
    BY <1>5 DEF Begin
  <2>5. running' \in Reading /\ running'.export <= folder'[running'.doc]
    BY <2>1, <2>3, <2>4 DEF Reading
  <2>6. SameBooks(db, work')
    BY <1>1, <1>5 DEF Begin, Sound, SameBooks, Field
  <2>7. Sound(work')
    BY <1>1, <2>6, SameIsSound
  <2> QED  BY <1>1, <2>4, <2>5, <2>7 DEF IInv, Sound, Uploaded, Marked
<1>6. CASE RefuseOrder
  BY <1>1, <1>6, QuietStep DEF RefuseOrder, At
<1>7. CASE KnownRow
  BY <1>1, <1>7, QuietStep DEF KnownRow, At
<1>8. CASE QueueMismatch
  <2> DEFINE ref == RefOf(TxnOf(Rows, Current), "")
             store == Queue(work, ref, Head1.order)
  <2>1. running # NULL /\ Done(Stage(store, Current, <<"review", ref>>))
    BY <1>8 DEF QueueMismatch, OrderPassed, At
  <2>2. SameBooks(work, store)
    BY <1>1, QueueSame
  <2> HIDE DEF store
  <2> QED  BY <2>1, <2>2, QuietStep
<1>9. CASE BookOrder
  <2>1. /\ running # NULL /\ KeyOf(Head1) \notin work.marked
        /\ Done(Stage(Post(Flagged, KeyOf(Head1)), Current, <<"entry", KeyOf(Head1)>>))
    BY <1>9 DEF BookOrder, Reconciled, OrderPassed, At, AlreadyPosted
  <2>2. Sound(Flagged) /\ KeyOf(Head1) \notin Flagged.marked
    BY <1>1, <2>1, SameIsSound DEF SameBooks
  <2>3. Sound(Post(Flagged, KeyOf(Head1)))
    BY <2>2, PostSound
  <2>4. Sound(Stage(Post(Flagged, KeyOf(Head1)), Current, <<"entry", KeyOf(Head1)>>))
    BY <2>3, StageSame, SameIsSound
  <2> QED  BY <2>1, <2>4, DoneStep
<1>10. CASE RefuseConsignment
  BY <1>1, <1>10, QuietStep DEF RefuseConsignment, Reconciled, OrderPassed, At
<1>11. CASE StageConsignment
  <2> DEFINE ref == SaleRef(Rows, Current)
             store == [Flagged EXCEPT !.sales = @ \cup {ref}]
  <2>1. running # NULL /\ Done(Stage(store, Current, <<"sale", ref>>))
    BY <1>11 DEF StageConsignment, Reconciled, OrderPassed, At
  <2>2. SameBooks(work, store)
    BY <1>1 DEF SameBooks, Field
  <2> HIDE DEF store
  <2> QED  BY <2>1, <2>2, QuietStep
<1>12. CASE RefuseRow
  BY <1>1, <1>12, QuietStep DEF RefuseRow, At
<1>13. CASE BookRow
  <2>1. /\ running # NULL /\ KeyOf(Head1) \notin work.marked
        /\ Done(Stage(Post(work, KeyOf(Head1)), Current, <<"entry", KeyOf(Head1)>>))
    BY <1>13 DEF BookRow, At, AlreadyPosted
  <2>2. Sound(Post(work, KeyOf(Head1)))
    BY <1>1, <2>1, PostSound
  <2>3. Sound(Stage(Post(work, KeyOf(Head1)), Current, <<"entry", KeyOf(Head1)>>))
    BY <2>2, StageSame, SameIsSound
  <2> QED  BY <2>1, <2>3, DoneStep
<1>14. CASE RecordPayout
  <2> DEFINE store == IF Head1.ref = NULL \/ Head1.net = 0 THEN work
                      ELSE [work EXCEPT !.payouts = @ \cup {Head1.ref}]
  <2>1. running # NULL /\ Done(Stage(store, Current, NULL))
    BY <1>14 DEF RecordPayout, At
  <2>2. SameBooks(work, store)
    BY <1>1, SalesSame
  <2> HIDE DEF store
  <2> QED  BY <2>1, <2>2, QuietStep
<1>15. CASE SkipRow
  BY <1>1, <1>15, QuietStep DEF SkipRow, At
<1>16. CASE QueueUnknown
  <2> DEFINE ref == RefOf(Head1.txn, "")
             store == Queue(work, ref, NULL)
  <2>1. running # NULL /\ Done(Stage(store, Current, <<"review", ref>>))
    BY <1>16 DEF QueueUnknown, At
  <2>2. SameBooks(work, store)
    BY <1>1, QueueSame
  <2> HIDE DEF store
  <2> QED  BY <2>1, <2>2, QuietStep
<1>17. CASE WarnUnknown
  BY <1>1, <1>17, QuietStep DEF WarnUnknown, At
<1>18. CASE RateMissing \/ PostingRefused \/ Crash
  BY <1>1, <1>18 DEF RateMissing, PostingRefused, Crash, GiveUp, IInv, Sound, Uploaded, Marked
<1>19. CASE Commit
  <2>1. /\ running \in Reading /\ running.export <= folder[running.doc]
        /\ folder \in [Document -> Nat]
    BY <1>19 DEF Commit, IInv
  <2>2. /\ db' = [work EXCEPT !.export = [work.export EXCEPT ![running.doc] = running.export]]
        /\ work' = db' /\ running' = NULL /\ folder' = folder /\ rates' = rates
    BY <1>19 DEF Commit
  <2>3. /\ DOMAIN db' = Field /\ db'.loose = work.loose /\ db'.booked = work.booked
        /\ db'.marked = work.marked
        /\ db'.export = [work.export EXCEPT ![running.doc] = running.export]
    BY <1>1, <2>2 DEF Sound, Field
  <2>4. /\ db'.export \in [Document -> Nat]
        /\ \A d \in Document : db'.export[d] <= folder[d]
    BY <1>1, <2>1, <2>3 DEF Sound, Uploaded, Reading
  <2>5. Sound(db)'
    BY <1>1, <2>2, <2>3, <2>4 DEF Sound, Marked, Uploaded
  <2> QED  BY <2>2, <2>5 DEF IInv, Sound, Marked, Uploaded
<1> QED
  BY <1>2, <1>3, <1>4, <1>5, <1>6, <1>7, <1>8, <1>9, <1>10, <1>11, <1>12, <1>13, <1>14, <1>15,
     <1>16, <1>17, <1>18, <1>19
  DEF Next, Human, Step, OrderStep, RowStep

LEMMA InvariantAlways == Spec => []IInv
BY InitIInv, NextIInv, PTL DEF Spec

\* Every reachable state of eBay ingestion is well typed: the marks are those of
\* the entries made, and between two syncs there is one store.
THEOREM TypeCorrect == Spec => []TypeOK
<1>1. ASSUME IInv PROVE TypeOK
  <2>1. ASSUME running = NULL PROVE work = db
    <3>1. running \notin Reading
      BY <2>1, ExportsAssumption DEF Reading
    <3> QED  BY <1>1, <3>1 DEF IInv
  <2> QED  BY <1>1, <2>1 DEF IInv, TypeOK, Sound, Marked, Uploaded
<1> QED  BY <1>1, InvariantAlways, PTL

\* However often, from however many exports and months it is read, and however
\* often a sync dies, no sale, refund or fee is booked twice.
THEOREM BookedOnceAlways == Spec => []BookedOnce
<1>1. IInv => BookedOnce
  BY DEF IInv, Sound, Marked, BookedOnce
<1> QED  BY <1>1, InvariantAlways, PTL

-----------------------------------------------------------------------------
(* What a report that was read has left in the store.                        *)

\* The review row for a reference is there; rows without one are only counted.
Kept(store, ref) ==
    IF ref = NULL THEN store.loose > 0 ELSE \E r \in store.queue : r.ref = ref

\* A group of rows of a report is settled: processed once more, it would book,
\* flag and stage nothing new.
SettledOrder(store, file, g) ==
    \/ ~Mergeable(file, g)
    \/ ~InDollars(file, g)
    \/ KeyOf(file[Min(g)]) \in store.marked
    \/ ~Reconciles(file, g) /\ Kept(store, RefOf(TxnOf(file, g), ""))
    \/ /\ Reconciles(file, g) /\ Consigned(file, g) # {}
       /\ Charity(file, g) # 0 => Kept(store, RefOf(TxnOf(file, g), "charity"))
       /\ Items(file, g) \notin TierPrice \/ SaleRef(file, g) \in store.sales

SettledRow(store, row) ==
    /\ row.type \in {"Refund", "Other fee"} =>
          \/ ~row.usd
          \/ row.type = "Other fee" /\ row.net = 0
          \/ KeyOf(row) \in store.marked
    /\ row.type = "Payout" => row.ref = NULL \/ row.net = 0 \/ row.ref \in store.payouts
    /\ row.type = "Adjustment" => row.net = 0 \/ ~row.usd \/ Kept(store, RefOf(row.txn, ""))

Settled(store, file, g) ==
    IF file[Min(g)].type = "Order" THEN SettledOrder(store, file, g) ELSE SettledRow(store, file[Min(g)])

\* It has left something a human can find, or the document's warning names it.
ToldOrder(store, file, g) ==
    \/ KeyOf(file[Min(g)]) \in store.marked
    \/ Kept(store, RefOf(TxnOf(file, g), ""))
    \/ SaleRef(file, g) \in store.sales

ToldRow(store, row) ==
    /\ row.type \in {"Refund", "Other fee"} =>
          \/ row.type = "Other fee" /\ row.net = 0
          \/ KeyOf(row) \in store.marked
    /\ row.type = "Payout" => row.ref = NULL \/ row.net = 0 \/ row.ref \in store.payouts
    /\ row.type = "Adjustment" => row.net = 0 \/ Kept(store, RefOf(row.txn, ""))

Told(store, d, file, g) ==
    \/ g \subseteq store.warned[d]
    \/ IF file[Min(g)].type = "Order" THEN ToldOrder(store, file, g) ELSE ToldRow(store, file[Min(g)])

\* A sale's order is one of the reports in R, and all its lines are consigned.
FromConsigned(ref, v) ==
    LET file == File(v[1], v[2])
        group == {i \in DOMAIN file : file[i].type = "Order" /\ file[i].order = ref[2]}
    IN  group # {} /\ \A i \in LinesIn(file, group) : file[i].label # NULL

SalesFrom(store, R) == \A ref \in store.sales : \E v \in R : FromConsigned(ref, v)

\* The rows I of the report v are done, and staged at their positions.
Processed(store, v, I) ==
    LET file == File(v[1], v[2]) IN
    \A i \in I : Settled(store, file, GroupIn(file, i)) /\ i \in DOMAIN store.raw[v[1]]

\* The tables that are functions of documents and positions.
Shaped(store) ==
    /\ DOMAIN store = Field /\ store.loose \in Nat
    /\ store.raw = [d \in Document |-> store.raw[d]]
    /\ \A d \in Document : store.raw[d] = [i \in DOMAIN store.raw[d] |-> store.raw[d][i]]
    /\ store.warned = [d \in Document |-> store.warned[d]]

\* Nothing is ever taken out of the store but warnings of the document read.
Grown(old, new) ==
    /\ old.marked \subseteq new.marked /\ old.queue \subseteq new.queue
    /\ old.sales \subseteq new.sales /\ old.payouts \subseteq new.payouts
    /\ old.loose <= new.loose
    /\ \A d \in Document : DOMAIN old.raw[d] \subseteq DOMAIN new.raw[d]

Same(old, new) ==
    /\ new.marked = old.marked /\ new.booked = old.booked /\ new.queue = old.queue
    /\ new.sales = old.sales /\ new.payouts = old.payouts /\ new.raw = old.raw

IsReport(v) == v = <<v[1], v[2]>> /\ v[1] \in Document /\ v[2] \in DOMAIN Exports[v[1]]

Explains(store, d, n, I) ==
    \A i \in I : Told(store, d, File(d, n), GroupIn(File(d, n), i))

\* The sync that reads export n of document d, the rows left of it to do, has made
\* the store new of the store old; the reports in R were read before.
RunStands(d, n, left, old, new, R) ==
    /\ IsReport(<<d, n>>) /\ left \subseteq DOMAIN File(d, n)
    /\ Grown(old, new) /\ new.export = old.export
    /\ \A e \in Document \ {d} : new.warned[e] = old.warned[e]
    /\ Processed(new, <<d, n>>, DOMAIN File(d, n) \ left)
    /\ Explains(new, d, n, DOMAIN File(d, n) \ left)
    /\ SalesFrom(new, R \cup {<<d, n>>})
    /\ <<d, n>> \in R => /\ Same(old, new)
                         /\ Referenced(File(d, n)) => new.loose = old.loose

\* The invariant of the last three theorems.  In the committed store every report
\* read is settled and staged, what the last export of each document held is
\* explained, and every sale has its report; a running sync stands as above.
JInv ==
    /\ IInv
    /\ Shaped(db) /\ Shaped(work)
    /\ \A v \in read : IsReport(v) /\ Processed(db, v, DOMAIN File(v[1], v[2]))
    /\ \A d \in Document : db.export[d] # 0 =>
          Explains(db, d, db.export[d], DOMAIN File(d, db.export[d]))
    /\ SalesFrom(db, read)
    /\ running # NULL => RunStands(running.doc, running.export, running.left, db, work, read)

LEMMA KeptGrown ==
  ASSUME NEW old, NEW new, Grown(old, new), old.loose \in Nat, new.loose \in Nat, NEW ref, Kept(old, ref)
  PROVE  Kept(new, ref)
BY DEF Grown, Kept

LEMMA SettledGrown ==
  ASSUME NEW old, NEW new, Grown(old, new), old.loose \in Nat, new.loose \in Nat,
         NEW file, NEW g, Settled(old, file, g)
  PROVE  Settled(new, file, g)
<1>1. \A ref : Kept(old, ref) => Kept(new, ref)
  BY KeptGrown
<1>2. old.marked \subseteq new.marked /\ old.sales \subseteq new.sales /\ old.payouts \subseteq new.payouts
  BY DEF Grown
<1>3. SettledOrder(old, file, g) => SettledOrder(new, file, g)
  BY <1>1, <1>2 DEF SettledOrder
<1>4. SettledRow(old, file[Min(g)]) => SettledRow(new, file[Min(g)])
  BY <1>1, <1>2 DEF SettledRow
<1> QED  BY <1>3, <1>4 DEF Settled

LEMMA ToldGrown ==
  ASSUME NEW old, NEW new, Grown(old, new), old.loose \in Nat, new.loose \in Nat,
         NEW d, old.warned[d] \subseteq new.warned[d], NEW file, NEW g, Told(old, d, file, g)
  PROVE  Told(new, d, file, g)
<1>1. \A ref : Kept(old, ref) => Kept(new, ref)
  BY KeptGrown
<1>2. old.marked \subseteq new.marked /\ old.sales \subseteq new.sales /\ old.payouts \subseteq new.payouts
  BY DEF Grown
<1>3. ToldOrder(old, file, g) => ToldOrder(new, file, g)
  BY <1>1, <1>2 DEF ToldOrder
<1>4. ToldRow(old, file[Min(g)]) => ToldRow(new, file[Min(g)])
  BY <1>1, <1>2 DEF ToldRow
<1> QED  BY <1>3, <1>4 DEF Told

LEMMA ProcessedGrown ==
  ASSUME NEW old, NEW new, Grown(old, new), old.loose \in Nat, new.loose \in Nat,
         NEW v, v[1] \in Document, NEW I, Processed(old, v, I)
  PROVE  Processed(new, v, I)
<1>1. DOMAIN old.raw[v[1]] \subseteq DOMAIN new.raw[v[1]]
  BY DEF Grown
<1>2. ASSUME NEW i \in I
      PROVE  Settled(new, File(v[1], v[2]), GroupIn(File(v[1], v[2]), i))
  BY SettledGrown DEF Processed
<1> QED  BY <1>1, <1>2 DEF Processed

LEMMA GrownFurther ==
  ASSUME NEW a, NEW b, NEW c, Grown(a, b), Grown(b, c),
         a.loose \in Nat, b.loose \in Nat, c.loose \in Nat
  PROVE  Grown(a, c)
BY DEF Grown

-----------------------------------------------------------------------------
(* What one group of rows does to it.                                        *)

\* What the handling of a row of document d may change.
Moved(d, old, new) ==
    /\ Shaped(new) /\ Grown(old, new) /\ new.export = old.export
    /\ \A e \in Document \ {d} : new.warned[e] = old.warned[e]
    /\ old.warned[d] \subseteq new.warned[d]

\* The group g is handled, not staged yet.  Had it been settled, nothing new came
\* of it.
Handled(d, n, old, new, g, R) ==
    /\ Moved(d, old, new) /\ new.raw = old.raw
    /\ Settled(new, File(d, n), g) /\ Told(new, d, File(d, n), g)
    /\ SalesFrom(new, R \cup {<<d, n>>})
    /\ Settled(old, File(d, n), g) =>
          /\ Same(old, new)
          /\ Referenced(File(d, n)) => new.loose = old.loose

Advanced(d, n, old, new, g, R) ==
    /\ Moved(d, old, new)
    /\ Settled(new, File(d, n), g) /\ Told(new, d, File(d, n), g) /\ g \subseteq DOMAIN new.raw[d]
    /\ SalesFrom(new, R \cup {<<d, n>>})
    /\ Settled(old, File(d, n), g) /\ g \subseteq DOMAIN old.raw[d] =>
          /\ Same(old, new)
          /\ Referenced(File(d, n)) => new.loose = old.loose

LEMMA MovedFurther ==
  ASSUME NEW d, NEW a, NEW b, NEW c, Shaped(a), Moved(d, a, b), Moved(d, b, c)
  PROVE  Moved(d, a, c)
<1>1. Grown(a, c)
  BY GrownFurther DEF Moved, Shaped
<1> QED  BY <1>1 DEF Moved

LEMMA NotMoved ==
  ASSUME NEW d, NEW a, Shaped(a)
  PROVE  Moved(d, a, a) /\ Grown(a, a) /\ Same(a, a)
BY DEF Moved, Grown, Shaped, Same

\* The run goes on: more is done, and what was done stands.
LEMMA Advances ==
  ASSUME NEW d, NEW n, NEW left, NEW old, NEW cur, NEW new, NEW R, NEW g,
         Shaped(old), Shaped(cur), RunStands(d, n, left, old, cur, R),
         <<d, n>> \in R => Processed(old, <<d, n>>, DOMAIN File(d, n)),
         g # {}, g \subseteq DOMAIN File(d, n), \A i \in g : GroupIn(File(d, n), i) = g,
         Advanced(d, n, cur, new, g, R)
  PROVE  RunStands(d, n, left \ g, old, new, R)
<1> DEFINE v == <<d, n>>
           file == File(d, n)
           I == DOMAIN file \ left
           J == DOMAIN file \ (left \ g)
<1>1. old.loose \in Nat /\ cur.loose \in Nat /\ new.loose \in Nat
  BY DEF Shaped, Advanced, Moved
<1>2. Grown(old, cur) /\ Grown(cur, new) /\ d \in Document
  BY DEF RunStands, Advanced, Moved, IsReport
<1>3. Grown(old, new)
  BY <1>1, <1>2, GrownFurther
<1>4. \A i \in J : i \in I \/ i \in g
  OBVIOUS
<1>5. Processed(new, v, J)
  <2>1. Processed(cur, v, I)
    BY DEF RunStands
  <2>2. Processed(new, v, I)
    BY <1>1, <1>2, <2>1, ProcessedGrown
  <2>3. \A i \in g : Settled(new, file, GroupIn(file, i)) /\ i \in DOMAIN new.raw[d]
    BY DEF Advanced
  <2> HIDE DEF I, J
  <2> QED  BY <1>4, <2>2, <2>3 DEF Processed
<1>6. Explains(new, d, n, J)
  <2>1. \A i \in I : Told(cur, d, file, GroupIn(file, i))
    BY DEF RunStands, Explains
  <2>2. cur.warned[d] \subseteq new.warned[d]
    BY DEF Advanced, Moved
  <2>3. \A i \in I : Told(new, d, file, GroupIn(file, i))
    BY <1>1, <1>2, <2>1, <2>2, ToldGrown
  <2>4. \A i \in g : Told(new, d, file, GroupIn(file, i))
    BY DEF Advanced
  <2> HIDE DEF I, J
  <2> QED  BY <1>4, <2>3, <2>4 DEF Explains
<1>7. ASSUME v \in R
      PROVE  Same(old, new) /\ (Referenced(file) => new.loose = old.loose)
  <2>1. PICK i : i \in g
    OBVIOUS
  <2>2. Settled(old, file, g) /\ g \subseteq DOMAIN old.raw[d]
    BY <1>7, <2>1 DEF Processed
  <2>3. Settled(cur, file, g) /\ g \subseteq DOMAIN cur.raw[d]
    BY <1>1, <1>2, <2>2, SettledGrown DEF Grown
  <2>4. Same(old, cur) /\ (Referenced(file) => cur.loose = old.loose)
    BY <1>7 DEF RunStands
  <2>5. Same(cur, new) /\ (Referenced(file) => new.loose = cur.loose)
    BY <2>3 DEF Advanced
  <2> QED  BY <2>4, <2>5 DEF Same
<1>8. new.export = old.export /\ \A e \in Document \ {d} : new.warned[e] = old.warned[e]
  BY DEF RunStands, Advanced, Moved
<1>9. IsReport(v) /\ left \ g \subseteq DOMAIN file /\ SalesFrom(new, R \cup {v})
  BY DEF RunStands, Advanced
<1> HIDE DEF v, file, I, J
<1> QED  BY <1>3, <1>5, <1>6, <1>7, <1>8, <1>9 DEF RunStands, v, file, J

-----------------------------------------------------------------------------
(* The operations of the tables.                                             *)

LEMMA ShapedFields ==
  ASSUME NEW old, NEW new, Shaped(old), DOMAIN new = Field, new.loose \in Nat,
         new.raw = old.raw, new.warned = old.warned
  PROVE  Shaped(new)
BY DEF Shaped

LEMMA OneMoreIs ==
  ASSUME NEW n \in Nat
  PROVE  OneMore(n) \in Nat /\ OneMore(n) > 0 /\ n <= OneMore(n)
<1>1. MaxLoose \in Nat \ {0}
  BY ExportsAssumption
<1> QED  BY <1>1 DEF OneMore

\* Flagging leaves a review row, or the count of those without a reference.
LEMMA QueueMoves ==
  ASSUME NEW d \in Document, NEW old, Shaped(old), NEW ref, NEW order
  PROVE  LET new == Queue(old, ref, order)
         IN  /\ Moved(d, old, new) /\ new.raw = old.raw /\ new.sales = old.sales
             /\ Kept(new, ref)
             /\ ref # NULL => new.loose = old.loose
             /\ Kept(old, ref) => Same(old, new)
<1> DEFINE new == Queue(old, ref, order)
<1>0. /\ OneMore(old.loose) \in Nat /\ OneMore(old.loose) > 0 /\ old.loose <= OneMore(old.loose)
      /\ DOMAIN old = Field /\ old.loose \in Nat
  BY OneMoreIs DEF Shaped
<1>1. CASE ref = NULL
  <2>1. new = [old EXCEPT !.loose = OneMore(@)]
    BY <1>1 DEF Queue
  <2>2. /\ DOMAIN new = Field /\ new.loose = OneMore(old.loose) /\ new.raw = old.raw
        /\ new.warned = old.warned /\ new.marked = old.marked /\ new.booked = old.booked
        /\ new.queue = old.queue /\ new.sales = old.sales /\ new.payouts = old.payouts
        /\ new.export = old.export
    BY <1>0, <2>1 DEF Field
  <2> HIDE DEF new
  <2>3. Shaped(new)
    BY <1>0, <2>2, ShapedFields
  <2>4. Grown(old, new)
    BY <1>0, <2>2 DEF Grown
  <2> QED  BY <1>0, <1>1, <2>2, <2>3, <2>4 DEF Moved, Kept, Same, new
<1>2. CASE ref # NULL /\ \E r \in old.queue : r.ref = ref
  <2>1. new = old
    BY <1>2 DEF Queue
  <2> HIDE DEF new
  <2>2. Moved(d, old, new) /\ Same(old, new)
    BY <2>1, NotMoved
  <2> QED  BY <1>2, <2>1, <2>2 DEF Kept, new
<1>3. CASE ref # NULL /\ ~ \E r \in old.queue : r.ref = ref
  <2>1. new = [old EXCEPT !.queue = @ \cup {[ref |-> ref, order |-> order]}]
    BY <1>3 DEF Queue
  <2>2. /\ DOMAIN new = Field /\ new.loose = old.loose /\ new.raw = old.raw
        /\ new.warned = old.warned /\ new.marked = old.marked /\ new.booked = old.booked
        /\ new.queue = old.queue \cup {[ref |-> ref, order |-> order]}
        /\ new.sales = old.sales /\ new.payouts = old.payouts /\ new.export = old.export
    BY <1>0, <2>1 DEF Field
  <2> HIDE DEF new
  <2>3. Shaped(new)
    BY <1>0, <2>2, ShapedFields
  <2>4. Grown(old, new)
    BY <1>0, <2>2 DEF Grown
  <2>5. Kept(new, ref)
    <3>1. [ref |-> ref, order |-> order] \in new.queue /\ [ref |-> ref, order |-> order].ref = ref
      BY <2>2
    <3> QED  BY <1>3, <3>1 DEF Kept
  <2>6. ~Kept(old, ref)
    BY <1>3 DEF Kept
  <2> QED  BY <1>3, <2>2, <2>3, <2>4, <2>5, <2>6 DEF Moved, new
<1> QED  BY <1>1, <1>2, <1>3

LEMMA PostMoves ==
  ASSUME NEW d, NEW old, Shaped(old), NEW key
  PROVE  LET new == Post(old, key)
         IN  /\ Moved(d, old, new) /\ new.raw = old.raw /\ new.sales = old.sales
             /\ key \in new.marked
<1> DEFINE new == Post(old, key)
<1>1. /\ DOMAIN new = Field /\ new.loose = old.loose /\ new.raw = old.raw
      /\ new.warned = old.warned /\ new.marked = old.marked \cup {key}
      /\ new.queue = old.queue /\ new.sales = old.sales /\ new.payouts = old.payouts
      /\ new.export = old.export
  BY DEF Shaped, Post, Field
<1> HIDE DEF new
<1>2. old.loose \in Nat
  BY DEF Shaped
<1>3. Shaped(new)
  BY <1>1, <1>2, ShapedFields
<1>4. Grown(old, new)
  BY <1>1, <1>2 DEF Grown
<1> QED  BY <1>1, <1>3, <1>4 DEF Moved, new

LEMMA SaleMoves ==
  ASSUME NEW d, NEW old, Shaped(old), NEW ref
  PROVE  LET new == [old EXCEPT !.sales = @ \cup {ref}]
         IN  /\ Moved(d, old, new) /\ new.raw = old.raw /\ new.sales = old.sales \cup {ref}
             /\ new.loose = old.loose /\ new.queue = old.queue
             /\ ref \in old.sales => Same(old, new)
<1> DEFINE new == [old EXCEPT !.sales = @ \cup {ref}]
<1>1. /\ DOMAIN new = Field /\ new.loose = old.loose /\ new.raw = old.raw
      /\ new.warned = old.warned /\ new.marked = old.marked /\ new.booked = old.booked
      /\ new.queue = old.queue /\ new.sales = old.sales \cup {ref} /\ new.payouts = old.payouts
      /\ new.export = old.export
  BY DEF Shaped, Field
<1> HIDE DEF new
<1>2. old.loose \in Nat
  BY DEF Shaped
<1>3. Shaped(new)
  BY <1>1, <1>2, ShapedFields
<1>4. Grown(old, new)
  BY <1>1, <1>2 DEF Grown
<1>5. ref \in old.sales => Same(old, new)
  BY <1>1 DEF Same
<1> QED  BY <1>1, <1>3, <1>4, <1>5 DEF Moved, new

LEMMA PayoutMoves ==
  ASSUME NEW d, NEW old, Shaped(old), NEW ref
  PROVE  LET new == [old EXCEPT !.payouts = @ \cup {ref}]
         IN  /\ Moved(d, old, new) /\ new.raw = old.raw /\ new.payouts = old.payouts \cup {ref}
             /\ new.loose = old.loose /\ new.sales = old.sales
             /\ ref \in old.payouts => Same(old, new)
<1> DEFINE new == [old EXCEPT !.payouts = @ \cup {ref}]
<1>1. /\ DOMAIN new = Field /\ new.loose = old.loose /\ new.raw = old.raw
      /\ new.warned = old.warned /\ new.marked = old.marked /\ new.booked = old.booked
      /\ new.queue = old.queue /\ new.sales = old.sales /\ new.payouts = old.payouts \cup {ref}
      /\ new.export = old.export
  BY DEF Shaped, Field
<1> HIDE DEF new
<1>2. old.loose \in Nat
  BY DEF Shaped
<1>3. Shaped(new)
  BY <1>1, <1>2, ShapedFields
<1>4. Grown(old, new)
  BY <1>1, <1>2 DEF Grown
<1>5. ref \in old.payouts => Same(old, new)
  BY <1>1 DEF Same
<1> QED  BY <1>1, <1>3, <1>4, <1>5 DEF Moved, new

LEMMA WarnMoves ==
  ASSUME running.doc \in Document, NEW old, Shaped(old), NEW g
  PROVE  LET new == Warn(old, g)
         IN  /\ Moved(running.doc, old, new) /\ new.raw = old.raw /\ new.sales = old.sales
             /\ g \subseteq new.warned[running.doc] /\ new.loose = old.loose
             /\ new.queue = old.queue /\ Same(old, new)
<1>1. PICK d \in Document : d = running.doc
  OBVIOUS
<1> DEFINE new == Warn(old, g)
<1>2. /\ DOMAIN new = Field /\ new.loose = old.loose /\ new.raw = old.raw
      /\ new.marked = old.marked /\ new.booked = old.booked
      /\ new.queue = old.queue /\ new.sales = old.sales /\ new.payouts = old.payouts
      /\ new.export = old.export
      /\ new.warned = [old.warned EXCEPT ![d] = @ \cup g]
  BY <1>1 DEF Shaped, Field, Warn
<1> HIDE DEF new
<1>3. DOMAIN old.warned = Document /\ old.loose \in Nat
  BY DEF Shaped
<1>4. /\ DOMAIN new.warned = Document
      /\ new.warned = [e \in Document |-> new.warned[e]]
      /\ new.warned[d] = old.warned[d] \cup g
      /\ \A e \in Document \ {d} : new.warned[e] = old.warned[e]
  BY <1>2, <1>3
<1>5. Shaped(new)
  <2>1. /\ old.raw = [e \in Document |-> old.raw[e]]
        /\ \A e \in Document : old.raw[e] = [i \in DOMAIN old.raw[e] |-> old.raw[e][i]]
    BY DEF Shaped
  <2> QED  BY <1>2, <1>3, <1>4, <2>1 DEF Shaped
<1>6. Grown(old, new) /\ Same(old, new)
  BY <1>2, <1>3 DEF Grown, Same
<1> QED  BY <1>1, <1>2, <1>4, <1>5, <1>6 DEF Moved, new

\* A row is staged where nothing was staged before.
LEMMA StageMoves ==
  ASSUME running.doc \in Document, NEW old, Shaped(old), NEW g, NEW link
  PROVE  LET new == Stage(old, g, link)
         IN  /\ Moved(running.doc, old, new) /\ g \subseteq DOMAIN new.raw[running.doc]
             /\ new.loose = old.loose /\ new.sales = old.sales
             /\ g \subseteq DOMAIN old.raw[running.doc] => Same(old, new)
<1>1. PICK d \in Document : d = running.doc
  OBVIOUS
<1> DEFINE new == Stage(old, g, link)
<1>2. PICK h : h = [i \in g |-> [row |-> Rows[i], link |-> link]]
  OBVIOUS
<1>3. PICK both : both = [i \in DOMAIN old.raw[d] \cup g |->
                          IF i \in DOMAIN old.raw[d] THEN old.raw[d][i] ELSE h[i]]
  OBVIOUS
<1>13. both = [i \in DOMAIN old.raw[d] \cup g |->
                IF i \in DOMAIN old.raw[d] THEN old.raw[d][i] ELSE [row |-> Rows[i], link |-> link]]
  BY <1>2, <1>3
<1>14. new = [old EXCEPT !.raw = [old.raw EXCEPT ![d] = both]]
  BY <1>1, <1>13 DEF Stage
<1> HIDE DEF new
<1>4. /\ DOMAIN new = Field /\ new.loose = old.loose /\ new.warned = old.warned
      /\ new.marked = old.marked /\ new.booked = old.booked
      /\ new.queue = old.queue /\ new.sales = old.sales /\ new.payouts = old.payouts
      /\ new.export = old.export
      /\ new.raw = [old.raw EXCEPT ![d] = both]
  BY <1>14 DEF Shaped, Field
<1> HIDE DEF new
<1>5. /\ old.raw = [e \in Document |-> old.raw[e]] /\ DOMAIN old.raw = Document
      /\ \A e \in Document : old.raw[e] = [i \in DOMAIN old.raw[e] |-> old.raw[e][i]]
      /\ old.loose \in Nat
  BY DEF Shaped
<1>6. /\ both = [i \in DOMAIN both |-> both[i]] /\ DOMAIN both = DOMAIN old.raw[d] \cup g
      /\ g \subseteq DOMAIN old.raw[d] => both = old.raw[d]
  <2>1. both = [i \in DOMAIN old.raw[d] \cup g |->
                  IF i \in DOMAIN old.raw[d] THEN old.raw[d][i] ELSE h[i]]
    BY <1>3
  <2>3. ASSUME g \subseteq DOMAIN old.raw[d] PROVE both = old.raw[d]
    <3>1. DOMAIN old.raw[d] \cup g = DOMAIN old.raw[d]
      BY <2>3
    <3>2. both = [i \in DOMAIN old.raw[d] |-> old.raw[d][i]]
      BY <2>1, <3>1
    <3> QED  BY <1>5, <3>2
  <2> QED  BY <2>1, <2>3
<1>7. /\ new.raw = [e \in Document |-> new.raw[e]]
      /\ new.raw[d] = both /\ \A e \in Document \ {d} : new.raw[e] = old.raw[e]
  BY <1>4, <1>5
<1>8. \A e \in Document : /\ new.raw[e] = [i \in DOMAIN new.raw[e] |-> new.raw[e][i]]
                          /\ DOMAIN old.raw[e] \subseteq DOMAIN new.raw[e]
  <2>1. ASSUME NEW e \in Document
        PROVE  /\ new.raw[e] = [i \in DOMAIN new.raw[e] |-> new.raw[e][i]]
               /\ DOMAIN old.raw[e] \subseteq DOMAIN new.raw[e]
    <3>1. CASE e = d
      BY <1>6, <1>7, <3>1
    <3>2. CASE e # d
      BY <1>5, <1>7, <3>2
    <3> QED  BY <3>1, <3>2
  <2> QED  BY <2>1
<1>9. Shaped(new)
  <2>1. old.warned = [e \in Document |-> old.warned[e]]
    BY DEF Shaped
  <2>2. DOMAIN new = Field /\ new.loose \in Nat /\ new.warned = [e \in Document |-> new.warned[e]]
    BY <1>4, <1>5, <2>1
  <2>3. \A e \in Document : new.raw[e] = [i \in DOMAIN new.raw[e] |-> new.raw[e][i]]
    BY <1>8
  <2> QED  BY ONLY <1>7, <2>2, <2>3 DEF Shaped
<1>10. Grown(old, new)
  <2>1. \A e \in Document : DOMAIN old.raw[e] \subseteq DOMAIN new.raw[e]
    BY <1>8
  <2> QED  BY ONLY <1>4, <1>5, <2>1 DEF Grown
<1>11. g \subseteq DOMAIN old.raw[d] => Same(old, new)
  <2>1. ASSUME g \subseteq DOMAIN old.raw[d] PROVE Same(old, new)
    <3>1. \A e \in Document : new.raw[e] = old.raw[e]
      BY <1>6, <1>7, <2>1
    <3>2. new.raw = old.raw
      BY <1>5, <1>7, <3>1
    <3> QED  BY <1>4, <3>2 DEF Same
  <2> QED  BY <2>1
<1>12. g \subseteq DOMAIN new.raw[d]
  BY <1>6, <1>7
<1> QED  BY <1>1, <1>4, <1>9, <1>10, <1>11, <1>12 DEF Moved, new

\* Staging does not undo what was handled.
LEMMA StagedIsAdvanced ==
  ASSUME running.doc \in Document, NEW n, NEW old, NEW store, NEW g, NEW link, NEW R, Shaped(old),
         Handled(running.doc, n, old, store, g, R)
  PROVE  Advanced(running.doc, n, old, Stage(store, g, link), g, R)
<1>1. PICK d \in Document : d = running.doc
  OBVIOUS
<1>2. PICK new : new = Stage(store, g, link)
  OBVIOUS
<1>3. Shaped(store) /\ Moved(d, old, store) /\ store.raw = old.raw
  BY <1>1 DEF Handled, Moved
<1>4. /\ Moved(d, store, new) /\ g \subseteq DOMAIN new.raw[d] /\ new.loose = store.loose
      /\ new.sales = store.sales
      /\ g \subseteq DOMAIN store.raw[d] => Same(store, new)
  BY <1>1, <1>2, <1>3, StageMoves
<1>5. Moved(d, old, new)
  BY <1>3, <1>4, MovedFurther
<1>6. store.loose \in Nat /\ new.loose \in Nat /\ Grown(store, new)
      /\ store.warned[d] \subseteq new.warned[d]
  BY <1>3, <1>4 DEF Shaped, Moved
<1>7. Settled(new, File(d, n), g)
  BY <1>1, <1>6, SettledGrown DEF Handled
<1>8. Told(new, d, File(d, n), g)
  BY <1>1, <1>6, ToldGrown DEF Handled
<1>9. SalesFrom(new, R \cup {<<d, n>>})
  BY <1>1, <1>4 DEF Handled, SalesFrom
<1>10. ASSUME Settled(old, File(d, n), g), g \subseteq DOMAIN old.raw[d]
       PROVE  Same(old, new) /\ (Referenced(File(d, n)) => new.loose = old.loose)
  <2>1. Same(old, store) /\ (Referenced(File(d, n)) => store.loose = old.loose)
    BY <1>1, <1>10 DEF Handled
  <2>2. Same(store, new)
    BY <1>3, <1>4, <1>10
  <2> QED  BY <1>4, <2>1, <2>2 DEF Same
<1> QED  BY <1>1, <1>2, <1>4, <1>5, <1>7, <1>8, <1>9, <1>10 DEF Advanced

-----------------------------------------------------------------------------
(* The groups of rows.                                                       *)

LEMMA MinIn ==
  ASSUME NEW S \in SUBSET Nat, S # {}
  PROVE  Min(S) \in S /\ \A x \in S : Min(S) <= x
<1>1. PICK n \in S : \A m \in S : n <= m
  BY LeastNat
<1> QED  BY <1>1 DEF Min

LEMMA ReportRows ==
  ASSUME NEW d, NEW n, IsReport(<<d, n>>)
  PROVE  /\ DOMAIN File(d, n) \subseteq Nat /\ IsFiniteSet(DOMAIN File(d, n))
         /\ \A i \in DOMAIN File(d, n) : FieldsOf(File(d, n)[i])
BY ExportsAssumption DEF IsReport, File

\* The group that is next is a group of the report: the rows of one order, or one
\* row of another type.
LEMMA CurrentIs ==
  ASSUME IsReport(<<running.doc, running.export>>), running.left \subseteq DOMAIN Rows, running.left # {}
  PROVE  /\ Current # {} /\ Current \subseteq DOMAIN Rows /\ Min(Current) \in Current
         /\ \A i \in Current : GroupIn(Rows, i) = Current
         /\ IF Head1.type = "Order"
            THEN Current = {j \in DOMAIN Rows : Rows[j].type = "Order" /\ Rows[j].order = Head1.order}
            ELSE Current = {Min(Current)}
<1>1. PICK file : file = Rows
  OBVIOUS
<1>2. PICK left : left = running.left
  OBVIOUS
<1>3. PICK g : g = Current
  OBVIOUS
<1>4. DOMAIN file \subseteq Nat /\ left \subseteq DOMAIN file /\ left # {}
  BY <1>1, <1>2, ReportRows DEF Rows
<1> DEFINE orders == {i \in left : file[i].type = "Order"}
<1>5. g = GroupIn(file, IF orders # {} THEN Min(orders) ELSE Min(left))
  BY <1>1, <1>2, <1>3 DEF Current
<1>6. CASE orders # {}
  <2>1. PICK m \in orders : m = Min(orders)
    <3>1. orders \in SUBSET Nat
      BY <1>4
    <3> QED  BY <1>6, <3>1, MinIn
  <2>2. g = {j \in DOMAIN file : file[j].type = "Order" /\ file[j].order = file[m].order}
    BY <1>5, <1>6, <2>1 DEF GroupIn
  <2>3. m \in g /\ g \subseteq DOMAIN file
    BY <1>4, <2>1, <2>2
  <2>4. Min(g) \in g
    BY <1>4, <2>3, MinIn
  <2>5. \A i \in g : GroupIn(file, i) = g
    BY <2>2 DEF GroupIn
  <2>6. file[Min(g)].type = "Order" /\ file[Min(g)].order = file[m].order
    BY <2>2, <2>4
  <2> QED  BY <1>1, <1>3, <2>2, <2>3, <2>4, <2>5, <2>6 DEF Head1
<1>7. CASE orders = {}
  <2>1. PICK m \in left : m = Min(left)
    BY <1>4, MinIn
  <2>2. file[m].type # "Order"
    BY <1>7, <2>1
  <2>3. g = {m}
    BY <1>5, <1>7, <2>1, <2>2 DEF GroupIn
  <2>4. Min(g) = m
    BY <1>4, <2>1, <2>3, MinIn
  <2>5. GroupIn(file, m) = {m}
    BY <2>2 DEF GroupIn
  <2> QED  BY <1>1, <1>3, <1>4, <2>1, <2>2, <2>3, <2>4, <2>5 DEF Head1
<1> QED  BY <1>6, <1>7

\* A reference is one unless its transaction has no ID.
LEMMA RefIs ==
  ASSUME NEW d, NEW n, IsReport(<<d, n>>), NEW g, g # {}, g \subseteq DOMAIN File(d, n),
         NEW sfx \in {"", "charity"}
  PROVE  RefOf(TxnOf(File(d, n), g), sfx) = NULL <=> TxnOf(File(d, n), g) = NULL
<1>1. PICK file : file = File(d, n)
  OBVIOUS
<1> DEFINE named == {i \in g : file[i].txn # NULL}
<1>2. CASE named = {}
  BY <1>1, <1>2 DEF TxnOf, RefOf
<1>3. CASE named # {}
  <2>1. named \in SUBSET Nat
    BY <1>1, ReportRows
  <2>2. PICK m \in named : m = Min(named)
    BY <1>3, <2>1, MinIn
  <2>3. TxnOf(file, g) = file[m].txn /\ file[m].txn # NULL
    BY <1>3, <2>2 DEF TxnOf
  <2>4. FieldsOf(file[m])
    BY <1>1, <2>2, ReportRows
  <2> QED  BY <1>1, <2>3, <2>4 DEF FieldsOf, RefOf
<1> QED  BY <1>2, <1>3

LEMMA RowRefIs ==
  ASSUME NEW row, FieldsOf(row)
  PROVE  RefOf(row.txn, "") = NULL <=> row.txn = NULL
BY DEF FieldsOf, RefOf

\* In a report whose orders and adjustments have transaction IDs each has one.
LEMMA ReferencedIs ==
  ASSUME NEW file, Referenced(file), NEW i \in DOMAIN file, file[i].type \in {"Order", "Adjustment"}
  PROVE  TxnOf(file, GroupIn(file, i)) # NULL
BY DEF Referenced

LEMMA SingleTxn ==
  ASSUME NEW file, NEW i \in Nat
  PROVE  TxnOf(file, {i}) = file[i].txn
<1> DEFINE named == {j \in {i} : file[j].txn # NULL}
<1>1. CASE file[i].txn = NULL
  <2>1. named = {}
    BY <1>1
  <2> QED  BY <1>1, <2>1 DEF TxnOf
<1>2. CASE file[i].txn # NULL
  <2>1. named = {i}
    BY <1>2
  <2>2. Min(named) = i
    BY <2>1, MinIn
  <2> QED  BY <2>1, <2>2 DEF TxnOf
<1> QED  BY <1>1, <1>2

\* A group that is handled and staged leaves the invariant.
LEMMA HandledDone ==
  ASSUME JInv, IInv', running # NULL, running.left # {}, NEW store, NEW link,
         Handled(running.doc, running.export, work, store, Current, read),
         Done(Stage(store, Current, link))
  PROVE  JInv'
<1>1. PICK d, n, left : d = running.doc /\ n = running.export /\ left = running.left
  OBVIOUS
<1>2. PICK g : g = Current
  OBVIOUS
<1>3. RunStands(d, n, left, db, work, read)
  BY <1>1 DEF JInv
<1>4. Rows = File(d, n)
  BY <1>1 DEF Rows
<1>5. IsReport(<<d, n>>) /\ left \subseteq DOMAIN File(d, n) /\ d \in Document
  BY <1>3 DEF RunStands, IsReport
<1>6. g # {} /\ g \subseteq DOMAIN File(d, n) /\ \A i \in g : GroupIn(File(d, n), i) = g
  BY <1>1, <1>2, <1>4, <1>5, CurrentIs
<1>7. PICK new : new = Stage(store, Current, link)
  OBVIOUS
<1>8. Shaped(db) /\ Shaped(work)
  BY DEF JInv
<1>9. Advanced(d, n, work, new, g, read)
  BY <1>1, <1>2, <1>5, <1>7, <1>8, StagedIsAdvanced
<1>10. <<d, n>> \in read => Processed(db, <<d, n>>, DOMAIN File(d, n))
  BY DEF JInv
<1>11. RunStands(d, n, left \ g, db, new, read)
  BY <1>3, <1>6, <1>8, <1>9, <1>10, Advances
<1>12. /\ work' = new /\ db' = db /\ read' = read
       /\ running' = [running EXCEPT !.left = left \ g]
  BY <1>1, <1>2, <1>7 DEF Done
<1>13. running \in Reading
  BY DEF JInv, IInv
<1>14. running'.doc = d /\ running'.export = n /\ running'.left = left \ g
  BY <1>1, <1>12, <1>13 DEF Reading
<1>15. Shaped(new)
  BY <1>9 DEF Advanced, Moved
<1>16. (running # NULL => RunStands(running.doc, running.export, running.left, db, work, read))'
  BY <1>11, <1>12, <1>14
<1> QED  BY <1>8, <1>12, <1>15, <1>16 DEF JInv

-----------------------------------------------------------------------------
(* The actions of a run.                                                     *)

Report == <<running.doc, running.export>>

\* A run at a group of rows.
LEMMA AtGroup ==
  ASSUME JInv, running # NULL, running.left # {}
  PROVE  /\ running.doc \in Document /\ IsReport(Report) /\ Rows = File(running.doc, running.export)
         /\ Shaped(work) /\ SalesFrom(work, read \cup {Report})
         /\ Current # {} /\ Current \subseteq DOMAIN Rows /\ Min(Current) \in DOMAIN Rows
         /\ \A i \in Current : GroupIn(Rows, i) = Current
         /\ Min(Current) \in Current /\ Head1 = Rows[Min(Current)] /\ FieldsOf(Head1)
         /\ IF Head1.type = "Order"
            THEN Current = {j \in DOMAIN Rows : Rows[j].type = "Order" /\ Rows[j].order = Head1.order}
            ELSE Current = {Min(Current)}
<1>1. RunStands(running.doc, running.export, running.left, db, work, read)
  BY DEF JInv
<1>2. IsReport(Report) /\ running.left \subseteq DOMAIN Rows /\ SalesFrom(work, read \cup {Report})
  BY <1>1 DEF RunStands, Report, Rows
<1>3. running.doc \in Document /\ Shaped(work)
  BY <1>2 DEF IsReport, Report, JInv
<1>4. Head1 = Rows[Min(Current)]
  BY DEF Head1
<1>5. /\ Current # {} /\ Current \subseteq DOMAIN Rows /\ Min(Current) \in Current
      /\ \A i \in Current : GroupIn(Rows, i) = Current
      /\ IF Head1.type = "Order"
         THEN Current = {j \in DOMAIN Rows : Rows[j].type = "Order" /\ Rows[j].order = Head1.order}
         ELSE Current = {Min(Current)}
  BY <1>2, CurrentIs DEF Report
<1>6. FieldsOf(Head1)
  BY <1>2, <1>4, <1>5, ReportRows DEF Report, Rows
<1> QED  BY <1>2, <1>3, <1>4, <1>5, <1>6 DEF Rows

LEMMA GroupRefIs ==
  ASSUME JInv, running # NULL, running.left # {}, NEW sfx \in {"", "charity"}
  PROVE  RefOf(TxnOf(Rows, Current), sfx) = NULL <=> TxnOf(Rows, Current) = NULL
<1>1. PICK d, n : d = running.doc /\ n = running.export
  OBVIOUS
<1>2. PICK g : g = Current
  OBVIOUS
<1>3. Rows = File(d, n) /\ IsReport(<<d, n>>) /\ g # {} /\ g \subseteq DOMAIN File(d, n)
  BY <1>1, <1>2, AtGroup DEF Report
<1>4. RefOf(TxnOf(File(d, n), g), sfx) = NULL <=> TxnOf(File(d, n), g) = NULL
  BY <1>3, RefIs
<1> QED  BY <1>2, <1>3, <1>4

\* What a report that was read before adds to the count of loose review rows.
NoNews(store) ==
    Settled(work, Rows, Current) =>
        /\ Same(work, store)
        /\ Referenced(Rows) => store.loose = work.loose

LEMMA HandledBy ==
  ASSUME JInv, running # NULL, running.left # {}, NEW store,
         Moved(running.doc, work, store), store.raw = work.raw,
         SalesFrom(store, read \cup {Report}),
         Settled(store, Rows, Current), Told(store, running.doc, Rows, Current), NoNews(store)
  PROVE  Handled(running.doc, running.export, work, store, Current, read)
BY AtGroup DEF Handled, NoNews, Report

\* The group is warned about.
LEMMA WarnHandled ==
  ASSUME JInv, running # NULL, running.left # {}, NEW store,
         Moved(running.doc, work, store), store.raw = work.raw, store.sales = work.sales,
         Settled(store, Rows, Current), NoNews(store)
  PROVE  Handled(running.doc, running.export, work, Warn(store, Current), Current, read)
<1>1. PICK d : d = running.doc
  OBVIOUS
<1>2. PICK g : g = Current
  OBVIOUS
<1>3. PICK new : new = Warn(store, g)
  OBVIOUS
<1>4. d \in Document /\ Shaped(work) /\ Shaped(store) /\ SalesFrom(work, read \cup {Report})
  BY <1>1, AtGroup DEF Moved
<1>5. /\ Moved(d, store, new) /\ new.raw = store.raw /\ new.sales = store.sales
      /\ g \subseteq new.warned[d] /\ new.loose = store.loose
      /\ Same(store, new)
  BY <1>1, <1>3, <1>4, WarnMoves
<1>6. Moved(d, work, new)
  BY <1>1, <1>4, <1>5, MovedFurther
<1>7. SalesFrom(new, read \cup {Report})
  BY <1>4, <1>5 DEF SalesFrom
<1>8. Grown(store, new) /\ store.loose \in Nat /\ new.loose \in Nat
  BY <1>4, <1>5 DEF Moved, Shaped
<1>9. Settled(new, Rows, g)
  BY <1>2, <1>8, SettledGrown
<1>10. Told(new, d, Rows, g)
  BY <1>5 DEF Told
<1>11. NoNews(new)
  BY <1>5 DEF NoNews, Same
<1> QED  BY <1>1, <1>2, <1>3, <1>5, <1>6, <1>7, <1>9, <1>10, <1>11, HandledBy

LEMMA FlaggedMoves ==
  ASSUME JInv, At("Order")
  PROVE  LET ref == RefOf(TxnOf(Rows, Current), "charity") IN
         /\ Moved(running.doc, work, Flagged) /\ Flagged.raw = work.raw /\ Flagged.sales = work.sales
         /\ Shaped(Flagged)
         /\ Charity(Rows, Current) # 0 => Kept(Flagged, ref)
         /\ (Charity(Rows, Current) # 0 => Kept(work, ref)) => Same(work, Flagged)
         /\ Referenced(Rows) => Flagged.loose = work.loose
<1>1. running # NULL /\ running.left # {} /\ Head1.type = "Order"
  BY DEF At
<1>2. PICK d \in Document : d = running.doc
  BY <1>1, AtGroup
<1>3. PICK ref : ref = RefOf(TxnOf(Rows, Current), "charity")
  OBVIOUS
<1>4. PICK new : new = Flagged
  OBVIOUS
<1>5. Shaped(work)
  BY <1>1, AtGroup
<1>6. CASE Charity(Rows, Current) = 0
  <2>1. new = work
    BY <1>4, <1>6 DEF Flagged
  <2>2. Moved(d, work, new) /\ Same(work, new)
    BY <1>5, <2>1, NotMoved
  <2> QED  BY <1>2, <1>4, <1>5, <1>6, <2>1, <2>2
<1>7. CASE Charity(Rows, Current) # 0
  <2>1. new = Queue(work, ref, NULL)
    BY <1>3, <1>4, <1>7 DEF Flagged
  <2>2. /\ Moved(d, work, new) /\ new.raw = work.raw /\ new.sales = work.sales
        /\ Kept(new, ref)
        /\ ref # NULL => new.loose = work.loose
        /\ Kept(work, ref) => Same(work, new)
    BY <1>5, <2>1, QueueMoves
  <2>3. ASSUME Referenced(Rows) PROVE ref # NULL
    <3>1. /\ Min(Current) \in DOMAIN Rows /\ Rows[Min(Current)].type = "Order"
          /\ GroupIn(Rows, Min(Current)) = Current
      BY <1>1, AtGroup
    <3>2. TxnOf(Rows, Current) # NULL
      BY <2>3, <3>1, ReferencedIs
    <3>3. RefOf(TxnOf(Rows, Current), "charity") = NULL <=> TxnOf(Rows, Current) = NULL
      BY <1>1, GroupRefIs
    <3> QED  BY <1>3, <3>2, <3>3
  <2>4. Shaped(new)
    BY <2>2 DEF Moved
  <2> QED  BY <1>2, <1>3, <1>4, <1>7, <2>2, <2>3, <2>4
<1> QED  BY <1>6, <1>7

\* An order that was refused, booked, flagged or staged is so for good.
LEMMA OrderIs ==
  ASSUME JInv, At("Order")
  PROVE  \A store : /\ Settled(store, Rows, Current) = SettledOrder(store, Rows, Current)
                    /\ ToldOrder(store, Rows, Current) => Told(store, running.doc, Rows, Current)
<1>1. Rows[Min(Current)].type = "Order"
  BY DEF At, Head1
<1> QED  BY <1>1 DEF Settled, Told

LEMMA RowIs ==
  ASSUME JInv, running # NULL, running.left # {}, Head1.type # "Order"
  PROVE  \A store : /\ Settled(store, Rows, Current) = SettledRow(store, Head1)
                    /\ ToldRow(store, Head1) => Told(store, running.doc, Rows, Current)
BY DEF Settled, Told, Head1

LEMMA RefuseOrderStep ==
  ASSUME JInv, IInv', RefuseOrder
  PROVE  JInv'
<1>1. running # NULL /\ running.left # {} /\ At("Order")
  BY DEF RefuseOrder, At
<1>2. Done(Stage(Warn(work, Current), Current, NULL))
  BY DEF RefuseOrder
<1>3. Shaped(work)
  BY <1>1, AtGroup
<1>4. Moved(running.doc, work, work) /\ Same(work, work)
  BY <1>3, NotMoved
<1>5. Settled(work, Rows, Current)
  BY <1>1, OrderIs DEF RefuseOrder, SettledOrder
<1>6. NoNews(work)
  BY <1>4 DEF NoNews
<1>7. Handled(running.doc, running.export, work, Warn(work, Current), Current, read)
  BY <1>1, <1>4, <1>5, <1>6, WarnHandled
<1> QED  BY <1>1, <1>2, <1>7, HandledDone

\* The group leaves the tables as they are.
LEMMA LeftHandled ==
  ASSUME JInv, running # NULL, running.left # {},
         Settled(work, Rows, Current), Told(work, running.doc, Rows, Current)
  PROVE  Handled(running.doc, running.export, work, work, Current, read)
<1>1. Shaped(work) /\ SalesFrom(work, read \cup {Report})
  BY AtGroup
<1>2. Moved(running.doc, work, work) /\ Same(work, work)
  BY <1>1, NotMoved
<1>3. NoNews(work)
  BY <1>2 DEF NoNews
<1> QED  BY <1>1, <1>2, <1>3, HandledBy

LEMMA KnownRowStep ==
  ASSUME JInv, IInv', KnownRow
  PROVE  JInv'
<1>1. running # NULL /\ running.left # {} /\ Head1.type \in {"Order", "Refund", "Other fee"}
  BY DEF KnownRow, At
<1>2. Done(Stage(work, Current, <<"entry", KeyOf(Head1)>>))
  BY DEF KnownRow
<1>3. KeyOf(Head1) \in work.marked /\ Head1 = Rows[Min(Current)]
  BY DEF KnownRow, AlreadyPosted, Head1
<1>4. Settled(work, Rows, Current) /\ Told(work, running.doc, Rows, Current)
  <2>1. CASE Head1.type = "Order"
    <3>1. At("Order") /\ SettledOrder(work, Rows, Current) /\ ToldOrder(work, Rows, Current)
      BY <1>1, <1>3, <2>1 DEF At, SettledOrder, ToldOrder
    <3> QED  BY <3>1, OrderIs
  <2>2. CASE Head1.type # "Order"
    <3>1. SettledRow(work, Head1) /\ ToldRow(work, Head1)
      BY <1>1, <1>3, <2>2 DEF SettledRow, ToldRow
    <3> QED  BY <1>1, <2>2, <3>1, RowIs
  <2> QED  BY <2>1, <2>2
<1>5. Handled(running.doc, running.export, work, work, Current, read)
  BY <1>1, <1>4, LeftHandled
<1> QED  BY <1>1, <1>2, <1>5, HandledDone

LEMMA SkipRowStep ==
  ASSUME JInv, IInv', SkipRow
  PROVE  JInv'
<1>1. /\ running # NULL /\ running.left # {}
      /\ \/ Head1.type = "Hold"
         \/ Head1.type = "Other fee" /\ Head1.net = 0
         \/ Head1.type = "Adjustment" /\ Head1.net = 0
  BY DEF SkipRow, At
<1>2. Done(Stage(work, Current, NULL))
  BY DEF SkipRow
<1>3. SettledRow(work, Head1) /\ ToldRow(work, Head1) /\ Head1.type # "Order"
  BY <1>1 DEF SettledRow, ToldRow
<1>4. Settled(work, Rows, Current) /\ Told(work, running.doc, Rows, Current)
  BY <1>1, <1>3, RowIs
<1>5. Handled(running.doc, running.export, work, work, Current, read)
  BY <1>1, <1>4, LeftHandled
<1> QED  BY <1>1, <1>2, <1>5, HandledDone

\* A review row is made for the group.
LEMMA QueueHandled ==
  ASSUME JInv, running # NULL, running.left # {}, NEW ref, NEW order,
         Referenced(Rows) => ref # NULL,
         \A store : Kept(store, ref) =>
            Settled(store, Rows, Current) /\ Told(store, running.doc, Rows, Current),
         Settled(work, Rows, Current) => Kept(work, ref)
  PROVE  Handled(running.doc, running.export, work, Queue(work, ref, order), Current, read)
<1>1. PICK new : new = Queue(work, ref, order)
  OBVIOUS
<1>2. Shaped(work) /\ running.doc \in Document /\ SalesFrom(work, read \cup {Report})
  BY AtGroup
<1>3. /\ Moved(running.doc, work, new) /\ new.raw = work.raw /\ new.sales = work.sales
      /\ Kept(new, ref)
      /\ ref # NULL => new.loose = work.loose
      /\ Kept(work, ref) => Same(work, new)
  BY <1>1, <1>2, QueueMoves
<1>4. Settled(new, Rows, Current) /\ Told(new, running.doc, Rows, Current)
  BY <1>3
<1>5. NoNews(new)
  BY <1>3 DEF NoNews
<1>6. SalesFrom(new, read \cup {Report})
  BY <1>2, <1>3 DEF SalesFrom
<1> QED  BY <1>1, <1>3, <1>4, <1>5, <1>6, HandledBy

LEMMA QueueMismatchStep ==
  ASSUME JInv, IInv', QueueMismatch
  PROVE  JInv'
<1>1. PICK ref : ref = RefOf(TxnOf(Rows, Current), "")
  OBVIOUS
<1>2. /\ At("Order") /\ running # NULL /\ running.left # {} /\ Head1.type = "Order"
      /\ Mergeable(Rows, Current) /\ KeyOf(Head1) \notin work.marked
      /\ InDollars(Rows, Current) /\ ~Reconciles(Rows, Current)
  BY DEF QueueMismatch, OrderPassed, At, AlreadyPosted
<1>3. Done(Stage(Queue(work, ref, Head1.order), Current, <<"review", ref>>))
  BY <1>1 DEF QueueMismatch
<1>4. Head1 = Rows[Min(Current)]
  BY DEF Head1
<1>5. \A store : Kept(store, ref) =>
         Settled(store, Rows, Current) /\ Told(store, running.doc, Rows, Current)
  BY <1>1, <1>2, OrderIs DEF SettledOrder, ToldOrder
<1>6. Settled(work, Rows, Current) => Kept(work, ref)
  BY <1>1, <1>2, <1>4, OrderIs DEF SettledOrder
<1>7. ASSUME Referenced(Rows) PROVE ref # NULL
  <2>1. /\ Min(Current) \in DOMAIN Rows /\ Rows[Min(Current)].type = "Order"
        /\ GroupIn(Rows, Min(Current)) = Current
    BY <1>2, AtGroup
  <2>2. TxnOf(Rows, Current) # NULL
    BY <1>7, <2>1, ReferencedIs
  <2>3. RefOf(TxnOf(Rows, Current), "") = NULL <=> TxnOf(Rows, Current) = NULL
    BY <1>2, GroupRefIs
  <2> QED  BY <1>1, <2>2, <2>3
<1>8. Handled(running.doc, running.export, work, Queue(work, ref, Head1.order), Current, read)
  BY <1>2, <1>5, <1>6, <1>7, QueueHandled
<1> QED  BY <1>2, <1>3, <1>8, HandledDone

LEMMA QueueUnknownStep ==
  ASSUME JInv, IInv', QueueUnknown
  PROVE  JInv'
<1>1. PICK ref : ref = RefOf(Head1.txn, "")
  OBVIOUS
<1>2. /\ running # NULL /\ running.left # {} /\ Head1.type = "Adjustment"
      /\ Head1.usd /\ Head1.net # 0
  BY DEF QueueUnknown, At
<1>3. Done(Stage(Queue(work, ref, NULL), Current, <<"review", ref>>))
  BY <1>1 DEF QueueUnknown
<1>4. \A store : /\ Kept(store, ref) => SettledRow(store, Head1) /\ ToldRow(store, Head1)
                 /\ SettledRow(store, Head1) => Kept(store, ref)
  BY <1>1, <1>2 DEF SettledRow, ToldRow
<1>5. \A store : /\ Settled(store, Rows, Current) = SettledRow(store, Head1)
                 /\ ToldRow(store, Head1) => Told(store, running.doc, Rows, Current)
  BY <1>2, RowIs
<1>6. ASSUME Referenced(Rows) PROVE ref # NULL
  <2>1. /\ Min(Current) \in DOMAIN Rows /\ Rows[Min(Current)] = Head1
        /\ GroupIn(Rows, Min(Current)) = Current /\ Current = {Min(Current)}
        /\ DOMAIN Rows \subseteq Nat /\ FieldsOf(Head1)
    BY <1>2, AtGroup, ReportRows DEF Report
  <2>2. TxnOf(Rows, Current) # NULL
    BY <1>2, <1>6, <2>1, ReferencedIs
  <2>3. TxnOf(Rows, Current) = Head1.txn
    BY <2>1, SingleTxn
  <2> QED  BY <1>1, <2>1, <2>2, <2>3, RowRefIs
<1>7. Handled(running.doc, running.export, work, Queue(work, ref, NULL), Current, read)
  BY <1>2, <1>4, <1>5, <1>6, QueueHandled
<1> QED  BY <1>2, <1>3, <1>7, HandledDone

LEMMA BookOrderStep ==
  ASSUME JInv, IInv', BookOrder
  PROVE  JInv'
<1>1. PICK key : key = KeyOf(Head1)
  OBVIOUS
<1>2. PICK mid : mid = Flagged
  OBVIOUS
<1>3. PICK new : new = Post(mid, key)
  OBVIOUS
<1>4. /\ At("Order") /\ running # NULL /\ running.left # {} /\ Head1.type = "Order"
      /\ Mergeable(Rows, Current) /\ key \notin work.marked /\ Head1 = Rows[Min(Current)]
      /\ InDollars(Rows, Current) /\ Reconciles(Rows, Current) /\ Consigned(Rows, Current) = {}
  BY <1>1 DEF BookOrder, Reconciled, OrderPassed, At, AlreadyPosted, Head1
<1>5. Done(Stage(new, Current, <<"entry", key>>))
  BY <1>1, <1>2, <1>3 DEF BookOrder
<1>6. /\ Moved(running.doc, work, mid) /\ mid.raw = work.raw /\ mid.sales = work.sales
      /\ Shaped(mid) /\ Shaped(work) /\ SalesFrom(work, read \cup {Report})
  BY <1>2, <1>4, AtGroup, FlaggedMoves
<1>7. /\ Moved(running.doc, mid, new) /\ new.raw = mid.raw /\ new.sales = mid.sales
      /\ key \in new.marked
  BY <1>3, <1>6, PostMoves
<1>8. Moved(running.doc, work, new)
  BY <1>6, <1>7, MovedFurther
<1>9. SettledOrder(new, Rows, Current) /\ ToldOrder(new, Rows, Current)
  BY <1>1, <1>4, <1>7 DEF SettledOrder, ToldOrder
<1>10. Settled(new, Rows, Current) /\ Told(new, running.doc, Rows, Current)
  BY <1>4, <1>9, OrderIs
<1>11. ~SettledOrder(work, Rows, Current)
  BY <1>1, <1>4 DEF SettledOrder
<1>12. NoNews(new)
  BY <1>4, <1>11, OrderIs DEF NoNews
<1>13. SalesFrom(new, read \cup {Report})
  BY <1>6, <1>7 DEF SalesFrom
<1>14. Handled(running.doc, running.export, work, new, Current, read)
  BY <1>4, <1>6, <1>7, <1>8, <1>10, <1>12, <1>13, HandledBy
<1> QED  BY <1>4, <1>5, <1>14, HandledDone

LEMMA BookRowStep ==
  ASSUME JInv, IInv', BookRow
  PROVE  JInv'
<1>1. PICK key : key = KeyOf(Head1)
  OBVIOUS
<1>2. PICK new : new = Post(work, key)
  OBVIOUS
<1>3. /\ running # NULL /\ running.left # {} /\ Head1.type \in {"Refund", "Other fee"}
      /\ Head1.type = "Other fee" => Head1.net # 0
      /\ Head1.usd /\ key \notin work.marked
  BY <1>1 DEF BookRow, At, AlreadyPosted
<1>4. Done(Stage(new, Current, <<"entry", key>>))
  BY <1>1, <1>2 DEF BookRow
<1>5. Shaped(work) /\ SalesFrom(work, read \cup {Report})
  BY <1>3, AtGroup
<1>6. /\ Moved(running.doc, work, new) /\ new.raw = work.raw /\ new.sales = work.sales
      /\ key \in new.marked
  BY <1>2, <1>5, PostMoves
<1>7. SettledRow(new, Head1) /\ ToldRow(new, Head1) /\ ~SettledRow(work, Head1) /\ Head1.type # "Order"
  BY <1>1, <1>3, <1>6 DEF SettledRow, ToldRow
<1>8. Settled(new, Rows, Current) /\ Told(new, running.doc, Rows, Current) /\ ~Settled(work, Rows, Current)
  BY <1>3, <1>7, RowIs
<1>9. NoNews(new)
  BY <1>8 DEF NoNews
<1>10. SalesFrom(new, read \cup {Report})
  BY <1>5, <1>6 DEF SalesFrom
<1>11. Handled(running.doc, running.export, work, new, Current, read)
  BY <1>3, <1>6, <1>8, <1>9, <1>10, HandledBy
<1> QED  BY <1>3, <1>4, <1>11, HandledDone

LEMMA RecordPayoutStep ==
  ASSUME JInv, IInv', RecordPayout
  PROVE  JInv'
<1>1. running # NULL /\ running.left # {} /\ Head1.type = "Payout"
  BY DEF RecordPayout, At
<1>2. \A store : /\ Settled(store, Rows, Current) = SettledRow(store, Head1)
                 /\ ToldRow(store, Head1) => Told(store, running.doc, Rows, Current)
  BY <1>1, RowIs
<1>3. CASE Head1.ref = NULL \/ Head1.net = 0
  <2>1. Done(Stage(work, Current, NULL))
    BY <1>3 DEF RecordPayout
  <2>2. SettledRow(work, Head1) /\ ToldRow(work, Head1)
    BY <1>1, <1>3 DEF SettledRow, ToldRow
  <2>3. Handled(running.doc, running.export, work, work, Current, read)
    BY <1>1, <1>2, <2>2, LeftHandled
  <2> QED  BY <1>1, <2>1, <2>3, HandledDone
<1>4. CASE ~(Head1.ref = NULL \/ Head1.net = 0)
  <2>1. PICK ref : ref = Head1.ref
    OBVIOUS
  <2>2. PICK new : new = [work EXCEPT !.payouts = @ \cup {ref}]
    OBVIOUS
  <2>3. Done(Stage(new, Current, NULL))
    BY <1>4, <2>1, <2>2 DEF RecordPayout
  <2>4. Shaped(work) /\ SalesFrom(work, read \cup {Report})
    BY <1>1, AtGroup
  <2>5. /\ Moved(running.doc, work, new) /\ new.raw = work.raw
        /\ new.payouts = work.payouts \cup {ref} /\ new.loose = work.loose /\ new.sales = work.sales
        /\ ref \in work.payouts => Same(work, new)
    BY <2>2, <2>4, PayoutMoves
  <2>6. SettledRow(new, Head1) /\ ToldRow(new, Head1) /\ (SettledRow(work, Head1) => ref \in work.payouts)
    BY <1>1, <1>4, <2>1, <2>5 DEF SettledRow, ToldRow
  <2>7. NoNews(new)
    BY <1>2, <2>5, <2>6 DEF NoNews
  <2>8. SalesFrom(new, read \cup {Report})
    BY <2>4, <2>5 DEF SalesFrom
  <2>9. Handled(running.doc, running.export, work, new, Current, read)
    BY <1>1, <1>2, <2>5, <2>6, <2>7, <2>8, HandledBy
  <2> QED  BY <1>1, <2>3, <2>9, HandledDone
<1> QED  BY <1>3, <1>4

LEMMA WarnRowStep ==
  ASSUME JInv, IInv', RefuseRow \/ WarnUnknown
  PROVE  JInv'
<1>1. /\ running # NULL /\ running.left # {} /\ Head1.type \in {"Refund", "Other fee", "Adjustment"}
      /\ ~Head1.usd /\ Done(Stage(Warn(work, Current), Current, NULL))
  BY DEF RefuseRow, WarnUnknown, At
<1>2. SettledRow(work, Head1) /\ Head1.type # "Order"
  BY <1>1 DEF SettledRow
<1>3. Settled(work, Rows, Current)
  BY <1>1, <1>2, RowIs
<1>4. Moved(running.doc, work, work) /\ Same(work, work)
  BY <1>1, AtGroup, NotMoved
<1>5. NoNews(work)
  BY <1>4 DEF NoNews
<1>6. Handled(running.doc, running.export, work, Warn(work, Current), Current, read)
  BY <1>1, <1>3, <1>4, <1>5, WarnHandled
<1> QED  BY <1>1, <1>6, HandledDone

LEMMA RefuseConsignmentStep ==
  ASSUME JInv, IInv', RefuseConsignment
  PROVE  JInv'
<1>1. PICK ref : ref = RefOf(TxnOf(Rows, Current), "charity")
  OBVIOUS
<1>2. PICK mid : mid = Flagged
  OBVIOUS
<1>3. /\ At("Order") /\ running # NULL /\ running.left # {}
      /\ Mergeable(Rows, Current) /\ KeyOf(Rows[Min(Current)]) \notin work.marked
      /\ InDollars(Rows, Current) /\ Reconciles(Rows, Current) /\ Consigned(Rows, Current) # {}
      /\ Items(Rows, Current) \notin TierPrice
  BY DEF RefuseConsignment, Reconciled, OrderPassed, At, AlreadyPosted, Head1, TooDear
<1>4. Done(Stage(Warn(mid, Current), Current, NULL))
  BY <1>2 DEF RefuseConsignment
<1>5. /\ Moved(running.doc, work, mid) /\ mid.raw = work.raw /\ mid.sales = work.sales
      /\ Charity(Rows, Current) # 0 => Kept(mid, ref)
      /\ (Charity(Rows, Current) # 0 => Kept(work, ref)) => Same(work, mid)
      /\ Referenced(Rows) => mid.loose = work.loose
  BY <1>1, <1>2, <1>3, FlaggedMoves
<1>6. SettledOrder(mid, Rows, Current)
  BY <1>1, <1>3, <1>5 DEF SettledOrder
<1>7. SettledOrder(work, Rows, Current) => (Charity(Rows, Current) # 0 => Kept(work, ref))
  BY <1>1, <1>3 DEF SettledOrder
<1>8. NoNews(mid)
  BY <1>3, <1>5, <1>7, OrderIs DEF NoNews
<1>9. Settled(mid, Rows, Current)
  BY <1>3, <1>6, OrderIs
<1>10. Handled(running.doc, running.export, work, Warn(mid, Current), Current, read)
  BY <1>3, <1>5, <1>8, <1>9, WarnHandled
<1> QED  BY <1>3, <1>4, <1>10, HandledDone

\* A group that is taken for a consignment has a label on every line.
LEMMA GroupConsigned ==
  ASSUME NEW file, NEW g, IsFiniteSet(g), Mergeable(file, g), Consigned(file, g) # {}
  PROVE  \A i \in LinesIn(file, g) : file[i].label # NULL
<1>1. CASE Cardinality(g) = 1
  <2>1. PICK x : g = {x}
    BY <1>1, FS_Singleton
  <2>2. LinesIn(file, g) = {x}
    BY <1>1, <2>1 DEF LinesIn
  <2> QED  BY <2>2 DEF Consigned
<1>2. CASE Cardinality(g) # 1
  <2>1. Consigned(file, g) = LinesIn(file, g)
    BY <1>2 DEF Mergeable
  <2> QED  BY <2>1 DEF Consigned
<1> QED  BY <1>1, <1>2

LEMMA SaleFromReport ==
  ASSUME JInv, At("Order"), Mergeable(Rows, Current), Consigned(Rows, Current) # {}
  PROVE  FromConsigned(SaleRef(Rows, Current), Report)
<1>1. PICK file : file = Rows
  OBVIOUS
<1>2. PICK g : g = Current
  OBVIOUS
<1>3. running # NULL /\ running.left # {} /\ Head1.type = "Order"
  BY DEF At
<1>4. /\ file = File(Report[1], Report[2])
      /\ g # {} /\ g \subseteq DOMAIN file /\ IsFiniteSet(DOMAIN file)
      /\ g = {j \in DOMAIN file : file[j].type = "Order" /\ file[j].order = file[Min(g)].order}
  BY <1>1, <1>2, <1>3, AtGroup, ReportRows DEF Report
<1>5. SaleRef(file, g)[2] = file[Min(g)].order
  BY DEF SaleRef
<1>6. IsFiniteSet(g)
  BY <1>4, FS_Subset
<1>7. \A i \in LinesIn(file, g) : file[i].label # NULL
  BY <1>1, <1>2, <1>6, GroupConsigned
<1> QED  BY <1>1, <1>2, <1>4, <1>5, <1>7 DEF FromConsigned

LEMMA StageConsignmentStep ==
  ASSUME JInv, IInv', StageConsignment
  PROVE  JInv'
<1>1. PICK charity : charity = RefOf(TxnOf(Rows, Current), "charity")
  OBVIOUS
<1>2. PICK mid : mid = Flagged
  OBVIOUS
<1>3. PICK ref : ref = SaleRef(Rows, Current)
  OBVIOUS
<1>4. PICK new : new = [mid EXCEPT !.sales = @ \cup {ref}]
  OBVIOUS
<1>5. /\ At("Order") /\ running # NULL /\ running.left # {}
      /\ Mergeable(Rows, Current) /\ KeyOf(Rows[Min(Current)]) \notin work.marked
      /\ InDollars(Rows, Current) /\ Reconciles(Rows, Current) /\ Consigned(Rows, Current) # {}
      /\ Items(Rows, Current) \in TierPrice
  BY DEF StageConsignment, Reconciled, OrderPassed, At, AlreadyPosted, Head1, TooDear
<1>6. Done(Stage(new, Current, <<"sale", ref>>))
  BY <1>2, <1>3, <1>4 DEF StageConsignment
<1>7. /\ Moved(running.doc, work, mid) /\ mid.raw = work.raw /\ mid.sales = work.sales
      /\ Charity(Rows, Current) # 0 => Kept(mid, charity)
      /\ (Charity(Rows, Current) # 0 => Kept(work, charity)) => Same(work, mid)
      /\ Referenced(Rows) => mid.loose = work.loose
      /\ Shaped(mid) /\ Shaped(work) /\ SalesFrom(work, read \cup {Report})
  BY <1>1, <1>2, <1>5, FlaggedMoves, AtGroup
<1>8. /\ Moved(running.doc, mid, new) /\ new.raw = mid.raw /\ new.sales = mid.sales \cup {ref}
      /\ new.loose = mid.loose /\ new.queue = mid.queue
      /\ ref \in mid.sales => Same(mid, new)
  BY <1>4, <1>7, SaleMoves
<1>9. Moved(running.doc, work, new)
  BY <1>7, <1>8, MovedFurther
<1>10. Charity(Rows, Current) # 0 => Kept(new, charity)
  BY <1>7, <1>8 DEF Kept
<1>11. SettledOrder(new, Rows, Current) /\ ToldOrder(new, Rows, Current)
  BY <1>1, <1>3, <1>5, <1>8, <1>10 DEF SettledOrder, ToldOrder
<1>12. SettledOrder(work, Rows, Current) =>
         (Charity(Rows, Current) # 0 => Kept(work, charity)) /\ ref \in work.sales
  BY <1>1, <1>3, <1>5 DEF SettledOrder
<1>13. NoNews(new)
  <2>1. ASSUME Settled(work, Rows, Current) PROVE Same(work, new)
    <3>1. SettledOrder(work, Rows, Current)
      BY <1>5, <2>1, OrderIs
    <3>2. Same(work, mid) /\ Same(mid, new)
      BY <1>7, <1>8, <1>12, <3>1
    <3> QED  BY <3>2 DEF Same
  <2> QED  BY <1>7, <1>8, <2>1 DEF NoNews
<1>14. Settled(new, Rows, Current) /\ Told(new, running.doc, Rows, Current)
  BY <1>5, <1>11, OrderIs
<1>15. SalesFrom(new, read \cup {Report})
  <2>1. FromConsigned(ref, Report)
    BY <1>3, <1>5, SaleFromReport
  <2> QED  BY <1>7, <1>8, <2>1 DEF SalesFrom
<1>16. Handled(running.doc, running.export, work, new, Current, read)
  BY <1>5, <1>7, <1>8, <1>9, <1>13, <1>14, <1>15, HandledBy
<1> QED  BY <1>5, <1>6, <1>16, HandledDone

-----------------------------------------------------------------------------
(* The other steps, and the invariant.                                       *)

LEMMA InitJInv == Init => JInv
<1> SUFFICES ASSUME Init PROVE JInv
  OBVIOUS
<1>1. db = EmptyStore /\ work = db /\ running = NULL /\ read = {}
  BY DEF Init
<1>2. PICK store : store = EmptyStore
  OBVIOUS
<1>3. /\ DOMAIN store = Field /\ store.loose = 0 /\ store.sales = {}
      /\ store.raw = [d \in Document |-> <<>>] /\ store.warned = [d \in Document |-> {}]
      /\ store.export = [d \in Document |-> 0]
  BY <1>2 DEF EmptyStore, Field
<1>4. <<>> = [i \in DOMAIN <<>> |-> <<>>[i]]
  OBVIOUS
<1>5. Shaped(store)
  BY <1>3, <1>4 DEF Shaped
<1>6. SalesFrom(store, read)
  BY <1>3 DEF SalesFrom
<1>7. \A d \in Document : store.export[d] = 0
  BY <1>3
<1>8. IInv
  BY InitIInv
<1> QED  BY <1>1, <1>2, <1>5, <1>6, <1>7, <1>8 DEF JInv

LEMMA QuietJStep ==
  ASSUME JInv, IInv', UNCHANGED <<db, work, running, read>>
  PROVE  JInv'
BY DEF JInv

LEMMA GiveUpStep ==
  ASSUME JInv, IInv', GiveUp, UNCHANGED db
  PROVE  JInv'
BY DEF JInv, GiveUp

LEMMA BeginStep ==
  ASSUME JInv, IInv', NEW d \in Document, Begin(d)
  PROVE  JInv'
<1>1. PICK n : n = folder[d]
  OBVIOUS
<1>2. PICK named : named = IF folder[d] > 1 THEN {0} ELSE {}
  OBVIOUS
<1>3. PICK new : new = [db EXCEPT !.warned[d] = named]
  OBVIOUS
<1>4. PICK old : old = db
  OBVIOUS
<1>5. PICK R : R = read
  OBVIOUS
<1>6. /\ running' = [doc |-> d, export |-> n, left |-> DOMAIN File(d, n)]
      /\ db' = old /\ read' = R /\ work' = new /\ n > 0
  BY <1>1, <1>2, <1>3, <1>4, <1>5 DEF Begin
<1>7. Shaped(old) /\ SalesFrom(old, R)
  BY <1>4, <1>5 DEF JInv
<1>8. IsReport(<<d, n>>)
  <2>1. n \in Nat /\ n <= Len(Exports[d]) /\ n > 0
    BY <1>1, <1>6 DEF JInv, IInv
  <2>2. n \in DOMAIN Exports[d]
    BY <2>1, LengthIsNat
  <2> QED  BY <2>2 DEF IsReport
<1>9. /\ DOMAIN new = Field /\ new.loose = old.loose /\ new.raw = old.raw
      /\ new.marked = old.marked /\ new.booked = old.booked
      /\ new.queue = old.queue /\ new.sales = old.sales /\ new.payouts = old.payouts
      /\ new.export = old.export
      /\ new.warned = [old.warned EXCEPT ![d] = named]
  BY <1>3, <1>4, <1>7 DEF Shaped, Field
<1>10. DOMAIN old.warned = Document /\ old.loose \in Nat
  BY <1>7 DEF Shaped
<1>11. /\ new.warned = [e \in Document |-> new.warned[e]]
       /\ \A e \in Document \ {d} : new.warned[e] = old.warned[e]
  BY <1>9, <1>10
<1>12. Shaped(new)
  <2>1. /\ old.raw = [e \in Document |-> old.raw[e]]
        /\ \A e \in Document : old.raw[e] = [i \in DOMAIN old.raw[e] |-> old.raw[e][i]]
    BY <1>7 DEF Shaped
  <2> QED  BY <1>9, <1>10, <1>11, <2>1 DEF Shaped
<1>13. Grown(old, new) /\ Same(old, new)
  BY <1>9, <1>10 DEF Grown, Same
<1>14. SalesFrom(new, R \cup {<<d, n>>})
  BY <1>7, <1>9 DEF SalesFrom
<1>15. RunStands(d, n, DOMAIN File(d, n), old, new, R)
  BY <1>8, <1>9, <1>11, <1>13, <1>14 DEF RunStands, Processed, Explains
<1>16. running'.doc = d /\ running'.export = n /\ running'.left = DOMAIN File(d, n)
  BY <1>6
<1>17. (running # NULL => RunStands(running.doc, running.export, running.left, db, work, read))'
  BY <1>6, <1>15, <1>16
<1> QED  BY <1>4, <1>5, <1>6, <1>12, <1>17 DEF JInv

\* A commit notes the export in the store.
LEMMA ExportMoves ==
  ASSUME NEW old, Shaped(old), old.export \in [Document -> Nat], NEW d \in Document, NEW n,
         NEW new, new = [old EXCEPT !.export[d] = n]
  PROVE  /\ Shaped(new) /\ Grown(old, new) /\ Same(old, new) /\ new.loose = old.loose
         /\ new.warned = old.warned /\ new.sales = old.sales
         /\ new.export[d] = n /\ \A e \in Document \ {d} : new.export[e] = old.export[e]
<1>1. /\ DOMAIN new = Field /\ new.loose = old.loose /\ new.raw = old.raw
      /\ new.marked = old.marked /\ new.booked = old.booked /\ new.warned = old.warned
      /\ new.queue = old.queue /\ new.sales = old.sales /\ new.payouts = old.payouts
      /\ new.export = [old.export EXCEPT ![d] = n]
  BY DEF Shaped, Field
<1>2. old.loose \in Nat
  BY DEF Shaped
<1>3. Shaped(new)
  BY <1>1, <1>2, ShapedFields
<1>4. Grown(old, new) /\ Same(old, new)
  BY <1>1, <1>2 DEF Grown, Same
<1>5. new.export[d] = n /\ \A e \in Document \ {d} : new.export[e] = old.export[e]
  BY <1>1
<1> QED  BY <1>1, <1>3, <1>4, <1>5

LEMMA CommitStep ==
  ASSUME JInv, IInv', Commit
  PROVE  JInv'
<1>1. PICK d, n : d = running.doc /\ n = running.export
  OBVIOUS
<1>2. PICK old, cur : old = db /\ cur = work
  OBVIOUS
<1>3. PICK R : R = read
  OBVIOUS
<1>4. PICK new : new = [cur EXCEPT !.export[d] = n]
  OBVIOUS
<1>5. /\ running # NULL /\ running.left = {} /\ db' = new /\ work' = new
      /\ read' = R \cup {<<d, n>>} /\ running' = NULL
  BY <1>1, <1>2, <1>3, <1>4 DEF Commit
<1>6. RunStands(d, n, {}, old, cur, R)
  BY <1>1, <1>2, <1>3, <1>5 DEF JInv
<1>7. d \in Document /\ IsReport(<<d, n>>) /\ Grown(old, cur) /\ cur.export = old.export
  BY <1>6 DEF RunStands, IsReport
<1>8. Shaped(old) /\ Shaped(cur) /\ cur.export \in [Document -> Nat]
  BY <1>2 DEF JInv, IInv, Sound, Uploaded
<1>9. /\ Shaped(new) /\ Grown(cur, new) /\ new.loose = cur.loose
      /\ new.warned = cur.warned /\ new.sales = cur.sales
      /\ new.export[d] = n /\ \A e \in Document \ {d} : new.export[e] = cur.export[e]
  BY <1>4, <1>7, <1>8, ExportMoves
<1>10. old.loose \in Nat /\ cur.loose \in Nat /\ new.loose \in Nat
  BY <1>8, <1>9 DEF Shaped
<1>11. Grown(old, new)
  BY <1>7, <1>9, <1>10, GrownFurther
<1>12. ASSUME NEW v \in R \cup {<<d, n>>}
       PROVE  IsReport(v) /\ Processed(new, v, DOMAIN File(v[1], v[2]))
  <2>1. CASE v \in R
    <3>1. IsReport(v) /\ Processed(old, v, DOMAIN File(v[1], v[2]))
      BY <1>2, <1>3, <2>1 DEF JInv
    <3>2. v[1] \in Document
      BY <3>1 DEF IsReport
    <3> QED  BY <1>10, <1>11, <3>1, <3>2, ProcessedGrown
  <2>2. CASE v = <<d, n>>
    <3>1. DOMAIN File(d, n) \ {} = DOMAIN File(v[1], v[2]) /\ v[1] = d
      BY <2>2
    <3>2. Processed(cur, v, DOMAIN File(v[1], v[2]))
      BY <1>6, <2>2, <3>1 DEF RunStands
    <3>3. Processed(new, v, DOMAIN File(v[1], v[2]))
      BY <1>7, <1>9, <1>10, <3>1, <3>2, ProcessedGrown
    <3> QED  BY <1>7, <2>2, <3>3
  <2> QED  BY <2>1, <2>2
<1>13. ASSUME NEW e \in Document, new.export[e] # 0
       PROVE  Explains(new, e, new.export[e], DOMAIN File(e, new.export[e]))
  <2>1. CASE e = d
    <3>1. Explains(cur, d, n, DOMAIN File(d, n) \ {})
      BY <1>6 DEF RunStands
    <3>2. cur.warned[d] \subseteq new.warned[d]
      BY <1>9
    <3>3. Explains(new, d, n, DOMAIN File(d, n) \ {})
      BY <1>9, <1>10, <3>1, <3>2, ToldGrown DEF Explains
    <3> QED  BY <1>9, <2>1, <3>3 DEF Explains
  <2>2. CASE e # d
    <3>1. new.export[e] = old.export[e]
      BY <1>7, <1>9, <2>2
    <3>2. Explains(old, e, old.export[e], DOMAIN File(e, old.export[e]))
      BY <1>2, <1>13, <3>1 DEF JInv
    <3>3. old.warned[e] \subseteq new.warned[e]
      BY <1>6, <1>9, <2>2 DEF RunStands
    <3>4. Explains(new, e, old.export[e], DOMAIN File(e, old.export[e]))
      BY <1>10, <1>11, <3>2, <3>3, ToldGrown DEF Explains
    <3> QED  BY <3>1, <3>4
  <2> QED  BY <2>1, <2>2
<1>14. SalesFrom(new, R \cup {<<d, n>>})
  BY <1>6, <1>9 DEF RunStands, SalesFrom
<1> QED  BY <1>5, <1>9, <1>12, <1>13, <1>14 DEF JInv

LEMMA NextJInv == JInv /\ [Next]_vars => JInv'
<1> SUFFICES ASSUME JInv, [Next]_vars PROVE JInv'
  OBVIOUS
<1>1. IInv'
  BY NextIInv DEF JInv
<1>2. CASE UNCHANGED vars
  BY <1>1, <1>2, QuietJStep DEF vars
<1>3. CASE Human
  BY <1>1, <1>3, QuietJStep DEF Human, Upload, PublishRate
<1>4. ASSUME NEW d \in Document, Begin(d) PROVE JInv'
  BY <1>1, <1>4, BeginStep
<1>5. CASE OrderStep
  BY <1>1, <1>5, RefuseOrderStep, QueueMismatchStep, BookOrderStep, RefuseConsignmentStep,
     StageConsignmentStep DEF OrderStep
<1>6. CASE RowStep
  BY <1>1, <1>6, KnownRowStep, WarnRowStep, BookRowStep, RecordPayoutStep, SkipRowStep,
     QueueUnknownStep DEF RowStep
<1>7. CASE RateMissing \/ PostingRefused \/ Crash
  BY <1>1, <1>7, GiveUpStep DEF RateMissing, PostingRefused, Crash, GiveUp
<1>8. CASE Commit
  BY <1>1, <1>8, CommitStep
<1> QED  BY <1>2, <1>3, <1>4, <1>5, <1>6, <1>7, <1>8 DEF Next, Step

LEMMA JInvAlways == Spec => []JInv
BY InitJInv, NextJInv, PTL DEF Spec

-----------------------------------------------------------------------------

\* Every consignment sale in the books of consignments comes from an order of a
\* report that was read, all of whose lines were consigned.
THEOREM SaleIsAllConsignedAlways == Spec => []SaleIsAllConsigned
<1>1. JInv => SaleIsAllConsigned
  BY DEF JInv, SalesFrom, FromConsigned, SaleIsAllConsigned
<1> QED  BY <1>1, JInvAlways, PTL

LEMMA ToldIsExplained ==
  ASSUME JInv, NEW d \in Document, NEW n, IsReport(<<d, n>>), NEW i \in DOMAIN File(d, n),
         Told(db, d, File(d, n), GroupIn(File(d, n), i))
  PROVE  Explained(d, File(d, n), i)
<1>1. PICK file : file = File(d, n)
  OBVIOUS
<1>2. PICK g : g = GroupIn(file, i)
  OBVIOUS
<1>3. PICK row : row = file[i]
  OBVIOUS
<1>4. DOMAIN file \subseteq Nat /\ i \in DOMAIN file /\ FieldsOf(row)
  BY <1>1, <1>3, ReportRows
<1>5. /\ i \in g /\ g \subseteq DOMAIN file
      /\ row.type = "Order" => file[Min(g)].type = "Order" /\ file[Min(g)].order = row.order
      /\ row.type # "Order" => file[Min(g)] = row
  <2>1. i \in g /\ g \in SUBSET Nat /\ g \subseteq DOMAIN file
    BY <1>2, <1>4 DEF GroupIn
  <2>2. Min(g) \in g
    BY <2>1, MinIn
  <2> QED  BY <1>2, <1>3, <2>1, <2>2 DEF GroupIn
<1>6. Told(db, d, file, g)
  BY <1>1, <1>2
<1>7. \A key : key \in db.marked <=> key \in DOMAIN db.booked
  BY DEF JInv, IInv, Sound, Marked
<1>8. \A key \in db.marked : EntriesOf(db, key) = 1
  BY DEF JInv, IInv, Sound, Marked, EntriesOf
<1>9. ASSUME i \notin db.warned[d], row.type = "Order"
      PROVE  Explained(d, file, i)
  <2>1. ToldOrder(db, file, g)
    BY <1>5, <1>6, <1>9 DEF Told
  <2>2. CASE KeyOf(file[Min(g)]) \in db.marked
    <3>1. <<"Order", row.order>> \in DOMAIN db.booked
      BY <1>5, <1>7, <1>9, <2>2 DEF KeyOf
    <3>2. <<"entry", <<"Order", row.order>>>> \in Outcomes(row.order)
      BY <3>1 DEF Outcomes
    <3> QED  BY <1>3, <1>9, <3>2 DEF Explained
  <2>3. CASE Kept(db, RefOf(TxnOf(file, g), ""))
    <3>1. RefOf(TxnOf(file, g), "") = NULL <=> TxnOf(file, g) = NULL
      BY <1>1, <1>5, RefIs
    <3> QED  BY <1>2, <1>3, <1>9, <2>3, <3>1 DEF Explained, Kept
  <2>4. CASE SaleRef(file, g) \in db.sales
    <3>1. SaleRef(file, g)[2] = row.order
      BY <1>5, <1>9 DEF SaleRef
    <3>2. <<"sale", SaleRef(file, g)>> \in Outcomes(row.order)
      BY <2>4, <3>1 DEF Outcomes
    <3> QED  BY <1>3, <1>9, <3>2 DEF Explained
  <2> QED  BY <2>1, <2>2, <2>3, <2>4 DEF ToldOrder
<1>10. ASSUME i \notin db.warned[d], row.type # "Order"
       PROVE  Explained(d, file, i)
  <2>1. ToldRow(db, row)
    BY <1>5, <1>6, <1>10 DEF Told
  <2>2. row.type \in {"Refund", "Other fee", "Payout", "Hold", "Adjustment"}
    BY <1>4, <1>10 DEF FieldsOf
  <2>3. CASE row.type = "Refund"
    <3>1. EntriesOf(db, KeyOf(row)) = 1
      BY <1>8, <2>1, <2>3 DEF ToldRow
    <3>2. KeyOf(row) = <<"Refund", IF row.ref # NULL THEN row.ref ELSE row.order>>
      BY <2>3 DEF KeyOf
    <3> QED  BY <1>3, <2>3, <3>1, <3>2 DEF Explained
  <2>4. CASE row.type = "Other fee"
    <3>1. row.net = 0 \/ EntriesOf(db, KeyOf(row)) = 1
      BY <1>8, <2>1, <2>4 DEF ToldRow
    <3>2. KeyOf(row) = <<"Other fee", IF row.ref # NULL THEN row.ref
                                      ELSE <<row.order, row.date, row.net>>>>
      BY <2>4 DEF KeyOf
    <3> QED  BY <1>3, <2>4, <3>1, <3>2 DEF Explained
  <2>5. CASE row.type = "Payout" \/ row.type = "Hold"
    BY <1>3, <2>1, <2>5 DEF Explained, ToldRow
  <2>6. CASE row.type = "Adjustment"
    <3>1. RefOf(row.txn, "") = NULL <=> row.txn = NULL
      BY <1>4, RowRefIs
    <3> QED  BY <1>3, <2>1, <2>6, <3>1 DEF Explained, ToldRow, Kept
  <2> QED  BY <2>2, <2>3, <2>4, <2>5, <2>6
<1>11. i \in db.warned[d] => Explained(d, file, i)
  BY DEF Explained
<1> QED  BY <1>1, <1>9, <1>10, <1>11

\* Whatever the last committed sync of a month's document read is booked, flagged,
\* staged, recorded or warned about, whatever was read before it.
THEOREM EveryRowExplainedAlways == Spec => []EveryRowExplained
<1>1. ASSUME JInv PROVE EveryRowExplained
  <2>1. SUFFICES ASSUME NEW d \in Document, db.export[d] # 0, NEW i \in DOMAIN File(d, db.export[d])
                 PROVE  Explained(d, File(d, db.export[d]), i)
    BY DEF EveryRowExplained
  <2>2. Told(db, d, File(d, db.export[d]), GroupIn(File(d, db.export[d]), i))
    BY <1>1, <2>1 DEF JInv, Explains
  <2>3. IsReport(<<d, db.export[d]>>)
    <3>1. /\ db.export[d] \in Nat /\ db.export[d] <= folder[d] /\ folder[d] \in Nat
          /\ folder[d] <= Len(Exports[d])
      BY <1>1 DEF JInv, IInv, Sound, Uploaded
    <3>2. db.export[d] \in DOMAIN Exports[d]
      BY <2>1, <3>1, LengthIsNat
    <3> QED  BY <3>2 DEF IsReport
  <2> QED  BY <1>1, <2>2, <2>3, ToldIsExplained
<1> QED  BY <1>1, JInvAlways, PTL

\* Reading an export once more books, flags and stages nothing, but for the review
\* rows that carry no transaction ID.
THEOREM ResyncBooksNothingAlways == Spec => ResyncBooksNothing
<1>1. ASSUME JInv, [Next]_vars, running # NULL, running' = NULL, <<running.doc, running.export>> \in read
      PROVE  /\ db'.booked = db.booked /\ db'.queue = db.queue /\ db'.sales = db.sales
             /\ db'.payouts = db.payouts /\ db'.raw = db.raw
             /\ Referenced(Rows) => db'.loose = db.loose
  <2>1. CASE Commit
    <3>1. RunStands(running.doc, running.export, running.left, db, work, read)
      BY <1>1 DEF JInv
    <3>2. Same(db, work) /\ (Referenced(Rows) => work.loose = db.loose)
      BY <1>1, <3>1 DEF RunStands, Rows
    <3>3. Shaped(work)
      BY <1>1 DEF JInv
    <3>4. /\ db'.booked = work.booked /\ db'.queue = work.queue /\ db'.sales = work.sales
          /\ db'.payouts = work.payouts /\ db'.raw = work.raw /\ db'.loose = work.loose
      BY <2>1, <3>3 DEF Commit, Shaped, Field
    <3> QED  BY <3>2, <3>4 DEF Same
  <2>2. CASE ~Commit
    <3>1. db' = db
      BY <1>1, <2>2
      DEF Next, Human, Upload, PublishRate, Begin, Step, OrderStep, RowStep, RefuseOrder,
          QueueMismatch, BookOrder, RefuseConsignment, StageConsignment, KnownRow, RefuseRow,
          BookRow, RecordPayout, SkipRow, QueueUnknown, WarnUnknown, RateMissing,
          PostingRefused, Crash, GiveUp,
          Done, vars
    <3> QED  BY <3>1
  <2> QED  BY <2>1, <2>2
<1>2. ASSUME JInv, [Next]_vars
      PROVE  [ (running # NULL /\ running' = NULL /\ <<running.doc, running.export>> \in read) =>
                 /\ db'.booked = db.booked
                 /\ db'.queue = db.queue
                 /\ db'.sales = db.sales
                 /\ db'.payouts = db.payouts
                 /\ db'.raw = db.raw
                 /\ Referenced(Rows) => db'.loose = db.loose ]_vars
  BY <1>1, <1>2
<1> QED  BY <1>2, JInvAlways, PTL DEF Spec, ResyncBooksNothing

-----------------------------------------------------------------------------
(* What the rows of an order make of it.                                     *)

\* What becomes of an order with the rows it has in the report v.
OutcomeIn(order, v) ==
    LET file == File(v[1], v[2])
        g == GroupOf(order, v)
    IN  IF ~Reconciles(file, g) THEN <<"review", RefOf(TxnOf(file, g), "")>>
        ELSE IF Consigned(file, g) = {} THEN <<"entry", <<"Order", order>>>>
        ELSE <<"sale", SaleRef(file, g)>>

\* The sums of a group are sums of its rows in any order.
LEMMA GrossFold ==
  ASSUME NEW file, NEW K, IsFiniteSet(K)
  PROVE  MapThenSumSet(LAMBDA i : file[i].gross, K) = Total([i \in K |-> file[i].gross], K)
<1> DEFINE f == [i \in K |-> file[i].gross]
           Eq(k) == k = [s \in SUBSET K |-> IF s = {} THEN 0
                           ELSE file[CHOOSE x \in s : TRUE].gross + k[s \ {CHOOSE x \in s : TRUE}]]
<1>1. \A k : Sums(k, f, K) <=> Eq(k)
  <2>1. ASSUME NEW s \in SUBSET K, s # {}
        PROVE  f[Pick(s)] = file[CHOOSE x \in s : TRUE].gross
    BY <2>1 DEF Pick
  <2> HIDE DEF f
  <2> QED  BY <2>1 DEF Sums, Pick
<1>2. MapThenSumSet(LAMBDA i : file[i].gross, K) = (CHOOSE k : Eq(k))[K]
  BY DEF MapThenSumSet, MapThenFoldSet
<1> HIDE DEF Eq, f
<1>3. \E k : Eq(k)
  BY <1>1, SumsExists
<1>4. Sums(CHOOSE k : Eq(k), f, K)
  BY <1>1, <1>3
<1> QED  BY <1>2, <1>4, TotalIs DEF f

LEMMA ItemsFold ==
  ASSUME NEW file, NEW K, IsFiniteSet(K)
  PROVE  MapThenSumSet(LAMBDA i : file[i].items, K) = Total([i \in K |-> file[i].items], K)
<1> DEFINE f == [i \in K |-> file[i].items]
           Eq(k) == k = [s \in SUBSET K |-> IF s = {} THEN 0
                           ELSE file[CHOOSE x \in s : TRUE].items + k[s \ {CHOOSE x \in s : TRUE}]]
<1>1. \A k : Sums(k, f, K) <=> Eq(k)
  <2>1. ASSUME NEW s \in SUBSET K, s # {}
        PROVE  f[Pick(s)] = file[CHOOSE x \in s : TRUE].items
    BY <2>1 DEF Pick
  <2> HIDE DEF f
  <2> QED  BY <2>1 DEF Sums, Pick
<1>2. MapThenSumSet(LAMBDA i : file[i].items, K) = (CHOOSE k : Eq(k))[K]
  BY DEF MapThenSumSet, MapThenFoldSet
<1> HIDE DEF Eq, f
<1>3. \E k : Eq(k)
  BY <1>1, SumsExists
<1>4. Sums(CHOOSE k : Eq(k), f, K)
  BY <1>1, <1>3
<1> QED  BY <1>2, <1>4, TotalIs DEF f

LEMMA ShippingFold ==
  ASSUME NEW file, NEW K, IsFiniteSet(K)
  PROVE  MapThenSumSet(LAMBDA i : file[i].shipping, K) = Total([i \in K |-> file[i].shipping], K)
<1> DEFINE f == [i \in K |-> file[i].shipping]
           Eq(k) == k = [s \in SUBSET K |-> IF s = {} THEN 0
                           ELSE file[CHOOSE x \in s : TRUE].shipping + k[s \ {CHOOSE x \in s : TRUE}]]
<1>1. \A k : Sums(k, f, K) <=> Eq(k)
  <2>1. ASSUME NEW s \in SUBSET K, s # {}
        PROVE  f[Pick(s)] = file[CHOOSE x \in s : TRUE].shipping
    BY <2>1 DEF Pick
  <2> HIDE DEF f
  <2> QED  BY <2>1 DEF Sums, Pick
<1>2. MapThenSumSet(LAMBDA i : file[i].shipping, K) = (CHOOSE k : Eq(k))[K]
  BY DEF MapThenSumSet, MapThenFoldSet
<1> HIDE DEF Eq, f
<1>3. \E k : Eq(k)
  BY <1>1, SumsExists
<1>4. Sums(CHOOSE k : Eq(k), f, K)
  BY <1>1, <1>3
<1> QED  BY <1>2, <1>4, TotalIs DEF f

\* Two groups of rows are alike: h moves the rows of one to the other, in order.
Alike(file, g, other, k, h) ==
    /\ g # {} /\ g \subseteq Nat /\ IsFiniteSet(g) /\ k \subseteq Nat
    /\ \A i \in g : h[i] \in k /\ other[h[i]] = file[i]
    /\ \A j \in k : \E i \in g : h[i] = j
    /\ \A i, j \in g : i < j => h[i] < h[j]
    /\ \A i \in g : {file[i].gross, file[i].items, file[i].shipping} \subseteq Int

Moves(h, S) == {h[i] : i \in S}

LEMMA MovesApart ==
  ASSUME NEW file, NEW g, NEW other, NEW k, NEW h, Alike(file, g, other, k, h)
  PROVE  /\ \A i, j \in g : h[i] = h[j] => i = j
         /\ k = Moves(h, g)
<1>1. ASSUME NEW i \in g, NEW j \in g, h[i] = h[j] PROVE i = j
  <2>1. i \in Nat /\ j \in Nat /\ h[i] \in Nat /\ h[j] \in Nat
    BY DEF Alike
  <2>2. ~(i < j) /\ ~(j < i)
    BY <1>1, <2>1 DEF Alike
  <2> QED  BY <2>1, <2>2
<1>2. k = Moves(h, g)
  BY DEF Alike, Moves
<1> QED  BY <1>1, <1>2

LEMMA MovesSize ==
  ASSUME NEW file, NEW g, NEW other, NEW k, NEW h, Alike(file, g, other, k, h),
         NEW S \in SUBSET g
  PROVE  IsFiniteSet(Moves(h, S)) /\ Cardinality(Moves(h, S)) = Cardinality(S)
<1> DEFINE b == [i \in S |-> h[i]]
<1>1. IsFiniteSet(S)
  BY FS_Subset DEF Alike
<1>2. \A i, j \in S : b[i] = b[j] => i = j
  BY MovesApart
<1>3. b \in Bijection(S, Moves(h, S))
  BY <1>2 DEF Bijection, Injection, Surjection, IsInjective, Moves
<1> QED  BY <1>1, <1>3, FS_Bijection DEF ExistsBijection

\* The first of some rows is moved to the first of them.
LEMMA MovesMin ==
  ASSUME NEW file, NEW g, NEW other, NEW k, NEW h, Alike(file, g, other, k, h),
         NEW S \in SUBSET g, S # {}
  PROVE  Min(S) \in S /\ Min(Moves(h, S)) = h[Min(S)]
<1>1. S \in SUBSET Nat /\ Moves(h, S) \in SUBSET Nat /\ Moves(h, S) # {}
  <2>1. g \subseteq Nat /\ k \subseteq Nat /\ \A i \in g : h[i] \in k
    BY DEF Alike
  <2>2. \A i \in S : h[i] \in Nat
    BY <2>1
  <2> QED  BY <2>1, <2>2 DEF Moves
<1>2. PICK m \in S : m = Min(S) /\ \A x \in S : m <= x
  BY <1>1, MinIn
<1>3. PICK n \in Moves(h, S) : n = Min(Moves(h, S)) /\ \A x \in Moves(h, S) : n <= x
  BY <1>1, MinIn
<1>4. PICK i \in S : n = h[i]
  BY <1>3 DEF Moves
<1>5. h[m] \in Moves(h, S) /\ m \in Nat /\ i \in Nat /\ h[m] \in Nat /\ n \in Nat
  BY <1>1, <1>2, <1>4 DEF Alike, Moves
<1>6. n <= h[m] /\ m <= i
  BY <1>2, <1>3, <1>5
<1>7. m < i => h[m] < n
  BY <1>4 DEF Alike
<1>8. i = m
  BY <1>5, <1>6, <1>7
<1> QED  BY <1>2, <1>3, <1>4, <1>8

LEMMA MovesLines ==
  ASSUME NEW file, NEW g, NEW other, NEW k, NEW h, Alike(file, g, other, k, h)
  PROVE  LinesIn(other, k) = Moves(h, LinesIn(file, g)) /\ LinesIn(file, g) \subseteq g
<1>1. k = Moves(h, g) /\ Cardinality(k) = Cardinality(g)
  BY MovesApart, MovesSize
<1>2. \A i \in g : other[h[i]] = file[i]
  BY DEF Alike
<1>3. {j \in k : other[j].gross = 0} = Moves(h, {i \in g : file[i].gross = 0})
  BY <1>1, <1>2 DEF Moves
<1> QED  BY <1>1, <1>3 DEF LinesIn

LEMMA MovesConsigned ==
  ASSUME NEW file, NEW g, NEW other, NEW k, NEW h, Alike(file, g, other, k, h)
  PROVE  /\ Consigned(other, k) = Moves(h, Consigned(file, g)) /\ Consigned(file, g) \subseteq g
         /\ Consigned(other, k) = {} <=> Consigned(file, g) = {}
<1>1. PICK L \in SUBSET g : L = LinesIn(file, g) /\ LinesIn(other, k) = Moves(h, L)
  BY MovesLines
<1>2. \A i \in L : other[h[i]] = file[i]
  BY DEF Alike
<1>3. {j \in Moves(h, L) : other[j].label # NULL} = Moves(h, {i \in L : file[i].label # NULL})
  BY <1>2 DEF Moves
<1>4. Consigned(other, k) = Moves(h, Consigned(file, g)) /\ Consigned(file, g) \subseteq g
  BY <1>1, <1>3 DEF Consigned
<1> QED  BY <1>4 DEF Moves

LEMMA MovesReconciles ==
  ASSUME NEW file, NEW g, NEW other, NEW k, NEW h, Alike(file, g, other, k, h)
  PROVE  Reconciles(other, k) <=> Reconciles(file, g)
<1>1. k = Moves(h, g) /\ \A i, j \in g : h[i] = h[j] => i = j
  BY MovesApart
<1>2. PICK L \in SUBSET g : L = LinesIn(file, g) /\ LinesIn(other, k) = Moves(h, L)
  BY MovesLines
<1>3. IsFiniteSet(g) /\ IsFiniteSet(L) /\ IsFiniteSet(Moves(h, g)) /\ IsFiniteSet(Moves(h, L))
  <2>1. IsFiniteSet(g)
    BY DEF Alike
  <2> QED  BY <2>1, MovesSize, FS_Subset
<1>4. Gross(other, k) = Gross(file, g)
  <2> DEFINE f == [i \in g |-> file[i].gross]
             e == [j \in Moves(h, g) |-> other[j].gross]
  <2>1. Gross(file, g) = Total(f, g) /\ Gross(other, k) = Total(e, Moves(h, g))
    BY <1>1, <1>3, GrossFold DEF Gross
  <2>2. \A i \in g : f[i] \in Int /\ e[h[i]] = f[i]
    BY DEF Alike, Moves
  <2> HIDE DEF f, e
  <2>3. Total(e, {h[i] : i \in g}) = Total(f, g)
    BY <1>1, <1>3, <2>2, TotalRenamed
  <2> QED  BY <2>1, <2>3 DEF Moves
<1>5. Items(other, k) = Items(file, g)
  <2> DEFINE f == [i \in L |-> file[i].items]
             e == [j \in Moves(h, L) |-> other[j].items]
  <2>1. Items(file, g) = Total(f, L) /\ Items(other, k) = Total(e, Moves(h, L))
    BY <1>2, <1>3, ItemsFold DEF Items
  <2>2. \A i \in L : f[i] \in Int /\ e[h[i]] = f[i]
    BY DEF Alike, Moves
  <2>4. \A i, j \in L : h[i] = h[j] => i = j
    BY <1>1
  <2> HIDE DEF f, e
  <2>3. Total(e, {h[i] : i \in L}) = Total(f, L)
    BY <1>3, <2>2, <2>4, TotalRenamed
  <2> QED  BY <2>1, <2>3 DEF Moves
<1>6. Shipping(other, k) = Shipping(file, g)
  <2> DEFINE f == [i \in L |-> file[i].shipping]
             e == [j \in Moves(h, L) |-> other[j].shipping]
  <2>1. Shipping(file, g) = Total(f, L) /\ Shipping(other, k) = Total(e, Moves(h, L))
    BY <1>2, <1>3, ShippingFold DEF Shipping
  <2>2. \A i \in L : f[i] \in Int /\ e[h[i]] = f[i]
    BY DEF Alike, Moves
  <2>4. \A i, j \in L : h[i] = h[j] => i = j
    BY <1>1
  <2> HIDE DEF f, e
  <2>3. Total(e, {h[i] : i \in L}) = Total(f, L)
    BY <1>3, <2>2, <2>4, TotalRenamed
  <2> QED  BY <2>1, <2>3 DEF Moves
<1> QED  BY <1>4, <1>5, <1>6 DEF Reconciles

LEMMA MovesTxn ==
  ASSUME NEW file, NEW g, NEW other, NEW k, NEW h, Alike(file, g, other, k, h)
  PROVE  TxnOf(other, k) = TxnOf(file, g)
<1>1. k = Moves(h, g)
  BY MovesApart
<1>6. \A i \in g : other[h[i]] = file[i]
  BY DEF Alike
<1>2. PICK S \in SUBSET g : S = {i \in g : file[i].txn # NULL}
  OBVIOUS
<1>3. {j \in k : other[j].txn # NULL} = Moves(h, S)
  BY <1>1, <1>2, <1>6 DEF Moves
<1>4. CASE S = {}
  <2>1. Moves(h, S) = {}
    BY <1>4 DEF Moves
  <2> QED  BY <1>2, <1>3, <1>4, <2>1 DEF TxnOf
<1>5. CASE S # {}
  <2>1. Min(S) \in S /\ Min(Moves(h, S)) = h[Min(S)] /\ Moves(h, S) # {}
    BY <1>5, MovesMin DEF Moves
  <2>2. TxnOf(other, k) = other[Min(Moves(h, S))].txn
    BY <1>3, <2>1 DEF TxnOf
  <2>3. TxnOf(file, g) = file[Min(S)].txn
    BY <1>2, <1>5 DEF TxnOf
  <2> QED  BY <1>6, <2>1, <2>2, <2>3
<1> QED  BY <1>4, <1>5

LEMMA MovesSale ==
  ASSUME NEW file, NEW g, NEW other, NEW k, NEW h, Alike(file, g, other, k, h),
         Consigned(file, g) # {}
  PROVE  SaleRef(other, k) = SaleRef(file, g)
<1>1. k = Moves(h, g)
  BY MovesApart
<1>5. g # {} /\ \A i \in g : other[h[i]] = file[i]
  BY DEF Alike
<1>2. PICK S \in SUBSET g : S = Consigned(file, g) /\ S # {} /\ Consigned(other, k) = Moves(h, S)
  BY MovesConsigned
<1>3. Min(S) \in S /\ Min(Moves(h, S)) = h[Min(S)]
  BY <1>2, MovesMin
<1>4. Min(g) \in g /\ Min(k) = h[Min(g)]
  BY <1>1, <1>5, MovesMin
<1> QED  BY <1>2, <1>3, <1>4, <1>5 DEF SaleRef

\* The outcome of an order is a matter of its rows alone.
LEMMA OutcomeOfRows ==
  ASSUME NEW order, NEW v, NEW w, IsReport(v), IsReport(w), GroupOf(order, v) # {}, SameRows(order, v, w)
  PROVE  OutcomeIn(order, w) = OutcomeIn(order, v)
<1>1. PICK file, other : file = File(v[1], v[2]) /\ other = File(w[1], w[2])
  OBVIOUS
<1>2. PICK g, k : g = GroupOf(order, v) /\ k = GroupOf(order, w)
  OBVIOUS
<1>3. /\ g \subseteq DOMAIN file /\ k \subseteq DOMAIN other
      /\ DOMAIN file \subseteq Nat /\ IsFiniteSet(DOMAIN file) /\ DOMAIN other \subseteq Nat
      /\ \A i \in DOMAIN file : FieldsOf(file[i])
  <2>1. IsReport(<<v[1], v[2]>>) /\ IsReport(<<w[1], w[2]>>)
    BY DEF IsReport
  <2> QED  BY <1>1, <1>2, <2>1, ReportRows DEF GroupOf
<1>4. PICK h \in [g -> k] : /\ \A i \in g : other[h[i]] = file[i]
                            /\ \A j \in k : \E i \in g : h[i] = j
                            /\ \A i, j \in g : i < j => h[i] < h[j]
  BY <1>1, <1>2 DEF SameRows
<1>5. IsFiniteSet(g)
  BY <1>3, FS_Subset
<1>6. \A i \in g : {file[i].gross, file[i].items, file[i].shipping} \subseteq Int
  BY <1>3 DEF FieldsOf
<1>7. Alike(file, g, other, k, h)
  BY <1>2, <1>3, <1>4, <1>5, <1>6 DEF Alike
<1>8. /\ Reconciles(other, k) <=> Reconciles(file, g)
      /\ TxnOf(other, k) = TxnOf(file, g)
      /\ Consigned(other, k) = {} <=> Consigned(file, g) = {}
      /\ Consigned(file, g) # {} => SaleRef(other, k) = SaleRef(file, g)
  BY <1>7, MovesReconciles, MovesTxn, MovesConsigned, MovesSale
<1> QED  BY <1>1, <1>2, <1>8 DEF OutcomeIn

-----------------------------------------------------------------------------
(* Where entries, review rows and sales come from.                           *)

Made(order, v, outcome) == GroupOf(order, v) # {} /\ outcome = OutcomeIn(order, v)

\* Every key marked is that of a row in a report of R, and every outcome of an order
\* in the store is that of its rows in one.
Traced(store, R) ==
    /\ \A key \in store.marked : \E v \in R : key \in KeysOf(v)
    /\ \A o : <<"Order", o>> \in store.marked =>
                \E v \in R : Made(o, v, <<"entry", <<"Order", o>>>>)
    /\ \A r \in store.queue : r.order # NULL =>
                \E v \in R : Made(r.order, v, <<"review", r.ref>>)
    /\ \A ref \in store.sales : \E v \in R : Made(ref[2], v, <<"sale", ref>>)

\* The invariant of OneOutcome.
OInv ==
    /\ JInv
    /\ Traced(db, read)
    /\ running # NULL => Traced(work, read \cup {Report})

LEMMA TracedSame ==
  ASSUME NEW old, NEW new, NEW R, NEW S, R \subseteq S, Traced(old, R),
         new.marked = old.marked, new.queue = old.queue, new.sales = old.sales
  PROVE  Traced(new, S)
BY DEF Traced

LEMMA TracedQueue ==
  ASSUME NEW store, Shaped(store), NEW R, Traced(store, R), NEW ref, NEW order,
         order = NULL \/ \E v \in R : Made(order, v, <<"review", ref>>)
  PROVE  Traced(Queue(store, ref, order), R)
<1>1. PICK new : new = Queue(store, ref, order)
  OBVIOUS
<1>2. /\ new.marked = store.marked /\ new.sales = store.sales
      /\ new.queue \subseteq store.queue \cup {[ref |-> ref, order |-> order]}
  BY <1>1 DEF Queue, Shaped, Field
<1>3. \A r \in new.queue : r.order # NULL => \E v \in R : Made(r.order, v, <<"review", r.ref>>)
  <2>1. ASSUME NEW r \in new.queue, r.order # NULL, r \notin store.queue
        PROVE  \E v \in R : Made(r.order, v, <<"review", r.ref>>)
    <3>1. r = [ref |-> ref, order |-> order]
      BY <1>2, <2>1
    <3>2. r.ref = ref /\ r.order = order
      BY <3>1
    <3> QED  BY <2>1, <3>2
  <2> QED  BY <2>1 DEF Traced
<1> QED  BY <1>1, <1>2, <1>3 DEF Traced

LEMMA TracedPost ==
  ASSUME NEW store, Shaped(store), NEW R, Traced(store, R), NEW key,
         \E v \in R : key \in KeysOf(v),
         \A o : key = <<"Order", o>> => \E v \in R : Made(o, v, <<"entry", key>>)
  PROVE  Traced(Post(store, key), R)
<1>1. PICK new : new = Post(store, key)
  OBVIOUS
<1>2. /\ new.queue = store.queue /\ new.sales = store.sales
      /\ new.marked = store.marked \cup {key}
  BY <1>1 DEF Post, Shaped, Field
<1> QED  BY <1>1, <1>2 DEF Traced

LEMMA TracedSale ==
  ASSUME NEW store, Shaped(store), NEW R, Traced(store, R), NEW ref,
         \E v \in R : Made(ref[2], v, <<"sale", ref>>)
  PROVE  Traced([store EXCEPT !.sales = @ \cup {ref}], R)
<1>1. PICK new : new = [store EXCEPT !.sales = @ \cup {ref}]
  OBVIOUS
<1>2. /\ new.queue = store.queue /\ new.sales = store.sales \cup {ref}
      /\ new.marked = store.marked
  BY <1>1 DEF Shaped, Field
<1> QED  BY <1>1, <1>2 DEF Traced

\* A group that is staged leaves the invariant, if what became of it is traced.
LEMMA TracedDone ==
  ASSUME OInv, JInv', running # NULL, NEW store, Shaped(store), NEW link,
         Traced(store, read \cup {Report}),
         \/ Done(Stage(store, Current, link))
         \/ Done(Stage(Warn(store, Current), Current, link))
  PROVE  OInv'
<1>1. PICK new : new = work' /\ \/ new = Stage(store, Current, link)
                                \/ new = Stage(Warn(store, Current), Current, link)
  BY DEF Done
<1>2. new.marked = store.marked /\ new.queue = store.queue /\ new.sales = store.sales
  <2>1. PICK mid : mid \in {store, Warn(store, Current)} /\ new = Stage(mid, Current, link)
    BY <1>1
  <2>2. /\ DOMAIN mid = Field /\ mid.marked = store.marked /\ mid.queue = store.queue
        /\ mid.sales = store.sales
    BY <2>1 DEF Warn, Shaped, Field
  <2>3. new.marked = mid.marked /\ new.queue = mid.queue /\ new.sales = mid.sales
    BY <2>1, <2>2 DEF Stage, Field
  <2> QED  BY <2>2, <2>3
<1>3. PICK R, v : R = read /\ v = Report
  OBVIOUS
<1>4. Traced(new, R \cup {v})
  BY <1>2, <1>3, TracedSame
<1>5. running \in Reading
  BY DEF OInv, JInv, IInv
<1>6. running' = [running EXCEPT !.left = @ \ Current] /\ db' = db /\ read' = read
  BY DEF Done
<1>7. running'.doc = running.doc /\ running'.export = running.export
  BY <1>5, <1>6 DEF Reading
<1>8. Report' = v
  BY <1>3, <1>7 DEF Report
<1>9. PICK d : d = db
  OBVIOUS
<1>10. Traced(d, R) /\ db' = d /\ work' = new /\ read' = R
  BY <1>1, <1>3, <1>6, <1>9 DEF OInv
<1> QED  BY <1>4, <1>8, <1>10 DEF OInv

\* The group of an order is that of its rows.
LEMMA OrderGroup ==
  ASSUME OInv, At("Order")
  PROVE  /\ GroupOf(Head1.order, Report) = Current /\ Current # {}
         /\ File(Report[1], Report[2]) = Rows
         /\ running # NULL /\ Shaped(work) /\ Traced(work, read \cup {Report})
         /\ KeyOf(Head1) = <<"Order", Head1.order>>
<1>1. running # NULL /\ running.left # {} /\ Head1.type = "Order" /\ JInv
  BY DEF At, OInv
<1>2. /\ Current # {} /\ Shaped(work) /\ Rows = File(running.doc, running.export)
      /\ Current = {j \in DOMAIN Rows : Rows[j].type = "Order" /\ Rows[j].order = Head1.order}
  BY <1>1, AtGroup
<1>3. File(Report[1], Report[2]) = Rows
  BY <1>2 DEF Report
<1>4. GroupOf(Head1.order, Report) = Current
  BY <1>2, <1>3 DEF GroupOf
<1>5. KeyOf(Head1) = <<"Order", Head1.order>>
  BY <1>1 DEF KeyOf
<1> QED  BY <1>1, <1>2, <1>3, <1>4, <1>5 DEF OInv

\* The row that names the group has its key among those of the report.
LEMMA HeadKey ==
  ASSUME JInv, running # NULL, running.left # {}, Head1.type \in {"Order", "Refund", "Other fee"}
  PROVE  KeyOf(Head1) \in KeysOf(Report)
<1>1. PICK i, file : i = Min(Current) /\ file = Rows
  OBVIOUS
<1>2. i \in DOMAIN file /\ file[i] = Head1 /\ File(Report[1], Report[2]) = file
  BY <1>1, AtGroup DEF Report
<1>3. Head1 \in {file[j] : j \in {j \in DOMAIN file : file[j].type \in {"Order", "Refund", "Other fee"}}}
  BY <1>2
<1> QED  BY <1>2, <1>3 DEF KeysOf

LEMMA TracedFlagged ==
  ASSUME OInv, At("Order")
  PROVE  Traced(Flagged, read \cup {Report}) /\ Shaped(Flagged)
<1>1. Traced(work, read \cup {Report}) /\ Shaped(work)
  BY OrderGroup
<1>2. Shaped(Flagged)
  BY FlaggedMoves DEF OInv
<1>3. PICK R : R = read \cup {Report}
  OBVIOUS
<1>4. PICK ref : ref = RefOf(TxnOf(Rows, Current), "charity")
  OBVIOUS
<1>5. Traced(Queue(work, ref, NULL), R)
  BY <1>1, <1>3, TracedQueue
<1> QED  BY <1>1, <1>2, <1>3, <1>4, <1>5 DEF Flagged

LEMMA QuietOStep ==
  ASSUME OInv, JInv', running # NULL, NEW store, Shaped(store), NEW link,
         store.marked = work.marked, store.queue = work.queue, store.sales = work.sales,
         \/ Done(Stage(store, Current, link))
         \/ Done(Stage(Warn(store, Current), Current, link))
  PROVE  OInv'
<1>1. PICK R, old : R = read \cup {Report} /\ old = work
  OBVIOUS
<1>2. Traced(old, R)
  BY <1>1 DEF OInv
<1>3. Traced(store, R)
  BY <1>1, <1>2, TracedSame
<1> QED  BY <1>1, <1>3, TracedDone

LEMMA OrderOStep ==
  ASSUME OInv, JInv', OrderStep
  PROVE  OInv'
<1>1. running # NULL /\ At("Order") /\ Shaped(work) /\ Traced(work, read \cup {Report})
  <2>1. At("Order")
    BY DEF OrderStep, RefuseOrder, QueueMismatch, BookOrder, RefuseConsignment, StageConsignment,
           Reconciled, OrderPassed
  <2> QED  BY <2>1, OrderGroup
<1>2. PICK order, v, R : order = Head1.order /\ v = Report /\ R = read \cup {v}
  OBVIOUS
<1>3. PICK g, file : g = Current /\ file = Rows
  OBVIOUS
<1>4. /\ GroupOf(order, v) = g /\ g # {} /\ File(v[1], v[2]) = file
      /\ KeyOf(Head1) = <<"Order", order>> /\ file[Min(g)].order = order
  BY <1>1, <1>2, <1>3, OrderGroup DEF Head1
<1>5. Traced(Flagged, R) /\ Shaped(Flagged) /\ Traced(work, R) /\ v \in R
  BY <1>1, <1>2, TracedFlagged
<1>6. CASE RefuseOrder
  BY <1>1, <1>6, QuietOStep DEF RefuseOrder
<1>7. CASE QueueMismatch
  <2>1. PICK ref : ref = RefOf(TxnOf(file, g), "")
    OBVIOUS
  <2>2. PICK new : new = Queue(work, ref, order)
    OBVIOUS
  <2>3. ~Reconciles(file, g) /\ Done(Stage(new, Current, <<"review", ref>>))
    BY <1>2, <1>3, <1>7, <2>1, <2>2 DEF QueueMismatch
  <2>4. Made(order, v, <<"review", ref>>)
    BY <1>4, <2>1, <2>3 DEF Made, OutcomeIn
  <2>5. Traced(new, R)
    BY <1>1, <1>5, <2>2, <2>4, TracedQueue
  <2>6. Shaped(new)
    <3>1. PICK d \in Document : d = running.doc
      BY <1>1, AtGroup DEF OInv, At
    <3> QED  BY <1>1, <2>2, <3>1, QueueMoves DEF Moved
  <2> QED  BY <1>1, <1>2, <2>3, <2>5, <2>6, TracedDone
<1>8. CASE BookOrder
  <2>1. PICK key, mid : key = <<"Order", order>> /\ mid = Flagged
    OBVIOUS
  <2>2. PICK new : new = Post(mid, key)
    OBVIOUS
  <2>3. /\ Reconciles(file, g) /\ Consigned(file, g) = {}
        /\ Done(Stage(new, Current, <<"entry", key>>))
    BY <1>2, <1>3, <1>4, <1>8, <2>1, <2>2 DEF BookOrder, Reconciled
  <2>4. Made(order, v, <<"entry", key>>)
    BY <1>4, <2>1, <2>3 DEF Made, OutcomeIn
  <2>5. /\ \A o : key = <<"Order", o>> => \E u \in R : Made(o, u, <<"entry", key>>)
        /\ \E u \in R : key \in KeysOf(u)
    <3>1. key \in KeysOf(v)
      BY <1>1, <1>2, <1>4, <2>1, HeadKey DEF OInv, At
    <3> QED  BY <1>5, <2>1, <2>4, <3>1
  <2>6. Traced(new, R)
    BY <1>5, <2>1, <2>2, <2>5, TracedPost
  <2>7. Shaped(new)
    BY <1>5, <2>1, <2>2, PostMoves DEF Moved
  <2> QED  BY <1>1, <1>2, <2>3, <2>6, <2>7, TracedDone
<1>9. CASE RefuseConsignment
  <2>1. PICK mid : mid = Flagged
    OBVIOUS
  <2>2. Done(Stage(Warn(mid, Current), Current, NULL))
    BY <1>9, <2>1 DEF RefuseConsignment
  <2> QED  BY <1>1, <1>2, <1>5, <2>1, <2>2, TracedDone
<1>10. CASE StageConsignment
  <2>1. PICK ref, mid : ref = SaleRef(file, g) /\ mid = Flagged
    OBVIOUS
  <2>2. PICK new : new = [mid EXCEPT !.sales = @ \cup {ref}]
    OBVIOUS
  <2>3. /\ Reconciles(file, g) /\ Consigned(file, g) # {}
        /\ Done(Stage(new, Current, <<"sale", ref>>))
    BY <1>3, <1>10, <2>1, <2>2 DEF StageConsignment, Reconciled
  <2>4. ref[2] = order
    BY <1>4, <2>1 DEF SaleRef
  <2>5. Made(order, v, <<"sale", ref>>)
    BY <1>4, <2>1, <2>3 DEF Made, OutcomeIn
  <2>6. Traced(new, R)
    BY <1>5, <2>1, <2>2, <2>4, <2>5, TracedSale
  <2>7. Shaped(new)
    BY <1>5, <2>1, <2>2, SaleMoves DEF Moved
  <2> QED  BY <1>1, <1>2, <2>3, <2>6, <2>7, TracedDone
<1> QED  BY <1>6, <1>7, <1>8, <1>9, <1>10 DEF OrderStep

LEMMA RowOStep ==
  ASSUME OInv, JInv', RowStep
  PROVE  OInv'
<1>1. running # NULL /\ running.left # {}
  BY DEF RowStep, KnownRow, RefuseRow, BookRow, RecordPayout, SkipRow, QueueUnknown, WarnUnknown, At
<1>2. PICK d \in Document : d = running.doc
  BY <1>1, AtGroup DEF OInv
<1>3. Shaped(work) /\ Traced(work, read \cup {Report})
  BY <1>1, AtGroup DEF OInv
<1>4. PICK R : R = read \cup {Report}
  OBVIOUS
<1>5. CASE KnownRow \/ RefuseRow \/ SkipRow \/ WarnUnknown
  BY <1>1, <1>3, <1>5, QuietOStep DEF KnownRow, RefuseRow, SkipRow, WarnUnknown
<1>6. CASE BookRow
  <2>1. PICK key : key = KeyOf(Head1)
    OBVIOUS
  <2>2. PICK new : new = Post(work, key)
    OBVIOUS
  <2>3. /\ Head1.type \in {"Refund", "Other fee"}
        /\ Done(Stage(new, Current, <<"entry", key>>))
    BY <1>6, <2>1, <2>2 DEF BookRow, At
  <2>4. key[1] # "Order"
    BY <2>1, <2>3 DEF KeyOf
  <2>5. \A o : key # <<"Order", o>>
    BY <2>4
  <2>6. \E u \in R : key \in KeysOf(u)
    <3>1. key \in KeysOf(Report) /\ Report \in R
      BY <1>1, <1>4, <2>1, <2>3, HeadKey DEF OInv
    <3> QED  BY <3>1
  <2>7. Traced(new, R)
    BY <1>3, <1>4, <2>2, <2>5, <2>6, TracedPost
  <2>8. Shaped(new)
    BY <1>3, <2>2, PostMoves DEF Moved
  <2> QED  BY <1>1, <1>4, <2>3, <2>7, <2>8, TracedDone
<1>7. CASE RecordPayout
  <2>1. PICK new : new = IF Head1.ref = NULL \/ Head1.net = 0 THEN work
                         ELSE [work EXCEPT !.payouts = @ \cup {Head1.ref}]
    OBVIOUS
  <2>2. Done(Stage(new, Current, NULL))
    BY <1>7, <2>1 DEF RecordPayout
  <2>3. new.marked = work.marked /\ new.queue = work.queue /\ new.sales = work.sales
    BY <1>3, <2>1 DEF Shaped, Field
  <2>4. Shaped(new)
    BY <1>3, <2>1, PayoutMoves DEF Moved
  <2> QED  BY <1>1, <2>2, <2>3, <2>4, QuietOStep
<1>8. CASE QueueUnknown
  <2>1. PICK ref : ref = RefOf(Head1.txn, "")
    OBVIOUS
  <2>2. PICK new : new = Queue(work, ref, NULL)
    OBVIOUS
  <2>3. Done(Stage(new, Current, <<"review", ref>>))
    BY <1>8, <2>1, <2>2 DEF QueueUnknown
  <2>4. Traced(new, R)
    BY <1>3, <1>4, <2>2, TracedQueue
  <2>5. Shaped(new)
    BY <1>2, <1>3, <2>2, QueueMoves DEF Moved
  <2> QED  BY <1>1, <1>4, <2>3, <2>4, <2>5, TracedDone
<1> QED  BY <1>5, <1>6, <1>7, <1>8 DEF RowStep

LEMMA InitOInv == Init => OInv
<1> SUFFICES ASSUME Init PROVE OInv
  OBVIOUS
<1>1. JInv /\ db = EmptyStore /\ running = NULL
  BY InitJInv DEF Init
<1>2. Traced(EmptyStore, read)
  BY DEF Traced, EmptyStore
<1> QED  BY <1>1, <1>2 DEF OInv

LEMMA BeginOStep ==
  ASSUME OInv, JInv', NEW d \in Document, Begin(d)
  PROVE  OInv'
<1>1. PICK old, R : old = db /\ R = read
  OBVIOUS
<1>2. PICK named : named = IF folder[d] > 1 THEN {0} ELSE {}
  OBVIOUS
<1>3. PICK new : new = [old EXCEPT !.warned[d] = named]
  OBVIOUS
<1>4. db' = old /\ read' = R /\ work' = new
  BY <1>1, <1>2, <1>3 DEF Begin
<1>5. Shaped(old) /\ Traced(old, R)
  BY <1>1 DEF OInv, JInv
<1>6. new.marked = old.marked /\ new.queue = old.queue /\ new.sales = old.sales
  BY <1>3, <1>5 DEF Shaped, Field
<1>7. \A v : Traced(new, R \cup {v})
  BY <1>5, <1>6, TracedSame
<1> QED  BY <1>4, <1>5, <1>7 DEF OInv

LEMMA CommitOStep ==
  ASSUME OInv, JInv', Commit
  PROVE  OInv'
<1>1. PICK d, n : d = running.doc /\ n = running.export
  OBVIOUS
<1>2. PICK cur, R : cur = work /\ R = read
  OBVIOUS
<1>3. PICK new : new = [cur EXCEPT !.export[d] = n]
  OBVIOUS
<1>4. db' = new /\ read' = R \cup {<<d, n>>} /\ running' = NULL /\ running # NULL
  BY <1>1, <1>2, <1>3 DEF Commit
<1>5. Shaped(cur) /\ Traced(cur, R \cup {<<d, n>>})
  BY <1>1, <1>2, <1>4 DEF OInv, JInv, Report
<1>6. new.marked = cur.marked /\ new.queue = cur.queue /\ new.sales = cur.sales
  BY <1>3, <1>5 DEF Shaped, Field
<1>7. Traced(new, R \cup {<<d, n>>})
  BY <1>5, <1>6, TracedSame
<1> QED  BY <1>4, <1>7 DEF OInv

LEMMA NextOInv == OInv /\ [Next]_vars => OInv'
<1> SUFFICES ASSUME OInv, [Next]_vars PROVE OInv'
  OBVIOUS
<1>1. JInv'
  BY NextJInv DEF OInv
<1>2. CASE UNCHANGED <<db, work, running, read>>
  BY <1>1, <1>2 DEF OInv, Report
<1>3. CASE Human \/ UNCHANGED vars
  BY <1>2, <1>3 DEF Human, Upload, PublishRate, vars
<1>4. ASSUME NEW d \in Document, Begin(d) PROVE OInv'
  BY <1>1, <1>4, BeginOStep
<1>5. CASE OrderStep \/ RowStep
  BY <1>1, <1>5, OrderOStep, RowOStep
<1>6. CASE RateMissing \/ PostingRefused \/ Crash
  BY <1>1, <1>6 DEF RateMissing, PostingRefused, Crash, GiveUp, OInv
<1>7. CASE Commit
  BY <1>1, <1>7, CommitOStep
<1> QED  BY <1>3, <1>4, <1>5, <1>6, <1>7 DEF Next, Step

LEMMA OInvAlways == Spec => []OInv
BY InitOInv, NextOInv, PTL DEF Spec

\* Whatever exports were read: an order with two outcomes in the books had other
\* rows, or its rows in another order, in one report than in another.
THEOREM OneOutcomeAlways == Spec => []OneOutcome
<1>1. ASSUME OInv PROVE OneOutcome
  <2>1. SUFFICES ASSUME NEW order \in OrderNumber,
                        \A v, w \in read : GroupOf(order, v) # {} /\ GroupOf(order, w) # {}
                                              => SameRows(order, v, w)
                 PROVE  Cardinality(Outcomes(order)) <= 1
    BY DEF OneOutcome
  <2>2. order # NULL
    BY DEF OrderNumber
  <2>3. \A v \in read : IsReport(v)
    BY <1>1 DEF OInv, JInv
  <2>4. ASSUME NEW x \in Outcomes(order) PROVE \E v \in read : Made(order, v, x)
    <3>1. DOMAIN db.booked = db.marked /\ Traced(db, read)
      BY <1>1 DEF OInv, JInv, IInv, Sound, Marked
    <3>2. CASE \E key \in DOMAIN db.booked : key = <<"Order", order>> /\ x = <<"entry", key>>
      BY <3>1, <3>2 DEF Traced
    <3>3. CASE \E r \in db.queue : r.order = order /\ x = <<"review", r.ref>>
      BY <2>2, <3>1, <3>3 DEF Traced
    <3>4. CASE \E ref \in db.sales : ref[2] = order /\ x = <<"sale", ref>>
      BY <3>1, <3>4 DEF Traced
    <3> QED  BY <3>2, <3>3, <3>4 DEF Outcomes
  <2>5. ASSUME NEW x \in Outcomes(order), NEW y \in Outcomes(order) PROVE x = y
    <3>1. PICK v \in read : Made(order, v, x)
      BY <2>4
    <3>2. PICK w \in read : Made(order, w, y)
      BY <2>4
    <3>3. GroupOf(order, v) # {} /\ SameRows(order, v, w)
      BY <2>1, <3>1, <3>2 DEF Made
    <3>4. OutcomeIn(order, w) = OutcomeIn(order, v)
      BY <2>3, <3>3, OutcomeOfRows
    <3> QED  BY <3>1, <3>2, <3>4 DEF Made
  <2>6. CASE Outcomes(order) = {}
    BY <2>6, FS_EmptySet
  <2>7. CASE Outcomes(order) # {}
    <3>1. PICK x : x \in Outcomes(order)
      BY <2>7
    <3>2. Outcomes(order) = {x}
      BY <2>5, <3>1
    <3> QED  BY <3>2, FS_Singleton
  <2> QED  BY <2>6, <2>7
<1> QED  BY <1>1, OInvAlways, PTL

-----------------------------------------------------------------------------
(* The refinement of BookOnce.                                               *)

LEMMA KeysArePairs ==
  ASSUME NEW v
  PROVE  <<>> \notin KeysOf(v)
<1>1. PICK file : file = File(v[1], v[2])
  OBVIOUS
<1>2. PICK rows : rows = {file[i] : i \in {i \in DOMAIN file :
                                         file[i].type \in {"Order", "Refund", "Other fee"}}}
  OBVIOUS
<1>3. \A row \in rows : row.type \in {"Order", "Refund", "Other fee"}
  BY <1>2
<1>4. KeysOf(v) = {KeyOf(row) : row \in rows}
  BY <1>1, <1>2 DEF KeysOf
<1>5. ASSUME NEW row \in rows PROVE KeyOf(row) # <<>>
  <2>1. ASSUME NEW a, NEW b PROVE <<a, b>> # <<>>
    OBVIOUS
  <2>2. CASE row.type = "Order"
    <3>1. KeyOf(row) = <<"Order", row.order>>
      BY <2>2 DEF KeyOf
    <3> QED  BY <2>1, <3>1
  <2>3. CASE row.type = "Refund"
    <3>1. KeyOf(row) = <<"Refund", IF row.ref # NULL THEN row.ref ELSE row.order>>
      BY <2>3 DEF KeyOf
    <3> QED  BY <2>1, <3>1
  <2>4. CASE row.type = "Other fee"
    <3>1. KeyOf(row) = <<"Other fee", IF row.ref # NULL THEN row.ref ELSE <<row.order, row.date, row.net>>>>
      BY <2>4 DEF KeyOf
    <3> QED  BY <2>1, <3>1
  <2> QED  BY <1>3, <2>2, <2>3, <2>4
<1> QED  BY <1>4, <1>5

\* What every step leaves of the marks, and of the reports read.
LEMMA MarksGrow ==
  ASSUME OInv, [Next]_vars
  PROVE  db.marked \subseteq db'.marked /\ read \subseteq read'
<1>1. CASE Commit
  <2>1. PICK d, n, left : d = running.doc /\ n = running.export /\ left = running.left
    OBVIOUS
  <2>2. PICK old, cur, new : old = db /\ cur = work /\ new = [cur EXCEPT !.export[d] = n]
    OBVIOUS
  <2>3. db' = new /\ read \subseteq read' /\ running # NULL
    BY <1>1, <2>1, <2>2 DEF Commit
  <2>4. Grown(old, cur) /\ Shaped(cur)
    BY <2>1, <2>2, <2>3 DEF OInv, JInv, RunStands
  <2>5. new.marked = cur.marked
    BY <2>2, <2>4 DEF Shaped, Field
  <2> QED  BY <2>2, <2>3, <2>4, <2>5 DEF Grown
<1>2. CASE UNCHANGED <<db, read>>
  BY <1>2
<1> QED
  BY <1>1, <1>2 DEF Next, Step, OrderStep, RowStep, Human, Upload, PublishRate, Begin, RefuseOrder,
     QueueMismatch, BookOrder, RefuseConsignment, StageConsignment, KnownRow, RefuseRow, BookRow,
     RecordPayout, SkipRow, QueueUnknown, WarnUnknown, Done, RateMissing, PostingRefused, Crash,
     GiveUp, vars

\* The entries of eBay ingestion implement BookOnce: a sale, refund or fee is booked
\* at most once and for good, once a report with it was read.
THEOREM ImplementsBookOnceAlways == Spec => ImplementsBookOnce
<1>1. Init => Book!BookInit
  BY DEF Init, EmptyStore, Book!BookInit
<1>2. ASSUME OInv, OInv', db.marked \subseteq db'.marked, read \subseteq read'
      PROVE  Book!Settle
  <2> DEFINE K == UNION {KeysOf(v) : v \in AllReports}
             seen == UNION {KeysOf(v) : v \in read}
             book == [k \in K |-> IF k \in db.marked THEN k ELSE <<>>]
             made == DOMAIN db.booked
  <2>1. made = db.marked /\ made' = db'.marked
    BY <1>2 DEF OInv, JInv, IInv, Sound, Marked
  <2>2. db.marked \subseteq seen /\ db'.marked \subseteq seen' /\ seen \subseteq seen'
    BY <1>2 DEF OInv, Traced
  <2>3. <<>> \notin K
    BY KeysArePairs
  <2>4. db'.marked \subseteq K
    <3>1. PICK R : R = read'
      OBVIOUS
    <3>2. \A v \in R : IsReport(v)
      BY <1>2, <3>1 DEF OInv, JInv
    <3>3. \A v \in R : v \in AllReports
      BY <3>2 DEF IsReport, AllReports
    <3> QED  BY <2>2, <3>1, <3>3
  <2>5. /\ \A k \in K : book[k] = IF k \in db.marked THEN k ELSE <<>>
        /\ \A k \in K : book'[k] = IF k \in db'.marked THEN k ELSE <<>>
        /\ book' \in [K -> K \cup {} \cup {<<>>}]
    OBVIOUS
  <2> HIDE DEF K, seen, book, made
  <2>6. \A k \in K : (book[k] = <<>> /\ book'[k] # <<>>) <=> k \in db'.marked \ db.marked
    BY <1>2, <2>3, <2>5
  <2>7. \A k \in K : (book[k] = <<>> /\ book'[k] # <<>>) \/ book'[k] = book[k]
    BY <1>2, <2>3, <2>5
  <2>8. \A k \in K : (book[k] = <<>> /\ book'[k] # <<>>) => k \in seen' /\ book'[k] \in made' \cup {}
    BY <2>1, <2>2, <2>5, <2>6
  <2>9. made' = made \cup {k \in K : (book[k] = <<>> /\ book'[k] # <<>>) /\ book'[k] = k}
    <3>1. \A k \in K : k \in db'.marked => book'[k] = k
      BY <2>5
    <3> QED  BY <1>2, <2>1, <2>4, <2>6, <3>1
  <2> QED  BY <2>2, <2>5, <2>7, <2>8, <2>9 DEF Book!Settle, Book!Books, K, seen, book, made
<1>3. OInv /\ [Next]_vars => [Book!Settle]_(Book!bookVars)
  BY <1>2, NextOInv, MarksGrow
<1> QED  BY <1>1, <1>3, OInvAlways, PTL DEF Spec, ImplementsBookOnce, Book!BookSpec

=============================================================================
