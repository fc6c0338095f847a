---------------------------- MODULE PostingProofs ----------------------------
(***************************************************************************)
(* What the posting functions build is balanced, for all amounts and rates:  *)
(* no rounding and no order of the optional lines ever lets the database     *)
(* refuse an entry that the code's own checks let through.                   *)
(***************************************************************************)
EXTENDS Dispatch, SequenceTheorems, TLAPS

\* The lines an entry may have, over some accounts, orders and references.
Line(A, O, R) == [account : A, debit : Int, credit : Int, order : O, ref : R]

LEMMA Summands ==
  ASSUME NEW a \in Nat, NEW b \in Nat, a + b <= 5
  PROVE  a \in 0..5 /\ b \in 0..5
OBVIOUS

\* Every line adds a whole amount on each side.
LEMMA SidesAreInt ==
  ASSUME NEW A, NEW O, NEW R, NEW s \in Seq(Line(A, O, R)), NEW i \in Int
  PROVE  DebitAt(s, i) \in Int /\ CreditAt(s, i) \in Int
<1>1. \A j \in DOMAIN s : s[j] \in Line(A, O, R)
  BY ElementOfSeq, LenProperties
<1>2. CASE i \in DOMAIN s
  BY <1>1, <1>2 DEF Line, DebitAt, CreditAt
<1>3. CASE i \notin DOMAIN s
  BY <1>3 DEF DebitAt, CreditAt
<1> QED  BY <1>2, <1>3

\* Two lists one after the other add up, whichever of their lines are there.
LEMMA ConcatTotals ==
  ASSUME NEW A, NEW O, NEW R, NEW s \in Seq(Line(A, O, R)), NEW t \in Seq(Line(A, O, R)),
         Len(s) + Len(t) <= MaxLines
  PROVE  /\ s \o t \in Seq(Line(A, O, R))
         /\ Len(s \o t) = Len(s) + Len(t)
         /\ TotalDebit(s \o t) = TotalDebit(s) + TotalDebit(t)
         /\ TotalCredit(s \o t) = TotalCredit(s) + TotalCredit(t)
<1> DEFINE u == s \o t
<1>1. /\ u \in Seq(Line(A, O, R)) /\ Len(u) = Len(s) + Len(t)
      /\ \A i \in 1..(Len(s) + Len(t)) : u[i] = IF i <= Len(s) THEN s[i] ELSE t[i - Len(s)]
  BY ConcatProperties
<1> HIDE DEF u
<1>2. Len(s) \in 0..5 /\ Len(t) \in 0..5
  <2>1. Len(s) \in Nat /\ Len(t) \in Nat /\ Len(s) + Len(t) <= 5
    BY LenProperties DEF MaxLines
  <2> QED  BY <2>1, Summands
<1>3. DOMAIN s = 1..Len(s) /\ DOMAIN t = 1..Len(t) /\ DOMAIN u = 1..(Len(s) + Len(t))
  BY <1>1
<1>4. ASSUME NEW i \in 1..5
      PROVE  /\ DebitAt(u, i) = IF i <= Len(s) THEN DebitAt(s, i) ELSE DebitAt(t, i - Len(s))
             /\ CreditAt(u, i) = IF i <= Len(s) THEN CreditAt(s, i) ELSE CreditAt(t, i - Len(s))
  BY <1>1, <1>2, <1>3 DEF DebitAt, CreditAt
<1>5. \A i \in 1..5 : i > Len(s) => DebitAt(s, i) = 0 /\ CreditAt(s, i) = 0
  BY <1>3 DEF DebitAt, CreditAt
<1>6. \A i \in 1..5 : i > 5 - Len(s) => DebitAt(t, i) = 0 /\ CreditAt(t, i) = 0
  BY <1>2, <1>3 DEF DebitAt, CreditAt, MaxLines
<1>11. /\ \A i \in Int : DebitAt(s, i) \in Int /\ CreditAt(s, i) \in Int
       /\ \A i \in Int : DebitAt(t, i) \in Int /\ CreditAt(t, i) \in Int
  BY SidesAreInt, Zenon
<1>7. /\ DebitAt(s, 1) \in Int  /\ DebitAt(s, 2) \in Int  /\ DebitAt(s, 3) \in Int
      /\ DebitAt(s, 4) \in Int  /\ DebitAt(s, 5) \in Int
      /\ DebitAt(t, 1) \in Int  /\ DebitAt(t, 2) \in Int  /\ DebitAt(t, 3) \in Int
      /\ DebitAt(t, 4) \in Int  /\ DebitAt(t, 5) \in Int
  <2>1. 1 \in Int /\ 2 \in Int /\ 3 \in Int /\ 4 \in Int /\ 5 \in Int
    OBVIOUS
  <2> QED  BY <2>1, <1>11, Zenon
<1>10. /\ CreditAt(s, 1) \in Int  /\ CreditAt(s, 2) \in Int  /\ CreditAt(s, 3) \in Int
      /\ CreditAt(s, 4) \in Int  /\ CreditAt(s, 5) \in Int
      /\ CreditAt(t, 1) \in Int  /\ CreditAt(t, 2) \in Int  /\ CreditAt(t, 3) \in Int
      /\ CreditAt(t, 4) \in Int  /\ CreditAt(t, 5) \in Int
  <2>1. 1 \in Int /\ 2 \in Int /\ 3 \in Int /\ 4 \in Int /\ 5 \in Int
    OBVIOUS
  <2> QED  BY <2>1, <1>11, Zenon
<1>8. TotalDebit(u) = TotalDebit(s) + TotalDebit(t)
  <2>1. CASE Len(s) = 0
    <3>1. /\ DebitAt(u, 1) = DebitAt(t, 1)
          /\ DebitAt(u, 2) = DebitAt(t, 2)
          /\ DebitAt(u, 3) = DebitAt(t, 3)
          /\ DebitAt(u, 4) = DebitAt(t, 4)
          /\ DebitAt(u, 5) = DebitAt(t, 5)
      BY <1>4, <2>1
    <3>2. /\ DebitAt(s, 1) = 0
          /\ DebitAt(s, 2) = 0
          /\ DebitAt(s, 3) = 0
          /\ DebitAt(s, 4) = 0
          /\ DebitAt(s, 5) = 0
      BY <1>5, <1>6, <2>1
    <3> QED  BY <1>7, <3>1, <3>2, SMTT(30) DEF TotalDebit
  <2>2. CASE Len(s) = 1
    <3>1. /\ DebitAt(u, 1) = DebitAt(s, 1)
          /\ DebitAt(u, 2) = DebitAt(t, 1)
          /\ DebitAt(u, 3) = DebitAt(t, 2)
          /\ DebitAt(u, 4) = DebitAt(t, 3)
          /\ DebitAt(u, 5) = DebitAt(t, 4)
      BY <1>4, <2>2
    <3>2. /\ DebitAt(s, 2) = 0
          /\ DebitAt(s, 3) = 0
          /\ DebitAt(s, 4) = 0
          /\ DebitAt(s, 5) = 0
          /\ DebitAt(t, 5) = 0
      BY <1>5, <1>6, <2>2
    <3> QED  BY <1>7, <3>1, <3>2, SMTT(30) DEF TotalDebit
  <2>3. CASE Len(s) = 2
    <3>1. /\ DebitAt(u, 1) = DebitAt(s, 1)
          /\ DebitAt(u, 2) = DebitAt(s, 2)
          /\ DebitAt(u, 3) = DebitAt(t, 1)
          /\ DebitAt(u, 4) = DebitAt(t, 2)
          /\ DebitAt(u, 5) = DebitAt(t, 3)
      BY <1>4, <2>3
    <3>2. /\ DebitAt(s, 3) = 0
          /\ DebitAt(s, 4) = 0
          /\ DebitAt(s, 5) = 0
          /\ DebitAt(t, 4) = 0
          /\ DebitAt(t, 5) = 0
      BY <1>5, <1>6, <2>3
    <3> QED  BY <1>7, <3>1, <3>2, SMTT(30) DEF TotalDebit
  <2>4. CASE Len(s) = 3
    <3>1. /\ DebitAt(u, 1) = DebitAt(s, 1)
          /\ DebitAt(u, 2) = DebitAt(s, 2)
          /\ DebitAt(u, 3) = DebitAt(s, 3)
          /\ DebitAt(u, 4) = DebitAt(t, 1)
          /\ DebitAt(u, 5) = DebitAt(t, 2)
      BY <1>4, <2>4
    <3>2. /\ DebitAt(s, 4) = 0
          /\ DebitAt(s, 5) = 0
          /\ DebitAt(t, 3) = 0
          /\ DebitAt(t, 4) = 0
          /\ DebitAt(t, 5) = 0
      BY <1>5, <1>6, <2>4
    <3> QED  BY <1>7, <3>1, <3>2, SMTT(30) DEF TotalDebit
  <2>5. CASE Len(s) = 4
    <3>1. /\ DebitAt(u, 1) = DebitAt(s, 1)
          /\ DebitAt(u, 2) = DebitAt(s, 2)
          /\ DebitAt(u, 3) = DebitAt(s, 3)
          /\ DebitAt(u, 4) = DebitAt(s, 4)
          /\ DebitAt(u, 5) = DebitAt(t, 1)
      BY <1>4, <2>5
    <3>2. /\ DebitAt(s, 5) = 0
          /\ DebitAt(t, 2) = 0
          /\ DebitAt(t, 3) = 0
          /\ DebitAt(t, 4) = 0
          /\ DebitAt(t, 5) = 0
      BY <1>5, <1>6, <2>5
    <3> QED  BY <1>7, <3>1, <3>2, SMTT(30) DEF TotalDebit
  <2>6. CASE Len(s) = 5
    <3>1. /\ DebitAt(u, 1) = DebitAt(s, 1)
          /\ DebitAt(u, 2) = DebitAt(s, 2)
          /\ DebitAt(u, 3) = DebitAt(s, 3)
          /\ DebitAt(u, 4) = DebitAt(s, 4)
          /\ DebitAt(u, 5) = DebitAt(s, 5)
      BY <1>4, <2>6
    <3>2. /\ DebitAt(t, 1) = 0
          /\ DebitAt(t, 2) = 0
          /\ DebitAt(t, 3) = 0
          /\ DebitAt(t, 4) = 0
          /\ DebitAt(t, 5) = 0
      BY <1>5, <1>6, <2>6
    <3> QED  BY <1>7, <3>1, <3>2, SMTT(30) DEF TotalDebit
  <2> QED  BY <1>2, <2>1, <2>2, <2>3, <2>4, <2>5, <2>6
<1>9. TotalCredit(u) = TotalCredit(s) + TotalCredit(t)
  <2>1. CASE Len(s) = 0
    <3>1. /\ CreditAt(u, 1) = CreditAt(t, 1)
          /\ CreditAt(u, 2) = CreditAt(t, 2)
          /\ CreditAt(u, 3) = CreditAt(t, 3)
          /\ CreditAt(u, 4) = CreditAt(t, 4)
          /\ CreditAt(u, 5) = CreditAt(t, 5)
      BY <1>4, <2>1
    <3>2. /\ CreditAt(s, 1) = 0
          /\ CreditAt(s, 2) = 0
          /\ CreditAt(s, 3) = 0
          /\ CreditAt(s, 4) = 0
          /\ CreditAt(s, 5) = 0
      BY <1>5, <1>6, <2>1
    <3> QED  BY <1>10, <3>1, <3>2, SMTT(30) DEF TotalCredit
  <2>2. CASE Len(s) = 1
    <3>1. /\ CreditAt(u, 1) = CreditAt(s, 1)
          /\ CreditAt(u, 2) = CreditAt(t, 1)
          /\ CreditAt(u, 3) = CreditAt(t, 2)
          /\ CreditAt(u, 4) = CreditAt(t, 3)
          /\ CreditAt(u, 5) = CreditAt(t, 4)
      BY <1>4, <2>2
    <3>2. /\ CreditAt(s, 2) = 0
          /\ CreditAt(s, 3) = 0
          /\ CreditAt(s, 4) = 0
          /\ CreditAt(s, 5) = 0
          /\ CreditAt(t, 5) = 0
      BY <1>5, <1>6, <2>2
    <3> QED  BY <1>10, <3>1, <3>2, SMTT(30) DEF TotalCredit
  <2>3. CASE Len(s) = 2
    <3>1. /\ CreditAt(u, 1) = CreditAt(s, 1)
          /\ CreditAt(u, 2) = CreditAt(s, 2)
          /\ CreditAt(u, 3) = CreditAt(t, 1)
          /\ CreditAt(u, 4) = CreditAt(t, 2)
          /\ CreditAt(u, 5) = CreditAt(t, 3)
      BY <1>4, <2>3
    <3>2. /\ CreditAt(s, 3) = 0
          /\ CreditAt(s, 4) = 0
          /\ CreditAt(s, 5) = 0
          /\ CreditAt(t, 4) = 0
          /\ CreditAt(t, 5) = 0
      BY <1>5, <1>6, <2>3
    <3> QED  BY <1>10, <3>1, <3>2, SMTT(30) DEF TotalCredit
  <2>4. CASE Len(s) = 3
    <3>1. /\ CreditAt(u, 1) = CreditAt(s, 1)
          /\ CreditAt(u, 2) = CreditAt(s, 2)
          /\ CreditAt(u, 3) = CreditAt(s, 3)
          /\ CreditAt(u, 4) = CreditAt(t, 1)
          /\ CreditAt(u, 5) = CreditAt(t, 2)
      BY <1>4, <2>4
    <3>2. /\ CreditAt(s, 4) = 0
          /\ CreditAt(s, 5) = 0
          /\ CreditAt(t, 3) = 0
          /\ CreditAt(t, 4) = 0
          /\ CreditAt(t, 5) = 0
      BY <1>5, <1>6, <2>4
    <3> QED  BY <1>10, <3>1, <3>2, SMTT(30) DEF TotalCredit
  <2>5. CASE Len(s) = 4
    <3>1. /\ CreditAt(u, 1) = CreditAt(s, 1)
          /\ CreditAt(u, 2) = CreditAt(s, 2)
          /\ CreditAt(u, 3) = CreditAt(s, 3)
          /\ CreditAt(u, 4) = CreditAt(s, 4)
          /\ CreditAt(u, 5) = CreditAt(t, 1)
      BY <1>4, <2>5
    <3>2. /\ CreditAt(s, 5) = 0
          /\ CreditAt(t, 2) = 0
          /\ CreditAt(t, 3) = 0
          /\ CreditAt(t, 4) = 0
          /\ CreditAt(t, 5) = 0
      BY <1>5, <1>6, <2>5
    <3> QED  BY <1>10, <3>1, <3>2, SMTT(30) DEF TotalCredit
  <2>6. CASE Len(s) = 5
    <3>1. /\ CreditAt(u, 1) = CreditAt(s, 1)
          /\ CreditAt(u, 2) = CreditAt(s, 2)
          /\ CreditAt(u, 3) = CreditAt(s, 3)
          /\ CreditAt(u, 4) = CreditAt(s, 4)
          /\ CreditAt(u, 5) = CreditAt(s, 5)
      BY <1>4, <2>6
    <3>2. /\ CreditAt(t, 1) = 0
          /\ CreditAt(t, 2) = 0
          /\ CreditAt(t, 3) = 0
          /\ CreditAt(t, 4) = 0
          /\ CreditAt(t, 5) = 0
      BY <1>5, <1>6, <2>6
    <3> QED  BY <1>10, <3>1, <3>2, SMTT(30) DEF TotalCredit
  <2> QED  BY <1>2, <2>1, <2>2, <2>3, <2>4, <2>5, <2>6
<1> QED  BY <1>1, <1>8, <1>9 DEF u


\* The lists the posting functions are written with.
LEMMA OneLine ==
  ASSUME NEW A, NEW O, NEW R, NEW l \in Line(A, O, R)
  PROVE  /\ <<l>> \in Seq(Line(A, O, R)) /\ Len(<<l>>) = 1
         /\ TotalDebit(<<l>>) = l.debit /\ TotalCredit(<<l>>) = l.credit
         /\ SingleSided(l) => \A i \in DOMAIN <<l>> : SingleSided(<<l>>[i])
<1>1. Len(<<l>>) = 1 /\ DOMAIN <<l>> = 1..1 /\ <<l>>[1] = l
  OBVIOUS
<1>2. l.debit \in Int /\ l.credit \in Int
  BY DEF Line
<1> QED  BY <1>1, <1>2 DEF TotalDebit, TotalCredit, DebitAt, CreditAt

LEMMA TwoLines ==
  ASSUME NEW A, NEW O, NEW R, NEW k \in Line(A, O, R), NEW l \in Line(A, O, R)
  PROVE  /\ <<k, l>> \in Seq(Line(A, O, R)) /\ Len(<<k, l>>) = 2
         /\ TotalDebit(<<k, l>>) = k.debit + l.debit
         /\ TotalCredit(<<k, l>>) = k.credit + l.credit
         /\ SingleSided(k) /\ SingleSided(l) =>
               \A i \in DOMAIN <<k, l>> : SingleSided(<<k, l>>[i])
<1>1. Len(<<k, l>>) = 2 /\ DOMAIN <<k, l>> = 1..2 /\ <<k, l>>[1] = k /\ <<k, l>>[2] = l
  OBVIOUS
<1>2. k.debit \in Int /\ k.credit \in Int /\ l.debit \in Int /\ l.credit \in Int
  BY DEF Line
<1> QED  BY <1>1, <1>2 DEF TotalDebit, TotalCredit, DebitAt, CreditAt

LEMMA ThreeLines ==
  ASSUME NEW A, NEW O, NEW R, NEW j \in Line(A, O, R), NEW k \in Line(A, O, R),
         NEW l \in Line(A, O, R)
  PROVE  /\ <<j, k, l>> \in Seq(Line(A, O, R)) /\ Len(<<j, k, l>>) = 3
         /\ TotalDebit(<<j, k, l>>) = j.debit + k.debit + l.debit
         /\ TotalCredit(<<j, k, l>>) = j.credit + k.credit + l.credit
         /\ SingleSided(j) /\ SingleSided(k) /\ SingleSided(l) =>
               \A i \in DOMAIN <<j, k, l>> : SingleSided(<<j, k, l>>[i])
<1>1. /\ Len(<<j, k, l>>) = 3 /\ DOMAIN <<j, k, l>> = 1..3
      /\ <<j, k, l>>[1] = j /\ <<j, k, l>>[2] = k /\ <<j, k, l>>[3] = l
  OBVIOUS
<1>2. /\ j.debit \in Int /\ j.credit \in Int
      /\ k.debit \in Int /\ k.credit \in Int /\ l.debit \in Int /\ l.credit \in Int
  BY DEF Line
<1> QED  BY <1>1, <1>2 DEF TotalDebit, TotalCredit, DebitAt, CreditAt

LEMMA NoLine ==
  ASSUME NEW A, NEW O, NEW R
  PROVE  /\ <<>> \in Seq(Line(A, O, R)) /\ Len(<<>>) = 0
         /\ TotalDebit(<<>>) = 0 /\ TotalCredit(<<>>) = 0
         /\ \A i \in DOMAIN <<>> : SingleSided(<<>>[i])
BY DEF TotalDebit, TotalCredit, DebitAt, CreditAt

LEMMA FunctionIsSeq ==
  ASSUME NEW S, NEW n \in Nat, NEW f \in [1..n -> S]
  PROVE  f \in Seq(S) /\ Len(f) = n /\ DOMAIN f = 1..n
<1>1. f \in Seq(S)
  BY SeqDef
<1>2. DOMAIN f = 1..n /\ DOMAIN f = 1..Len(f) /\ Len(f) \in Nat
  BY <1>1, LenProperties
<1> QED  BY <1>1, <1>2

\* Naming an order or a reference on the lines moves no money.
LEMMA Named ==
  ASSUME NEW A, NEW O, NEW R, NEW s \in Seq(Line(A, O, R)), NEW o, NEW r
  PROVE  /\ WithOrder(s, o) \in Seq(Line(A, {o}, R))
         /\ WithRef(s, r) \in Seq(Line(A, O, {r}))
         /\ Accepted(s) => Accepted(WithOrder(s, o)) /\ Accepted(WithRef(s, r))
<1> DEFINE t == WithOrder(s, o)
           u == WithRef(s, r)
<1>1. DOMAIN s = 1..Len(s) /\ Len(s) \in Nat /\ \A i \in 1..Len(s) : s[i] \in Line(A, O, R)
  OBVIOUS
<1>2. /\ t = [i \in 1..Len(s) |-> [s[i] EXCEPT !.order = o]]
      /\ u = [i \in 1..Len(s) |-> [s[i] EXCEPT !.ref = r]]
  BY <1>1 DEF WithOrder, WithRef
<1> HIDE DEF t, u
<1>3. \A i \in 1..Len(s) :
        /\ t[i] \in Line(A, {o}, R) /\ t[i].debit = s[i].debit /\ t[i].credit = s[i].credit
        /\ u[i] \in Line(A, O, {r}) /\ u[i].debit = s[i].debit /\ u[i].credit = s[i].credit
  BY <1>1, <1>2 DEF Line
<1>4. /\ t \in [1..Len(s) -> Line(A, {o}, R)] /\ u \in [1..Len(s) -> Line(A, O, {r})]
  BY <1>2, <1>3
<1>5. /\ t \in Seq(Line(A, {o}, R)) /\ u \in Seq(Line(A, O, {r}))
      /\ Len(t) = Len(s) /\ Len(u) = Len(s) /\ DOMAIN t = 1..Len(s) /\ DOMAIN u = 1..Len(s)
  BY <1>1, <1>4, FunctionIsSeq
<1>6. \A i : /\ DebitAt(t, i) = DebitAt(s, i) /\ CreditAt(t, i) = CreditAt(s, i)
             /\ DebitAt(u, i) = DebitAt(s, i) /\ CreditAt(u, i) = CreditAt(s, i)
  BY <1>1, <1>3, <1>5 DEF DebitAt, CreditAt
<1>7. /\ TotalDebit(t) = TotalDebit(s) /\ TotalCredit(t) = TotalCredit(s)
      /\ TotalDebit(u) = TotalDebit(s) /\ TotalCredit(u) = TotalCredit(s)
  BY <1>6 DEF TotalDebit, TotalCredit
<1>8. Accepted(s) => Accepted(t) /\ Accepted(u)
  BY <1>1, <1>3, <1>5, <1>7 DEF Accepted, SingleSided, Balanced
<1> QED  BY <1>5, <1>8 DEF t, u

-----------------------------------------------------------------------------
(* The posting functions.                                                    *)

LEMMA IdrIsInt ==
  ASSUME NEW x \in Int, NEW rate \in Int
  PROVE  Idr(x, rate) \in Int
<1>1. x * rate \in Int
  OBVIOUS
<1> QED  BY <1>1 DEF Idr

\* The lines of an entry before its order and reference are named.
Plain(A) == Line(A, {NULL}, {NULL})

LEMMA Side ==
  ASSUME NEW A, NEW a \in A, NEW x \in Int
  PROVE  /\ Debit(a, x) \in Plain(A) /\ Debit(a, x).debit = x /\ Debit(a, x).credit = 0
         /\ Credit(a, x) \in Plain(A) /\ Credit(a, x).debit = 0 /\ Credit(a, x).credit = x
         /\ x > 0 => SingleSided(Debit(a, x)) /\ SingleSided(Credit(a, x))
BY DEF Debit, Credit, Plain, Line, SingleSided

LEMMA NoPlainLine ==
  ASSUME NEW A, NEW s, s = <<>>
  PROVE  /\ s \in Seq(Plain(A)) /\ Len(s) = 0 /\ TotalDebit(s) = 0 /\ TotalCredit(s) = 0
         /\ \A i \in DOMAIN s : SingleSided(s[i])
BY NoLine, Zenon DEF Plain

\* An optional line that is there counts, one that is not does not.
LEMMA OptionalLine ==
  ASSUME NEW A, NEW c \in BOOLEAN, NEW l \in Plain(A), c => SingleSided(l)
  PROVE  /\ Optional(c, l) \in Seq(Plain(A)) /\ Len(Optional(c, l)) = IF c THEN 1 ELSE 0
         /\ TotalDebit(Optional(c, l)) = IF c THEN l.debit ELSE 0
         /\ TotalCredit(Optional(c, l)) = IF c THEN l.credit ELSE 0
         /\ \A i \in DOMAIN Optional(c, l) : SingleSided(Optional(c, l)[i])
<1>1. CASE c
  BY <1>1, OneLine DEF Optional, Plain
<1>2. CASE ~c
  BY <1>2, NoLine DEF Optional, Plain
<1> QED  BY <1>1, <1>2

LEMMA FewLines ==
  ASSUME NEW a \in 0..1, NEW b \in 0..1
  PROVE  a + b \in Nat /\ a + b <= 2 /\ a + b <= MaxLines
BY DEF MaxLines

LEMMA SomeLines ==
  ASSUME NEW b \in 1..3
  PROVE  1 + b \in 2..MaxLines /\ 1 + b <= MaxLines /\ 2 + b \in 2..MaxLines
BY DEF MaxLines

LEMMA OneMoreLine ==
  ASSUME NEW b \in 1..2
  PROVE  1 + b \in 2..3
OBVIOUS

LEMMA PlainConcat ==
  ASSUME NEW A, NEW s \in Seq(Plain(A)), NEW t \in Seq(Plain(A)), Len(s) + Len(t) <= MaxLines
  PROVE  /\ s \o t \in Seq(Plain(A)) /\ Len(s \o t) = Len(s) + Len(t)
         /\ TotalDebit(s \o t) = TotalDebit(s) + TotalDebit(t)
         /\ TotalCredit(s \o t) = TotalCredit(s) + TotalCredit(t)
BY ConcatTotals DEF Plain

\* Lines stay what they are when lists are put one after the other.
LEMMA ConcatSided ==
  ASSUME NEW A, NEW s \in Seq(Plain(A)), NEW t \in Seq(Plain(A)),
         \A i \in DOMAIN s : SingleSided(s[i]), \A i \in DOMAIN t : SingleSided(t[i])
  PROVE  \A i \in DOMAIN (s \o t) : SingleSided((s \o t)[i])
<1>1. Len(s) \in Nat /\ Len(t) \in Nat
  BY LenProperties
<1>2. s \o t \in Seq(Plain(A)) /\ Len(s \o t) = Len(s) + Len(t)
  BY ConcatProperties
<1>3. ASSUME NEW i \in DOMAIN (s \o t)
      PROVE  SingleSided((s \o t)[i])
  <2>1. i \in 1..(Len(s) + Len(t)) /\ i \in Int
    BY <1>2, <1>3, LenProperties
  <2>2. (s \o t)[i] = IF i <= Len(s) THEN s[i] ELSE t[i - Len(s)]
    BY <2>1, ConcatProperties
  <2>3. CASE i <= Len(s)
    BY <1>1, <2>1, <2>2, <2>3, LenProperties
  <2>4. CASE ~(i <= Len(s))
    <3>1. i - Len(s) \in DOMAIN t
      BY <1>1, <2>1, <2>4, LenProperties
    <3> QED  BY <2>2, <2>4, <3>1
  <2> QED  BY <2>3, <2>4
<1> QED  BY <1>3

\* Two lists of lines are accepted together if together they agree.
LEMMA TogetherAccepted ==
  ASSUME NEW A, NEW s \in Seq(Plain(A)), NEW t \in Seq(Plain(A)),
         Len(s) + Len(t) \in 2..MaxLines,
         \A i \in DOMAIN s : SingleSided(s[i]), \A i \in DOMAIN t : SingleSided(t[i]),
         TotalDebit(s) + TotalDebit(t) = TotalCredit(s) + TotalCredit(t)
  PROVE  s \o t \in Seq(Plain(A)) /\ Accepted(s \o t)
<1>1. Len(s) + Len(t) <= MaxLines /\ Len(s) + Len(t) >= 2 /\ Len(s) \in Nat /\ Len(t) \in Nat
  BY LenProperties DEF MaxLines
<1>2. /\ s \o t \in Seq(Plain(A)) /\ Len(s \o t) = Len(s) + Len(t)
      /\ TotalDebit(s \o t) = TotalDebit(s) + TotalDebit(t)
      /\ TotalCredit(s \o t) = TotalCredit(s) + TotalCredit(t)
  BY <1>1, ConcatTotals DEF Plain
<1>3. \A i \in DOMAIN (s \o t) : SingleSided((s \o t)[i])
  BY ConcatSided
<1> QED  BY <1>1, <1>2, <1>3 DEF Accepted, Balanced

\* Most entries move one amount from an account to another.
LEMMA MoveAccepted ==
  ASSUME NEW to, NEW from, NEW x \in Int, x > 0
  PROVE  Move(to, from, x) \in Seq(Plain({to, from})) /\ Accepted(Move(to, from, x))
<1>1. /\ Debit(to, x) \in Plain({to, from}) /\ Credit(from, x) \in Plain({to, from})
      /\ Debit(to, x).debit = x /\ Debit(to, x).credit = 0
      /\ Credit(from, x).debit = 0 /\ Credit(from, x).credit = x
      /\ SingleSided(Debit(to, x)) /\ SingleSided(Credit(from, x))
  BY Side
<1>2. /\ Move(to, from, x) \in Seq(Plain({to, from})) /\ Len(Move(to, from, x)) = 2
      /\ TotalDebit(Move(to, from, x)) = x + 0 /\ TotalCredit(Move(to, from, x)) = 0 + x
      /\ \A i \in DOMAIN Move(to, from, x) : SingleSided(Move(to, from, x)[i])
  BY <1>1, TwoLines DEF Move, Plain
<1> QED  BY <1>2 DEF Accepted, Balanced

\* A sale is accepted whatever eBay's fee and the rate round to, as long as the
\* wallet receives something (post_ebay_sale).
THEOREM SaleAccepted ==
  ASSUME NEW a, NEW o, NEW gross \in Int, NEW fee \in Int, NEW rate \in Int,
         Idr(fee, rate) >= 0, Idr(gross, rate) > Idr(fee, rate)
  PROVE  Accepted(EbaySale(a, gross, fee, rate, o).lines)
<1> DEFINE g == Idr(gross, rate)
           f == Idr(fee, rate)
           A == {EbayWallet(a), Single("SALES_REVENUE"), Single("EBAY_SELLING_FEES")}
           d == Debit(EbayWallet(a), g - f)
           c == Credit(Single("SALES_REVENUE"), g)
           e == Debit(Single("EBAY_SELLING_FEES"), f)
<1>1. g \in Int /\ f \in Int /\ f >= 0 /\ g > f
  BY IdrIsInt
<1> HIDE DEF g, f
<1>2. /\ d \in Plain(A) /\ d.debit = g - f /\ d.credit = 0 /\ SingleSided(d)
      /\ c \in Plain(A) /\ c.debit = 0 /\ c.credit = g /\ SingleSided(c)
      /\ e \in Plain(A) /\ e.debit = f /\ e.credit = 0 /\ (f > 0 => SingleSided(e))
  <2>1. g - f \in Int /\ g - f > 0 /\ g > 0
    BY <1>1
  <2> QED  BY <1>1, <2>1, Side
<1> HIDE DEF A, d, c, e
<1>3. /\ <<d, c>> \in Seq(Plain(A)) /\ Len(<<d, c>>) = 2
      /\ TotalDebit(<<d, c>>) = (g - f) + 0 /\ TotalCredit(<<d, c>>) = 0 + g
      /\ \A i \in DOMAIN <<d, c>> : SingleSided(<<d, c>>[i])
  BY <1>2, TwoLines DEF Plain
<1>4. /\ Optional(f > 0, e) \in Seq(Plain(A)) /\ Len(Optional(f > 0, e)) = IF f > 0 THEN 1 ELSE 0
      /\ TotalDebit(Optional(f > 0, e)) = IF f > 0 THEN f ELSE 0
      /\ TotalCredit(Optional(f > 0, e)) = IF f > 0 THEN 0 ELSE 0
      /\ \A i \in DOMAIN Optional(f > 0, e) : SingleSided(Optional(f > 0, e)[i])
  <2>1. (f > 0) \in BOOLEAN
    BY <1>1
  <2>2. /\ Optional(f > 0, e) \in Seq(Plain(A)) /\ Len(Optional(f > 0, e)) = IF f > 0 THEN 1 ELSE 0
        /\ TotalDebit(Optional(f > 0, e)) = IF f > 0 THEN e.debit ELSE 0
        /\ TotalCredit(Optional(f > 0, e)) = IF f > 0 THEN e.credit ELSE 0
        /\ \A i \in DOMAIN Optional(f > 0, e) : SingleSided(Optional(f > 0, e)[i])
    BY <1>2, <2>1, OptionalLine, Zenon
  <2> QED  BY <1>2, <2>2
<1>5. /\ <<d, c>> \o Optional(f > 0, e) \in Seq(Plain(A))
      /\ Accepted(<<d, c>> \o Optional(f > 0, e))
  <2>1. Len(<<d, c>>) + Len(Optional(f > 0, e)) \in 2..MaxLines
    BY <1>3, <1>4 DEF MaxLines
  <2>2. TotalDebit(<<d, c>>) + TotalDebit(Optional(f > 0, e))
          = TotalCredit(<<d, c>>) + TotalCredit(Optional(f > 0, e))
    BY <1>1, <1>3, <1>4
  <2> QED  BY <1>3, <1>4, <2>1, <2>2, TogetherAccepted
<1>6. Accepted(WithOrder(<<d, c>> \o Optional(f > 0, e), o))
  BY <1>5, Named DEF Plain
<1> QED  BY <1>6 DEF EbaySale, Posting, d, c, e, g, f

\* An amount that may be absent, as a line of an account.
LEMMA OptionalSide ==
  ASSUME NEW A, NEW a \in A, NEW x \in Int
  PROVE  /\ Optional(x > 0, Debit(a, x)) \in Seq(Plain(A))
         /\ Len(Optional(x > 0, Debit(a, x))) \in 0..1
         /\ x > 0 => Len(Optional(x > 0, Debit(a, x))) = 1
         /\ TotalDebit(Optional(x > 0, Debit(a, x))) = IF x > 0 THEN x ELSE 0
         /\ TotalCredit(Optional(x > 0, Debit(a, x))) = 0
         /\ \A i \in DOMAIN Optional(x > 0, Debit(a, x)) :
               SingleSided(Optional(x > 0, Debit(a, x))[i])
         /\ Optional(x > 0, Credit(a, x)) \in Seq(Plain(A))
         /\ Len(Optional(x > 0, Credit(a, x))) \in 0..1
         /\ x > 0 => Len(Optional(x > 0, Credit(a, x))) = 1
         /\ TotalDebit(Optional(x > 0, Credit(a, x))) = 0
         /\ TotalCredit(Optional(x > 0, Credit(a, x))) = IF x > 0 THEN x ELSE 0
         /\ \A i \in DOMAIN Optional(x > 0, Credit(a, x)) :
               SingleSided(Optional(x > 0, Credit(a, x))[i])
<1>1. /\ Debit(a, x) \in Plain(A) /\ Debit(a, x).debit = x /\ Debit(a, x).credit = 0
      /\ Credit(a, x) \in Plain(A) /\ Credit(a, x).debit = 0 /\ Credit(a, x).credit = x
      /\ x > 0 => SingleSided(Debit(a, x)) /\ SingleSided(Credit(a, x))
  BY Side
<1>2. CASE x > 0
  <2>1. /\ Optional(x > 0, Debit(a, x)) = <<Debit(a, x)>>
        /\ Optional(x > 0, Credit(a, x)) = <<Credit(a, x)>>
    BY <1>2 DEF Optional
  <2> QED  BY <1>1, <1>2, <2>1, OneLine DEF Plain
<1>3. CASE ~(x > 0)
  <2>1. Optional(x > 0, Debit(a, x)) = <<>> /\ Optional(x > 0, Credit(a, x)) = <<>>
    BY <1>3 DEF Optional
  <2> DEFINE d == Optional(x > 0, Debit(a, x))
             c == Optional(x > 0, Credit(a, x))
  <2>2. /\ d \in Seq(Plain(A)) /\ Len(d) = 0
        /\ TotalDebit(d) = 0 /\ TotalCredit(d) = 0
        /\ \A i \in DOMAIN d : SingleSided(d[i])
    BY <2>1, NoPlainLine
  <2>3. /\ c \in Seq(Plain(A)) /\ Len(c) = 0
        /\ TotalDebit(c) = 0 /\ TotalCredit(c) = 0
        /\ \A i \in DOMAIN c : SingleSided(c[i])
    BY <2>1, NoPlainLine
  <2> QED  BY <1>3, <2>2, <2>3
<1> QED  BY <1>2, <1>3

\* An exchange difference is at most one line, on the side of its sign.
LEMMA ExchangeLine ==
  ASSUME NEW code, NEW A, Single(code) \in A, NEW x \in Int
  PROVE  /\ Exchange(code, x) \in Seq(Plain(A))
         /\ Len(Exchange(code, x)) = IF x = 0 THEN 0 ELSE 1
         /\ TotalDebit(Exchange(code, x)) = IF x < 0 THEN -x ELSE 0
         /\ TotalCredit(Exchange(code, x)) = IF x > 0 THEN x ELSE 0
         /\ \A i \in DOMAIN Exchange(code, x) : SingleSided(Exchange(code, x)[i])
<1> DEFINE a == Single(code)
<1>1. a \in A /\ -x \in Int
  OBVIOUS
<1> HIDE DEF a
<1>2. /\ Debit(a, -x) \in Plain(A) /\ Debit(a, -x).debit = -x /\ Debit(a, -x).credit = 0
      /\ Credit(a, x) \in Plain(A) /\ Credit(a, x).debit = 0 /\ Credit(a, x).credit = x
      /\ x < 0 => SingleSided(Debit(a, -x))
      /\ x > 0 => SingleSided(Credit(a, x))
  BY <1>1, Side
<1>3. CASE x > 0
  <2>3. Optional(x > 0, Credit(a, x)) = <<Credit(a, x)>> /\ Optional(x < 0, Debit(a, -x)) = <<>>
    BY <1>3 DEF Optional
  <2>1. Exchange(code, x) = <<Credit(a, x)>> \o <<>>
    BY <2>3 DEF Exchange, a
  <2>2. Exchange(code, x) = <<Credit(a, x)>>
    BY <1>2, <2>1, ConcatEmptySeq
  <2> QED  BY <1>2, <1>3, <2>2, OneLine DEF Plain
<1>4. CASE x < 0
  <2>3. Optional(x < 0, Debit(a, -x)) = <<Debit(a, -x)>> /\ Optional(x > 0, Credit(a, x)) = <<>>
    BY <1>4 DEF Optional
  <2>1. Exchange(code, x) = <<>> \o <<Debit(a, -x)>>
    BY <2>3 DEF Exchange, a
  <2>2. Exchange(code, x) = <<Debit(a, -x)>>
    BY <1>2, <2>1, ConcatEmptySeq
  <2> QED  BY <1>2, <1>4, <2>2, OneLine DEF Plain
<1>5. CASE x = 0
  <2>1. Exchange(code, x) = <<>> \o <<>>
    BY <1>5 DEF Exchange, Optional
  <2>2. Exchange(code, x) = <<>>
    BY <2>1
  <2> DEFINE t == Exchange(code, x)
  <2>3. /\ t \in Seq(Plain(A)) /\ Len(t) = 0
        /\ TotalDebit(t) = 0 /\ TotalCredit(t) = 0
        /\ \A i \in DOMAIN t : SingleSided(t[i])
    BY <2>2, NoPlainLine
  <2> QED  BY <1>5, <2>3
<1> QED  BY <1>3, <1>4, <1>5

\* A withdrawal is accepted: the exchange difference is exactly what the two
\* rates and their three roundings leave (post_realized_fx_withdrawal).
THEOREM WithdrawalAccepted ==
  ASSUME NEW w, NEW gross \in Int, NEW fee \in Int, NEW rate \in Int, NEW booked \in Int,
         Idr(gross - fee, rate) > 0, Idr(fee, rate) > 0, Idr(gross, booked) > 0
  PROVE  Accepted(RealizedFxWithdrawal(w, gross, fee, rate, booked).lines)
<1> DEFINE n == Idr(gross - fee, rate)
           f == Idr(fee, rate)
           b == Idr(gross, booked)
           A == {<<"BCA_BRIDGING", w>>, Single("PAYOUT_FEE"), <<"PAYONEER_WALLET", w>>,
                 Single("REALIZED_FX")}
           j == Debit(<<"BCA_BRIDGING", w>>, n)
           k == Debit(Single("PAYOUT_FEE"), f)
           l == Credit(<<"PAYONEER_WALLET", w>>, b)
           x == n + f - b
<1>1. n \in Int /\ f \in Int /\ b \in Int /\ n > 0 /\ f > 0 /\ b > 0
  BY IdrIsInt
<1>2. Spread(gross, fee, rate, booked) = x
  BY DEF Spread
<1> HIDE DEF n, f, b
<1>3. x \in Int
  BY <1>1
<1>4. /\ j \in Plain(A) /\ j.debit = n /\ j.credit = 0 /\ SingleSided(j)
      /\ k \in Plain(A) /\ k.debit = f /\ k.credit = 0 /\ SingleSided(k)
      /\ l \in Plain(A) /\ l.debit = 0 /\ l.credit = b /\ SingleSided(l)
  BY <1>1, Side
<1>5. Single("REALIZED_FX") \in A
  OBVIOUS
<1> HIDE DEF A, j, k, l
<1>6. /\ <<j, k, l>> \in Seq(Plain(A)) /\ Len(<<j, k, l>>) = 3
      /\ TotalDebit(<<j, k, l>>) = n + f + 0 /\ TotalCredit(<<j, k, l>>) = 0 + 0 + b
      /\ \A i \in DOMAIN <<j, k, l>> : SingleSided(<<j, k, l>>[i])
  BY <1>4, ThreeLines DEF Plain
<1> DEFINE t == Exchange("REALIZED_FX", x)
<1>7. /\ t \in Seq(Plain(A)) /\ Len(t) = IF x = 0 THEN 0 ELSE 1
      /\ TotalDebit(t) = IF x < 0 THEN -x ELSE 0
      /\ TotalCredit(t) = IF x > 0 THEN x ELSE 0
      /\ \A i \in DOMAIN t : SingleSided(t[i])
  BY <1>3, <1>5, ExchangeLine
<1> HIDE DEF t
<1>8. TotalDebit(<<j, k, l>>) + TotalDebit(t) = TotalCredit(<<j, k, l>>) + TotalCredit(t)
  BY <1>1, <1>6, <1>7
<1>9. Len(<<j, k, l>>) + Len(t) \in 2..MaxLines
  BY <1>6, <1>7 DEF MaxLines
<1>10. Accepted(<<j, k, l>> \o t)
  BY <1>6, <1>7, <1>8, <1>9, TogetherAccepted
<1> QED  BY <1>2, <1>10 DEF RealizedFxWithdrawal, Posting, t, j, k, l, n, f, b

\* A revaluation is accepted whenever there is a difference to book
\* (post_unrealized_fx_revaluation).
THEOREM RevaluationAccepted ==
  ASSUME NEW w, NEW usd \in Int, NEW book \in Int, NEW rate \in Int, Idr(usd, rate) # book
  PROVE  Accepted(UnrealizedFxRevaluation(w, usd, book, rate).lines)
<1> DEFINE x == Idr(usd, rate) - book
           wallet == <<"PAYONEER_WALLET", w>>
           A == {wallet, Single("UNREALIZED_FX")}
           p == Optional(x > 0, Debit(wallet, x))
           t == Exchange("UNREALIZED_FX", x)
           q == Optional(x < 0, Credit(wallet, -x))
           z == Optional(-x > 0, Credit(wallet, -x))
<1>1. x \in Int /\ x # 0 /\ -x \in Int
  <2>1. Idr(usd, rate) \in Int
    BY IdrIsInt
  <2> QED  BY <2>1
<1>2. wallet \in A /\ Single("UNREALIZED_FX") \in A
  OBVIOUS
<1> HIDE DEF x, A, wallet
<1>3. /\ p \in Seq(Plain(A)) /\ Len(p) \in 0..1 /\ (x > 0 => Len(p) = 1)
      /\ TotalDebit(p) = IF x > 0 THEN x ELSE 0
      /\ TotalCredit(p) = 0
      /\ \A i \in DOMAIN p : SingleSided(p[i])
  BY <1>1, <1>2, OptionalSide
<1>4. /\ z \in Seq(Plain(A)) /\ Len(z) \in 0..1 /\ (-x > 0 => Len(z) = 1)
      /\ TotalDebit(z) = 0
      /\ TotalCredit(z) = IF -x > 0 THEN -x ELSE 0
      /\ \A i \in DOMAIN z : SingleSided(z[i])
  <2> DEFINE y == -x
  <2>1. y \in Int
    BY <1>1
  <2> HIDE DEF y
  <2>2. LET o == Optional(y > 0, Credit(wallet, y)) IN
        /\ o \in Seq(Plain(A)) /\ Len(o) \in 0..1 /\ (y > 0 => Len(o) = 1)
        /\ TotalDebit(o) = 0
        /\ TotalCredit(o) = IF y > 0 THEN y ELSE 0
        /\ \A i \in DOMAIN o : SingleSided(o[i])
    BY <1>2, <2>1, OptionalSide
  <2> QED  BY <2>2 DEF y
<1>5. q = z
  <2>1. (x < 0) = (-x > 0)
    BY <1>1
  <2> QED  BY <2>1
<1>6. /\ t \in Seq(Plain(A)) /\ Len(t) = IF x = 0 THEN 0 ELSE 1
      /\ TotalDebit(t) = IF x < 0 THEN -x ELSE 0
      /\ TotalCredit(t) = IF x > 0 THEN x ELSE 0
      /\ \A i \in DOMAIN t : SingleSided(t[i])
  BY <1>1, <1>2, ExchangeLine
<1> HIDE DEF p, q, z, t
<1>7. Len(p) + Len(t) <= MaxLines
  <2>1. Len(p) \in 0..1 /\ Len(t) \in 0..1
    BY <1>3, <1>6
  <2> QED  BY <2>1, FewLines
<1>8. /\ p \o t \in Seq(Plain(A)) /\ Len(p \o t) = Len(p) + Len(t)
      /\ TotalDebit(p \o t) = TotalDebit(p) + TotalDebit(t)
      /\ TotalCredit(p \o t) = TotalCredit(p) + TotalCredit(t)
  BY <1>3, <1>6, <1>7, PlainConcat
<1>9. \A i \in DOMAIN (p \o t) : SingleSided((p \o t)[i])
  BY <1>3, <1>6, ConcatSided
<1>10. Len(p \o t) + Len(z) \in 2..MaxLines
  BY <1>1, <1>3, <1>4, <1>6, <1>8 DEF MaxLines
<1>11. TotalDebit(p \o t) + TotalDebit(z) = TotalCredit(p \o t) + TotalCredit(z)
  BY <1>1, <1>3, <1>4, <1>6, <1>8
<1>12. Accepted((p \o t) \o z)
  BY <1>4, <1>8, <1>9, <1>10, <1>11, TogetherAccepted
<1> QED  BY <1>5, <1>12 DEF UnrealizedFxRevaluation, Posting, p, q, t, wallet, x

\* The consignor's payable and what the sale leaves of it add up to the gross,
\* under either model (post_consignment_sale).
LEMMA CreditsOfConsignment ==
  ASSUME NEW model, NEW A, NEW gross \in Int, NEW fee \in Int, NEW rate \in Int,
         NEW payout \in Int, payout > 0, Idr(fee, rate) > 0,
         ConsignmentTerms(model, gross, fee, rate, payout),
         Single("CONSIGNOR_PAYABLE") \in A, Single("CONSIGNMENT_COMMISSION_INCOME") \in A,
         Single("EBAY_SELLING_FEES") \in A, Single("SHIPPING_COST") \in A
  PROVE  /\ ConsignmentCredits(model, gross, fee, rate, payout) \in Seq(Plain(A))
         /\ Len(ConsignmentCredits(model, gross, fee, rate, payout)) \in 2..3
         /\ TotalDebit(ConsignmentCredits(model, gross, fee, rate, payout)) = 0
         /\ TotalCredit(ConsignmentCredits(model, gross, fee, rate, payout)) = Idr(gross, rate)
         /\ \A i \in DOMAIN ConsignmentCredits(model, gross, fee, rate, payout) :
               SingleSided(ConsignmentCredits(model, gross, fee, rate, payout)[i])
<1> DEFINE g == Idr(gross, rate)
           f == Idr(fee, rate)
           pay == <<Credit(Single("CONSIGNOR_PAYABLE"), payout)>>
<1>1. g \in Int /\ f \in Int /\ f > 0
  BY IdrIsInt
<1>2. /\ pay \in Seq(Plain(A)) /\ Len(pay) = 1
      /\ TotalDebit(pay) = 0 /\ TotalCredit(pay) = payout
      /\ \A i \in DOMAIN pay : SingleSided(pay[i])
  <2>1. /\ Credit(Single("CONSIGNOR_PAYABLE"), payout) \in Plain(A)
        /\ Credit(Single("CONSIGNOR_PAYABLE"), payout).debit = 0
        /\ Credit(Single("CONSIGNOR_PAYABLE"), payout).credit = payout
        /\ SingleSided(Credit(Single("CONSIGNOR_PAYABLE"), payout))
    BY Side
  <2> QED  BY <2>1, OneLine DEF Plain
<1>3. CASE model = "tier"
  <2> DEFINE x == g - payout
             k == Credit(Single("CONSIGNMENT_COMMISSION_INCOME"), x)
  <2>1. x \in Int /\ x > 0 /\ payout + x = g
    BY <1>1, <1>3 DEF ConsignmentTerms, Commission
  <2>2. ConsignmentCredits(model, gross, fee, rate, payout) = pay \o <<k>>
    BY <1>3 DEF ConsignmentCredits, Commission
  <2> HIDE DEF pay, x
  <2>3. k \in Plain(A) /\ k.debit = 0 /\ k.credit = x /\ SingleSided(k)
    BY <2>1, Side
  <2> HIDE DEF k
  <2>4. /\ <<k>> \in Seq(Plain(A)) /\ Len(<<k>>) = 1
        /\ TotalDebit(<<k>>) = 0 /\ TotalCredit(<<k>>) = x
        /\ \A i \in DOMAIN <<k>> : SingleSided(<<k>>[i])
    BY <2>3, OneLine DEF Plain
  <2>5. Len(pay) + Len(<<k>>) <= MaxLines
    BY <1>2, <2>4 DEF MaxLines
  <2>6. /\ pay \o <<k>> \in Seq(Plain(A)) /\ Len(pay \o <<k>>) = Len(pay) + Len(<<k>>)
        /\ TotalDebit(pay \o <<k>>) = TotalDebit(pay) + TotalDebit(<<k>>)
        /\ TotalCredit(pay \o <<k>>) = TotalCredit(pay) + TotalCredit(<<k>>)
    BY <1>2, <2>4, <2>5, PlainConcat
  <2>7. \A i \in DOMAIN (pay \o <<k>>) : SingleSided((pay \o <<k>>)[i])
    BY <1>2, <2>4, ConcatSided
  <2> QED  BY <1>2, <2>1, <2>2, <2>4, <2>6, <2>7
<1>4. CASE model # "tier"
  <2> DEFINE x == g - f - payout
             u == Optional(f > 0, Credit(Single("EBAY_SELLING_FEES"), f))
             v == Optional(x > 0, Credit(Single("SHIPPING_COST"), x))
  <2>1. x \in Int /\ x >= 0 /\ payout + f + x = g
    BY <1>1, <1>4 DEF ConsignmentTerms, Recovered
  <2>2. ConsignmentCredits(model, gross, fee, rate, payout) = pay \o (u \o v)
    BY <1>4 DEF ConsignmentCredits, Recovered
  <2> HIDE DEF pay, x, f
  <2>3. /\ u \in Seq(Plain(A)) /\ Len(u) \in 0..1 /\ Len(u) = 1 /\ TotalDebit(u) = 0
        /\ TotalCredit(u) = f /\ \A i \in DOMAIN u : SingleSided(u[i])
    BY <1>1, OptionalSide
  <2>4. /\ v \in Seq(Plain(A)) /\ Len(v) \in 0..1 /\ TotalDebit(v) = 0
        /\ TotalCredit(v) = x /\ \A i \in DOMAIN v : SingleSided(v[i])
    <3>1. TotalCredit(v) = IF x > 0 THEN x ELSE 0
      BY <2>1, OptionalSide
    <3>2. (IF x > 0 THEN x ELSE 0) = x
      BY <2>1
    <3> QED  BY <2>1, <3>1, <3>2, OptionalSide
  <2> HIDE DEF u, v
  <2> DEFINE t == u \o v
  <2>5. /\ t \in Seq(Plain(A)) /\ Len(t) = Len(u) + Len(v)
        /\ TotalDebit(t) = TotalDebit(u) + TotalDebit(v)
        /\ TotalCredit(t) = TotalCredit(u) + TotalCredit(v)
        /\ \A i \in DOMAIN t : SingleSided(t[i])
    <3>1. Len(u) + Len(v) <= MaxLines
      BY <2>3, <2>4, FewLines
    <3>2. \A i \in DOMAIN (u \o v) : SingleSided((u \o v)[i])
      BY <2>3, <2>4, ConcatSided
    <3> QED  BY <2>3, <2>4, <3>1, <3>2, PlainConcat
  <2> HIDE DEF t
  <2>6. Len(t) \in 1..2 /\ TotalDebit(t) = 0 /\ TotalCredit(t) = f + x
    BY <1>1, <2>1, <2>3, <2>4, <2>5
  <2>7. Len(pay) + Len(t) <= MaxLines
    <3>1. Len(t) \in 1..3
      BY <2>6
    <3> QED  BY <1>2, <3>1, SomeLines
  <2>8. /\ pay \o t \in Seq(Plain(A)) /\ Len(pay \o t) = Len(pay) + Len(t)
        /\ TotalDebit(pay \o t) = TotalDebit(pay) + TotalDebit(t)
        /\ TotalCredit(pay \o t) = TotalCredit(pay) + TotalCredit(t)
    BY <1>2, <2>5, <2>7, PlainConcat
  <2>9. \A i \in DOMAIN (pay \o t) : SingleSided((pay \o t)[i])
    BY <1>2, <2>5, ConcatSided
  <2>10. ConsignmentCredits(model, gross, fee, rate, payout) = pay \o t
    BY <2>2 DEF t
  <2>11. TotalDebit(pay \o t) = 0 /\ TotalCredit(pay \o t) = g /\ Len(pay \o t) \in 2..3
    <3>1. TotalDebit(pay \o t) = 0 /\ TotalCredit(pay \o t) = payout + (f + x)
      BY <1>2, <2>6, <2>8
    <3>2. payout + (f + x) = g
      BY <1>1, <2>1
    <3>3. Len(pay \o t) \in 2..3
      <4>1. Len(t) \in 1..2 /\ Len(pay \o t) = 1 + Len(t)
        BY <1>2, <2>6, <2>8
      <4> QED  BY <4>1, OneMoreLine
    <3> QED  BY <3>1, <3>2, <3>3
  <2> QED  BY <2>8, <2>9, <2>10, <2>11
<1> QED  BY <1>3, <1>4

\* A consignment sale is accepted on any terms the code agrees to: the five lines
\* of the fee-and-shipping model add up like the four of the tier model.
THEOREM ConsignmentAccepted ==
  ASSUME NEW model, NEW a, NEW o, NEW r, NEW gross \in Int, NEW fee \in Int, NEW rate \in Int,
         NEW payout \in Int, payout > 0, Idr(fee, rate) > 0, Idr(gross, rate) > Idr(fee, rate),
         ConsignmentTerms(model, gross, fee, rate, payout)
  PROVE  Accepted(ConsignmentSale(model, a, gross, fee, rate, payout, o, r).lines)
<1> DEFINE g == Idr(gross, rate)
           f == Idr(fee, rate)
           A == {EbayWallet(a), Single("CONSIGNOR_PAYABLE"), Single("CONSIGNMENT_COMMISSION_INCOME"),
                 Single("EBAY_SELLING_FEES"), Single("SHIPPING_COST")}
           j == Debit(EbayWallet(a), g - f)
           k == Debit(Single("EBAY_SELLING_FEES"), f)
           t == ConsignmentCredits(model, gross, fee, rate, payout)
<1>1. /\ t \in Seq(Plain(A)) /\ Len(t) \in 2..3
      /\ TotalDebit(t) = 0 /\ TotalCredit(t) = g
      /\ \A i \in DOMAIN t : SingleSided(t[i])
  <2>1. /\ Single("CONSIGNOR_PAYABLE") \in A /\ Single("CONSIGNMENT_COMMISSION_INCOME") \in A
        /\ Single("EBAY_SELLING_FEES") \in A /\ Single("SHIPPING_COST") \in A
    OBVIOUS
  <2> HIDE DEF A, g, f, j, k, t
  <2>2. /\ ConsignmentCredits(model, gross, fee, rate, payout) \in Seq(Plain(A))
        /\ Len(ConsignmentCredits(model, gross, fee, rate, payout)) \in 2..3
        /\ TotalDebit(ConsignmentCredits(model, gross, fee, rate, payout)) = 0
        /\ TotalCredit(ConsignmentCredits(model, gross, fee, rate, payout)) = Idr(gross, rate)
        /\ \A i \in DOMAIN ConsignmentCredits(model, gross, fee, rate, payout) :
              SingleSided(ConsignmentCredits(model, gross, fee, rate, payout)[i])
    BY <2>1, CreditsOfConsignment
  <2> QED  BY <2>2 DEF t, g
<1>2. g \in Int /\ f \in Int /\ f > 0 /\ g > f /\ g - f \in Int /\ g - f > 0
  <2>1. g \in Int /\ f \in Int
    BY IdrIsInt
  <2> QED  BY <2>1
<1> HIDE DEF g, f, t
<1>3. /\ j \in Plain(A) /\ j.debit = g - f /\ j.credit = 0 /\ SingleSided(j)
      /\ k \in Plain(A) /\ k.debit = f /\ k.credit = 0 /\ SingleSided(k)
  BY <1>2, Side
<1> HIDE DEF A, j, k
<1>4. /\ <<j, k>> \in Seq(Plain(A)) /\ Len(<<j, k>>) = 2
      /\ TotalDebit(<<j, k>>) = (g - f) + f /\ TotalCredit(<<j, k>>) = 0 + 0
      /\ \A i \in DOMAIN <<j, k>> : SingleSided(<<j, k>>[i])
  BY <1>3, TwoLines DEF Plain
<1>5. Len(<<j, k>>) + Len(t) \in 2..MaxLines
  <2>1. Len(t) \in 1..3
    BY <1>1
  <2> QED  BY <1>4, <2>1, SomeLines
<1>6. TotalDebit(<<j, k>>) + TotalDebit(t) = TotalCredit(<<j, k>>) + TotalCredit(t)
  BY <1>1, <1>2, <1>4
<1>7. <<j, k>> \o t \in Seq(Plain(A)) /\ Accepted(<<j, k>> \o t)
  BY <1>1, <1>4, <1>5, <1>6, TogetherAccepted
<1>8. /\ WithOrder(<<j, k>> \o t, o) \in Seq(Line(A, {o}, {NULL}))
      /\ Accepted(WithOrder(<<j, k>> \o t, o))
  BY <1>7, Named DEF Plain
<1>9. Accepted(WithRef(WithOrder(<<j, k>> \o t, o), r))
  BY <1>8, Named
<1> QED  BY <1>9 DEF ConsignmentSale, Posting, t, j, k, g, f

\* The reversal of an accepted entry is accepted (post_reversal_entry).
THEOREM ReversalAccepted ==
  ASSUME NEW A, NEW O, NEW R, NEW entry, entry.lines \in Seq(Line(A, O, R)),
         Accepted(entry.lines)
  PROVE  Accepted(Reversal(entry).lines)
<1> DEFINE s == entry.lines
           t == [i \in DOMAIN s |-> [s[i] EXCEPT !.debit = s[i].credit, !.credit = s[i].debit]]
<1>1. Reversal(entry).lines = t
  BY DEF Reversal, Posting
<1>2. DOMAIN s = 1..Len(s) /\ Len(s) \in Nat /\ \A i \in 1..Len(s) : s[i] \in Line(A, O, R)
  OBVIOUS
<1>3. Accepted(s)
  OBVIOUS
<1> HIDE DEF s
<1>4. \A i \in 1..Len(s) :
        t[i] \in Line(A, O, R) /\ t[i].debit = s[i].credit /\ t[i].credit = s[i].debit
  BY <1>2 DEF Line
<1>5. DOMAIN t = 1..Len(s)
  BY <1>2
<1> HIDE DEF t
<1>6. Len(t) = Len(s)
  <2>1. t \in [1..Len(s) -> Line(A, O, R)]
    BY <1>2, <1>4, <1>5 DEF t
  <2> QED  BY <1>2, <2>1, FunctionIsSeq
<1>7. \A i : DebitAt(t, i) = CreditAt(s, i) /\ CreditAt(t, i) = DebitAt(s, i)
  BY <1>2, <1>4, <1>5 DEF DebitAt, CreditAt
<1>8. TotalDebit(t) = TotalCredit(s) /\ TotalCredit(t) = TotalDebit(s)
  BY <1>7 DEF TotalDebit, TotalCredit
<1>9. \A i \in DOMAIN t : SingleSided(t[i])
  BY <1>2, <1>3, <1>4, <1>5 DEF Accepted, SingleSided
<1> QED  BY <1>1, <1>3, <1>6, <1>8, <1>9 DEF Accepted, Balanced

-----------------------------------------------------------------------------
(* The posting step of the review queue.                                     *)

\* Entries that move one amount, with or without names on their lines.
LEMMA MoveInsertable ==
  ASSUME NEW source, source # "inter_account_transfer", NEW to, NEW from,
         NEW x \in Int, x > 0, NEW n
  PROVE  /\ Insertable(Posting(source, Move(to, from, x)))
         /\ Insertable(Posting(source, WithRef(Move(to, from, x), n)))
         /\ Insertable(Posting(source, WithOrder(Move(to, from, x), n)))
<1>1. Move(to, from, x) \in Seq(Plain({to, from})) /\ Accepted(Move(to, from, x))
  BY MoveAccepted
<1>2. Accepted(WithRef(Move(to, from, x), n)) /\ Accepted(WithOrder(Move(to, from, x), n))
  BY <1>1, Named DEF Plain
<1> QED  BY <1>1, <1>2 DEF Insertable, TransferAllowed, Posting

LEMMA TransferInsertable ==
  ASSUME NEW to, NEW from, NEW x \in Int, x > 0, to[1] \in Transferable, from[1] \in Transferable
  PROVE  Insertable(InterAccountTransfer(to, from, x))
<1>1. Accepted(Move(to, from, x))
  BY MoveAccepted
<1>2. \A i \in DOMAIN Move(to, from, x) : Move(to, from, x)[i].account[1] \in Transferable
  <2>1. /\ DOMAIN Move(to, from, x) = 1..2
        /\ Move(to, from, x)[1].account = to /\ Move(to, from, x)[2].account = from
    BY DEF Move, Debit, Credit
  <2>2. \A i \in 1..2 : i = 1 \/ i = 2
    OBVIOUS
  <2> QED  BY <2>1, <2>2
<1> QED  BY <1>1, <1>2 DEF Insertable, TransferAllowed, InterAccountTransfer, Posting

\* Two lines on one side and their sum on the other.
LEMMA SplitAccepted ==
  ASSUME NEW a, NEW b, NEW c, NEW x \in Int, NEW y \in Int, x > 0, y > 0
  PROVE  /\ Accepted(<<Debit(a, x), Debit(b, y), Credit(c, x + y)>>)
         /\ <<Debit(a, x + y), Credit(b, x), Credit(c, y)>> \in Seq(Plain({a, b, c}))
         /\ Accepted(<<Debit(a, x + y), Credit(b, x), Credit(c, y)>>)
<1> DEFINE A == {a, b, c}
           z == x + y
           i == Debit(a, x)
           j == Debit(b, y)
           k == Credit(c, z)
           l == Debit(a, z)
           m == Credit(b, x)
           n == Credit(c, y)
<1>1. z \in Int /\ z > 0 /\ z = x + y
  OBVIOUS
<1> HIDE DEF z
<1>2. /\ i \in Plain(A) /\ i.debit = x /\ i.credit = 0 /\ SingleSided(i)
      /\ j \in Plain(A) /\ j.debit = y /\ j.credit = 0 /\ SingleSided(j)
      /\ k \in Plain(A) /\ k.debit = 0 /\ k.credit = z /\ SingleSided(k)
      /\ l \in Plain(A) /\ l.debit = z /\ l.credit = 0 /\ SingleSided(l)
      /\ m \in Plain(A) /\ m.debit = 0 /\ m.credit = x /\ SingleSided(m)
      /\ n \in Plain(A) /\ n.debit = 0 /\ n.credit = y /\ SingleSided(n)
  BY <1>1, Side
<1> HIDE DEF A, i, j, k, l, m, n
<1>3. /\ Len(<<i, j, k>>) = 3 /\ TotalDebit(<<i, j, k>>) = x + y + 0
      /\ TotalCredit(<<i, j, k>>) = 0 + 0 + z
      /\ \A h \in DOMAIN <<i, j, k>> : SingleSided(<<i, j, k>>[h])
  BY <1>2, ThreeLines DEF Plain
<1>4. /\ <<l, m, n>> \in Seq(Plain(A)) /\ Len(<<l, m, n>>) = 3
      /\ TotalDebit(<<l, m, n>>) = z + 0 + 0 /\ TotalCredit(<<l, m, n>>) = 0 + x + y
      /\ \A h \in DOMAIN <<l, m, n>> : SingleSided(<<l, m, n>>[h])
  BY <1>2, ThreeLines DEF Plain
<1>5. Accepted(<<i, j, k>>)
  BY <1>1, <1>3 DEF Accepted, Balanced
<1>6. Accepted(<<l, m, n>>)
  BY <1>1, <1>4 DEF Accepted, Balanced
<1> QED  BY <1>4, <1>5, <1>6 DEF A, z, i, j, k, l, m, n

LEMMA SplitInsertable ==
  ASSUME NEW from, NEW total \in Int, NEW shipping \in Int, shipping > 0, shipping < total
  PROVE  Insertable(CogsWithShippingSplit(from, total, shipping))
<1> DEFINE x == total - shipping
<1>1. x \in Int /\ x > 0 /\ x + shipping = total
  OBVIOUS
<1> HIDE DEF x
<1>2. Accepted(<<Debit(Single("COGS"), x), Debit(Single("SHIPPING_COST"), shipping),
                 Credit(from, x + shipping)>>)
  BY <1>1, SplitAccepted
<1>3. CogsWithShippingSplit(from, total, shipping) =
        Posting("bank_other", <<Debit(Single("COGS"), x), Debit(Single("SHIPPING_COST"), shipping),
                                Credit(from, x + shipping)>>)
  BY <1>1 DEF CogsWithShippingSplit, x
<1> QED  BY <1>2, <1>3 DEF Insertable, TransferAllowed, Posting

LEMMA PayrollInsertable ==
  ASSUME NEW from, NEW net \in Int, net > 0, NEW repaid \in Int, repaid > 0, NEW r
  PROVE  Insertable(PayrollWithRepayment(from, net, repaid, r))
<1> DEFINE a == Single("PAYROLL")
           b == Single("EMPLOYEE_LOAN_RECEIVABLE")
           s == <<Debit(a, repaid + net), Credit(b, repaid), Credit(from, net)>>
<1>1. s \in Seq(Plain({a, b, from})) /\ Accepted(s)
  BY SplitAccepted
<1>2. Accepted(WithRef(s, r))
  BY <1>1, Named DEF Plain
<1>3. net + repaid = repaid + net
  OBVIOUS
<1>4. PayrollWithRepayment(from, net, repaid, r) = Posting("bank_other", WithRef(s, r))
  BY <1>3 DEF PayrollWithRepayment
<1> HIDE DEF s
<1> QED  BY <1>2, <1>4 DEF Insertable, TransferAllowed, Posting

LEMMA IncomeInsertable ==
  ASSUME NEW code, NEW with, NEW x \in Int, x # 0
  PROVE  Insertable(IncomeLine(code, with, x))
<1>1. CASE x > 0
  <2>1. IncomeLine(code, with, x) = Posting("bank_other", Move(with, Single(code), x))
    BY <1>1 DEF IncomeLine
  <2> QED  BY <1>1, <2>1, MoveInsertable
<1>2. CASE ~(x > 0)
  <2>1. IncomeLine(code, with, x) = Posting("bank_other", Move(Single(code), with, -x))
    BY <1>2 DEF IncomeLine
  <2>2. -x \in Int /\ -x > 0
    BY <1>2
  <2> QED  BY <2>1, <2>2, MoveInsertable
<1> QED  BY <1>1, <1>2

\* Whatever category a human or a rule gives a line of any feed, the entry it
\* becomes passes every check of the database, if the dispatcher makes one at
\* all: post_pending_rows leaves a row behind for its own reasons only.
THEOREM DispatchInsertable ==
  ASSUME NEW row, row.amount \in Int, row.amount # 0, row.part \in Nat,
         NEW c \in Category, ~SignMismatch(row, c), Posted(row, c) # NULL
  PROVE  Insertable(Posted(row, c))
<1> DEFINE x == Magnitude(row)
           from == PayingAccount(row)
<1>1. x \in Int /\ x > 0
  BY DEF Magnitude
<1>2. row.part # 0 => row.part \in Int /\ row.part > 0
  OBVIOUS
<1> HIDE DEF x, from
<1>3. CASE c \in PurchaseCategory
  <2>1. Posted(row, c) = Purchase(row, c) /\ Purchase(row, c) # NULL
    BY <1>3 DEF Posted, ExpenseOf, PurchaseCategory
  <2>2. CASE row.part # 0
    <3>1. row.part < x /\ Purchase(row, c) = CogsWithShippingSplit(from, x, row.part)
      BY <2>1, <2>2 DEF Purchase, x, from
    <3> QED  BY <1>1, <1>2, <2>1, <2>2, <3>1, SplitInsertable
  <2>3. CASE row.part = 0
    <3>1. \/ Purchase(row, c) = Posting("cogs_purchase", Move(Single("COGS"), Main, x))
          \/ Purchase(row, c) = Posting("bank_other", Move(Single("COGS"), from, x))
      BY <2>3 DEF Purchase, CogsPurchase, OperatingExpense, x, from
    <3> QED  BY <1>1, <2>1, <3>1, MoveInsertable
  <2> QED  BY <2>2, <2>3
<1>4. CASE c \in DOMAIN ExpenseOf
  <2>1. Posted(row, c) = Posting("bank_other", Move(Single(ExpenseOf[c]), from, x))
    BY <1>4 DEF Posted, OperatingExpense, ExpenseOf, PurchaseCategory, x, from
  <2> QED  BY <1>1, <2>1, MoveInsertable
<1>5. CASE c = "operating_expense"
  <2>1. Posted(row, c) = Posting("bank_other", Move(Single(row.expense), from, x))
    BY <1>5 DEF Posted, OperatingExpense, ExpenseOf, PurchaseCategory, x, from
  <2> QED  BY <1>1, <2>1, MoveInsertable
<1>6. CASE c = "payroll"
  <2>1. Posted(row, c) = Payroll(row)
    BY <1>6 DEF Posted, ExpenseOf, PurchaseCategory
  <2>2. CASE row.part # 0
    <3>1. Payroll(row) = PayrollWithRepayment(from, x, row.part, row.ref)
      BY <2>2 DEF Payroll, x, from
    <3> QED  BY <1>1, <1>2, <2>1, <2>2, <3>1, PayrollInsertable
  <2>3. CASE row.part = 0
    <3>1. Payroll(row) = Posting("bank_other", Move(Single("PAYROLL"), from, x))
      BY <2>3 DEF Payroll, OperatingExpense, x, from
    <3> QED  BY <1>1, <2>1, <3>1, MoveInsertable
  <2> QED  BY <2>2, <2>3
<1>7. CASE c = "other"
  <2>1. Posted(row, c) = Other(row)
    BY <1>7 DEF Posted, ExpenseOf, PurchaseCategory
  <2>2. CASE row.amount > 0
    <3>1. Other(row) = IncomeLine("OTHER_INCOME", from, row.amount)
      BY <2>2 DEF Other, from
    <3> QED  BY <2>1, <3>1, IncomeInsertable
  <2>3. CASE ~(row.amount > 0)
    <3>1. Other(row) = Posting("bank_other", Move(Single("GENERAL_OPEX"), from, x))
      BY <2>3 DEF Other, OperatingExpense, x, from
    <3> QED  BY <1>1, <2>1, <3>1, MoveInsertable
  <2> QED  BY <2>2, <2>3
<1>8. CASE c = "interest_income"
  <2>1. Posted(row, c) = IncomeLine("INTEREST_INCOME", from, row.amount)
    BY <1>8 DEF Posted, ExpenseOf, PurchaseCategory, InterestIncomeLine, from
  <2> QED  BY <2>1, IncomeInsertable
<1>9. CASE c = "consignment_payout"
  <2> DEFINE r == IF row.ref = NULL THEN "unspecified" ELSE row.ref
  <2>1. Posted(row, c) =
          Posting("consignment_payout", WithRef(Move(Single("CONSIGNOR_PAYABLE"), from, x), r))
    BY <1>9 DEF Posted, ExpenseOf, PurchaseCategory, Reimbursement, ConsignorReimbursement, x, from
  <2> HIDE DEF r
  <2> QED  BY <1>1, <2>1, MoveInsertable
<1>10. CASE c = "employee_loan_disbursement"
  <2>1. Posted(row, c) =
          Posting("bank_other", WithRef(Move(Single("EMPLOYEE_LOAN_RECEIVABLE"), from, x), row.ref))
    BY <1>10 DEF Posted, ExpenseOf, PurchaseCategory, LoanDisbursement, x, from
  <2> QED  BY <1>1, <2>1, MoveInsertable
<1>11. CASE c \in {"customer_refund", "ebay_dispute_won"}
  <2> DEFINE w == StageWallet(RefundStage(row))
             s == Single("SALES_RETURNS_ALLOWANCES")
  <2>1. \/ Posted(row, c) = Posting("ebay_refund", WithOrder(Move(s, w, x), NULL))
        \/ Posted(row, c) = Posting("ebay_refund", WithOrder(Move(w, s, x), NULL))
    BY <1>11 DEF Posted, ExpenseOf, PurchaseCategory, Refund, RefundReversal, x
  <2> HIDE DEF w, s
  <2> QED  BY <1>1, <2>1, MoveInsertable
<1>12. CASE c = "revenue_settlement"
  <2>1. Posted(row, c) = InterAccountTransfer(<<"PAYONEER_WALLET", row.group>>, EbayWallet(row.ebay), row.amount)
    BY <1>12 DEF Posted, ExpenseOf, PurchaseCategory, Settlement
  <2>2. row.amount > 0
    BY <1>12 DEF SignMismatch, Inflow
  <2>3. /\ <<"PAYONEER_WALLET", row.group>>[1] \in Transferable
        /\ EbayWallet(row.ebay)[1] \in Transferable
    BY DEF EbayWallet, Transferable
  <2> QED  BY <2>1, <2>2, <2>3, TransferInsertable
<1>13. CASE c = "internal_transfer"
  <2>1. Posted(row, c) = InterAccountTransfer(Main, <<"BCA_BRIDGING", row.peer>>, x)
    BY <1>13 DEF Posted, ExpenseOf, PurchaseCategory, Sweep, x
  <2>2. Main[1] \in Transferable /\ <<"BCA_BRIDGING", row.peer>>[1] \in Transferable
    BY DEF Main, Single, Transferable
  <2> QED  BY <1>1, <2>1, <2>2, TransferInsertable
<1>14. CASE c \in {"cogs_refund", "shipping_cost_refund", "inventory_deposit",
                   "legacy_ebay_account_payout"}
  <2>1. \/ Posted(row, c) = Posting("bank_other", Move(Main, Single("COGS"), x))
        \/ Posted(row, c) = Posting("bank_other", Move(Main, Single("SHIPPING_COST"), x))
        \/ Posted(row, c) =
             Posting("bank_other", WithRef(Move(Single("INVENTORY_DEPOSITS"), Main, x), row.ref))
        \/ Posted(row, c) = Posting("bank_other", Move(Main, Single("SALES_REVENUE"), x))
    BY <1>14 DEF Posted, ExpenseOf, PurchaseCategory, OnlyMain, CogsRefund, ShippingCostRefund,
                 InventoryDeposit, LegacyPayout, x
  <2> QED  BY <1>1, <2>1, MoveInsertable
<1>15. CASE c \in {"owners_draw", "owners_contribution"}
  <2>1. \/ Posted(row, c) = Posting("owner_draw", Move(Single("OWNERS_DRAW"), Main, x))
        \/ Posted(row, c) = Posting("owner_contribution", Move(Main, Single("OWNERS_CAPITAL"), x))
    BY <1>15 DEF Posted, ExpenseOf, PurchaseCategory, OwnerDraw, OwnerContribution, x
  <2> QED  BY <1>1, <2>1, MoveInsertable
<1> QED
  BY <1>3, <1>4, <1>5, <1>6, <1>7, <1>8, <1>9, <1>10, <1>11, <1>12, <1>13, <1>14, <1>15
  DEF Category, Outflow, Inflow, PurchaseCategory, ExpenseOf

=============================================================================
