--------------------------- MODULE ReportsProofs ----------------------------
(***************************************************************************)
(* What the statements of Reports show of any journal of balanced entries    *)
(* whose lines they know (JournalOK), however it came about and however      *)
(* long it is.  That the journal of the Ledger is one is LedgerProofs.       *)
(***************************************************************************)
EXTENDS Reports, SumLemmas

\* An entry a statement can be drawn from: balanced, of a month, and with lines
\* the statements know.
ControlCode == {"CONSIGNOR_PAYABLE", "EMPLOYEE_LOAN_RECEIVABLE", "INVENTORY_DEPOSITS"}

LineOK(source, l) ==
  /\ l.account \in Account /\ l.debit \in Int /\ l.credit \in Int
  /\ l.account[1] # "RETAINED_EARNINGS"
  /\ l.account[1] \in ControlCode => l.ref # NULL
  /\ l.account[1] = "UNREALIZED_FX" => source = "fx_revaluation"
  /\ source = "fx_revaluation" => l.account[1] \in {"PAYONEER_WALLET", "UNREALIZED_FX"}
  /\ source = "inventory_deposit_received" => l.account[1] \in {"COGS", "INVENTORY_DEPOSITS"}

EntryOK(e) ==
  /\ e.period \in Period
  /\ \E n \in 0..MaxLines : DOMAIN e.lines = 1..n
  /\ TotalDebit(e.lines) = TotalCredit(e.lines)
  /\ \A k \in DOMAIN e.lines : LineOK(e.source, e.lines[k])

JournalOK ==
  /\ \E n \in Nat : DOMAIN journal = 1..n
  /\ \A i \in DOMAIN journal : EntryOK(journal[i])

\* What a row adds to a debit balance.
Amount == [r \in Rows |-> LineOf(r).debit - LineOf(r).credit]

LEMMA RowIs ==
  ASSUME JournalOK, NEW r \in Rows
  PROVE  /\ r[1] \in DOMAIN journal /\ r[2] \in DOMAIN journal[r[1]].lines /\ r = <<r[1], r[2]>>
         /\ EntryOK(journal[r[1]]) /\ LineOK(Source(r), LineOf(r))
         /\ LineOf(r).account \in Account /\ Code(r) \in AccountCode
         /\ Amount[r] = LineOf(r).debit - LineOf(r).credit /\ Amount[r] \in Int
         /\ journal[r[1]].period \in Period
<1>1. PICK i \in DOMAIN journal : r \in {i} \X DOMAIN journal[i].lines
  BY DEF Rows
<1>2. r[1] = i /\ r[2] \in DOMAIN journal[i].lines /\ r = <<r[1], r[2]>>
  BY <1>1
<1>3. EntryOK(journal[i])
  BY DEF JournalOK
<1>4. LineOK(Source(r), LineOf(r))
  BY <1>2, <1>3 DEF EntryOK, Source, LineOf
<1>5. LineOf(r).account \in Account /\ LineOf(r).debit \in Int /\ LineOf(r).credit \in Int
  BY <1>4 DEF LineOK
<1>6. Code(r) \in AccountCode
  BY <1>5 DEF Code, Account
<1>7. Amount[r] = LineOf(r).debit - LineOf(r).credit /\ Amount[r] \in Int
  BY <1>5 DEF Amount
<1> QED  BY <1>2, <1>3, <1>4, <1>5, <1>6, <1>7 DEF EntryOK

LEMMA RowsFinite ==
  ASSUME JournalOK
  PROVE  IsFiniteSet(Rows) /\ \A R \in SUBSET Rows : IsFiniteSet(R)
<1>1. PICK n \in Nat : DOMAIN journal = 1..n
  BY DEF JournalOK
<1> DEFINE B == (1..n) \X (1..MaxLines)
<1>2. IsFiniteSet(B)
  <2>1. n \in Int /\ 1 \in Int /\ MaxLines \in Int
    BY DEF MaxLines
  <2>2. IsFiniteSet(1..n) /\ IsFiniteSet(1..MaxLines)
    BY <2>1, FS_Interval
  <2> QED  BY <2>2, FS_Product
<1>3. Rows \subseteq B
  <2>1. ASSUME NEW r \in Rows PROVE r \in B
    <3>1. r[1] \in 1..n /\ r = <<r[1], r[2]>> /\ r[2] \in DOMAIN journal[r[1]].lines
          /\ EntryOK(journal[r[1]])
      BY <1>1, RowIs
    <3>2. PICK m \in 0..MaxLines : DOMAIN journal[r[1]].lines = 1..m
      BY <3>1 DEF EntryOK
    <3>3. r[2] \in 1..MaxLines
      BY <3>1, <3>2 DEF MaxLines
    <3> QED  BY <3>1, <3>3
  <2> QED  BY <2>1
<1>4. IsFiniteSet(Rows)
  BY <1>2, <1>3, FS_Subset
<1> QED  BY <1>4, FS_Subset

\* The sums of the model are totals.
LEMMA DebitsFold ==
  ASSUME NEW R, IsFiniteSet(R)
  PROVE  Debits(R) = Total([x \in R |-> (LineOf(x).debit - LineOf(x).credit)], R)
<1> DEFINE f == [x \in R |-> (LineOf(x).debit - LineOf(x).credit)]
           Eq(k) == k = [s \in SUBSET R |-> IF s = {} THEN 0
                           ELSE (LineOf((CHOOSE x \in s : TRUE)).debit - LineOf((CHOOSE x \in s : TRUE)).credit) + k[s \ {CHOOSE x \in s : TRUE}]]
<1>1. \A k : Sums(k, f, R) <=> Eq(k)
  <2>1. ASSUME NEW s \in SUBSET R, s # {}
        PROVE  f[Pick(s)] = (LineOf((CHOOSE x \in s : TRUE)).debit - LineOf((CHOOSE x \in s : TRUE)).credit)
    BY <2>1 DEF Pick
  <2> HIDE DEF f
  <2> QED  BY <2>1 DEF Sums, Pick
<1>2. Debits(R) = (CHOOSE k : Eq(k))[R]
  BY DEF MapThenSumSet, MapThenFoldSet, Debits
<1> HIDE DEF Eq, f
<1>3. \E k : Eq(k)
  BY <1>1, SumsExists
<1>4. Sums(CHOOSE k : Eq(k), f, R)
  BY <1>1, <1>3
<1> QED  BY <1>2, <1>4, TotalIs DEF f


LEMMA CashFlowFold ==
  ASSUME NEW p, NEW K, IsFiniteSet(K)
  PROVE  MapThenSumSet(LAMBDA key : CashFlowLine(key, p), K) = Total([x \in K |-> CashFlowLine(x, p)], K)
<1> DEFINE f == [x \in K |-> CashFlowLine(x, p)]
           Eq(k) == k = [s \in SUBSET K |-> IF s = {} THEN 0
                           ELSE CashFlowLine((CHOOSE x \in s : TRUE), p) + k[s \ {CHOOSE x \in s : TRUE}]]
<1>1. \A k : Sums(k, f, K) <=> Eq(k)
  <2>1. ASSUME NEW s \in SUBSET K, s # {}
        PROVE  f[Pick(s)] = CashFlowLine((CHOOSE x \in s : TRUE), p)
    BY <2>1 DEF Pick
  <2> HIDE DEF f
  <2> QED  BY <2>1 DEF Sums, Pick
<1>2. MapThenSumSet(LAMBDA key : CashFlowLine(key, p), K) = (CHOOSE k : Eq(k))[K]
  BY DEF MapThenSumSet, MapThenFoldSet
<1> HIDE DEF Eq, f
<1>3. \E k : Eq(k)
  BY <1>1, SumsExists
<1>4. Sums(CHOOSE k : Eq(k), f, K)
  BY <1>1, <1>3
<1> QED  BY <1>2, <1>4, TotalIs DEF f

LEMMA BeforeFold ==
  ASSUME NEW p, NEW K, IsFiniteSet(K)
  PROVE  MapThenSumSet(LAMBDA a : BalanceBefore(a, p), K) = Total([x \in K |-> BalanceBefore(x, p)], K)
<1> DEFINE f == [x \in K |-> BalanceBefore(x, p)]
           Eq(k) == k = [s \in SUBSET K |-> IF s = {} THEN 0
                           ELSE BalanceBefore((CHOOSE x \in s : TRUE), p) + k[s \ {CHOOSE x \in s : TRUE}]]
<1>1. \A k : Sums(k, f, K) <=> Eq(k)
  <2>1. ASSUME NEW s \in SUBSET K, s # {}
        PROVE  f[Pick(s)] = BalanceBefore((CHOOSE x \in s : TRUE), p)
    BY <2>1 DEF Pick
  <2> HIDE DEF f
  <2> QED  BY <2>1 DEF Sums, Pick
<1>2. MapThenSumSet(LAMBDA a : BalanceBefore(a, p), K) = (CHOOSE k : Eq(k))[K]
  BY DEF MapThenSumSet, MapThenFoldSet
<1> HIDE DEF Eq, f
<1>3. \E k : Eq(k)
  BY <1>1, SumsExists
<1>4. Sums(CHOOSE k : Eq(k), f, K)
  BY <1>1, <1>3
<1> QED  BY <1>2, <1>4, TotalIs DEF f

LEMMA ThroughFold ==
  ASSUME NEW p, NEW K, IsFiniteSet(K)
  PROVE  MapThenSumSet(LAMBDA a : BalanceThrough(a, p), K) = Total([x \in K |-> BalanceThrough(x, p)], K)
<1> DEFINE f == [x \in K |-> BalanceThrough(x, p)]
           Eq(k) == k = [s \in SUBSET K |-> IF s = {} THEN 0
                           ELSE BalanceThrough((CHOOSE x \in s : TRUE), p) + k[s \ {CHOOSE x \in s : TRUE}]]
<1>1. \A k : Sums(k, f, K) <=> Eq(k)
  <2>1. ASSUME NEW s \in SUBSET K, s # {}
        PROVE  f[Pick(s)] = BalanceThrough((CHOOSE x \in s : TRUE), p)
    BY <2>1 DEF Pick
  <2> HIDE DEF f
  <2> QED  BY <2>1 DEF Sums, Pick
<1>2. MapThenSumSet(LAMBDA a : BalanceThrough(a, p), K) = (CHOOSE k : Eq(k))[K]
  BY DEF MapThenSumSet, MapThenFoldSet
<1> HIDE DEF Eq, f
<1>3. \E k : Eq(k)
  BY <1>1, SumsExists
<1>4. Sums(CHOOSE k : Eq(k), f, K)
  BY <1>1, <1>3
<1> QED  BY <1>2, <1>4, TotalIs DEF f

LEMMA SectionFold ==
  ASSUME NEW R, NEW K, IsFiniteSet(K)
  PROVE  Section(R, K) = Total([x \in K |-> Signed(x, OfCodes(R, {x}))], K)
<1> DEFINE f == [x \in K |-> Signed(x, OfCodes(R, {x}))]
           Eq(k) == k = [s \in SUBSET K |-> IF s = {} THEN 0
                           ELSE Signed((CHOOSE x \in s : TRUE), OfCodes(R, {(CHOOSE x \in s : TRUE)})) + k[s \ {CHOOSE x \in s : TRUE}]]
<1>1. \A k : Sums(k, f, K) <=> Eq(k)
  <2>1. ASSUME NEW s \in SUBSET K, s # {}
        PROVE  f[Pick(s)] = Signed((CHOOSE x \in s : TRUE), OfCodes(R, {(CHOOSE x \in s : TRUE)}))
    BY <2>1 DEF Pick
  <2> HIDE DEF f
  <2> QED  BY <2>1 DEF Sums, Pick
<1>2. Section(R, K) = (CHOOSE k : Eq(k))[K]
  BY DEF MapThenSumSet, MapThenFoldSet, Section
<1> HIDE DEF Eq, f
<1>3. \E k : Eq(k)
  BY <1>1, SumsExists
<1>4. Sums(CHOOSE k : Eq(k), f, K)
  BY <1>1, <1>3
<1> QED  BY <1>2, <1>4, TotalIs DEF f

LEMMA IncomeFold ==
  ASSUME NEW K, IsFiniteSet(K)
  PROVE  MapThenSumSet(NetIncome, K) = Total([x \in K |-> NetIncome(x)], K)
<1> DEFINE f == [x \in K |-> NetIncome(x)]
           Eq(k) == k = [s \in SUBSET K |-> IF s = {} THEN 0
                           ELSE NetIncome((CHOOSE x \in s : TRUE)) + k[s \ {CHOOSE x \in s : TRUE}]]
<1>1. \A k : Sums(k, f, K) <=> Eq(k)
  <2>1. ASSUME NEW s \in SUBSET K, s # {}
        PROVE  f[Pick(s)] = NetIncome((CHOOSE x \in s : TRUE))
    BY <2>1 DEF Pick
  <2> HIDE DEF f
  <2> QED  BY <2>1 DEF Sums, Pick
<1>2. MapThenSumSet(NetIncome, K) = (CHOOSE k : Eq(k))[K]
  BY DEF MapThenSumSet, MapThenFoldSet
<1> HIDE DEF Eq, f
<1>3. \E k : Eq(k)
  BY <1>1, SumsExists
<1>4. Sums(CHOOSE k : Eq(k), f, K)
  BY <1>1, <1>3
<1> QED  BY <1>2, <1>4, TotalIs DEF f

LEMMA RevenueFold ==
  ASSUME NEW p, NEW K, IsFiniteSet(K)
  PROVE  MapThenSumSet(LAMBDA a : NetRevenue(p, a), K) = Total([x \in K |-> NetRevenue(p, x)], K)
<1> DEFINE f == [x \in K |-> NetRevenue(p, x)]
           Eq(k) == k = [s \in SUBSET K |-> IF s = {} THEN 0
                           ELSE NetRevenue(p, (CHOOSE x \in s : TRUE)) + k[s \ {CHOOSE x \in s : TRUE}]]
<1>1. \A k : Sums(k, f, K) <=> Eq(k)
  <2>1. ASSUME NEW s \in SUBSET K, s # {}
        PROVE  f[Pick(s)] = NetRevenue(p, (CHOOSE x \in s : TRUE))
    BY <2>1 DEF Pick
  <2> HIDE DEF f
  <2> QED  BY <2>1 DEF Sums, Pick
<1>2. MapThenSumSet(LAMBDA a : NetRevenue(p, a), K) = (CHOOSE k : Eq(k))[K]
  BY DEF MapThenSumSet, MapThenFoldSet
<1> HIDE DEF Eq, f
<1>3. \E k : Eq(k)
  BY <1>1, SumsExists
<1>4. Sums(CHOOSE k : Eq(k), f, K)
  BY <1>1, <1>3
<1> QED  BY <1>2, <1>4, TotalIs DEF f

LEMMA CreditFold ==
  ASSUME NEW K, IsFiniteSet(K)
  PROVE  MapThenSumSet(LAMBDA r : Credits({r}), K) = Total([x \in K |-> Credits({x})], K)
<1> DEFINE f == [x \in K |-> Credits({x})]
           Eq(k) == k = [s \in SUBSET K |-> IF s = {} THEN 0
                           ELSE Credits({(CHOOSE x \in s : TRUE)}) + k[s \ {CHOOSE x \in s : TRUE}]]
<1>1. \A k : Sums(k, f, K) <=> Eq(k)
  <2>1. ASSUME NEW s \in SUBSET K, s # {}
        PROVE  f[Pick(s)] = Credits({(CHOOSE x \in s : TRUE)})
    BY <2>1 DEF Pick
  <2> HIDE DEF f
  <2> QED  BY <2>1 DEF Sums, Pick
<1>2. MapThenSumSet(LAMBDA r : Credits({r}), K) = (CHOOSE k : Eq(k))[K]
  BY DEF MapThenSumSet, MapThenFoldSet
<1> HIDE DEF Eq, f
<1>3. \E k : Eq(k)
  BY <1>1, SumsExists
<1>4. Sums(CHOOSE k : Eq(k), f, K)
  BY <1>1, <1>3
<1> QED  BY <1>2, <1>4, TotalIs DEF f

LEMMA ReferenceFold ==
  ASSUME NEW a, NEW p, NEW K, IsFiniteSet(K)
  PROVE  MapThenSumSet(LAMBDA r : BalanceByReference(a, p, r), K) = Total([x \in K |-> BalanceByReference(a, p, x)], K)
<1> DEFINE f == [x \in K |-> BalanceByReference(a, p, x)]
           Eq(k) == k = [s \in SUBSET K |-> IF s = {} THEN 0
                           ELSE BalanceByReference(a, p, (CHOOSE x \in s : TRUE)) + k[s \ {CHOOSE x \in s : TRUE}]]
<1>1. \A k : Sums(k, f, K) <=> Eq(k)
  <2>1. ASSUME NEW s \in SUBSET K, s # {}
        PROVE  f[Pick(s)] = BalanceByReference(a, p, (CHOOSE x \in s : TRUE))
    BY <2>1 DEF Pick
  <2> HIDE DEF f
  <2> QED  BY <2>1 DEF Sums, Pick
<1>2. MapThenSumSet(LAMBDA r : BalanceByReference(a, p, r), K) = (CHOOSE k : Eq(k))[K]
  BY DEF MapThenSumSet, MapThenFoldSet
<1> HIDE DEF Eq, f
<1>3. \E k : Eq(k)
  BY <1>1, SumsExists
<1>4. Sums(CHOOSE k : Eq(k), f, K)
  BY <1>1, <1>3
<1> QED  BY <1>2, <1>4, TotalIs DEF f

-----------------------------------------------------------------------------
(* Sums over rows.                                                           *)

LEMMA DebitsAre ==
  ASSUME JournalOK, NEW R \in SUBSET Rows
  PROVE  Debits(R) = Total(Amount, R) /\ Debits(R) \in Int /\ Credits(R) = -Debits(R)
<1>1. IsFiniteSet(R) /\ \A r \in R : Amount[r] = LineOf(r).debit - LineOf(r).credit /\ Amount[r] \in Int
  BY RowsFinite, RowIs
<1> DEFINE f == [x \in R |-> LineOf(x).debit - LineOf(x).credit]
<1>2. Debits(R) = Total(f, R)
  BY <1>1, DebitsFold
<1>3. \A r \in R : f[r] = Amount[r]
  BY <1>1
<1> HIDE DEF f
<1>4. Total(f, R) = Total(Amount, R)
  BY <1>1, <1>3, TotalSame
<1>5. Total(Amount, R) \in Int
  BY <1>1, TotalInt
<1> QED  BY <1>2, <1>4, <1>5 DEF Credits

LEMMA DebitsUnion ==
  ASSUME JournalOK, NEW R \in SUBSET Rows, NEW T \in SUBSET Rows, R \cap T = {}
  PROVE  /\ Debits(R \cup T) = Debits(R) + Debits(T)
         /\ Debits(R) \in Int /\ Debits(T) \in Int /\ Debits(R \cup T) \in Int
<1>1. IsFiniteSet(R) /\ IsFiniteSet(T) /\ R \cup T \in SUBSET Rows
  BY RowsFinite
<1>2. \A r \in R \cup T : Amount[r] \in Int
  BY RowIs
<1>3. Total(Amount, R \cup T) = Total(Amount, R) + Total(Amount, T)
  BY <1>1, <1>2, TotalUnion
<1>4. /\ Debits(R \cup T) = Total(Amount, R \cup T) /\ Debits(R \cup T) \in Int
      /\ Debits(R) = Total(Amount, R) /\ Debits(R) \in Int
      /\ Debits(T) = Total(Amount, T) /\ Debits(T) \in Int
  BY <1>1, DebitsAre
<1> QED  BY <1>3, <1>4

LEMMA NoRowsNoDebits ==
  ASSUME JournalOK
  PROVE  Debits({}) = 0
<1>1. Debits({}) = Total(Amount, {})
  BY DebitsAre
<1> QED  BY <1>1, TotalEmpty

\* Debits, or credits, by groups of rows.
LEMMA DebitsByGroup ==
  ASSUME JournalOK, NEW K, IsFiniteSet(K), NEW B, NEW e, NEW U \in SUBSET Rows,
         \A k \in K : B[k] \in SUBSET Rows /\ e[k] = Debits(B[k]),
         \A k, l \in K : k # l => B[k] \cap B[l] = {},
         \A x \in Rows : x \in U <=> \E k \in K : x \in B[k]
  PROVE  Total(e, K) = Debits(U)
<1>1. IsFiniteSet(Rows) /\ \A r \in Rows : Amount[r] \in Int
  BY RowsFinite, RowIs
<1>2. \A k \in K : B[k] \in SUBSET Rows /\ e[k] = Total(Amount, B[k])
  BY DebitsAre
<1>3. Total(e, K) = Total(Amount, U)
  BY <1>1, <1>2, TotalFamily
<1> QED  BY <1>3, DebitsAre

LEMMA CreditsByGroup ==
  ASSUME JournalOK, NEW K, IsFiniteSet(K), NEW B, NEW e, NEW U \in SUBSET Rows,
         \A k \in K : B[k] \in SUBSET Rows /\ e[k] = Credits(B[k]),
         \A k, l \in K : k # l => B[k] \cap B[l] = {},
         \A x \in Rows : x \in U <=> \E k \in K : x \in B[k]
  PROVE  Total(e, K) = Credits(U)
<1> DEFINE d == [k \in K |-> Debits(B[k])]
           b == [k \in K |-> k]
<1>1. \A k \in K : B[k] \in SUBSET Rows /\ d[k] = Debits(B[k])
  OBVIOUS
<1>2. \A k \in K : d[k] \in Int /\ e[b[k]] = -d[k]
  BY DebitsAre
<1>3. \A k, l \in K : b[k] = b[l] => k = l
  OBVIOUS
<1>6. {b[k] : k \in K} = K
  OBVIOUS
<1> HIDE DEF d, b
<1>4. Total(e, {b[k] : k \in K}) = -Total(d, K)
  BY <1>2, <1>3, TotalOpposite
<1>5. Total(d, K) = Debits(U)
  BY <1>1, DebitsByGroup
<1> QED  BY <1>6, <1>4, <1>5 DEF Credits

\* The rows of one entry, and of several.
EntryRows(E) == {r \in Rows : r[1] \in E}

LEMMA RowDebits ==
  ASSUME JournalOK, NEW i \in DOMAIN journal, NEW k \in 1..MaxLines
  PROVE  LET S == {r \in Rows : r[1] = i /\ r[2] = k} IN
         /\ S \in SUBSET Rows
         /\ Debits(S) = DebitAt(journal[i].lines, k) - CreditAt(journal[i].lines, k)
         /\ DebitAt(journal[i].lines, k) \in Int /\ CreditAt(journal[i].lines, k) \in Int
<1> DEFINE S == {r \in Rows : r[1] = i /\ r[2] = k}
           s == journal[i].lines
           r == <<i, k>>
<1>1. CASE k \in DOMAIN s
  <2>1. r \in Rows
    BY <1>1 DEF Rows
  <2>2. S = {r}
    <3>1. ASSUME NEW x \in S PROVE x = r
      BY RowIs
    <3> QED  BY <2>1, <3>1
  <2>3. Amount[r] = s[k].debit - s[k].credit /\ Amount[r] \in Int
    BY <2>1, RowIs DEF LineOf
  <2>4. s[k].debit \in Int /\ s[k].credit \in Int
    BY <1>1 DEF JournalOK, EntryOK, LineOK
  <2>5. S \in SUBSET Rows
    OBVIOUS
  <2>6. DebitAt(s, k) = s[k].debit /\ CreditAt(s, k) = s[k].credit
    BY <1>1 DEF DebitAt, CreditAt
  <2> HIDE DEF S, r, s
  <2>7. Debits(S) = Total(Amount, {r})
    BY <2>2, <2>5, DebitsAre
  <2>8. Total(Amount, {r}) = Amount[r]
    BY <2>3, TotalSingle
  <2> QED  BY <2>3, <2>4, <2>5, <2>6, <2>7, <2>8 DEF S, s
<1>2. CASE k \notin DOMAIN s
  <2>1. S = {}
    <3>1. ASSUME NEW x \in S PROVE FALSE
      BY <1>2, RowIs
    <3> QED  BY <3>1
  <2>2. DebitAt(s, k) = 0 /\ CreditAt(s, k) = 0
    BY <1>2 DEF DebitAt, CreditAt
  <2>3. Debits(S) = 0
    <3> HIDE DEF S
    <3> QED  BY <2>1, NoRowsNoDebits
  <2> QED  BY <2>1, <2>2, <2>3
<1> QED  BY <1>1, <1>2

LEMMA FiveSides ==
  ASSUME NEW a \in Int, NEW b \in Int, NEW c \in Int, NEW d \in Int, NEW e \in Int,
         NEW v \in Int, NEW w \in Int, NEW x \in Int, NEW y \in Int, NEW z \in Int,
         a + b + c + d + e = v + w + x + y + z
  PROVE  (a - v) + (b - w) + (c - x) + (d - y) + (e - z) = 0
OBVIOUS

\* The rows of an entry add up to nothing: its two sides are the same.
LEMMA EntryBalances ==
  ASSUME JournalOK, NEW i \in DOMAIN journal
  PROVE  Debits(EntryRows({i})) = 0
<1> DEFINE S(k) == {r \in Rows : r[1] = i /\ r[2] = k}
           D(k) == DebitAt(journal[i].lines, k)
           C(k) == CreditAt(journal[i].lines, k)
<1>1. \A k \in 1..5 : S(k) \in SUBSET Rows /\ Debits(S(k)) = D(k) - C(k) /\ D(k) \in Int /\ C(k) \in Int
  <2>1. ASSUME NEW k \in 1..5
        PROVE  S(k) \in SUBSET Rows /\ Debits(S(k)) = D(k) - C(k) /\ D(k) \in Int /\ C(k) \in Int
    <3>1. k \in 1..MaxLines
      BY DEF MaxLines
    <3> QED  BY <3>1, RowDebits
  <2> QED  BY <2>1
<1>2. \A k, l \in 1..5 : k # l => S(k) \cap S(l) = {}
  OBVIOUS
<1>3. EntryRows({i}) = (((S(1) \cup S(2)) \cup S(3)) \cup S(4)) \cup S(5)
  <2>1. \A r \in Rows : r[1] = i => r[2] \in 1..5
    <3>1. ASSUME NEW r \in Rows, r[1] = i PROVE r[2] \in 1..5
      <4>1. EntryOK(journal[i]) /\ r[2] \in DOMAIN journal[i].lines
        BY <3>1, RowIs
      <4>2. PICK n \in 0..MaxLines : DOMAIN journal[i].lines = 1..n
        BY <4>1 DEF EntryOK
      <4> QED  BY <4>1, <4>2 DEF MaxLines
    <3> QED  BY <3>1
  <2>2. \A x \in 1..5 : x = 1 \/ x = 2 \/ x = 3 \/ x = 4 \/ x = 5
    OBVIOUS
  <2> QED  BY <2>1, <2>2 DEF EntryRows
<1>4. TotalDebit(journal[i].lines) = TotalCredit(journal[i].lines)
  BY DEF JournalOK, EntryOK
<1>5. D(1) + D(2) + D(3) + D(4) + D(5) = C(1) + C(2) + C(3) + C(4) + C(5)
  BY <1>4 DEF TotalDebit, TotalCredit
<1> DEFINE u == S(1) v == S(2) w == S(3) x == S(4) y == S(5)
<1>6. /\ u \in SUBSET Rows /\ v \in SUBSET Rows /\ w \in SUBSET Rows /\ x \in SUBSET Rows /\ y \in SUBSET Rows
      /\ u \cap v = {} /\ (u \cup v) \cap w = {} /\ ((u \cup v) \cup w) \cap x = {}
      /\ (((u \cup v) \cup w) \cup x) \cap y = {}
  BY <1>2
<1>7. /\ Debits(u) = D(1) - C(1) /\ Debits(v) = D(2) - C(2) /\ Debits(w) = D(3) - C(3)
      /\ Debits(x) = D(4) - C(4) /\ Debits(y) = D(5) - C(5)
      /\ D(1) \in Int /\ D(2) \in Int /\ D(3) \in Int /\ D(4) \in Int /\ D(5) \in Int
      /\ C(1) \in Int /\ C(2) \in Int /\ C(3) \in Int /\ C(4) \in Int /\ C(5) \in Int
  <2> HIDE DEF S, D, C
  <2> QED  BY <1>1
<1>8. EntryRows({i}) = (((u \cup v) \cup w) \cup x) \cup y
  BY <1>3
<1> HIDE DEF S, D, C, u, v, w, x, y
<1>9. Debits(u \cup v) = Debits(u) + Debits(v)
  BY <1>6, DebitsUnion
<1>10. Debits((u \cup v) \cup w) = Debits(u \cup v) + Debits(w)
  BY <1>6, DebitsUnion
<1>11. Debits(((u \cup v) \cup w) \cup x) = Debits((u \cup v) \cup w) + Debits(x)
  BY <1>6, DebitsUnion
<1>12. Debits((((u \cup v) \cup w) \cup x) \cup y) = Debits(((u \cup v) \cup w) \cup x) + Debits(y)
  BY <1>6, DebitsUnion
<1>13. Debits(EntryRows({i})) = (D(1) - C(1)) + (D(2) - C(2)) + (D(3) - C(3)) + (D(4) - C(4)) + (D(5) - C(5))
  BY <1>7, <1>8, <1>9, <1>10, <1>11, <1>12
<1> QED  BY <1>5, <1>7, <1>13, FiveSides

\* Whatever entries a statement takes, their rows balance.
LEMMA BooksBalance ==
  ASSUME JournalOK, NEW E \in SUBSET (DOMAIN journal)
  PROVE  Debits(EntryRows(E)) = 0
<1> DEFINE B == [i \in E |-> EntryRows({i})]
           e == [i \in E |-> Debits(EntryRows({i}))]
<1>1. IsFiniteSet(E)
  <2>1. PICK n \in Nat : DOMAIN journal = 1..n
    BY DEF JournalOK
  <2>2. IsFiniteSet(1..n)
    BY FS_Interval
  <2> QED  BY <2>1, <2>2, FS_Subset
<1>2. \A i \in E : B[i] \in SUBSET Rows /\ e[i] = Debits(B[i])
  BY DEF EntryRows
<1>3. \A i, j \in E : i # j => B[i] \cap B[j] = {}
  BY DEF EntryRows
<1>4. EntryRows(E) \in SUBSET Rows /\ \A x \in Rows : x \in EntryRows(E) <=> \E i \in E : x \in B[i]
  BY DEF EntryRows
<1>5. \A i \in E : e[i] = 0
  BY EntryBalances
<1> HIDE DEF B, e
<1>6. Total(e, E) = Debits(EntryRows(E))
  BY <1>1, <1>2, <1>3, <1>4, DebitsByGroup
<1> QED  BY <1>1, <1>5, <1>6, TotalZero

-----------------------------------------------------------------------------
(* Tables of codes and accounts are finite, and sums over them are sums of   *)
(* rows.                                                                     *)

LEMMA FewElements ==
  ASSUME NEW a, NEW b, NEW c, NEW d, NEW e, NEW f, NEW g, NEW h
  PROVE  IsFiniteSet({a, b, c, d, e, f, g, h})
<1>0. ASSUME NEW x, NEW y PROVE IsFiniteSet({x, y})
  <2>1. IsFiniteSet({x}) /\ IsFiniteSet({y})
    BY FS_Singleton
  <2>2. IsFiniteSet({x} \cup {y})
    BY <2>1, FS_Union
  <2>3. {x, y} = {x} \cup {y}
    OBVIOUS
  <2> QED  BY <2>2, <2>3
<1>1. IsFiniteSet({a, b}) /\ IsFiniteSet({c, d}) /\ IsFiniteSet({e, f}) /\ IsFiniteSet({g, h})
  BY <1>0
<1>2. IsFiniteSet({a, b} \cup {c, d}) /\ IsFiniteSet({e, f} \cup {g, h})
  BY <1>1, FS_Union
<1>3. IsFiniteSet(({a, b} \cup {c, d}) \cup ({e, f} \cup {g, h}))
  BY <1>2, FS_Union
<1>4. {a, b, c, d, e, f, g, h} = ({a, b} \cup {c, d}) \cup ({e, f} \cup {g, h})
  OBVIOUS
<1> QED  BY <1>3, <1>4

LEMMA CodesFinite ==
  IsFiniteSet(AccountCode) /\ \A C \in SUBSET AccountCode : IsFiniteSet(C)
<1>1. IsFiniteSet(AssetCode) /\ IsFiniteSet(LiabilityCode) /\ IsFiniteSet(EquityCode)
  <2>1. AssetCode = {"EBAY_WALLET", "PAYONEER_WALLET", "BCA_BRIDGING", "BCA_MAIN",
                     "EMPLOYEE_LOAN_RECEIVABLE", "INVENTORY_DEPOSITS", "EBAY_WALLET", "EBAY_WALLET"}
    BY DEF AssetCode
  <2>2. EquityCode = {"OWNERS_CAPITAL", "OWNERS_DRAW", "RETAINED_EARNINGS", "OWNERS_CAPITAL",
                      "OWNERS_CAPITAL", "OWNERS_CAPITAL", "OWNERS_CAPITAL", "OWNERS_CAPITAL"}
    BY DEF EquityCode
  <2> QED  BY <2>1, <2>2, FewElements, FS_Singleton DEF LiabilityCode
<1>2. IsFiniteSet(RevenueCode) /\ IsFiniteSet(OtherCode) /\ IsFiniteSet(OpexCode)
  <2>1. RevenueCode = {"SALES_REVENUE", "CONSIGNMENT_COMMISSION_INCOME", "SALES_RETURNS_ALLOWANCES",
                       "SALES_REVENUE", "SALES_REVENUE", "SALES_REVENUE", "SALES_REVENUE", "SALES_REVENUE"}
    BY DEF RevenueCode
  <2>2. OtherCode = {"REALIZED_FX", "UNREALIZED_FX", "INTEREST_INCOME", "OTHER_INCOME",
                     "REALIZED_FX", "REALIZED_FX", "REALIZED_FX", "REALIZED_FX"}
    BY DEF OtherCode
  <2> QED  BY <2>1, <2>2, FewElements DEF OpexCode
<1>3. IsFiniteSet({"COGS"})
  BY FS_Singleton
<1>4. IsFiniteSet(AccountCode)
  <2>1. \A S, T : IsFiniteSet(S) /\ IsFiniteSet(T) => IsFiniteSet(S \cup T)
    BY FS_Union
  <2> QED  BY <1>1, <1>2, <1>3, <2>1 DEF AccountCode
<1> QED  BY <1>4, FS_Subset

LEMMA AccountsFinite ==
  /\ IsFiniteSet(EbayAccount) /\ IsFiniteSet(WalletGroup) /\ IsFiniteSet(Account)
  /\ \A S \in SUBSET Account : IsFiniteSet(S)
<1>1. IsFiniteSet(EbayAccount \cup WalletGroup)
  BY TablesAssumption
<1>2. IsFiniteSet((EbayAccount \cup WalletGroup) \cup {Business})
  BY <1>1, FS_Union, FS_Singleton
<1>3. IsFiniteSet(AccountCode \X ((EbayAccount \cup WalletGroup) \cup {Business}))
  BY <1>2, CodesFinite, FS_Product
<1>4. Account \subseteq AccountCode \X ((EbayAccount \cup WalletGroup) \cup {Business})
  BY DEF Account
<1>5. IsFiniteSet(Account)
  BY <1>3, <1>4, FS_Subset
<1>6. EbayAccount \subseteq EbayAccount \cup WalletGroup /\ WalletGroup \subseteq EbayAccount \cup WalletGroup
  OBVIOUS
<1>7. IsFiniteSet(EbayAccount) /\ IsFiniteSet(WalletGroup)
  BY <1>1, <1>6, FS_Subset
<1> QED  BY <1>5, <1>7, FS_Subset

OfList(codes) == {a \in Account : a[1] \in codes}

LEMMA AccountDebits ==
  ASSUME JournalOK, NEW codes, NEW R \in SUBSET Rows, NEW e,
         \A a \in OfList(codes) : e[a] = Debits(OfAccount(R, a))
  PROVE  Total(e, OfList(codes)) = Debits(OfCodes(R, codes))
<1> DEFINE K == OfList(codes)
           B == [a \in K |-> OfAccount(R, a)]
           U == OfCodes(R, codes)
<1>1. IsFiniteSet(K)
  BY AccountsFinite DEF OfList
<1>2. \A a \in K : B[a] \in SUBSET Rows /\ e[a] = Debits(B[a])
  BY DEF OfAccount
<1>3. \A a, b \in K : a # b => B[a] \cap B[b] = {}
  BY DEF OfAccount
<1>4. U \in SUBSET Rows /\ \A x \in Rows : x \in U <=> \E a \in K : x \in B[a]
  <2>1. \A x \in Rows : LineOf(x).account \in Account
    BY RowIs
  <2> QED  BY <2>1 DEF OfAccount, OfCodes, Code, OfList
<1> HIDE DEF K, B, U
<1>5. Total(e, K) = Debits(U)
  BY <1>1, <1>2, <1>3, <1>4, DebitsByGroup
<1> QED  BY <1>5 DEF K, U

LEMMA AccountCredits ==
  ASSUME JournalOK, NEW codes, NEW R \in SUBSET Rows, NEW e,
         \A a \in OfList(codes) : e[a] = Credits(OfAccount(R, a))
  PROVE  Total(e, OfList(codes)) = Credits(OfCodes(R, codes))
<1> DEFINE K == OfList(codes)
           B == [a \in K |-> OfAccount(R, a)]
           U == OfCodes(R, codes)
<1>1. IsFiniteSet(K)
  BY AccountsFinite DEF OfList
<1>2. \A a \in K : B[a] \in SUBSET Rows /\ e[a] = Credits(B[a])
  BY DEF OfAccount
<1>3. \A a, b \in K : a # b => B[a] \cap B[b] = {}
  BY DEF OfAccount
<1>4. U \in SUBSET Rows /\ \A x \in Rows : x \in U <=> \E a \in K : x \in B[a]
  <2>1. \A x \in Rows : LineOf(x).account \in Account
    BY RowIs
  <2> QED  BY <2>1 DEF OfAccount, OfCodes, Code, OfList
<1> HIDE DEF K, B, U
<1>5. Total(e, K) = Credits(U)
  BY <1>1, <1>2, <1>3, <1>4, CreditsByGroup
<1> QED  BY <1>5 DEF K, U

\* A section of debit accounts is their debits, one of credit accounts their
\* credits.
LEMMA SectionIs ==
  ASSUME JournalOK, NEW R \in SUBSET Rows, NEW codes \in SUBSET AccountCode
  PROVE  /\ codes \subseteq DebitNormal => Section(R, codes) = Debits(OfCodes(R, codes))
         /\ codes \cap DebitNormal = {} => Section(R, codes) = Credits(OfCodes(R, codes))
<1> DEFINE B == [c \in codes |-> OfCodes(R, {c})]
           e == [c \in codes |-> Signed(c, OfCodes(R, {c}))]
           U == OfCodes(R, codes)
<1>1. IsFiniteSet(codes)
  BY CodesFinite
<1>2. Section(R, codes) = Total(e, codes)
  BY <1>1, SectionFold
<1>3. \A c \in codes : B[c] \in SUBSET Rows
  BY DEF OfCodes
<1>4. \A c, d \in codes : c # d => B[c] \cap B[d] = {}
  BY DEF OfCodes
<1>5. U \in SUBSET Rows /\ \A x \in Rows : x \in U <=> \E c \in codes : x \in B[c]
  BY DEF OfCodes
<1>6. codes \subseteq DebitNormal => \A c \in codes : e[c] = Debits(B[c])
  BY DEF Signed
<1>7. codes \cap DebitNormal = {} => \A c \in codes : e[c] = Credits(B[c])
  BY DEF Signed
<1> HIDE DEF B, e, U
<1>8. codes \subseteq DebitNormal => Total(e, codes) = Debits(U)
  BY <1>1, <1>3, <1>4, <1>5, <1>6, DebitsByGroup
<1>9. codes \cap DebitNormal = {} => Total(e, codes) = Credits(U)
  BY <1>1, <1>3, <1>4, <1>5, <1>7, CreditsByGroup
<1> QED  BY <1>2, <1>8, <1>9 DEF U

LEMMA CodesApart ==
  ASSUME JournalOK, NEW R \in SUBSET Rows, NEW C, NEW D, C \cap D = {}
  PROVE  /\ Debits(OfCodes(R, C \cup D)) = Debits(OfCodes(R, C)) + Debits(OfCodes(R, D))
         /\ Debits(OfCodes(R, C)) \in Int /\ Debits(OfCodes(R, D)) \in Int
         /\ Debits(OfCodes(R, C \cup D)) \in Int
<1>1. /\ OfCodes(R, C \cup D) = OfCodes(R, C) \cup OfCodes(R, D)
      /\ OfCodes(R, C) \in SUBSET Rows /\ OfCodes(R, D) \in SUBSET Rows
      /\ OfCodes(R, C) \cap OfCodes(R, D) = {}
  BY DEF OfCodes
<1> QED  BY <1>1, DebitsUnion

-----------------------------------------------------------------------------
(* The P&L, and the balance sheet.                                           *)

EarningCode == ((RevenueCode \cup {"COGS"}) \cup OpexCode) \cup OtherCode

\* The P&L is what its rows add up to, whichever way its sections are taken.
LEMMA Earnings ==
  ASSUME JournalOK, NEW R \in SUBSET Rows
  PROVE  /\ TotalRevenue(R) = Credits(OfCodes(R, RevenueCode))
         /\ TotalRevenue(R) - Debits(OfCodes(R, {"COGS"})) - Section(R, OpexCode)
              + Section(R, OtherCode) = Credits(OfCodes(R, EarningCode))
         /\ Credits(OfCodes(R, EarningCode)) \in Int
<1> DEFINE a == Debits(OfCodes(R, RevenueCode \ Contra))
           b == Debits(OfCodes(R, RevenueCode \cap Contra))
           c == Debits(OfCodes(R, {"COGS"}))
           d == Debits(OfCodes(R, OpexCode))
           e == Debits(OfCodes(R, OtherCode))
<1>1. Section(R, RevenueCode \ Contra) = -a
  <2>1. RevenueCode \ Contra \in SUBSET AccountCode /\ (RevenueCode \ Contra) \cap DebitNormal = {}
    BY DEF RevenueCode, Contra, AccountCode, DebitNormal, AssetCode, OpexCode
  <2> QED  BY <2>1, SectionIs DEF Credits
<1>2. Section(R, RevenueCode \cap Contra) = b
  <2>1. RevenueCode \cap Contra \in SUBSET AccountCode /\ RevenueCode \cap Contra \subseteq DebitNormal
    BY DEF Contra, AccountCode, DebitNormal
  <2> QED  BY <2>1, SectionIs
<1>3. Section(R, OpexCode) = d
  <2>1. OpexCode \in SUBSET AccountCode /\ OpexCode \subseteq DebitNormal
    BY DEF AccountCode, DebitNormal
  <2> QED  BY <2>1, SectionIs
<1>4. Section(R, OtherCode) = -e
  <2>1. OtherCode \in SUBSET AccountCode /\ OtherCode \cap DebitNormal = {}
    BY DEF AccountCode, DebitNormal, OtherCode, AssetCode, OpexCode
  <2> QED  BY <2>1, SectionIs DEF Credits
<1>5. Debits(OfCodes(R, RevenueCode)) = a + b /\ a \in Int /\ b \in Int
  <2>1. RevenueCode = (RevenueCode \ Contra) \cup (RevenueCode \cap Contra)
        /\ (RevenueCode \ Contra) \cap (RevenueCode \cap Contra) = {}
    OBVIOUS
  <2>2. /\ Debits(OfCodes(R, (RevenueCode \ Contra) \cup (RevenueCode \cap Contra))) = a + b
        /\ a \in Int /\ b \in Int
    BY <2>1, CodesApart
  <2>3. OfCodes(R, RevenueCode) = OfCodes(R, (RevenueCode \ Contra) \cup (RevenueCode \cap Contra))
    BY <2>1
  <2> HIDE DEF a, b
  <2> QED  BY <2>2, <2>3
<1>6. /\ Debits(OfCodes(R, EarningCode)) = ((a + b) + c) + d + e
      /\ c \in Int /\ d \in Int /\ e \in Int
  <2>1. RevenueCode \cap {"COGS"} = {} /\ (RevenueCode \cup {"COGS"}) \cap OpexCode = {}
        /\ ((RevenueCode \cup {"COGS"}) \cup OpexCode) \cap OtherCode = {}
    BY DEF RevenueCode, OpexCode, OtherCode
  <2>2. Debits(OfCodes(R, RevenueCode \cup {"COGS"})) = Debits(OfCodes(R, RevenueCode)) + c /\ c \in Int
    BY <2>1, CodesApart
  <2>3. Debits(OfCodes(R, (RevenueCode \cup {"COGS"}) \cup OpexCode))
          = Debits(OfCodes(R, RevenueCode \cup {"COGS"})) + d /\ d \in Int
    BY <2>1, CodesApart
  <2>4. Debits(OfCodes(R, EarningCode))
          = Debits(OfCodes(R, (RevenueCode \cup {"COGS"}) \cup OpexCode)) + e /\ e \in Int
    BY <2>1, CodesApart DEF EarningCode
  <2> HIDE DEF a, b, c, d, e
  <2> QED  BY <1>5, <2>2, <2>3, <2>4
<1>7. TotalRevenue(R) = -a - b
  BY <1>1, <1>2 DEF TotalRevenue
<1> HIDE DEF a, b, d, e
<1>8. TotalRevenue(R) = -Debits(OfCodes(R, RevenueCode))
  BY <1>5, <1>7
<1>9. -a - b - c - d + (-e) = -Debits(OfCodes(R, EarningCode)) /\ -Debits(OfCodes(R, EarningCode)) \in Int
  <2> HIDE DEF c
  <2> QED  BY <1>5, <1>6
<1> QED  BY <1>3, <1>4, <1>7, <1>8, <1>9 DEF Credits

LEMMA Profit ==
  ASSUME JournalOK, NEW p
  PROVE  /\ NetIncome(p) = Credits(OfCodes(Within(p), EarningCode))
         /\ RetainedEarnings(p) = Credits(OfCodes(Through(p), EarningCode))
<1>1. Within(p) \in SUBSET Rows /\ Through(p) \in SUBSET Rows
  BY DEF Within, Through
<1> QED  BY <1>1, Earnings DEF NetIncome, RetainedEarnings

LEMMA AssetsAre ==
  ASSUME JournalOK, NEW p
  PROVE  /\ TotalOf(AssetCode, p) = Debits(OfCodes(Through(p), AssetCode))
         /\ TotalOf(LiabilityCode, p) = Credits(OfCodes(Through(p), LiabilityCode))
<1>1. Through(p) \in SUBSET Rows
  BY DEF Through
<1>2. \A C \in {AssetCode, LiabilityCode} :
        TotalOf(C, p) = Total([a \in OfList(C) |-> BalanceThrough(a, p)], OfList(C))
  <2>1. ASSUME NEW C PROVE TotalOf(C, p) = Total([a \in OfList(C) |-> BalanceThrough(a, p)], OfList(C))
    <3>1. IsFiniteSet(OfList(C)) /\ OfList(C) = {a \in Account : a[1] \in C}
      BY AccountsFinite DEF OfList
    <3>2. MapThenSumSet(LAMBDA a : BalanceThrough(a, p), OfList(C))
            = Total([a \in OfList(C) |-> BalanceThrough(a, p)], OfList(C))
      BY <3>1, ThroughFold
    <3> QED  BY <3>1, <3>2 DEF TotalOf
  <2> QED  BY <2>1
<1>3. TotalOf(AssetCode, p) = Debits(OfCodes(Through(p), AssetCode))
  <2> DEFINE e == [a \in OfList(AssetCode) |-> BalanceThrough(a, p)]
  <2>1. \A a \in OfList(AssetCode) : e[a] = Debits(OfAccount(Through(p), a))
    BY DEF OfList, BalanceThrough, Signed, DebitNormal
  <2> HIDE DEF e
  <2>2. Total(e, OfList(AssetCode)) = Debits(OfCodes(Through(p), AssetCode))
    BY <1>1, <2>1, AccountDebits
  <2> QED  BY <1>2, <2>2 DEF e
<1>4. TotalOf(LiabilityCode, p) = Credits(OfCodes(Through(p), LiabilityCode))
  <2> DEFINE e == [a \in OfList(LiabilityCode) |-> BalanceThrough(a, p)]
  <2>1. \A a \in OfList(LiabilityCode) : e[a] = Credits(OfAccount(Through(p), a))
    BY DEF OfList, BalanceThrough, Signed, DebitNormal, LiabilityCode, AssetCode, OpexCode
  <2> HIDE DEF e
  <2>2. Total(e, OfList(LiabilityCode)) = Credits(OfCodes(Through(p), LiabilityCode))
    BY <1>1, <2>1, AccountCredits
  <2> QED  BY <1>2, <2>2 DEF e
<1> QED  BY <1>3, <1>4

LEMMA ThroughBalances ==
  ASSUME JournalOK, NEW p
  PROVE  Debits(Through(p)) = 0
<1> DEFINE E == {i \in DOMAIN journal : journal[i].period <= p}
<1>1. Through(p) = EntryRows(E)
  BY RowIs DEF Through, EntryRows
<1>2. E \in SUBSET (DOMAIN journal)
  OBVIOUS
<1> HIDE DEF E
<1> QED  BY <1>1, <1>2, BooksBalance

\* Assets are liabilities and equity on every date: every code is on one list of the
\* balance sheet or part of the earnings it carries (balance_sheet_report).
THEOREM BalanceSheetBalances ==
  ASSUME JournalOK, NEW p
  PROVE  BalanceSheetDifference(p) = 0
<1> DEFINE R == Through(p)
           C == {"OWNERS_CAPITAL"}
           D == {"OWNERS_DRAW"}
           a == Debits(OfCodes(R, AssetCode))
           l == Debits(OfCodes(R, LiabilityCode))
           c == Debits(OfCodes(R, C))
           d == Debits(OfCodes(R, D))
           e == Debits(OfCodes(R, EarningCode))
<1>1. R \in SUBSET Rows
  BY DEF Through
<1>2. R = OfCodes(R, (((AssetCode \cup LiabilityCode) \cup C) \cup D) \cup EarningCode)
  <2>1. \A r \in R : Code(r) \in AccountCode /\ Code(r) # "RETAINED_EARNINGS"
    BY <1>1, RowIs DEF LineOK, Code
  <2>2. AccountCode \ {"RETAINED_EARNINGS"}
          \subseteq (((AssetCode \cup LiabilityCode) \cup C) \cup D) \cup EarningCode
    BY DEF AccountCode, EquityCode, EarningCode
  <2> QED  BY <2>1, <2>2 DEF OfCodes
<1>3. /\ AssetCode \cap LiabilityCode = {} /\ (AssetCode \cup LiabilityCode) \cap C = {}
      /\ ((AssetCode \cup LiabilityCode) \cup C) \cap D = {}
      /\ (((AssetCode \cup LiabilityCode) \cup C) \cup D) \cap EarningCode = {}
  BY DEF AssetCode, LiabilityCode, EarningCode, RevenueCode, OpexCode, OtherCode
<1> HIDE DEF R, C, D
<1>4. Debits(OfCodes(R, AssetCode \cup LiabilityCode)) = a + l /\ a \in Int /\ l \in Int
  BY <1>1, <1>3, CodesApart
<1>5. Debits(OfCodes(R, (AssetCode \cup LiabilityCode) \cup C))
        = Debits(OfCodes(R, AssetCode \cup LiabilityCode)) + c /\ c \in Int
  BY <1>1, <1>3, CodesApart
<1>6. Debits(OfCodes(R, ((AssetCode \cup LiabilityCode) \cup C) \cup D))
        = Debits(OfCodes(R, (AssetCode \cup LiabilityCode) \cup C)) + d /\ d \in Int
  BY <1>1, <1>3, CodesApart
<1>7. Debits(OfCodes(R, (((AssetCode \cup LiabilityCode) \cup C) \cup D) \cup EarningCode))
        = Debits(OfCodes(R, ((AssetCode \cup LiabilityCode) \cup C) \cup D)) + e /\ e \in Int
  BY <1>1, <1>3, CodesApart
<1>8. Debits(R) = 0
  BY ThroughBalances DEF R
<1>9. TotalOf(AssetCode, p) = a /\ TotalOf(LiabilityCode, p) = -l
  BY AssetsAre DEF R, Credits
<1>10. TotalEquity(p) = -c - d + (-e)
  <2>1. RetainedEarnings(p) = -e
    BY Profit DEF R, Credits
  <2>2. /\ Signed("OWNERS_CAPITAL", OfCodes(Through(p), {"OWNERS_CAPITAL"})) = -c
        /\ Signed("OWNERS_DRAW", OfCodes(Through(p), {"OWNERS_DRAW"})) = d
    BY DEF Signed, DebitNormal, AssetCode, OpexCode, R, C, D, Credits
  <2> HIDE DEF a, l, c, d, e
  <2> QED  BY <2>1, <2>2 DEF TotalEquity
<1> HIDE DEF a, l, c, d, e
<1>11. a + l + c + d + e = 0
  BY <1>2, <1>4, <1>5, <1>6, <1>7, <1>8
<1>12. a - ((-l) + (-c - d + (-e))) = 0
  BY <1>4, <1>5, <1>6, <1>7, <1>11
<1> QED  BY <1>9, <1>10, <1>12 DEF BalanceSheetDifference

\* What the balance sheet carries forward is the net income of every P&L so far
\* (_cumulative_net_income, pnl_report).
THEOREM EarningsAreIncome ==
  ASSUME JournalOK, NEW p \in Period
  PROVE  RetainedEarnings(p) = MapThenSumSet(NetIncome, {q \in Period : q <= p})
<1> DEFINE K == {q \in Period : q <= p}
           B == [q \in K |-> OfCodes(Within(q), EarningCode)]
           e == [q \in K |-> NetIncome(q)]
           U == OfCodes(Through(p), EarningCode)
<1>1. IsFiniteSet(K)
  <2>1. p \in Int /\ 0 \in Int /\ Period \subseteq Nat
    BY PeriodAssumption
  <2>3. K \subseteq 0..p
    <3>1. ASSUME NEW q \in K PROVE q \in 0..p
      <4>1. q \in Nat /\ q <= p
        BY <2>1
      <4> QED  BY <2>1, <4>1
    <3> QED  BY <3>1
  <2>2. IsFiniteSet(0..p)
    BY <2>1, FS_Interval
  <2> HIDE DEF K
  <2> QED  BY <2>3, <2>2, FS_Subset
<1>2. \A q \in K : B[q] \in SUBSET Rows /\ e[q] = Credits(B[q])
  <2>1. \A q : OfCodes(Within(q), EarningCode) \in SUBSET Rows
    BY DEF OfCodes, Within
  <2>2. \A q : NetIncome(q) = Credits(OfCodes(Within(q), EarningCode))
    BY Profit
  <2> QED  BY <2>1, <2>2
<1>3. \A q, s \in K : q # s => B[q] \cap B[s] = {}
  BY DEF OfCodes, Within
<1>4. U \in SUBSET Rows /\ \A x \in Rows : x \in U <=> \E q \in K : x \in B[q]
  <2>1. \A x \in Rows : journal[x[1]].period \in Period
    BY RowIs
  <2> QED  BY <2>1 DEF OfCodes, Within, Through
<1>5. MapThenSumSet(NetIncome, K) = Total(e, K)
  BY <1>1, IncomeFold
<1> HIDE DEF K, B, e, U
<1>6. Total(e, K) = Credits(U)
  BY <1>1, <1>2, <1>3, <1>4, CreditsByGroup
<1>7. RetainedEarnings(p) = Credits(U)
  BY Profit DEF U
<1>8. RetainedEarnings(p) = MapThenSumSet(NetIncome, K)
  BY <1>5, <1>6, <1>7
<1> QED  BY <1>8 DEF K

LEMMA RevenueIs ==
  ASSUME JournalOK, NEW p, NEW a
  PROVE  NetRevenue(p, a) = Credits(RevenueRows(p, a)) /\ RevenueRows(p, a) \in SUBSET Rows
<1> DEFINE R == RevenueRows(p, a)
           c == Debits(OfCodes(R, {"SALES_REVENUE"}))
           d == Debits(OfCodes(R, {"SALES_RETURNS_ALLOWANCES"}))
           e == Debits(OfCodes(R, {"CONSIGNMENT_COMMISSION_INCOME"}))
<1>1. R \in SUBSET Rows /\ R = OfCodes(R, ({"SALES_REVENUE"} \cup {"SALES_RETURNS_ALLOWANCES"})
                                             \cup {"CONSIGNMENT_COMMISSION_INCOME"})
  BY DEF RevenueRows, OfCodes, Within, RevenueCode
<1>2. NetRevenue(p, a) = -c - (-(-d)) + (-e)
  BY DEF NetRevenue, Credits
<1> HIDE DEF R
<1>3. /\ Debits(OfCodes(R, {"SALES_REVENUE"} \cup {"SALES_RETURNS_ALLOWANCES"})) = c + d
      /\ c \in Int /\ d \in Int
  BY <1>1, CodesApart
<1>4. /\ Debits(OfCodes(R, ({"SALES_REVENUE"} \cup {"SALES_RETURNS_ALLOWANCES"})
                              \cup {"CONSIGNMENT_COMMISSION_INCOME"}))
           = Debits(OfCodes(R, {"SALES_REVENUE"} \cup {"SALES_RETURNS_ALLOWANCES"})) + e
      /\ e \in Int
  BY <1>1, CodesApart
<1> HIDE DEF c, d, e
<1>5. Debits(R) = c + d + e
  BY <1>1, <1>3, <1>4
<1>6. NetRevenue(p, a) = -Debits(R)
  BY <1>2, <1>3, <1>4, <1>5
<1> QED  BY <1>1, <1>6 DEF R, Credits

LEMMA AttributedTo ==
  ASSUME NEW i
  PROVE  Attributed(i) \in EbayAccount \cup {NULL}
<1> DEFINE order == {LineOf(r).order : r \in {r \in OfCodes(Rows, RevenueCode) : r[1] = i}} \ {NULL}
           direct == AccountsOn({r \in Rows : r[1] = i})
           byOrder == AccountsOn({r \in Rows : LineOf(r).order \in order})
<1>1. direct \subseteq EbayAccount /\ byOrder \subseteq EbayAccount
  BY DEF AccountsOn
<1>2. Attributed(i) = IF direct # {} THEN CHOOSE a \in direct : TRUE
                      ELSE IF byOrder # {} THEN CHOOSE a \in byOrder : TRUE ELSE NULL
  BY DEF Attributed
<1> HIDE DEF direct, byOrder
<1> QED  BY <1>1, <1>2

\* The revenue of a P&L is what the accounts report and what nobody claims: no row is
\* claimed by two accounts (attribute_entries_to_ebay_account).
THEOREM RevenueSplits ==
  ASSUME JournalOK, NEW p
  PROVE  TotalRevenue(Within(p)) = MapThenSumSet(LAMBDA a : NetRevenue(p, a), EbayAccount)
                                     + MapThenSumSet(LAMBDA r : Credits({r}), Unattributed(p))
<1> DEFINE e == [a \in EbayAccount |-> NetRevenue(p, a)]
           B == [a \in EbayAccount |-> RevenueRows(p, a)]
           U == {r \in OfCodes(Within(p), RevenueCode) : Attributed(r[1]) \in EbayAccount}
           V == Unattributed(p)
           f == [r \in V |-> Credits({r})]
           D == [r \in V |-> {r}]
<1>1. NULL \notin EbayAccount /\ IsFiniteSet(EbayAccount)
  BY ScopeAssumption, AccountsFinite
<1>2. \A a \in EbayAccount : B[a] \in SUBSET Rows /\ e[a] = Credits(B[a])
  <2>1. \A a : RevenueRows(p, a) \in SUBSET Rows /\ NetRevenue(p, a) = Credits(RevenueRows(p, a))
    BY RevenueIs
  <2> QED  BY <2>1
<1>3. \A a \in EbayAccount : RevenueRows(p, a) = {r \in OfCodes(Within(p), RevenueCode) : Attributed(r[1]) = a}
  BY <1>1 DEF RevenueRows
<1>4. \A a, b \in EbayAccount : a # b => B[a] \cap B[b] = {}
  BY <1>3
<1>5. U \in SUBSET Rows /\ \A x \in Rows : x \in U <=> \E a \in EbayAccount : x \in B[a]
  BY <1>3 DEF OfCodes, Within
<1>6. V \in SUBSET Rows /\ V = {r \in OfCodes(Within(p), RevenueCode) : Attributed(r[1]) = NULL}
  BY DEF Unattributed, RevenueRows, OfCodes, Within
<1>7. IsFiniteSet(V) /\ \A r \in V : D[r] \in SUBSET Rows /\ f[r] = Credits(D[r])
  BY <1>6, RowsFinite
<1>8. \A q, r \in V : q # r => D[q] \cap D[r] = {}
  OBVIOUS
<1>9. \A x \in Rows : x \in V <=> \E r \in V : x \in D[r]
  OBVIOUS
<1>10. MapThenSumSet(LAMBDA a : NetRevenue(p, a), EbayAccount) = Total(e, EbayAccount)
  BY <1>1, RevenueFold
<1>11. MapThenSumSet(LAMBDA r : Credits({r}), V) = Total(f, V)
  <2> HIDE DEF V
  <2> QED  BY <1>7, CreditFold
<1>12. U \cap V = {} /\ U \cup V = OfCodes(Within(p), RevenueCode)
  BY <1>1, <1>6, AttributedTo
<1>13. TotalRevenue(Within(p)) = Credits(OfCodes(Within(p), RevenueCode))
  <2>1. Within(p) \in SUBSET Rows
    BY DEF Within
  <2> QED  BY <2>1, Earnings
<1> HIDE DEF e, B, U, V, f, D
<1>14. Total(e, EbayAccount) = Credits(U)
  BY <1>1, <1>2, <1>4, <1>5, CreditsByGroup
<1>18. V \in SUBSET Rows
  BY <1>6
<1>15. Total(f, V) = Credits(V)
  BY ONLY JournalOK, <1>18, <1>7, <1>8, <1>9, CreditsByGroup, SMTT(60)
<1>16. Debits(U \cup V) = Debits(U) + Debits(V) /\ Debits(U) \in Int /\ Debits(V) \in Int
  BY <1>5, <1>6, <1>12, DebitsUnion
<1>17. Credits(U \cup V) = Credits(U) + Credits(V)
  BY <1>16 DEF Credits
<1> QED  BY <1>10, <1>11, <1>12, <1>13, <1>14, <1>15, <1>17 DEF V

-----------------------------------------------------------------------------
(* Control accounts and their references.                                    *)

\* The balances of a control account by reference are its balance
\* (account_balance_through_by_reference).
THEOREM ReferencesTieOut ==
  ASSUME JournalOK, NEW p, NEW code \in ControlCode
  PROVE  LET a == Single(code) IN
         MapThenSumSet(LAMBDA r : BalanceByReference(a, p, r), References(a, p)) = BalanceThrough(a, p)
<1> DEFINE a == Single(code)
           K == References(a, p)
           U == OfAccount(Through(p), a)
           B == [r \in K |-> {x \in U : LineOf(x).ref = r}]
           e == [r \in K |-> BalanceByReference(a, p, r)]
<1>1. U \in SUBSET Rows /\ IsFiniteSet(U)
  <2>1. U \in SUBSET Rows
    BY DEF OfAccount, Through
  <2> QED  BY <2>1, RowsFinite
<1>2. IsFiniteSet(K)
  <2> DEFINE L == {LineOf(r).ref : r \in U}
             g == [r \in U |-> LineOf(r).ref]
  <2>1. g \in Surjection(U, L)
    BY DEF Surjection
  <2>2. IsFiniteSet(L)
    <3> HIDE DEF g, L, U
    <3> QED  BY <1>1, <2>1, FS_Surjection
  <2>3. K \subseteq L
    BY DEF References
  <2> HIDE DEF K, L
  <2> QED  BY <2>2, <2>3, FS_Subset
<1>3. \A r \in K : B[r] \in SUBSET Rows /\ e[r] = Signed(code, B[r])
  BY <1>1 DEF BalanceByReference, Single
<1>4. \A r, s \in K : r # s => B[r] \cap B[s] = {}
  OBVIOUS
<1>5. \A x \in Rows : x \in U <=> \E r \in K : x \in B[r]
  <2>1. \A x \in U : LineOf(x).ref # NULL
    <3>1. ASSUME NEW x \in U PROVE LineOf(x).ref # NULL
      <4>1. LineOK(Source(x), LineOf(x)) /\ LineOf(x).account = Single(code)
        BY <1>1, RowIs DEF OfAccount
      <4> QED  BY <4>1 DEF LineOK, Single
    <3> QED  BY <3>1
  <2>2. \A x \in U : LineOf(x).ref \in K
    BY <2>1 DEF References
  <2> QED  BY <2>2
<1>6. MapThenSumSet(LAMBDA r : BalanceByReference(a, p, r), K) = Total(e, K)
  <2> HIDE DEF K
  <2> QED  BY <1>2, ReferenceFold
<1>7. BalanceThrough(a, p) = Signed(code, U)
  BY DEF BalanceThrough, Single
<1> HIDE DEF K, U, B, e
<1>8. Total(e, K) = Signed(code, U)
  <2>1. CASE code \in DebitNormal
    <3>1. \A r \in K : B[r] \in SUBSET Rows /\ e[r] = Debits(B[r])
      BY <1>3, <2>1 DEF Signed
    <3>2. Total(e, K) = Debits(U)
      BY <1>1, <1>2, <3>1, <1>4, <1>5, DebitsByGroup
    <3> QED  BY <2>1, <3>2 DEF Signed
  <2>2. CASE code \notin DebitNormal
    <3>1. \A r \in K : B[r] \in SUBSET Rows /\ e[r] = Credits(B[r])
      BY <1>3, <2>2 DEF Signed
    <3>2. Total(e, K) = Credits(U)
      BY <1>1, <1>2, <3>1, <1>4, <1>5, CreditsByGroup
    <3> QED  BY <2>2, <3>2 DEF Signed
  <2> QED  BY <2>1, <2>2
<1> QED  BY <1>6, <1>7, <1>8 DEF K

-----------------------------------------------------------------------------
(* The statement of cash flows.                                              *)

\* A line of cash is on no line of the statement, and every other line is.
LEMMA KeyIs ==
  ASSUME JournalOK, NEW r \in Rows
  PROVE  KeyOf(r) \in OperatingKey \cup FinancingKey <=> Code(r) \notin CashCode \cup {"UNREALIZED_FX"}
<1>1. Code(r) \in AccountCode /\ Code(r) # "RETAINED_EARNINGS"
  BY RowIs DEF LineOK, Code
<1>2. CASE Code(r) \in CustomerCode
  BY <1>2 DEF KeyOf, OperatingKey, CashCode, CustomerCode
<1>3. CASE Code(r) = "CONSIGNOR_PAYABLE"
  BY <1>3 DEF KeyOf, OperatingKey, CashCode, CustomerCode
<1>4. CASE Code(r) \notin CustomerCode /\ Code(r) # "CONSIGNOR_PAYABLE"
  <2>1. KeyOf(r) = Code(r)
    BY <1>4 DEF KeyOf
  <2>2. AccountCode \ (CustomerCode \cup {"CONSIGNOR_PAYABLE", "RETAINED_EARNINGS"})
           \subseteq (OperatingKey \cup FinancingKey) \cup (CashCode \cup {"UNREALIZED_FX"})
    BY DEF AccountCode, AssetCode, LiabilityCode, EquityCode, RevenueCode, OpexCode, OtherCode,
           CustomerCode, OperatingKey, FinancingKey, CashCode
  <2>3. (OperatingKey \cup FinancingKey) \cap (CashCode \cup {"UNREALIZED_FX"}) = {}
    BY DEF OperatingKey, FinancingKey, CashCode
  <2> QED  BY <1>1, <1>4, <2>1, <2>2, <2>3
<1> QED  BY <1>2, <1>3, <1>4

LEMMA KeysFinite ==
  IsFiniteSet(OperatingKey) /\ IsFiniteSet(FinancingKey)
<1> DEFINE a == {"cash_from_customers", "consignor_payouts", "COGS", "EBAY_SELLING_FEES",
                 "PAYOUT_FEE", "PAYROLL", "GENERAL_OPEX", "SHIPPING_COST"}
           b == {"CONTRACT_LABOR", "PACKAGING_SUPPLIES", "STAFF_MEALS_WELFARE", "INTEREST_INCOME",
                 "REALIZED_FX", "OTHER_INCOME", "EMPLOYEE_LOAN_RECEIVABLE", "INVENTORY_DEPOSITS"}
<1>1. IsFiniteSet(a) /\ IsFiniteSet(b)
  BY FewElements
<1>2. OperatingKey = a \cup b
  BY DEF OperatingKey
<1>3. FinancingKey = {"OWNERS_CAPITAL"} \cup {"OWNERS_DRAW"}
  BY DEF FinancingKey
<1>4. IsFiniteSet({"OWNERS_CAPITAL"}) /\ IsFiniteSet({"OWNERS_DRAW"})
  BY FS_Singleton
<1> HIDE DEF a, b
<1>5. IsFiniteSet(a \cup b) /\ IsFiniteSet({"OWNERS_CAPITAL"} \cup {"OWNERS_DRAW"})
  BY <1>1, <1>4, FS_Union
<1> QED  BY <1>2, <1>3, <1>5

\* The lines of the statement are the rows they collect.
LEMMA CashFlowLinesAre ==
  ASSUME JournalOK, NEW p, NEW K \in {OperatingKey, FinancingKey}
  PROVE  LET U == {r \in CashFlowRows(p) : KeyOf(r) \in K} IN
         U \in SUBSET Rows /\ MapThenSumSet(LAMBDA key : CashFlowLine(key, p), K) = Credits(U)
<1> DEFINE U == {r \in CashFlowRows(p) : KeyOf(r) \in K}
           B == [k \in K |-> {r \in CashFlowRows(p) : KeyOf(r) = k}]
           e == [k \in K |-> CashFlowLine(k, p)]
<1>1. IsFiniteSet(K)
  BY KeysFinite
<1>2. CashFlowRows(p) \in SUBSET Rows
  BY DEF CashFlowRows, Within
<1>3. \A k \in K : B[k] \in SUBSET Rows /\ e[k] = Credits(B[k])
  BY <1>2 DEF CashFlowLine
<1>4. \A k, l \in K : k # l => B[k] \cap B[l] = {}
  OBVIOUS
<1>5. U \in SUBSET Rows
  BY <1>2
<1>6. \A x \in Rows : x \in U <=> \E k \in K : x \in B[k]
  OBVIOUS
<1>7. MapThenSumSet(LAMBDA key : CashFlowLine(key, p), K) = Total(e, K)
  BY <1>1, CashFlowFold
<1> HIDE DEF B, e, U
<1>8. Total(e, K) = Credits(U)
  BY <1>1, <1>3, <1>4, <1>5, <1>6, CreditsByGroup
<1> QED  BY <1>5, <1>7, <1>8 DEF U

\* The cash a month begins with: what came before, and what was opened in it.
Before(p) == Through(p - 1) \cup {r \in Within(p) : Source(r) = "opening_balance"}

LEMMA CashAreRows ==
  ASSUME JournalOK, NEW p \in Period
  PROVE  /\ EndingCash(p) = Debits(OfCodes(Through(p), CashCode))
         /\ BeginningCash(p) = Debits(OfCodes(Before(p), CashCode))
         /\ Before(p) \in SUBSET Rows /\ Through(p) \in SUBSET Rows
<1> DEFINE K == OfList(CashCode)
           e == [a \in K |-> BalanceThrough(a, p)]
           f == [a \in K |-> BalanceBefore(a, p)]
<1>1. K = CashAccount /\ IsFiniteSet(K)
  BY AccountsFinite DEF OfList, CashAccount
<1>2. Before(p) \in SUBSET Rows /\ Through(p) \in SUBSET Rows
  BY DEF Before, Through, Within
<1>3. \A a \in K : a[1] \in DebitNormal
  BY DEF OfList, CashCode, DebitNormal, AssetCode
<1>4. \A a \in K : e[a] = Debits(OfAccount(Through(p), a))
  BY <1>3 DEF BalanceThrough, Signed
<1>5. \A a \in K : f[a] = Debits(OfAccount(Before(p), a))
  <2>1. ASSUME NEW a \in K PROVE f[a] = Debits(OfAccount(Before(p), a))
    <3> DEFINE X == OfAccount(Through(p - 1), a)
               Y == {r \in OfAccount(Within(p), a) : Source(r) = "opening_balance"}
    <3>1. f[a] = Debits(X) + Debits(Y)
      BY <1>3 DEF BalanceBefore, BalanceThrough, Signed
    <3>2. X \in SUBSET Rows /\ Y \in SUBSET Rows /\ X \cup Y = OfAccount(Before(p), a)
      BY DEF OfAccount, Through, Within, Before
    <3>3. X \cap Y = {}
      <4>1. p \in Int
        BY PeriodAssumption
      <4>2. ~(p <= p - 1)
        BY <4>1
      <4>3. \A r \in X : journal[r[1]].period <= p - 1
        BY DEF OfAccount, Through
      <4>4. \A r \in Y : journal[r[1]].period = p
        BY DEF OfAccount, Within
      <4> HIDE DEF X, Y
      <4> QED  BY <4>2, <4>3, <4>4
    <3> HIDE DEF X, Y, f
    <3>4. Debits(X \cup Y) = Debits(X) + Debits(Y)
      BY <3>2, <3>3, DebitsUnion
    <3> QED  BY <3>1, <3>2, <3>4
  <2> QED  BY <2>1
<1>6. EndingCash(p) = Total(e, K) /\ BeginningCash(p) = Total(f, K)
  BY <1>1, ThroughFold, BeforeFold DEF EndingCash, BeginningCash
<1> HIDE DEF e, f
<1>7. Total(e, K) = Debits(OfCodes(Through(p), CashCode))
  BY <1>2, <1>4, AccountDebits
<1>8. Total(f, K) = Debits(OfCodes(Before(p), CashCode))
  BY <1>2, <1>5, AccountDebits
<1> QED  BY <1>2, <1>6, <1>7, <1>8

\* The statement of cash flows of a month explains the change of its cash: what it
\* leaves out, its own cash lines and the conversions of deposits, balances
\* (cash_flow_statement).
THEOREM CashTiesOut ==
  ASSUME JournalOK, NEW p \in Period
  PROVE  CashDifference(p) = 0
<1> DEFINE N == {r \in Within(p) : Source(r) # "opening_balance"}
           D == {r \in N : Source(r) = "inventory_deposit_received"}
           F == {r \in N : Source(r) = "fx_revaluation"}
           Q == {r \in N : Source(r) \notin {"inventory_deposit_received", "fx_revaluation"}}
           CN == OfCodes(N, CashCode)
           CF == OfCodes(F, CashCode)
           CQ == OfCodes(Q, CashCode)
           W == CashFlowRows(p)
           WO == {r \in W : KeyOf(r) \in OperatingKey}
           WF == {r \in W : KeyOf(r) \in FinancingKey}
           CB == OfCodes(Before(p), CashCode)
           CT == OfCodes(Through(p), CashCode)
<1>1. /\ N \in SUBSET Rows /\ D \in SUBSET Rows /\ F \in SUBSET Rows /\ Q \in SUBSET Rows
      /\ W \in SUBSET Rows /\ WO \in SUBSET Rows /\ WF \in SUBSET Rows
      /\ CN \in SUBSET Rows /\ CF \in SUBSET Rows /\ CQ \in SUBSET Rows
      /\ CB \in SUBSET Rows /\ CT \in SUBSET Rows
  BY DEF Within, Before, Through, OfCodes, CashFlowRows
<1>2. CT = CB \cup CN /\ CB \cap CN = {}
  <2>1. p \in Int /\ \A r \in Rows : journal[r[1]].period \in Int
    BY PeriodAssumption, RowIs
  <2>2. \A r \in Rows : /\ journal[r[1]].period <= p <=> journal[r[1]].period <= p - 1 \/ journal[r[1]].period = p
                        /\ ~(journal[r[1]].period <= p - 1 /\ journal[r[1]].period = p)
    BY <2>1
  <2> QED  BY <2>2 DEF Before, Through, Within, OfCodes
<1>3. CN = CF \cup CQ /\ CF \cap CQ = {}
  <2>1. \A r \in D : Code(r) \notin CashCode
    <3>1. ASSUME NEW r \in D PROVE Code(r) \notin CashCode
      <4>1. LineOK("inventory_deposit_received", LineOf(r))
        BY <1>1, RowIs
      <4> QED  BY <4>1 DEF LineOK, Code, CashCode
    <3> QED  BY <3>1
  <2> QED  BY <2>1 DEF OfCodes
<1>4. CF = FxEffectRows(p)
  BY DEF FxEffectRows, OfCodes, Within
<1>5. W = Q \ CQ
  <2>1. \A r \in Rows : KeyOf(r) \in OperatingKey \cup FinancingKey
                          <=> Code(r) \notin CashCode \cup {"UNREALIZED_FX"}
    BY KeyIs
  <2>2. \A r \in Rows : Source(r) = "fx_revaluation" => Code(r) \in CashCode \cup {"UNREALIZED_FX"}
    BY RowIs DEF LineOK, Code, CashCode
  <2>3. \A r \in Rows : Source(r) # "fx_revaluation" => Code(r) # "UNREALIZED_FX"
    BY RowIs DEF LineOK, Code
  <2> QED  BY <2>1, <2>2, <2>3 DEF CashFlowRows, OfCodes, Within
<1>6. W = WO \cup WF /\ WO \cap WF = {}
  <2>1. OperatingKey \cap FinancingKey = {}
    BY DEF OperatingKey, FinancingKey
  <2> QED  BY <2>1 DEF CashFlowRows
<1>7. Debits(Q) = 0
  <2> DEFINE E == {i \in DOMAIN journal : /\ journal[i].period = p
                     /\ journal[i].source \notin {"opening_balance", "inventory_deposit_received", "fx_revaluation"}}
  <2>1. Q = EntryRows(E)
    BY RowIs DEF Within, EntryRows, Source
  <2>2. E \in SUBSET (DOMAIN journal)
    OBVIOUS
  <2> HIDE DEF E, Q
  <2> QED  BY <2>1, <2>2, BooksBalance
<1>8. Q = CQ \cup W /\ CQ \cap W = {}
  BY <1>5 DEF OfCodes
<1>9. EndingCash(p) = Debits(CT) /\ BeginningCash(p) = Debits(CB)
  BY CashAreRows
<1>10. NetChange(p) = Credits(WO) + Credits(WF) + Debits(CF)
  BY <1>4, CashFlowLinesAre DEF NetChange
<1> HIDE DEF N, D, F, Q, CN, CF, CQ, W, WO, WF, CB, CT
<1>11. Debits(CT) = Debits(CB) + Debits(CN) /\ Debits(CB) \in Int /\ Debits(CN) \in Int
  BY <1>1, <1>2, DebitsUnion
<1>12. Debits(CN) = Debits(CF) + Debits(CQ) /\ Debits(CF) \in Int /\ Debits(CQ) \in Int
  BY <1>1, <1>3, DebitsUnion
<1>13. Debits(W) = Debits(WO) + Debits(WF) /\ Debits(WO) \in Int /\ Debits(WF) \in Int
  BY <1>1, <1>6, DebitsUnion
<1>14. Debits(Q) = Debits(CQ) + Debits(W)
  BY <1>1, <1>8, DebitsUnion
<1>15. NetChange(p) = -Debits(WO) + (-Debits(WF)) + Debits(CF)
  BY <1>10 DEF Credits
<1>16. NetChange(p) = Debits(CN)
  BY <1>7, <1>12, <1>13, <1>14, <1>15
<1>17. EndingCash(p) - (BeginningCash(p) + NetChange(p)) = 0
  BY <1>9, <1>11, <1>16
<1> QED  BY <1>17 DEF CashDifference

=============================================================================
