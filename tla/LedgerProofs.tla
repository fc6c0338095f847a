---------------------------- MODULE LedgerProofs -----------------------------
(***************************************************************************)
(* The books are kept: the properties of LedgerProperties, for every chart,  *)
(* every set of rows, orders, sales, rates and amounts, and every order of   *)
(* postings, corrections and reversals.                                      *)
(***************************************************************************)
EXTENDS LedgerProperties, ReportsProofs, PostingProofs

-----------------------------------------------------------------------------

(* What a posting books: lines a statement knows, and the cash they move.    *)

OrderT == Order \cup {NULL}
ReferenceT == Reference \cup {NULL, "unspecified"}
LineT == Line(Account, OrderT, ReferenceT)

SourceT == {"ebay_sale", "ebay_refund", "bank_other", "consignment_sale", "consignment_payout",
            "inter_account_transfer", "payoneer_withdrawal", "fx_revaluation", "owner_contribution",
            "owner_draw", "opening_balance", "cogs_purchase", "inventory_deposit_received"}

\* A posting whose lines are typed, and known to the statements.
Sound(posting) ==
  /\ posting.source \in SourceT /\ posting.lines \in Seq(LineT) /\ Len(posting.lines) <= MaxLines
  /\ \A k \in 1..Len(posting.lines) : LineOK(posting.source, posting.lines[k])

\* What line k of an entry adds to the cash accounts, and what the entry does.
CashAt(lines, k) == IF k \in DOMAIN lines /\ lines[k].account[1] \in CashCode
                    THEN lines[k].debit - lines[k].credit ELSE 0

CashIn(lines) == CashAt(lines, 1) + CashAt(lines, 2) + CashAt(lines, 3) + CashAt(lines, 4)
                   + CashAt(lines, 5)

\* A line of a posting function, once it is named.
Shows(l, a, x, y, r) == /\ l \in LineT /\ l.account = a /\ l.debit = x /\ l.credit = y /\ l.ref = r

\* An account a posting other than a revaluation may touch.
Postable(a) == a \in Account /\ a[1] \notin {"RETAINED_EARNINGS", "UNREALIZED_FX"}

Plainly(source) == source \in SourceT \ {"fx_revaluation", "inventory_deposit_received"}

LEMMA AccountsAre ==
  /\ \A e \in EbayAccount : Postable(EbayWallet(e)) /\ EbayWallet(e)[1] = "EBAY_WALLET"
  /\ \A w \in WalletGroup : Postable(<<"PAYONEER_WALLET", w>>) /\ Postable(<<"BCA_BRIDGING", w>>)
  /\ \A code \in AccountCode \ {"EBAY_WALLET", "PAYONEER_WALLET", "BCA_BRIDGING"} :
        /\ Single(code) \in Account /\ Single(code)[1] = code
        /\ code \notin {"RETAINED_EARNINGS", "UNREALIZED_FX"} => Postable(Single(code))
  /\ Main \in Account /\ Postable(Main) /\ Main[1] = "BCA_MAIN"
<1>1. {"EBAY_WALLET", "PAYONEER_WALLET", "BCA_BRIDGING", "BCA_MAIN"} \subseteq AccountCode
  BY DEF AccountCode, AssetCode
<1>2. \A code, x : <<code, x>>[1] = code /\ <<code, x>>[2] = x
  OBVIOUS
<1>3. /\ ScopeOf("EBAY_WALLET") = EbayAccount /\ ScopeOf("PAYONEER_WALLET") = WalletGroup
      /\ ScopeOf("BCA_BRIDGING") = WalletGroup /\ Business \in ScopeOf("BCA_MAIN")
      /\ \A code : code \notin {"EBAY_WALLET", "PAYONEER_WALLET", "BCA_BRIDGING"} => Business \in ScopeOf(code)
  BY DEF ScopeOf
<1>4. \A e \in EbayAccount : <<"EBAY_WALLET", e>> \in Account
  BY <1>1, <1>3 DEF Account
<1>5. \A w \in WalletGroup : <<"PAYONEER_WALLET", w>> \in Account /\ <<"BCA_BRIDGING", w>> \in Account
  BY <1>1, <1>3 DEF Account
<1>6. \A code \in AccountCode \ {"EBAY_WALLET", "PAYONEER_WALLET", "BCA_BRIDGING"} : <<code, Business>> \in Account
  BY <1>3 DEF Account
<1>7. <<"BCA_MAIN", Business>> \in Account
  BY <1>1, <1>3 DEF Account
<1>8. Main = <<"BCA_MAIN", Business>>
  BY DEF Main, Single
<1> QED  BY <1>2, <1>4, <1>5, <1>6, <1>7, <1>8 DEF Postable, EbayWallet, Single

LEMMA SideShows ==
  ASSUME NEW a \in Account, NEW x \in Int
  PROVE  /\ Shows(Debit(a, x), a, x, 0, NULL) /\ Shows(Credit(a, x), a, 0, x, NULL)
BY DEF Shows, Debit, Credit, LineT, Line, OrderT, ReferenceT

\* Two lines, an amount from one account to another; with no order or
\* reference named, an order, or a reference.
IsMove(lines, to, from, x, r) ==
  /\ lines \in Seq(LineT) /\ Len(lines) = 2
  /\ Shows(lines[1], to, x, 0, r) /\ Shows(lines[2], from, 0, x, r)

LEMMA SeqOf ==
  ASSUME NEW S, NEW s, NEW n \in Nat, DOMAIN s = 1..n, s = [k \in DOMAIN s |-> s[k]],
         \A k \in 1..n : s[k] \in S
  PROVE  s \in Seq(S) /\ Len(s) = n
<1>1. s \in [1..n -> S]
  OBVIOUS
<1> QED  BY <1>1, FunctionIsSeq

LEMMA NamedShow ==
  ASSUME NEW s, NEW n \in Nat, DOMAIN s = 1..n, NEW o \in OrderT, NEW r \in ReferenceT,
         \A k \in 1..n : s[k] \in LineT
  PROVE  /\ WithOrder(s, o) \in Seq(LineT) /\ Len(WithOrder(s, o)) = n
         /\ WithRef(s, r) \in Seq(LineT) /\ Len(WithRef(s, r)) = n
         /\ \A k \in 1..n : \A a, x, y, q : Shows(s[k], a, x, y, q) =>
               Shows(WithOrder(s, o)[k], a, x, y, q) /\ Shows(WithRef(s, r)[k], a, x, y, r)
<1> DEFINE t == WithOrder(s, o)
           u == WithRef(s, r)
<1>1. /\ DOMAIN t = 1..n /\ DOMAIN u = 1..n
      /\ \A k \in 1..n : t[k] = [s[k] EXCEPT !.order = o] /\ u[k] = [s[k] EXCEPT !.ref = r]
  BY DEF WithOrder, WithRef
<1>2. \A k \in 1..n :
         /\ t[k] \in LineT /\ u[k] \in LineT
         /\ t[k].account = s[k].account /\ u[k].account = s[k].account
         /\ t[k].debit = s[k].debit /\ u[k].debit = s[k].debit
         /\ t[k].credit = s[k].credit /\ u[k].credit = s[k].credit
         /\ t[k].ref = s[k].ref /\ u[k].ref = r
  <2> HIDE DEF t, u
  <2> QED  BY <1>1 DEF LineT, Line
<1>3. t = [k \in DOMAIN t |-> t[k]] /\ u = [k \in DOMAIN u |-> u[k]]
  BY DEF WithOrder, WithRef
<1> HIDE DEF t, u
<1>5. t \in Seq(LineT) /\ Len(t) = n
  BY <1>1, <1>2, <1>3, SeqOf
<1>6. u \in Seq(LineT) /\ Len(u) = n
  BY <1>1, <1>2, <1>3, SeqOf
<1>7. ASSUME NEW k \in 1..n, NEW a, NEW x, NEW y, NEW q, Shows(s[k], a, x, y, q)
      PROVE  Shows(t[k], a, x, y, q) /\ Shows(u[k], a, x, y, r)
  BY <1>2, <1>7 DEF Shows
<1> QED  BY <1>5, <1>6, <1>7 DEF t, u

LEMMA MoveIs ==
  ASSUME NEW to \in Account, NEW from \in Account, NEW x \in Int, NEW o \in OrderT, NEW r \in ReferenceT
  PROVE  /\ IsMove(Move(to, from, x), to, from, x, NULL)
         /\ IsMove(WithOrder(Move(to, from, x), o), to, from, x, NULL)
         /\ IsMove(WithRef(Move(to, from, x), r), to, from, x, r)
<1> DEFINE s == Move(to, from, x)
<1>1. /\ DOMAIN s = 1..2 /\ s = [k \in DOMAIN s |-> s[k]]
      /\ s[1] = Debit(to, x) /\ s[2] = Credit(from, x)
  BY DEF Move
<1>2. Shows(s[1], to, x, 0, NULL) /\ Shows(s[2], from, 0, x, NULL)
  BY <1>1, SideShows
<1>3. \A k \in 1..2 : s[k] \in LineT
  BY <1>2 DEF Shows
<1>4. s \in Seq(LineT) /\ Len(s) = 2
  BY <1>1, <1>3 DEF Move
<1> HIDE DEF s
<1>5. /\ WithOrder(s, o) \in Seq(LineT) /\ Len(WithOrder(s, o)) = 2
      /\ WithRef(s, r) \in Seq(LineT) /\ Len(WithRef(s, r)) = 2
      /\ \A k \in 1..2 : \A a, v, w, q : Shows(s[k], a, v, w, q) =>
            Shows(WithOrder(s, o)[k], a, v, w, q) /\ Shows(WithRef(s, r)[k], a, v, w, r)
  BY <1>1, <1>3, NamedShow
<1> QED  BY <1>2, <1>4, <1>5 DEF IsMove, s

\* The lines of a posting that are on accounts it may touch are known.
LEMMA LineIsOK ==
  ASSUME NEW source, Plainly(source), NEW l, NEW a, NEW x, NEW y, NEW r, Postable(a),
         Shows(l, a, x, y, r), a[1] \in ControlCode => r # NULL
  PROVE  LineOK(source, l)
BY DEF LineOK, Plainly, Postable, Shows, LineT, Line

LEMMA SoundIs ==
  ASSUME NEW source \in SourceT, NEW lines \in Seq(LineT), Len(lines) <= MaxLines,
         \A k \in 1..Len(lines) : LineOK(source, lines[k])
  PROVE  /\ Sound(Posting(source, lines))
         /\ Posting(source, lines).source = source /\ Posting(source, lines).lines = lines
BY DEF Sound, Posting

Cash(a, x) == IF a[1] \in CashCode THEN x ELSE 0

LEMMA MoveSound ==
  ASSUME NEW source, Plainly(source), NEW lines, NEW to, NEW from, NEW x \in Int, NEW r,
         IsMove(lines, to, from, x, r), Postable(to), Postable(from),
         to[1] \in ControlCode \/ from[1] \in ControlCode => r # NULL
  PROVE  Sound(Posting(source, lines)) /\ CashIn(lines) = Cash(to, x) - Cash(from, x)
<1>1. DOMAIN lines = 1..2
  BY DEF IsMove
<1>2. Shows(lines[1], to, x, 0, r) /\ Shows(lines[2], from, 0, x, r)
  BY DEF IsMove
<1>3. LineOK(source, lines[1]) /\ LineOK(source, lines[2])
  BY <1>2, LineIsOK
<1>8. \A k \in 1..Len(lines) : LineOK(source, lines[k])
  <2>1. Len(lines) = 2 /\ \A k \in 1..2 : k = 1 \/ k = 2
    BY DEF IsMove
  <2> QED  BY <1>3, <2>1
<1>4. Sound(Posting(source, lines))
  <2>1. lines \in Seq(LineT) /\ Len(lines) <= MaxLines /\ source \in SourceT
    BY DEF IsMove, MaxLines, Plainly
  <2> QED  BY <1>8, <2>1, SoundIs
<1>5. CashAt(lines, 1) = Cash(to, x) /\ CashAt(lines, 2) = -Cash(from, x)
      /\ CashAt(lines, 3) = 0 /\ CashAt(lines, 4) = 0 /\ CashAt(lines, 5) = 0
  BY <1>1, <1>2 DEF CashAt, Cash, Shows
<1>6. Cash(to, x) \in Int /\ Cash(from, x) \in Int
  BY DEF Cash
<1>7. CashIn(lines) = Cash(to, x) + (-Cash(from, x)) + 0 + 0 + 0
  BY <1>5 DEF CashIn
<1> QED  BY <1>4, <1>6, <1>7

\* Three lines, of which only the last one is of cash.
IsSplit(lines, a, b, c, x1, y1, x2, y2, z, r) ==
  /\ lines \in Seq(LineT) /\ Len(lines) = 3
  /\ Shows(lines[1], a, x1, y1, r) /\ Shows(lines[2], b, x2, y2, r) /\ Shows(lines[3], c, 0, z, r)

LEMMA SplitIs ==
  ASSUME NEW a \in Account, NEW b \in Account, NEW c \in Account, NEW x \in Int, NEW y \in Int,
         NEW z \in Int, NEW r \in ReferenceT
  PROVE  /\ IsSplit(<<Debit(a, x), Debit(b, y), Credit(c, z)>>, a, b, c, x, 0, y, 0, z, NULL)
         /\ IsSplit(WithRef(<<Debit(a, x), Credit(b, y), Credit(c, z)>>, r), a, b, c, x, 0, 0, y, z, r)
<1> DEFINE s == <<Debit(a, x), Debit(b, y), Credit(c, z)>>
           t == <<Debit(a, x), Credit(b, y), Credit(c, z)>>
<1>1. /\ s[1] = Debit(a, x) /\ s[2] = Debit(b, y) /\ s[3] = Credit(c, z)
      /\ t[1] = Debit(a, x) /\ t[2] = Credit(b, y) /\ t[3] = Credit(c, z)
      /\ DOMAIN t = 1..3 /\ \A k \in 1..3 : k = 1 \/ k = 2 \/ k = 3
  OBVIOUS
<1>2. /\ Shows(s[1], a, x, 0, NULL) /\ Shows(s[2], b, y, 0, NULL) /\ Shows(s[3], c, 0, z, NULL)
      /\ Shows(t[1], a, x, 0, NULL) /\ Shows(t[2], b, 0, y, NULL) /\ Shows(t[3], c, 0, z, NULL)
  BY <1>1, SideShows
<1>3. s[1] \in LineT /\ s[2] \in LineT /\ s[3] \in LineT /\ t[1] \in LineT /\ t[2] \in LineT /\ t[3] \in LineT
  BY <1>2 DEF Shows
<1>4. s \in Seq(LineT) /\ Len(s) = 3
  BY <1>3
<1>5. \A k \in 1..3 : t[k] \in LineT
  BY <1>1, <1>3
<1> HIDE DEF s, t
<1>6. /\ WithRef(t, r) \in Seq(LineT) /\ Len(WithRef(t, r)) = 3
      /\ \A k \in 1..3 : \A d, u, v, q : Shows(t[k], d, u, v, q) => Shows(WithRef(t, r)[k], d, u, v, r)
  <2>1. NULL \in OrderT /\ 3 \in Nat /\ DOMAIN t = 1..3
    BY <1>1 DEF OrderT
  <2>2. /\ WithOrder(t, NULL) \in Seq(LineT) /\ Len(WithOrder(t, NULL)) = 3
        /\ WithRef(t, r) \in Seq(LineT) /\ Len(WithRef(t, r)) = 3
        /\ \A k \in 1..3 : \A d, u, v, q : Shows(t[k], d, u, v, q) =>
              Shows(WithOrder(t, NULL)[k], d, u, v, q) /\ Shows(WithRef(t, r)[k], d, u, v, r)
    BY <1>5, <2>1, NamedShow
  <2> QED  BY <2>2
<1>7. /\ Shows(WithRef(t, r)[1], a, x, 0, r) /\ Shows(WithRef(t, r)[2], b, 0, y, r)
      /\ Shows(WithRef(t, r)[3], c, 0, z, r)
  BY <1>2, <1>6
<1> QED  BY <1>2, <1>4, <1>6, <1>7 DEF IsSplit, s, t

LEMMA SplitSound ==
  ASSUME NEW source, Plainly(source), NEW lines, NEW a, NEW b, NEW c, NEW x1 \in Int, NEW y1 \in Int,
         NEW x2 \in Int, NEW y2 \in Int, NEW z \in Int, NEW r,
         IsSplit(lines, a, b, c, x1, y1, x2, y2, z, r), Postable(a), Postable(b), Postable(c),
         a[1] \in ControlCode \/ b[1] \in ControlCode \/ c[1] \in ControlCode => r # NULL,
         a[1] \notin CashCode, b[1] \notin CashCode, c[1] \in CashCode
  PROVE  Sound(Posting(source, lines)) /\ CashIn(lines) = -z
<1>1. DOMAIN lines = 1..3
  BY DEF IsSplit
<1>2. /\ Shows(lines[1], a, x1, y1, r) /\ Shows(lines[2], b, x2, y2, r) /\ Shows(lines[3], c, 0, z, r)
  BY DEF IsSplit
<1>3. LineOK(source, lines[1]) /\ LineOK(source, lines[2]) /\ LineOK(source, lines[3])
  BY <1>2, LineIsOK
<1>4. \A k \in 1..Len(lines) : LineOK(source, lines[k])
  <2>1. Len(lines) = 3 /\ \A k \in 1..3 : k = 1 \/ k = 2 \/ k = 3
    BY DEF IsSplit
  <2> QED  BY <1>3, <2>1
<1>5. Sound(Posting(source, lines))
  <2>1. lines \in Seq(LineT) /\ Len(lines) <= MaxLines /\ source \in SourceT
    BY DEF IsSplit, MaxLines, Plainly
  <2> QED  BY <1>4, <2>1, SoundIs
<1>6. CashAt(lines, 1) = 0 /\ CashAt(lines, 2) = 0 /\ CashAt(lines, 3) = -z
      /\ CashAt(lines, 4) = 0 /\ CashAt(lines, 5) = 0
  BY <1>1, <1>2 DEF CashAt, Shows
<1>7. CashIn(lines) = 0 + 0 + (-z) + 0 + 0
  BY <1>6 DEF CashIn
<1> QED  BY <1>5, <1>7

-----------------------------------------------------------------------------
(* What a labelled row books.                                                *)

RowSource == {"cogs_purchase", "bank_other", "consignment_payout", "ebay_refund",
              "inter_account_transfer", "owner_draw", "owner_contribution"}

\* A posting that moves the cash its row did, or is a transfer.
RowPosting(row, q) ==
  /\ Sound(q) /\ q.source \in RowSource /\ row.amount # 0
  /\ q.source = "inter_account_transfer" => CashIn(q.lines) = 0 /\ q.lines[1].account[1] # "COGS"
  /\ q.source # "inter_account_transfer" => CashIn(q.lines) = row.amount

LEMMA SourcesPlain ==
  ASSUME NEW source \in RowSource
  PROVE  Plainly(source)
<1>1. source \in SourceT
  BY DEF RowSource, SourceT
<1>2. source \notin {"fx_revaluation", "inventory_deposit_received"}
  BY DEF RowSource
<1> QED  BY <1>1, <1>2 DEF Plainly

LEMMA MagnitudeIs ==
  ASSUME NEW row, row.amount \in Int
  PROVE  /\ Magnitude(row) \in Int /\ Magnitude(row) >= 0 /\ (Magnitude(row) = 0 => row.amount = 0)
         /\ row.amount >= 0 => Magnitude(row) = row.amount
         /\ row.amount <= 0 => Magnitude(row) = -row.amount
BY DEF Magnitude

\* An amount booked for a row, from or to the account the row is of.
LEMMA RowMove ==
  ASSUME NEW row, row.amount \in Int, NEW source \in RowSource, NEW lines, NEW to, NEW from,
         NEW m \in Int, NEW r, m = Magnitude(row), IsMove(lines, to, from, m, r),
         Postable(to), Postable(from), to[1] \in ControlCode \/ from[1] \in ControlCode => r # NULL,
         Insertable(Posting(source, lines)),
         \/ source = "inter_account_transfer" /\ to[1] \in CashCode /\ from[1] \in CashCode
         \/ /\ source # "inter_account_transfer" /\ row.amount >= 0
            /\ to[1] \in CashCode /\ from[1] \notin CashCode
         \/ /\ source # "inter_account_transfer" /\ row.amount <= 0
            /\ to[1] \notin CashCode /\ from[1] \in CashCode
  PROVE  RowPosting(row, Posting(source, lines)) /\ lines[1].account = to
<1>1. Sound(Posting(source, lines)) /\ CashIn(lines) = Cash(to, m) - Cash(from, m)
  BY SourcesPlain, MoveSound
<1>2. lines[1].account = to /\ lines[1].debit = m /\ lines[1].credit = 0
  BY DEF IsMove, Shows
<1>3. Posting(source, lines).source = source /\ Posting(source, lines).lines = lines
  BY DEF Posting
<1>4. row.amount # 0
  <2>1. 1 \in DOMAIN lines
    BY DEF IsMove
  <2>2. SingleSided(lines[1])
    BY <1>3, <2>1 DEF Insertable, Accepted
  <2>3. m # 0
    BY <1>2, <2>2 DEF SingleSided
  <2> QED  BY <2>3, MagnitudeIs
<1>5. row.amount >= 0 => m = row.amount
  BY MagnitudeIs
<1>6. row.amount <= 0 => m = -row.amount
  BY MagnitudeIs
<1>7. \/ source = "inter_account_transfer" /\ CashIn(lines) = 0 /\ to[1] # "COGS"
      \/ source # "inter_account_transfer" /\ CashIn(lines) = row.amount
  BY <1>1, <1>5, <1>6 DEF Cash, CashCode
<1> QED  BY <1>1, <1>2, <1>3, <1>4, <1>7 DEF RowPosting

LEMMA RowTyped ==
  ASSUME NEW row \in BankRow
  PROVE  /\ row.amount \in Int /\ row.part \in Nat /\ row.month \in Period
         /\ row.ebay \in EbayAccount \cup {NULL} /\ row.group \in WalletGroup \cup {NULL}
         /\ row.ref \in Reference \cup {NULL} /\ row.expense \in OpexCode
         /\ row.peer \in WalletGroup \cup {NULL}
         /\ row.feed = "payoneer" => row.group \in WalletGroup
BY LedgerAssumption

LEMMA PayingIs ==
  ASSUME NEW row \in BankRow
  PROVE  /\ Postable(PayingAccount(row)) /\ PayingAccount(row) \in Account
         /\ PayingAccount(row)[1] \in CashCode /\ PayingAccount(row)[1] \notin ControlCode
         /\ PayingAccount(row) # Single("COGS")
<1>1. \/ \E w \in WalletGroup : PayingAccount(row) = <<"PAYONEER_WALLET", w>>
      \/ \E w \in WalletGroup : PayingAccount(row) = <<"BCA_BRIDGING", w>>
      \/ PayingAccount(row) = Main
  BY RowTyped DEF PayingAccount
<1>2. \A code, w : <<code, w>>[1] = code
  OBVIOUS
<1>3. Postable(PayingAccount(row)) /\ PayingAccount(row)[1] \in CashCode
  <2>1. CASE \E w \in WalletGroup : PayingAccount(row) = <<"PAYONEER_WALLET", w>>
    <3>1. PICK w \in WalletGroup : PayingAccount(row) = <<"PAYONEER_WALLET", w>>
      BY <2>1
    <3>2. Postable(<<"PAYONEER_WALLET", w>>) /\ <<"PAYONEER_WALLET", w>>[1] = "PAYONEER_WALLET"
      BY <1>2, AccountsAre
    <3> QED  BY <3>1, <3>2 DEF CashCode
  <2>2. CASE \E w \in WalletGroup : PayingAccount(row) = <<"BCA_BRIDGING", w>>
    <3>1. PICK w \in WalletGroup : PayingAccount(row) = <<"BCA_BRIDGING", w>>
      BY <2>2
    <3>2. Postable(<<"BCA_BRIDGING", w>>) /\ <<"BCA_BRIDGING", w>>[1] = "BCA_BRIDGING"
      BY <1>2, AccountsAre
    <3> QED  BY <3>1, <3>2 DEF CashCode
  <2>3. CASE PayingAccount(row) = Main
    BY <2>3, AccountsAre DEF CashCode
  <2> QED  BY <1>1, <2>1, <2>2, <2>3
<1>4. Single("COGS")[1] \notin CashCode
  BY <1>2 DEF Single, CashCode
<1>5. CashCode \cap ControlCode = {}
  BY DEF CashCode, ControlCode
<1> QED  BY <1>3, <1>4, <1>5 DEF Postable

BookCode == AccountCode \ (CashCode \cup {"RETAINED_EARNINGS", "UNREALIZED_FX"})

LEMMA BookAccount ==
  ASSUME NEW code \in BookCode
  PROVE  /\ Postable(Single(code)) /\ Single(code) \in Account
         /\ Single(code)[1] = code /\ Single(code)[1] \notin CashCode
<1>1. code \in AccountCode \ {"EBAY_WALLET", "PAYONEER_WALLET", "BCA_BRIDGING"}
      /\ code \notin {"RETAINED_EARNINGS", "UNREALIZED_FX"} /\ code \notin CashCode
  BY DEF BookCode, CashCode
<1> QED  BY <1>1, AccountsAre DEF Postable

\* Ways to write that an amount leaves one account for another.
Written(lines, to, from, x, r) ==
  \/ lines = Move(to, from, x) /\ to[1] \notin ControlCode /\ from[1] \notin ControlCode
  \/ lines = WithOrder(Move(to, from, x), NULL) /\ to[1] \notin ControlCode /\ from[1] \notin ControlCode
  \/ lines = WithRef(Move(to, from, x), r) /\ r # NULL

LEMMA WrittenIs ==
  ASSUME NEW lines, NEW to \in Account, NEW from \in Account, NEW x \in Int, NEW r \in ReferenceT,
         Written(lines, to, from, x, r)
  PROVE  \E q : /\ IsMove(lines, to, from, x, q)
                /\ to[1] \in ControlCode \/ from[1] \in ControlCode => q # NULL
<1>1. NULL \in OrderT
  BY DEF OrderT
<1>2. /\ IsMove(Move(to, from, x), to, from, x, NULL)
      /\ IsMove(WithOrder(Move(to, from, x), NULL), to, from, x, NULL)
      /\ IsMove(WithRef(Move(to, from, x), r), to, from, x, r)
  BY <1>1, MoveIs
<1> QED  BY <1>2 DEF Written

\* A row pays for something, or is paid.
LEMMA RowSpends ==
  ASSUME NEW row, row.amount \in Int, NEW source \in RowSource, source # "inter_account_transfer",
         NEW code \in BookCode, NEW from, Postable(from), from[1] \in CashCode,
         NEW lines, NEW r \in ReferenceT, Written(lines, Single(code), from, Magnitude(row), r),
         row.amount <= 0, Insertable(Posting(source, lines))
  PROVE  RowPosting(row, Posting(source, lines)) /\ lines[1].account = Single(code)
<1> DEFINE m == Magnitude(row)
           to == Single(code)
<1>1. /\ Postable(to) /\ to \in Account /\ to[1] \notin CashCode /\ m \in Int /\ from \in Account
  BY BookAccount, MagnitudeIs DEF Postable
<1>2. PICK q : IsMove(lines, to, from, m, q) /\ (to[1] \in ControlCode \/ from[1] \in ControlCode => q # NULL)
  BY <1>1, WrittenIs
<1> HIDE DEF to
<1>3. RowPosting(row, Posting(source, lines)) /\ lines[1].account = to
  BY <1>1, <1>2, RowMove
<1> QED  BY <1>3 DEF to

LEMMA RowEarns ==
  ASSUME NEW row, row.amount \in Int, NEW source \in RowSource, source # "inter_account_transfer",
         NEW code \in BookCode, NEW to, Postable(to), to[1] \in CashCode,
         NEW lines, NEW r \in ReferenceT, Written(lines, to, Single(code), Magnitude(row), r),
         row.amount >= 0, Insertable(Posting(source, lines))
  PROVE  RowPosting(row, Posting(source, lines)) /\ lines[1].account = to
<1> DEFINE m == Magnitude(row)
           from == Single(code)
<1>1. /\ Postable(from) /\ from \in Account /\ from[1] \notin CashCode /\ m \in Int /\ to \in Account
  BY BookAccount, MagnitudeIs DEF Postable
<1>2. PICK q : IsMove(lines, to, from, m, q) /\ (to[1] \in ControlCode \/ from[1] \in ControlCode => q # NULL)
  BY <1>1, WrittenIs
<1> HIDE DEF from
<1>3. RowPosting(row, Posting(source, lines)) /\ lines[1].account = to
  BY <1>1, <1>2, RowMove
<1> QED  BY <1>3

LEMMA RowTransfers ==
  ASSUME NEW row, row.amount \in Int, NEW to, NEW from, Postable(to), Postable(from),
         to[1] \in CashCode, from[1] \in CashCode,
         Insertable(InterAccountTransfer(to, from, Magnitude(row)))
  PROVE  RowPosting(row, InterAccountTransfer(to, from, Magnitude(row)))
<1> DEFINE m == Magnitude(row)
           lines == Move(to, from, m)
<1>1. m \in Int /\ to \in Account /\ from \in Account /\ NULL \in ReferenceT /\ NULL \in OrderT
  BY MagnitudeIs DEF Postable, ReferenceT, OrderT
<1>2. IsMove(lines, to, from, m, NULL)
  BY <1>1, MoveIs
<1>3. to[1] \notin ControlCode /\ from[1] \notin ControlCode
  BY DEF CashCode, ControlCode
<1>4. InterAccountTransfer(to, from, m) = Posting("inter_account_transfer", lines)
  BY DEF InterAccountTransfer
<1>5. "inter_account_transfer" \in RowSource
  BY DEF RowSource
<1> HIDE DEF lines
<1>6. RowPosting(row, Posting("inter_account_transfer", lines))
  BY <1>1, <1>2, <1>3, <1>4, <1>5, RowMove
<1> QED  BY <1>4, <1>6

\* Two accounts paid for by one row.
LEMMA RowSplits ==
  ASSUME NEW row, row.amount \in Int, row.amount < 0, NEW lines, NEW a \in BookCode, NEW b \in BookCode, NEW from,
         Postable(from), from[1] \in CashCode, NEW x1 \in Int, NEW y1 \in Int, NEW x2 \in Int,
         NEW y2 \in Int, NEW r,
         IsSplit(lines, Single(a), Single(b), from, x1, y1, x2, y2, Magnitude(row), r),
         a \in ControlCode \/ b \in ControlCode => r # NULL
  PROVE  RowPosting(row, Posting("bank_other", lines)) /\ lines[1].account = Single(a)
<1> DEFINE z == Magnitude(row)
           c == Single(a)
           d == Single(b)
<1>1. /\ z \in Int /\ z = -row.amount /\ Postable(c) /\ Postable(d) /\ c[1] = a /\ d[1] = b
      /\ c[1] \notin CashCode /\ d[1] \notin CashCode
  BY BookAccount, MagnitudeIs
<1>2. "bank_other" \in RowSource /\ from[1] \notin ControlCode
  BY DEF RowSource, CashCode, ControlCode
<1>3. Plainly("bank_other")
  BY <1>2, SourcesPlain
<1> HIDE DEF z, c, d
<1>4. IsSplit(lines, c, d, from, x1, y1, x2, y2, z, r)
  BY DEF z, c, d
<1>5. c[1] \in ControlCode \/ d[1] \in ControlCode \/ from[1] \in ControlCode => r # NULL
  BY <1>1, <1>2
<1>6. Sound(Posting("bank_other", lines)) /\ CashIn(lines) = -z
  BY <1>1, <1>3, <1>4, <1>5, SplitSound
<1>7. -z = row.amount /\ row.amount # 0
  BY <1>1
<1>8. Posting("bank_other", lines).source = "bank_other" /\ Posting("bank_other", lines).lines = lines
  BY DEF Posting
<1>9. lines[1].account = c
  BY <1>4 DEF IsSplit, Shows
<1> QED  BY <1>2, <1>6, <1>7, <1>8, <1>9 DEF RowPosting, c

\* The same, of the posting they make.
LEMMA Spends ==
  ASSUME NEW row, row.amount \in Int, row.amount <= 0, NEW x, x = Magnitude(row),
         NEW source, source \in RowSource, source # "inter_account_transfer",
         NEW code, code \in BookCode, NEW from, Postable(from), from[1] \in CashCode,
         NEW r, r \in ReferenceT, NEW lines, Written(lines, Single(code), from, x, r),
         NEW q, q = Posting(source, lines), Insertable(q)
  PROVE  RowPosting(row, q) /\ q.lines[1].account = Single(code)
<1>1. Posting(source, lines).lines = lines
  BY DEF Posting
<1>2. Written(lines, Single(code), from, Magnitude(row), r) /\ Insertable(Posting(source, lines))
  OBVIOUS
<1>3. RowPosting(row, Posting(source, lines)) /\ lines[1].account = Single(code)
  BY <1>2, RowSpends
<1> QED  BY <1>1, <1>3

LEMMA Earns ==
  ASSUME NEW row, row.amount \in Int, row.amount >= 0, NEW x, x = Magnitude(row),
         NEW source, source \in RowSource, source # "inter_account_transfer",
         NEW code, code \in BookCode, NEW to, Postable(to), to[1] \in CashCode,
         NEW r, r \in ReferenceT, NEW lines, Written(lines, to, Single(code), x, r),
         NEW q, q = Posting(source, lines), Insertable(q)
  PROVE  RowPosting(row, q) /\ q.lines[1].account = to
<1>1. Posting(source, lines).lines = lines
  BY DEF Posting
<1>2. Written(lines, to, Single(code), Magnitude(row), r) /\ Insertable(Posting(source, lines))
  OBVIOUS
<1>3. RowPosting(row, Posting(source, lines)) /\ lines[1].account = to
  BY <1>2, RowEarns
<1> QED  BY <1>1, <1>3

LEMMA Splits ==
  ASSUME NEW row, row.amount \in Int, row.amount < 0, NEW x, x = Magnitude(row),
         NEW a, a \in BookCode, NEW b, b \in BookCode, NEW from, Postable(from), from[1] \in CashCode,
         NEW x1 \in Int, NEW y1 \in Int, NEW x2 \in Int, NEW y2 \in Int, NEW r, NEW lines,
         IsSplit(lines, Single(a), Single(b), from, x1, y1, x2, y2, x, r),
         a \in ControlCode \/ b \in ControlCode => r # NULL
  PROVE  RowPosting(row, Posting("bank_other", lines))
<1>1. IsSplit(lines, Single(a), Single(b), from, x1, y1, x2, y2, Magnitude(row), r)
  OBVIOUS
<1> QED  BY <1>1, RowSplits

LEMMA Transfers ==
  ASSUME NEW row, row.amount \in Int, NEW x, x = Magnitude(row), NEW to, NEW from, Postable(to), Postable(from),
         to[1] \in CashCode, from[1] \in CashCode, NEW q, q = InterAccountTransfer(to, from, x), Insertable(q)
  PROVE  RowPosting(row, q)
<1>1. Insertable(InterAccountTransfer(to, from, Magnitude(row)))
  OBVIOUS
<1> QED  BY <1>1, RowTransfers

\* What a bookable row books moves the cash the row did; and a corrected row is
\* no purchase any more.
LEMMA PostedIs ==
  ASSUME NEW row \in BankRow, NEW c \in Category, Bookable(row, c)
  PROVE  /\ RowPosting(row, Posted(row, c))
         /\ c \in Corrected /\ row.part = 0 => Posted(row, c).lines[1].account # Single("COGS")
<1> DEFINE x == Magnitude(row)
           from == PayingAccount(row)
           q == Posted(row, c)
<1>1. /\ row.amount \in Int /\ x \in Int /\ row.part \in Nat /\ row.expense \in OpexCode
      /\ row.ref \in ReferenceT /\ NULL \in ReferenceT /\ "unspecified" \in ReferenceT
      /\ NULL # "unspecified"
  BY RowTyped, MagnitudeIs, LedgerAssumption DEF ReferenceT
<1>2. /\ Postable(from) /\ from[1] \in CashCode /\ from # Single("COGS")
      /\ Postable(Main) /\ Main[1] \in CashCode /\ Main # Single("COGS")
  BY PayingIs, AccountsAre DEF CashCode, Single
<1>3. Insertable(q) /\ ~SignMismatch(row, c) /\ q # NULL /\ ~MissingReference(row, c)
  BY DEF Bookable
<1>4. /\ BookCode = {"EMPLOYEE_LOAN_RECEIVABLE", "INVENTORY_DEPOSITS", "CONSIGNOR_PAYABLE",
                     "OWNERS_CAPITAL", "OWNERS_DRAW", "COGS", "REALIZED_FX", "INTEREST_INCOME",
                     "OTHER_INCOME"} \cup RevenueCode \cup OpexCode
      /\ {"cogs_purchase", "bank_other", "consignment_payout", "ebay_refund", "owner_draw",
          "owner_contribution"} = RowSource \ {"inter_account_transfer"}
  BY DEF BookCode, AccountCode, AssetCode, LiabilityCode, EquityCode, OtherCode, RevenueCode, OpexCode,
         CashCode, RowSource
<1>5. c \in Outflow => row.amount < 0
  BY <1>1, <1>3 DEF SignMismatch
<1>6. c \in Inflow => row.amount > 0
  BY <1>1, <1>3 DEF SignMismatch
<1>7. \A code : Single(code)[1] = code /\ (code # "COGS" => Single(code) # Single("COGS"))
  BY DEF Single
<1>8. {"OPEX"} \cap ControlCode = {} /\ OpexCode \cap ControlCode = {} /\ "COGS" \notin OpexCode
      /\ "COGS" \notin ControlCode /\ CashCode \cap ControlCode = {}
      /\ "BCA_MAIN" \notin ControlCode
  BY DEF ControlCode, OpexCode, CashCode
<1>9. from[1] \notin ControlCode /\ Main[1] \notin ControlCode
  BY <1>2, <1>8
<1>a. \A code, lines : Posting(code, lines).lines = lines
  BY DEF Posting
<1>b. x = Magnitude(row)
  OBVIOUS
<1>c. /\ {"EMPLOYEE_LOAN_RECEIVABLE", "INVENTORY_DEPOSITS", "CONSIGNOR_PAYABLE", "OWNERS_CAPITAL",
          "OWNERS_DRAW", "COGS", "INTEREST_INCOME", "OTHER_INCOME"} \subseteq BookCode
      /\ RevenueCode \subseteq BookCode /\ OpexCode \subseteq BookCode
  BY <1>4
<1>d. /\ "cogs_purchase" \in RowSource /\ "bank_other" \in RowSource /\ "consignment_payout" \in RowSource
      /\ "ebay_refund" \in RowSource /\ "owner_draw" \in RowSource /\ "owner_contribution" \in RowSource
  BY DEF RowSource
<1>e. row.amount \in Int /\ Insertable(q)
  BY <1>1, <1>3
<1>f. NULL \in ReferenceT
  BY <1>1
<1>g. Postable(from)
  BY <1>2
<1>h. from[1] \in CashCode
  BY <1>2
<1>i. Postable(Main)
  BY <1>2
<1>j. Main[1] \in CashCode
  BY <1>2
<1>k. row.amount \in Int
  BY <1>1
<1> HIDE DEF x, from, q
<1>10. CASE c \in PurchaseCategory
  <2>1. q = Purchase(row, c) /\ row.amount < 0 /\ c \notin Corrected
    BY <1>10, <1>5 DEF q, Posted, ExpenseOf, PurchaseCategory, Outflow, Corrected
  <2>2. CASE row.part # 0
    <3>1. q = CogsWithShippingSplit(from, x, row.part)
      BY <2>1, <2>2, <1>3 DEF Purchase, x, from
    <3> DEFINE lines == <<Debit(Single("COGS"), x - row.part), Debit(Single("SHIPPING_COST"), row.part), Credit(from, x)>>
    <3>2. q = Posting("bank_other", lines)
      BY <3>1 DEF CogsWithShippingSplit
    <3>3. "COGS" \in BookCode /\ "SHIPPING_COST" \in BookCode /\ "SHIPPING_COST" \notin ControlCode
      BY <1>4, <1>8 DEF OpexCode
    <3>4. Single("COGS") \in Account /\ Single("SHIPPING_COST") \in Account /\ from \in Account
          /\ x - row.part \in Int /\ row.part \in Int
      BY <1>1, <1>2, <3>3, BookAccount DEF Postable
    <3>5. IsSplit(lines, Single("COGS"), Single("SHIPPING_COST"), from, x - row.part, 0, row.part, 0, x, NULL)
      BY <1>1, <3>4, SplitIs
    <3> HIDE DEF lines
    <3>7. row.amount < 0
      BY <2>1
    <3>8. x - row.part \in Int
      BY <3>4
    <3>9. row.part \in Int /\ 0 \in Int
      BY <3>4
    <3>10. "COGS" \in BookCode
      BY <3>3
    <3>11. "SHIPPING_COST" \in BookCode
      BY <3>3
    <3>12. ~("COGS" \in ControlCode \/ "SHIPPING_COST" \in ControlCode)
      BY <1>8, <3>3
    <3>6. RowPosting(row, Posting("bank_other", lines))
      BY ONLY <1>b, <1>g, <1>h, <1>k, <3>5, <3>7, <3>8, <3>9, <3>10, <3>11, <3>12, Splits
    <3> QED  BY <2>1, <3>2, <3>6 DEF q
  <2>3. CASE row.part = 0
    <3> DEFINE to == Single("COGS")
               own == Move(to, Main, x)
               other == Move(to, from, x)
    <3>1. \/ q = Posting("cogs_purchase", own)
          \/ q = Posting("bank_other", other)
      BY <2>1, <2>3 DEF Purchase, CogsPurchase, OperatingExpense, x, from
    <3>2. Written(own, to, Main, x, NULL)
      BY <1>7, <1>8, <1>9 DEF Written
    <3>3. Written(other, to, from, x, NULL)
      BY <1>7, <1>8, <1>9 DEF Written
    <3> HIDE DEF own, other
    <3>6. row.amount <= 0
      BY <1>k, <2>1
    <3>7. "COGS" \in BookCode
      BY <1>4
    <3>4. CASE q = Posting("cogs_purchase", own)
      <4>1. "cogs_purchase" \in RowSource /\ "cogs_purchase" # "inter_account_transfer"
        BY <1>d
      <4>2. RowPosting(row, q)
        BY ONLY <1>b, <1>e, <1>f, <1>i, <1>j, <1>k, <3>2, <3>4, <3>6, <3>7, <4>1, Spends
      <4> QED  BY <2>1, <4>2 DEF q
    <3>5. CASE q = Posting("bank_other", other)
      <4>1. "bank_other" \in RowSource /\ "bank_other" # "inter_account_transfer"
        BY <1>d
      <4>2. RowPosting(row, q)
        BY ONLY <1>b, <1>e, <1>f, <1>g, <1>h, <1>k, <3>3, <3>5, <3>6, <3>7, <4>1, Spends
      <4> QED  BY <2>1, <4>2 DEF q
    <3> QED  BY <3>1, <3>4, <3>5
  <2> QED  BY <2>2, <2>3
<1>11. CASE c \in DOMAIN ExpenseOf \/ c = "operating_expense" \/ (c = "other" /\ ~(row.amount > 0))
            \/ (c = "payroll" /\ row.part = 0)
  <2>1. \E code \in OpexCode : q = Posting("bank_other", Move(Single(code), from, x))
    <3>1. CASE c \in DOMAIN ExpenseOf
      <4>1. q = Posting("bank_other", Move(Single(ExpenseOf[c]), from, x))
        BY <3>1 DEF q, Posted, OperatingExpense, ExpenseOf, PurchaseCategory, x, from
      <4>2. ExpenseOf[c] \in OpexCode
        BY <3>1 DEF ExpenseOf, OpexCode
      <4> QED  BY <4>1, <4>2
    <3>2. CASE c = "operating_expense"
      BY <3>2, <1>1 DEF q, Posted, OperatingExpense, ExpenseOf, PurchaseCategory, x, from
    <3>3. CASE c = "other" /\ ~(row.amount > 0)
      <4>1. q = Posting("bank_other", Move(Single("GENERAL_OPEX"), from, x))
        BY <3>3 DEF q, Posted, Other, OperatingExpense, ExpenseOf, PurchaseCategory, x, from
      <4> QED  BY <4>1 DEF OpexCode
    <3>4. CASE c = "payroll" /\ row.part = 0
      <4>1. q = Posting("bank_other", Move(Single("PAYROLL"), from, x))
        BY <3>4 DEF q, Posted, Payroll, OperatingExpense, ExpenseOf, PurchaseCategory, x, from
      <4> QED  BY <4>1 DEF OpexCode
    <3> QED  BY <1>11, <3>1, <3>2, <3>3, <3>4
  <2>2. PICK code \in OpexCode : q = Posting("bank_other", Move(Single(code), from, x))
    BY <2>1
  <2>3. row.amount <= 0
    BY <1>1, <1>5, <1>11 DEF Outflow
  <2> DEFINE lines == Move(Single(code), from, x)
  <2>4. Written(lines, Single(code), from, x, NULL)
    BY <1>7, <1>8, <1>9 DEF Written
  <2>5. q = Posting("bank_other", lines)
    BY <2>2
  <2> HIDE DEF lines
  <2>6. "bank_other" \in RowSource /\ "bank_other" # "inter_account_transfer"
    BY <1>d
  <2>7. code \in BookCode /\ Single(code) # Single("COGS")
    BY <1>4, <1>7, <1>8
  <2>8. RowPosting(row, q) /\ q.lines[1].account = Single(code)
    BY ONLY <1>b, <1>e, <1>f, <1>g, <1>h, <1>k, <2>3, <2>4, <2>5, <2>6, <2>7, Spends
  <2> QED  BY <2>7, <2>8 DEF q
<1>12. CASE c = "payroll" /\ row.part # 0
  <2>1. q = PayrollWithRepayment(from, x, row.part, row.ref)
    BY <1>12 DEF q, Posted, Payroll, ExpenseOf, PurchaseCategory, x, from
  <2> DEFINE s == <<Debit(Single("PAYROLL"), x + row.part),
                    Credit(Single("EMPLOYEE_LOAN_RECEIVABLE"), row.part), Credit(from, x)>>
             lines == WithRef(s, row.ref)
  <2>2. q = Posting("bank_other", lines)
    BY <2>1 DEF PayrollWithRepayment
  <2>3. "PAYROLL" \in BookCode /\ "EMPLOYEE_LOAN_RECEIVABLE" \in BookCode /\ row.ref # NULL
    BY <1>3, <1>4, <1>12 DEF OpexCode, MissingReference
  <2>4. Single("PAYROLL") \in Account /\ Single("EMPLOYEE_LOAN_RECEIVABLE") \in Account /\ from \in Account
        /\ x + row.part \in Int /\ row.part \in Int
    BY <1>1, <1>2, <2>3, BookAccount DEF Postable
  <2>5. IsSplit(lines, Single("PAYROLL"), Single("EMPLOYEE_LOAN_RECEIVABLE"), from,
                x + row.part, 0, 0, row.part, x, row.ref)
    BY <1>1, <2>4, SplitIs
  <2> HIDE DEF lines
  <2>6. row.amount < 0 /\ c \notin Corrected
    BY <1>5, <1>12 DEF Outflow, Corrected
  <2>8. row.amount < 0
    BY <2>6
  <2>9. x + row.part \in Int
    BY <2>4
  <2>10. row.part \in Int /\ 0 \in Int
    BY <2>4
  <2>11. "PAYROLL" \in BookCode
    BY <2>3
  <2>12. "EMPLOYEE_LOAN_RECEIVABLE" \in BookCode
    BY <2>3
  <2>13. row.ref # NULL
    BY <2>3
  <2>7. RowPosting(row, Posting("bank_other", lines))
    BY ONLY <1>b, <1>g, <1>h, <1>k, <2>5, <2>8, <2>9, <2>10, <2>11, <2>12, <2>13, Splits
  <2> QED  BY <2>2, <2>6, <2>7 DEF q
<1>13. CASE (c = "other" /\ row.amount > 0) \/ c = "interest_income"
  <2>1. PICK code \in {"OTHER_INCOME", "INTEREST_INCOME"} : q = IncomeLine(code, from, row.amount)
    BY <1>13 DEF q, Posted, Other, InterestIncomeLine, ExpenseOf, PurchaseCategory, from
  <2>2. code \in BookCode /\ code \notin ControlCode /\ code # "COGS" /\ "bank_other" \in RowSource
    BY <1>4 DEF ControlCode
  <2>5. "bank_other" \in RowSource /\ "bank_other" # "inter_account_transfer"
    BY <1>d
  <2>6. code \in BookCode
    BY <2>2
  <2>3. CASE row.amount > 0
    <3> DEFINE lines == Move(from, Single(code), x)
    <3>1. q = Posting("bank_other", lines)
      BY <1>1, <2>1, <2>3, MagnitudeIs DEF IncomeLine, x
    <3>2. Written(lines, from, Single(code), x, NULL)
      BY <1>7, <1>9, <2>2 DEF Written
    <3> HIDE DEF lines
    <3>4. row.amount >= 0
      BY <1>k, <2>3
    <3>3. RowPosting(row, q) /\ q.lines[1].account = from
      BY ONLY <1>b, <1>e, <1>f, <1>g, <1>h, <1>k, <2>5, <2>6, <3>1, <3>2, <3>4, Earns
    <3> QED  BY <1>2, <3>3 DEF q
  <2>4. CASE ~(row.amount > 0)
    <3> DEFINE lines == Move(Single(code), from, x)
    <3>1. q = Posting("bank_other", lines)
      BY <1>1, <2>1, <2>4, MagnitudeIs DEF IncomeLine, x
    <3>2. Written(lines, Single(code), from, x, NULL)
      BY <1>7, <1>9, <2>2 DEF Written
    <3> HIDE DEF lines
    <3>4. row.amount <= 0
      BY <1>k, <2>4
    <3>3. RowPosting(row, q) /\ q.lines[1].account = Single(code)
      BY ONLY <1>b, <1>e, <1>f, <1>g, <1>h, <1>k, <2>5, <2>6, <3>1, <3>2, <3>4, Spends
    <3> QED  BY <1>7, <2>2, <3>3 DEF q
  <2> QED  BY <2>3, <2>4
<1>14. CASE c \in {"consignment_payout", "employee_loan_disbursement", "inventory_deposit"}
  <2>1. row.amount < 0 /\ c \notin Corrected
    BY <1>5, <1>14 DEF Outflow, Corrected
  <2>2. \E code \in ControlCode, src \in {"consignment_payout", "bank_other"}, f \in {from, Main}, r \in ReferenceT \ {NULL} :
           q = Posting(src, WithRef(Move(Single(code), f, x), r))
    <3>1. CASE c = "consignment_payout"
      <4> DEFINE r == IF row.ref = NULL THEN "unspecified" ELSE row.ref
      <4>1. q = Posting("consignment_payout", WithRef(Move(Single("CONSIGNOR_PAYABLE"), from, x), r))
        BY <3>1 DEF q, Posted, ExpenseOf, PurchaseCategory, Reimbursement, ConsignorReimbursement, x, from
      <4>2. r \in ReferenceT \ {NULL} /\ "CONSIGNOR_PAYABLE" \in ControlCode
        BY <1>1 DEF ControlCode
      <4> HIDE DEF r
      <4> QED  BY <4>1, <4>2
    <3>2. CASE c = "employee_loan_disbursement"
      <4>1. q = Posting("bank_other", WithRef(Move(Single("EMPLOYEE_LOAN_RECEIVABLE"), from, x), row.ref))
        BY <3>2 DEF q, Posted, ExpenseOf, PurchaseCategory, LoanDisbursement, x, from
      <4>2. row.ref \in ReferenceT \ {NULL} /\ "EMPLOYEE_LOAN_RECEIVABLE" \in ControlCode
        BY <1>1, <1>3, <3>2 DEF ControlCode, MissingReference
      <4> QED  BY <4>1, <4>2
    <3>3. CASE c = "inventory_deposit"
      <4>1. q = Posting("bank_other", WithRef(Move(Single("INVENTORY_DEPOSITS"), Main, x), row.ref))
        BY <3>3, <1>3 DEF q, Posted, ExpenseOf, PurchaseCategory, OnlyMain, InventoryDeposit, x
      <4>2. row.ref \in ReferenceT \ {NULL} /\ "INVENTORY_DEPOSITS" \in ControlCode
        BY <1>1, <1>3, <3>3 DEF ControlCode, MissingReference
      <4> QED  BY <4>1, <4>2
    <3> QED  BY <1>14, <3>1, <3>2, <3>3
  <2>3. PICK code \in ControlCode, src \in {"consignment_payout", "bank_other"}, f \in {from, Main}, r \in ReferenceT \ {NULL} :
           q = Posting(src, WithRef(Move(Single(code), f, x), r))
    BY <2>2
  <2>4. code \in BookCode /\ src \in RowSource /\ src # "inter_account_transfer" /\ Postable(f) /\ f[1] \in CashCode
    BY <1>2, <1>4 DEF ControlCode
  <2> DEFINE lines == WithRef(Move(Single(code), f, x), r)
  <2>5. Written(lines, Single(code), f, x, r)
    BY DEF Written
  <2>6. q = Posting(src, lines)
    BY <2>3
  <2> HIDE DEF lines
  <2>8. row.amount <= 0
    BY <1>k, <2>1
  <2>9. src \in RowSource /\ src # "inter_account_transfer" /\ code \in BookCode
    BY <2>4
  <2>10. Postable(f) /\ f[1] \in CashCode
    BY <2>4
  <2>11. r \in ReferenceT
    OBVIOUS
  <2>7. RowPosting(row, q)
    BY ONLY <1>b, <1>e, <1>k, <2>5, <2>6, <2>8, <2>9, <2>10, <2>11, Spends
  <2> QED  BY <2>1, <2>7 DEF q
<1>15. CASE c \in {"customer_refund", "ebay_dispute_won"}
  <2>1. RefundStage(row) # NULL
    BY <1>3, <1>15 DEF q, Posted, ExpenseOf, PurchaseCategory
  <2> DEFINE w == StageWallet(RefundStage(row))
             s == Single("SALES_RETURNS_ALLOWANCES")
  <2>2. Postable(w) /\ w[1] \in CashCode
    <3>1. RefundStage(row) \in EbayAccount \cup WalletGroup
      BY <2>1, RowTyped DEF RefundStage
    <3>2. \/ \E e \in EbayAccount : w = EbayWallet(e)
          \/ \E g \in WalletGroup : w = <<"PAYONEER_WALLET", g>>
      BY <3>1 DEF StageWallet
    <3>3. CASE \E e \in EbayAccount : w = EbayWallet(e)
      <4>1. PICK e \in EbayAccount : w = EbayWallet(e)
        BY <3>3
      <4>2. Postable(EbayWallet(e)) /\ EbayWallet(e)[1] = "EBAY_WALLET"
        BY AccountsAre
      <4> HIDE DEF w
      <4> QED  BY <4>1, <4>2 DEF CashCode
    <3>4. CASE \E g \in WalletGroup : w = <<"PAYONEER_WALLET", g>>
      <4>1. PICK g \in WalletGroup : w = <<"PAYONEER_WALLET", g>>
        BY <3>4
      <4>2. Postable(<<"PAYONEER_WALLET", g>>) /\ <<"PAYONEER_WALLET", g>>[1] = "PAYONEER_WALLET"
        BY AccountsAre
      <4> HIDE DEF w
      <4> QED  BY <4>1, <4>2 DEF CashCode
    <3> QED  BY <3>2, <3>3, <3>4
  <2>3. "SALES_RETURNS_ALLOWANCES" \in BookCode /\ "SALES_RETURNS_ALLOWANCES" \notin ControlCode
        /\ "ebay_refund" \in RowSource
    BY <1>4 DEF RevenueCode, ControlCode
  <2>4. w[1] \notin ControlCode /\ s[1] \notin ControlCode
    BY <1>7, <1>8, <2>2, <2>3
  <2>5. c \notin Corrected
    BY <1>15 DEF Corrected
  <2>6. CASE c = "customer_refund"
    <3>1. q = Posting("ebay_refund", WithOrder(Move(s, w, x), NULL))
      BY <2>1, <2>6 DEF q, Posted, ExpenseOf, PurchaseCategory, Refund, x
    <3>2. row.amount < 0
      BY <1>5, <2>6 DEF Outflow
    <3> DEFINE lines == WithOrder(Move(s, w, x), NULL)
    <3>3. Written(lines, Single("SALES_RETURNS_ALLOWANCES"), w, x, NULL) /\ q = Posting("ebay_refund", lines)
      BY <2>4, <3>1 DEF Written
    <3> HIDE DEF lines, w, s
    <3>5. row.amount <= 0
      BY <1>k, <3>2
    <3>6. "ebay_refund" \in RowSource /\ "ebay_refund" # "inter_account_transfer"
      BY <1>d
    <3>7. "SALES_RETURNS_ALLOWANCES" \in BookCode
      BY <2>3
    <3>4. RowPosting(row, q)
      BY ONLY <1>b, <1>e, <1>f, <1>k, <2>2, <3>3, <3>5, <3>6, <3>7, Spends
    <3> QED  BY <2>5, <3>4 DEF q
  <2>7. CASE c = "ebay_dispute_won"
    <3>1. q = Posting("ebay_refund", WithOrder(Move(w, s, x), NULL))
      BY <2>1, <2>7 DEF q, Posted, ExpenseOf, PurchaseCategory, RefundReversal, x
    <3>2. row.amount > 0
      BY <1>6, <2>7 DEF Inflow
    <3> DEFINE lines == WithOrder(Move(w, s, x), NULL)
    <3>3. Written(lines, w, Single("SALES_RETURNS_ALLOWANCES"), x, NULL) /\ q = Posting("ebay_refund", lines)
      BY <2>4, <3>1 DEF Written
    <3> HIDE DEF lines, w, s
    <3>5. row.amount >= 0
      BY <1>k, <3>2
    <3>6. "ebay_refund" \in RowSource /\ "ebay_refund" # "inter_account_transfer"
      BY <1>d
    <3>7. "SALES_RETURNS_ALLOWANCES" \in BookCode
      BY <2>3
    <3>4. RowPosting(row, q)
      BY ONLY <1>b, <1>e, <1>f, <1>k, <2>2, <3>3, <3>5, <3>6, <3>7, Earns
    <3> QED  BY <2>5, <3>4 DEF q
  <2> QED  BY <1>15, <2>6, <2>7
<1>16. CASE c \in {"revenue_settlement", "internal_transfer"}
  <2>1. c \notin Corrected
    BY <1>16 DEF Corrected
  <2>2. \E to, f : Postable(to) /\ Postable(f) /\ to[1] \in CashCode /\ f[1] \in CashCode
                   /\ q = InterAccountTransfer(to, f, x)
    <3>1. CASE c = "revenue_settlement"
      <4>1. row.ebay # NULL /\ row.group # NULL
            /\ q = InterAccountTransfer(<<"PAYONEER_WALLET", row.group>>, EbayWallet(row.ebay), row.amount)
        BY <3>1, <1>3 DEF q, Posted, ExpenseOf, PurchaseCategory, Settlement
      <4>2. row.amount = x
        BY <1>1, <1>6, <3>1, MagnitudeIs DEF Inflow, x
      <4>3. row.ebay \in EbayAccount /\ row.group \in WalletGroup
        BY <4>1, RowTyped
      <4>4. Postable(<<"PAYONEER_WALLET", row.group>>) /\ Postable(EbayWallet(row.ebay))
            /\ <<"PAYONEER_WALLET", row.group>>[1] = "PAYONEER_WALLET" /\ EbayWallet(row.ebay)[1] = "EBAY_WALLET"
        BY <4>3, AccountsAre
      <4> QED  BY <4>1, <4>2, <4>4 DEF CashCode
    <3>2. CASE c = "internal_transfer"
      <4>1. row.peer # NULL /\ q = InterAccountTransfer(Main, <<"BCA_BRIDGING", row.peer>>, x)
        BY <3>2, <1>3 DEF q, Posted, ExpenseOf, PurchaseCategory, Sweep, x
      <4>2. row.peer \in WalletGroup
        BY <4>1, RowTyped
      <4>3. Postable(<<"BCA_BRIDGING", row.peer>>) /\ <<"BCA_BRIDGING", row.peer>>[1] = "BCA_BRIDGING"
        BY <4>2, AccountsAre
      <4> QED  BY <1>2, <4>1, <4>3 DEF CashCode
    <3> QED  BY <1>16, <3>1, <3>2
  <2>3. PICK to, f : Postable(to) /\ Postable(f) /\ to[1] \in CashCode /\ f[1] \in CashCode
                   /\ q = InterAccountTransfer(to, f, x)
    BY <2>2
  <2>4. RowPosting(row, q)
    BY ONLY <1>b, <1>e, <1>k, <2>3, Transfers
  <2> QED  BY <2>1, <2>4 DEF q
<1>17. CASE c \in {"cogs_refund", "shipping_cost_refund", "legacy_ebay_account_payout", "owners_contribution"}
  <2>1. \E code \in {"COGS", "SHIPPING_COST", "SALES_REVENUE", "OWNERS_CAPITAL"},
           src \in {"bank_other", "owner_contribution"} :
           q = Posting(src, Move(Main, Single(code), x))
    BY <1>17, <1>3 DEF q, Posted, ExpenseOf, PurchaseCategory, OnlyMain, CogsRefund, ShippingCostRefund,
                LegacyPayout, OwnerContribution, x
  <2>2. PICK code \in {"COGS", "SHIPPING_COST", "SALES_REVENUE", "OWNERS_CAPITAL"},
           src \in {"bank_other", "owner_contribution"} :
           q = Posting(src, Move(Main, Single(code), x))
    BY <2>1
  <2>3. code \in BookCode /\ code \notin ControlCode /\ src \in RowSource /\ src # "inter_account_transfer"
    BY <1>4 DEF RevenueCode, OpexCode, ControlCode
  <2>4. row.amount > 0
    BY <1>6, <1>17 DEF Inflow
  <2> DEFINE lines == Move(Main, Single(code), x)
  <2>5. Written(lines, Main, Single(code), x, NULL) /\ q = Posting(src, lines)
    BY <1>7, <1>9, <2>2, <2>3 DEF Written
  <2> HIDE DEF lines
  <2>6. row.amount >= 0
    BY <1>k, <2>4
  <2>7. src \in RowSource /\ src # "inter_account_transfer" /\ code \in BookCode
    BY <2>3
  <2>8. RowPosting(row, q) /\ q.lines[1].account = Main
    BY ONLY <1>b, <1>e, <1>f, <1>i, <1>j, <1>k, <2>5, <2>6, <2>7, Earns
  <2> QED  BY <1>2, <2>8 DEF q
<1>18. CASE c = "owners_draw"
  <2> DEFINE lines == Move(Single("OWNERS_DRAW"), Main, x)
  <2>1. q = Posting("owner_draw", lines)
    BY <1>18 DEF q, Posted, ExpenseOf, PurchaseCategory, OwnerDraw, x
  <2>2. "OWNERS_DRAW" \in BookCode /\ "OWNERS_DRAW" \notin ControlCode /\ "owner_draw" \in RowSource
    BY <1>4 DEF ControlCode
  <2>3. row.amount < 0 /\ c \notin Corrected
    BY <1>5, <1>18 DEF Outflow, Corrected
  <2>4. Written(lines, Single("OWNERS_DRAW"), Main, x, NULL)
    BY <1>7, <1>9, <2>2 DEF Written
  <2> HIDE DEF lines
  <2>6. row.amount \in Int
    BY <1>1
  <2>7. row.amount <= 0
    BY <2>6, <2>3
  <2>8. Postable(Main)
    BY <1>2
  <2>9. Main[1] \in CashCode
    BY <1>2
  <2>10. "owner_draw" \in RowSource /\ "owner_draw" # "inter_account_transfer" /\ "OWNERS_DRAW" \in BookCode
    BY <2>2
  <2>5. RowPosting(row, q)
    BY ONLY <1>b, <1>e, <1>f, <2>1, <2>4, <2>6, <2>7, <2>8, <2>9, <2>10, Spends
  <2> QED  BY <2>3, <2>5 DEF q
<1>20. \/ c \in PurchaseCategory \cup DOMAIN ExpenseOf
       \/ c \in {"operating_expense", "payroll", "other", "interest_income"}
       \/ c \in {"consignment_payout", "employee_loan_disbursement", "inventory_deposit"}
       \/ c \in {"customer_refund", "ebay_dispute_won"}
       \/ c \in {"revenue_settlement", "internal_transfer"}
       \/ c \in {"cogs_refund", "shipping_cost_refund", "legacy_ebay_account_payout", "owners_contribution"}
       \/ c = "owners_draw"
  BY DEF Category, Outflow, Inflow
<1>19. CASE c \in PurchaseCategory \cup DOMAIN ExpenseOf
  BY <1>19, <1>10, <1>11
<1>21. CASE c \in {"operating_expense", "payroll", "other", "interest_income"}
  BY <1>21, <1>11, <1>12, <1>13
<1> QED  BY <1>14, <1>15, <1>16, <1>17, <1>18, <1>19, <1>20, <1>21

-----------------------------------------------------------------------------
(* The other postings.                                                       *)

LEMMA SeqMonotone ==
  ASSUME NEW S, NEW T, NEW s \in Seq(S), \A x \in S : x \in T
  PROVE  s \in Seq(T)
<1>1. DOMAIN s = 1..Len(s) /\ Len(s) \in Nat /\ s = [k \in DOMAIN s |-> s[k]]
  OBVIOUS
<1>2. \A k \in 1..Len(s) : s[k] \in T
  BY <1>1
<1> QED  BY <1>1, <1>2, SeqOf

\* The accounts of a line that needs no reference.
Clean == {a \in Account : Postable(a) /\ a[1] \notin ControlCode}

LEMMA CleanAccounts ==
  /\ \A e \in EbayAccount : EbayWallet(e) \in Clean
  /\ \A w \in WalletGroup : <<"PAYONEER_WALLET", w>> \in Clean /\ <<"BCA_BRIDGING", w>> \in Clean
  /\ Single("SALES_REVENUE") \in Clean /\ Single("EBAY_SELLING_FEES") \in Clean
  /\ Single("CONSIGNMENT_COMMISSION_INCOME") \in Clean /\ Single("SHIPPING_COST") \in Clean
  /\ Single("PAYOUT_FEE") \in Clean /\ Single("REALIZED_FX") \in Clean
  /\ Single("SALES_RETURNS_ALLOWANCES") \in Clean /\ Single("GENERAL_OPEX") \in Clean
  /\ Single("OWNERS_CAPITAL") \in Clean /\ Single("COGS") \in Clean
<1> DEFINE plain == {"SALES_REVENUE", "EBAY_SELLING_FEES", "CONSIGNMENT_COMMISSION_INCOME",
                     "SHIPPING_COST", "PAYOUT_FEE", "REALIZED_FX", "SALES_RETURNS_ALLOWANCES",
                     "GENERAL_OPEX", "OWNERS_CAPITAL", "COGS"}
<1>1. ASSUME NEW code \in plain PROVE Single(code) \in Clean
  <2>1. code \in AccountCode
    BY DEF AccountCode, RevenueCode, OpexCode, EquityCode, OtherCode
  <2>2. code \notin {"EBAY_WALLET", "PAYONEER_WALLET", "BCA_BRIDGING", "RETAINED_EARNINGS", "UNREALIZED_FX"}
    OBVIOUS
  <2>3. code \notin ControlCode
    BY DEF ControlCode
  <2>4. Single(code) \in Account /\ Single(code)[1] = code /\ Postable(Single(code))
    BY <2>1, <2>2, AccountsAre
  <2> QED  BY <2>3, <2>4 DEF Clean
<1>2. {"EBAY_WALLET", "PAYONEER_WALLET", "BCA_BRIDGING"} \cap ControlCode = {}
  BY DEF ControlCode
<1>3. \A e \in EbayAccount : EbayWallet(e) \in Clean
  BY <1>2, AccountsAre DEF Clean, Postable
<1>4. \A w \in WalletGroup : <<"PAYONEER_WALLET", w>> \in Clean /\ <<"BCA_BRIDGING", w>> \in Clean
  <2>1. \A code, w : <<code, w>>[1] = code
    OBVIOUS
  <2> QED  BY <1>2, <2>1, AccountsAre DEF Clean, Postable
<1> QED  BY <1>1, <1>3, <1>4

CleanLine == Line(Clean, OrderT, ReferenceT)

LEMMA CleanLines ==
  /\ \A l \in CleanLine : l \in LineT
  /\ \A l \in Plain(Clean) : l \in CleanLine /\ l \in LineT
  /\ \A source : Plainly(source) => \A l \in CleanLine : LineOK(source, l)
<1>1. \A l \in CleanLine : l \in LineT
  BY DEF CleanLine, LineT, Line, Clean
<1>2. \A l \in Plain(Clean) : l \in CleanLine
  BY DEF CleanLine, Plain, Line, OrderT, ReferenceT
<1>3. ASSUME NEW source, Plainly(source), NEW l \in CleanLine PROVE LineOK(source, l)
  <2>1. l.account \in Clean /\ l.debit \in Int /\ l.credit \in Int
    BY DEF CleanLine, Line
  <2>2. l.account \in Account /\ l.account[1] \notin ControlCode
        /\ l.account[1] \notin {"RETAINED_EARNINGS", "UNREALIZED_FX"}
    BY <2>1 DEF Clean, Postable
  <2> QED  BY <1>3, <2>1, <2>2 DEF LineOK, Plainly
<1> QED  BY <1>1, <1>2, <1>3

\* Lines that need no reference are known, with an order or without.
LEMMA CleanSound ==
  ASSUME NEW source, Plainly(source), NEW s \in Seq(Plain(Clean)), Len(s) <= MaxLines, NEW o \in OrderT
  PROVE  Sound(Posting(source, s)) /\ Sound(Posting(source, WithOrder(s, o)))
<1>1. DOMAIN s = 1..Len(s) /\ Len(s) \in Nat /\ s = [k \in DOMAIN s |-> s[k]]
  OBVIOUS
<1>2. s \in Seq(CleanLine)
  BY CleanLines, SeqMonotone
<1> DEFINE t == WithOrder(s, o)
<1>3. DOMAIN t = 1..Len(s) /\ t = [k \in DOMAIN t |-> t[k]]
      /\ \A k \in 1..Len(s) : t[k] = [s[k] EXCEPT !.order = o]
  BY <1>1 DEF WithOrder
<1>4. \A k \in 1..Len(s) : t[k] \in CleanLine
  <2> HIDE DEF t
  <2>1. \A k \in 1..Len(s) : s[k] \in CleanLine
    BY <1>1, <1>2
  <2> QED  BY <1>3, <2>1 DEF CleanLine, Line
<1> HIDE DEF t
<1>5. t \in Seq(CleanLine) /\ Len(t) = Len(s)
  BY <1>1, <1>3, <1>4, SeqOf
<1>6. ASSUME NEW u \in Seq(CleanLine), Len(u) <= MaxLines PROVE Sound(Posting(source, u))
  <2>1. u \in Seq(LineT)
    BY CleanLines, SeqMonotone
  <2>2. \A k \in 1..Len(u) : LineOK(source, u[k])
    BY CleanLines
  <2>3. source \in SourceT
    BY DEF Plainly
  <2> QED  BY <1>6, <2>1, <2>2, <2>3, SoundIs
<1>7. Sound(Posting(source, s))
  BY <1>2, <1>6
<1>8. Sound(Posting(source, t))
  BY <1>5, <1>6
<1> QED  BY <1>7, <1>8 DEF t

LEMMA PlainSources ==
  /\ Plainly("ebay_sale") /\ Plainly("ebay_refund") /\ Plainly("bank_other")
  /\ Plainly("consignment_sale") /\ Plainly("inter_account_transfer")
  /\ Plainly("payoneer_withdrawal") /\ Plainly("opening_balance")
BY DEF Plainly, SourceT

\* One amount from an account to another.
LEMMA CleanMove ==
  ASSUME NEW source, Plainly(source), NEW to \in Clean, NEW from \in Clean, NEW x \in Int, NEW o \in OrderT
  PROVE  /\ Sound(Posting(source, Move(to, from, x)))
         /\ Sound(Posting(source, WithOrder(Move(to, from, x), o)))
<1>1. Debit(to, x) \in Plain(Clean) /\ Credit(from, x) \in Plain(Clean)
  BY Side
<1>2. Move(to, from, x) \in Seq(Plain(Clean)) /\ Len(Move(to, from, x)) = 2
  <2>1. <<Debit(to, x), Credit(from, x)>> \in Seq(Plain(Clean)) /\ Len(<<Debit(to, x), Credit(from, x)>>) = 2
    BY <1>1, TwoLines DEF Plain
  <2> QED  BY <2>1 DEF Move
<1>3. Len(Move(to, from, x)) <= MaxLines
  BY <1>2 DEF MaxLines
<1> QED  BY <1>2, <1>3, CleanSound

LEMMA MovesSound ==
  ASSUME NEW a \in EbayAccount, NEW w \in WalletGroup, NEW x \in Int, NEW o \in OrderT
  PROVE  /\ Sound(Refund(a, x, o)) /\ Sound(RefundFeeCredit(a, x, o))
         /\ Sound(EbayWalletExpense(a, "GENERAL_OPEX", x, o))
         /\ Sound(InterAccountTransfer(<<"PAYONEER_WALLET", w>>, EbayWallet(a), x))
<1>1. StageWallet(a) = EbayWallet(a)
  BY DEF StageWallet
<1> QED  BY <1>1, PlainSources, CleanAccounts, CleanMove
         DEF Refund, RefundFeeCredit, EbayWalletExpense, InterAccountTransfer

LEMMA FewMore ==
  ASSUME NEW m \in Nat, NEW n \in 0..1, m <= 2
  PROVE  m + n <= MaxLines
BY DEF MaxLines

LEMMA OneMore ==
  ASSUME NEW n \in 0..1
  PROVE  2 + n <= MaxLines /\ 3 + n <= MaxLines
BY DEF MaxLines

LEMMA SaleSound ==
  ASSUME NEW a \in EbayAccount, NEW gross \in Int, NEW fee \in Int, NEW rate \in Int, NEW o \in OrderT
  PROVE  Sound(EbaySale(a, gross, fee, rate, o)) /\ EbaySale(a, gross, fee, rate, o).source = "ebay_sale"
<1> DEFINE g == Idr(gross, rate)
           f == Idr(fee, rate)
           d == Debit(EbayWallet(a), g - f)
           c == Credit(Single("SALES_REVENUE"), g)
           e == Optional(f > 0, Debit(Single("EBAY_SELLING_FEES"), f))
           s == <<d, c>> \o e
<1>1. g \in Int /\ f \in Int /\ g - f \in Int
  BY IdrIsInt
<1> HIDE DEF g, f
<1>2. d \in Plain(Clean) /\ c \in Plain(Clean)
  BY <1>1, CleanAccounts, Side
<1>3. e \in Seq(Plain(Clean)) /\ Len(e) \in 0..1
  BY <1>1, CleanAccounts, OptionalSide
<1> HIDE DEF d, c, e
<1>4. <<d, c>> \in Seq(Plain(Clean)) /\ Len(<<d, c>>) = 2
  BY <1>2, TwoLines DEF Plain
<1>5. Len(<<d, c>>) + Len(e) <= MaxLines
  <2>1. 2 + Len(e) <= MaxLines
    BY <1>3, OneMore
  <2> QED  BY <1>4, <2>1
<1>6. s \in Seq(Plain(Clean)) /\ Len(s) = Len(<<d, c>>) + Len(e)
  BY <1>3, <1>4, <1>5, PlainConcat
<1>7. EbaySale(a, gross, fee, rate, o) = Posting("ebay_sale", WithOrder(s, o))
  BY DEF EbaySale, s, d, c, e, g, f
<1> HIDE DEF s
<1>8. Sound(Posting("ebay_sale", WithOrder(s, o)))
  BY <1>5, <1>6, PlainSources, CleanSound
<1> QED  BY <1>7, <1>8 DEF Posting

LEMMA WithdrawalSound ==
  ASSUME NEW w \in WalletGroup, NEW gross \in Int, NEW fee \in Int, NEW rate \in Int, NEW booked \in Int
  PROVE  Sound(RealizedFxWithdrawal(w, gross, fee, rate, booked))
<1> DEFINE j == Debit(<<"BCA_BRIDGING", w>>, Idr(gross - fee, rate))
           k == Debit(Single("PAYOUT_FEE"), Idr(fee, rate))
           l == Credit(<<"PAYONEER_WALLET", w>>, Idr(gross, booked))
           e == Exchange("REALIZED_FX", Spread(gross, fee, rate, booked))
           s == <<j, k, l>> \o e
<1>1. /\ Idr(gross - fee, rate) \in Int /\ Idr(fee, rate) \in Int /\ Idr(gross, booked) \in Int
      /\ Spread(gross, fee, rate, booked) \in Int
  <2>1. gross - fee \in Int
    OBVIOUS
  <2>2. Idr(gross - fee, rate) \in Int /\ Idr(fee, rate) \in Int /\ Idr(gross, booked) \in Int
    BY <2>1, IdrIsInt
  <2> QED  BY <2>2 DEF Spread
<1>2. j \in Plain(Clean) /\ k \in Plain(Clean) /\ l \in Plain(Clean)
  BY <1>1, CleanAccounts, Side
<1>3. e \in Seq(Plain(Clean)) /\ Len(e) \in 0..1
  BY <1>1, CleanAccounts, ExchangeLine
<1> HIDE DEF j, k, l, e
<1>4. <<j, k, l>> \in Seq(Plain(Clean)) /\ Len(<<j, k, l>>) = 3
  BY <1>2, ThreeLines DEF Plain
<1>5. Len(<<j, k, l>>) + Len(e) <= MaxLines
  <2>1. 3 + Len(e) <= MaxLines
    BY <1>3, OneMore
  <2> QED  BY <1>4, <2>1
<1>6. s \in Seq(Plain(Clean)) /\ Len(s) = Len(<<j, k, l>>) + Len(e)
  BY <1>3, <1>4, <1>5, PlainConcat
<1>7. RealizedFxWithdrawal(w, gross, fee, rate, booked) = Posting("payoneer_withdrawal", s)
  BY DEF RealizedFxWithdrawal, s, j, k, l, e
<1> HIDE DEF s
<1>8. NULL \in OrderT
  BY DEF OrderT
<1> QED  BY <1>5, <1>6, <1>7, <1>8, PlainSources, CleanSound

\* A revaluation has lines on the wallet and on its own account only.
LEMMA RevaluationSound ==
  ASSUME NEW w \in WalletGroup, NEW usd \in Int, NEW book \in Int, NEW rate \in Int
  PROVE  Sound(UnrealizedFxRevaluation(w, usd, book, rate))
<1> DEFINE wallet == <<"PAYONEER_WALLET", w>>
           A == {wallet, Single("UNREALIZED_FX")}
           x == Idr(usd, rate) - book
           y == -x
           p == Optional(x > 0, Debit(wallet, x))
           t == Exchange("UNREALIZED_FX", x)
           q == Optional(x < 0, Credit(wallet, -x))
           z == Optional(y > 0, Credit(wallet, y))
           s == (p \o t) \o q
<1>1. x \in Int /\ y \in Int /\ (x < 0) = (y > 0)
  <2>1. Idr(usd, rate) \in Int
    BY IdrIsInt
  <2> QED  BY <2>1
<1>2. wallet \in A /\ Single("UNREALIZED_FX") \in A
  OBVIOUS
<1>3. q = z
  BY <1>1
<1>9. \A a \in A : a \in Account /\ a[1] \in {"PAYONEER_WALLET", "UNREALIZED_FX"}
  <2>1. "UNREALIZED_FX" \in AccountCode \ {"EBAY_WALLET", "PAYONEER_WALLET", "BCA_BRIDGING"}
    BY DEF AccountCode, OtherCode
  <2>2. Single("UNREALIZED_FX") \in Account /\ Single("UNREALIZED_FX")[1] = "UNREALIZED_FX"
    BY <2>1, AccountsAre
  <2>3. wallet \in Account /\ wallet[1] = "PAYONEER_WALLET"
    BY AccountsAre DEF Postable
  <2> QED  BY <2>2, <2>3
<1> HIDE DEF x, y, A, wallet
<1>4. p \in Seq(Plain(A)) /\ Len(p) \in 0..1
  BY <1>1, <1>2, OptionalSide
<1>5. t \in Seq(Plain(A)) /\ Len(t) \in 0..1
  BY <1>1, <1>2, ExchangeLine
<1>6. z \in Seq(Plain(A)) /\ Len(z) \in 0..1
  BY <1>1, <1>2, OptionalSide
<1>7. UnrealizedFxRevaluation(w, usd, book, rate) = Posting("fx_revaluation", (p \o t) \o z)
  BY <1>3 DEF UnrealizedFxRevaluation, p, t, q, x, wallet
<1> HIDE DEF p, t, q, z
<1>8. p \o t \in Seq(Plain(A)) /\ Len(p \o t) = Len(p) + Len(t)
  <2>1. Len(p) + Len(t) <= MaxLines
    BY <1>4, <1>5, FewLines
  <2> QED  BY <1>4, <1>5, <2>1, PlainConcat
<1>10. (p \o t) \o z \in Seq(Plain(A)) /\ Len((p \o t) \o z) = Len(p \o t) + Len(z)
       /\ Len((p \o t) \o z) <= MaxLines
  <2>1. Len(p) + Len(t) \in Nat /\ Len(p) + Len(t) <= 2
    BY <1>4, <1>5, FewLines
  <2>2. (Len(p) + Len(t)) + Len(z) <= MaxLines
    BY <1>6, <2>1, FewMore
  <2>3. Len(p \o t) + Len(z) <= MaxLines
    BY <1>8, <2>2
  <2> QED  BY <1>6, <1>8, <2>3, PlainConcat
<1> DEFINE u == (p \o t) \o z
<1> HIDE DEF u
<1>11. ASSUME NEW l \in Plain(A) PROVE l \in LineT /\ LineOK("fx_revaluation", l)
  <2>1. l.account \in A /\ l.debit \in Int /\ l.credit \in Int
    BY DEF Plain, Line
  <2>2. l \in LineT
    BY <1>9 DEF Plain, Line, LineT, OrderT, ReferenceT
  <2>3. l.account \in Account /\ l.account[1] \in {"PAYONEER_WALLET", "UNREALIZED_FX"}
    BY <1>9, <2>1
  <2> QED  BY <2>1, <2>2, <2>3 DEF LineOK, ControlCode
<1>12. u \in Seq(Plain(A)) /\ Len(u) <= MaxLines
  BY <1>10 DEF u
<1>13. u \in Seq(LineT)
  BY <1>11, <1>12, SeqMonotone
<1>14. \A k \in 1..Len(u) : LineOK("fx_revaluation", u[k])
  BY <1>11, <1>12
<1>15. Sound(Posting("fx_revaluation", u))
  <2>1. "fx_revaluation" \in SourceT
    BY DEF SourceT
  <2> QED  BY <1>12, <1>13, <1>14, <2>1, SoundIs
<1> QED  BY <1>7, <1>15 DEF u

\* The lines of a consignment sale: the payable is the third, and the only one
\* a consignor is owed by.
Consigns(lines, payout, r) ==
  /\ 3 \in 1..Len(lines)
  /\ lines[3].account = Single("CONSIGNOR_PAYABLE") /\ lines[3].debit = 0
  /\ lines[3].credit = payout /\ lines[3].ref = r
  /\ \A k \in 1..Len(lines) : k # 3 => lines[k].account # Single("CONSIGNOR_PAYABLE")

LEMMA RestOfCredits ==
  ASSUME NEW model, NEW gross \in Int, NEW fee \in Int, NEW rate \in Int, NEW payout \in Int
  PROVE  \E rest \in Seq(Plain(Clean)) :
            /\ Len(rest) \in 0..2
            /\ ConsignmentCredits(model, gross, fee, rate, payout) =
                 <<Credit(Single("CONSIGNOR_PAYABLE"), payout)>> \o rest
<1> DEFINE g == Idr(gross, rate)
           f == Idr(fee, rate)
<1>1. g \in Int /\ f \in Int
  BY IdrIsInt
<1>2. CASE model = "tier"
  <2> DEFINE k == Credit(Single("CONSIGNMENT_COMMISSION_INCOME"), Commission(gross, rate, payout))
  <2>1. Commission(gross, rate, payout) \in Int
    BY <1>1 DEF Commission
  <2>2. k \in Plain(Clean)
    BY <2>1, CleanAccounts, Side
  <2>3. ConsignmentCredits(model, gross, fee, rate, payout) = <<Credit(Single("CONSIGNOR_PAYABLE"), payout)>> \o <<k>>
    BY <1>2 DEF ConsignmentCredits
  <2> HIDE DEF k
  <2>4. <<k>> \in Seq(Plain(Clean)) /\ Len(<<k>>) \in 0..2
    BY <2>2
  <2> QED  BY <2>3, <2>4
<1>3. CASE model # "tier"
  <2> DEFINE x == Recovered(gross, fee, rate, payout)
             u == Optional(f > 0, Credit(Single("EBAY_SELLING_FEES"), f))
             v == Optional(x > 0, Credit(Single("SHIPPING_COST"), x))
  <2>1. x \in Int
    BY <1>1 DEF Recovered
  <2>2. ConsignmentCredits(model, gross, fee, rate, payout) = <<Credit(Single("CONSIGNOR_PAYABLE"), payout)>> \o (u \o v)
    BY <1>3 DEF ConsignmentCredits
  <2> HIDE DEF x, f
  <2>3. u \in Seq(Plain(Clean)) /\ Len(u) \in 0..1
    BY <1>1, CleanAccounts, OptionalSide
  <2>4. v \in Seq(Plain(Clean)) /\ Len(v) \in 0..1
    BY <2>1, CleanAccounts, OptionalSide
  <2> HIDE DEF u, v
  <2>5. Len(u) + Len(v) \in Nat /\ Len(u) + Len(v) <= 2 /\ Len(u) + Len(v) <= MaxLines
    BY <2>3, <2>4, FewLines
  <2>6. u \o v \in Seq(Plain(Clean)) /\ Len(u \o v) = Len(u) + Len(v)
    BY <2>3, <2>4, <2>5, PlainConcat
  <2>7. Len(u \o v) \in 0..2
    BY <2>5, <2>6
  <2> QED  BY <2>2, <2>6, <2>7
<1> QED  BY <1>2, <1>3

LEMMA ThreeMore ==
  ASSUME NEW n \in 0..2
  PROVE  1 + n \in Nat /\ 1 + n <= MaxLines /\ 2 + (1 + n) <= MaxLines /\ 2 + (1 + n) = 3 + n
         /\ 3 \in 1..(3 + n) /\ \A k \in 1..(3 + n) : k = 1 \/ k = 2 \/ k = 3 \/ (k > 3 /\ k - 3 \in 1..n)
BY DEF MaxLines

LEMMA ConsignmentShape ==
  ASSUME NEW model, NEW a \in EbayAccount, NEW gross \in Int, NEW fee \in Int, NEW rate \in Int,
         NEW payout \in Int, NEW o \in OrderT, NEW r \in Reference
  PROVE  LET q == ConsignmentSale(model, a, gross, fee, rate, payout, o, r)
         IN  Sound(q) /\ q.source = "consignment_sale" /\ Consigns(q.lines, payout, r)
<1> DEFINE payable == Single("CONSIGNOR_PAYABLE")
           j == Debit(EbayWallet(a), Idr(gross, rate) - Idr(fee, rate))
           k == Debit(Single("EBAY_SELLING_FEES"), Idr(fee, rate))
           l == Credit(payable, payout)
           s == <<j, k>>
<1>1. PICK rest \in Seq(Plain(Clean)) :
        /\ Len(rest) \in 0..2
        /\ ConsignmentCredits(model, gross, fee, rate, payout) = <<l>> \o rest
  BY RestOfCredits
<1>2. payable \in Account /\ payable[1] = "CONSIGNOR_PAYABLE" /\ Postable(payable) /\ payable \notin Clean
  <2>1. "CONSIGNOR_PAYABLE" \in AccountCode
    BY DEF AccountCode, LiabilityCode
  <2>2. payable \in Account /\ payable[1] = "CONSIGNOR_PAYABLE" /\ Postable(payable)
    BY <2>1, AccountsAre
  <2> QED  BY <2>2 DEF Clean, ControlCode
<1>3. j \in Plain(Clean) /\ k \in Plain(Clean)
  <2>1. Idr(gross, rate) \in Int /\ Idr(fee, rate) \in Int
    BY IdrIsInt
  <2>2. Idr(gross, rate) - Idr(fee, rate) \in Int
    BY <2>1
  <2> QED  BY <2>1, <2>2, CleanAccounts, Side
<1>4. l \in Plain(Account) /\ l.account = payable /\ l.debit = 0 /\ l.credit = payout
  BY <1>2, Side DEF Credit
<1>5. \A m \in Plain(Clean) : m \in Plain(Account)
  BY DEF Plain, Line, Clean
<1> DEFINE t == <<l>> \o rest
           u == s \o t
<1> HIDE DEF j, k, l, payable
<1>6. s \in Seq(Plain(Account)) /\ Len(s) = 2 /\ s[1] = j /\ s[2] = k
  BY <1>3, <1>5
<1>7. rest \in Seq(Plain(Account))
  BY <1>5, SeqMonotone
<1>8. <<l>> \in Seq(Plain(Account)) /\ Len(<<l>>) = 1 /\ <<l>>[1] = l
  BY <1>4
<1> HIDE DEF s
<1>9. /\ t \in Seq(Plain(Account)) /\ Len(t) = 1 + Len(rest)
      /\ \A i \in 1..(1 + Len(rest)) : t[i] = IF i <= 1 THEN <<l>>[i] ELSE rest[i - 1]
  BY <1>7, <1>8, ConcatProperties
<1> DEFINE n == Len(rest)
<1>10. n \in 0..2 /\ n \in Nat
  BY <1>1
<1> HIDE DEF t
<1>11. /\ u \in Seq(Plain(Account)) /\ Len(u) = 2 + Len(t)
       /\ \A i \in 1..(2 + Len(t)) : u[i] = IF i <= 2 THEN s[i] ELSE t[i - 2]
  <2>1. s \in Seq(Plain(Account)) /\ t \in Seq(Plain(Account))
    BY <1>6, <1>9
  <2>2. /\ s \o t \in Seq(Plain(Account)) /\ Len(s \o t) = Len(s) + Len(t)
        /\ \A i \in 1..(Len(s) + Len(t)) : (s \o t)[i] = IF i <= Len(s) THEN s[i] ELSE t[i - Len(s)]
    BY <2>1, ConcatProperties
  <2> QED  BY <1>6, <2>2
<1> HIDE DEF u, n
<1>12. Len(t) = 1 + n
  BY <1>9 DEF n
<1>13. Len(u) = 3 + n /\ Len(u) <= MaxLines /\ 3 \in 1..Len(u) /\ Len(u) \in Nat
  BY <1>10, <1>11, <1>12, ThreeMore
<1>14. \A i \in 1..Len(u) : i = 1 \/ i = 2 \/ i = 3 \/ (i > 3 /\ i - 3 \in 1..n)
  BY <1>10, <1>13, ThreeMore
<1>15. u[3] = l
  <2>1. u[3] = t[1]
    BY <1>10, <1>11, <1>12
  <2>2. t[1] = <<l>>[1]
    BY <1>9, <1>10 DEF n
  <2> QED  BY <1>8, <2>1, <2>2
<1>16. ASSUME NEW i \in 1..Len(u), i # 3 PROVE u[i] \in Plain(Clean)
  <2>1. CASE i = 1 \/ i = 2
    <3>1. u[i] = s[i]
      BY <1>11, <1>13, <2>1
    <3> QED  BY <1>3, <1>6, <2>1, <3>1
  <2>2. CASE i > 3 /\ i - 3 \in 1..n
    <3>1. u[i] = t[i - 2]
      BY <1>11, <2>2
    <3>2. i - 2 \in 1..(1 + n) /\ i - 2 > 1 /\ (i - 2) - 1 = i - 3
      BY <1>10, <2>2
    <3>3. t[i - 2] = rest[(i - 2) - 1]
      BY <1>9, <3>2 DEF n
    <3>4. rest[i - 3] \in Plain(Clean)
      BY <1>1, <2>2 DEF n
    <3> QED  BY <3>1, <3>2, <3>3, <3>4
  <2> QED  BY <1>14, <1>16, <2>1, <2>2
<1>17. \A i \in 1..Len(u) : u[i] \in Plain(Account)
  BY <1>11
<1> DEFINE v == WithOrder(u, o)
           w == WithRef(v, r)
<1>18. /\ DOMAIN v = 1..Len(u) /\ DOMAIN w = 1..Len(u)
       /\ \A i \in 1..Len(u) : v[i] = [u[i] EXCEPT !.order = o] /\ w[i] = [v[i] EXCEPT !.ref = r]
       /\ w = [i \in DOMAIN w |-> w[i]]
  BY <1>11 DEF WithOrder, WithRef
<1> HIDE DEF v, w
<1>19. \A i \in 1..Len(u) : /\ w[i] \in LineT /\ w[i].account = u[i].account /\ w[i].debit = u[i].debit
                            /\ w[i].credit = u[i].credit /\ w[i].ref = r
  <2>1. r \in ReferenceT /\ NULL \in ReferenceT
    BY DEF ReferenceT
  <2>2. \A i \in 1..Len(u) : /\ v[i] \in LineT /\ v[i].account = u[i].account
                             /\ v[i].debit = u[i].debit /\ v[i].credit = u[i].credit
    <3>1. ASSUME NEW i \in 1..Len(u)
          PROVE  /\ v[i] \in LineT /\ v[i].account = u[i].account
                 /\ v[i].debit = u[i].debit /\ v[i].credit = u[i].credit
      <4>1. u[i] \in Line(Account, {NULL}, {NULL})
        BY <1>17 DEF Plain
      <4>2. v[i] = [u[i] EXCEPT !.order = o]
        BY <1>18
      <4> QED  BY <2>1, <4>1, <4>2 DEF Line, LineT
    <3> QED  BY <3>1
  <2>3. \A i \in 1..Len(u) : /\ w[i] \in LineT /\ w[i].account = v[i].account
                             /\ w[i].debit = v[i].debit /\ w[i].credit = v[i].credit /\ w[i].ref = r
    BY <1>18, <2>1, <2>2 DEF Line, LineT
  <2> QED  BY <2>2, <2>3
<1>20. w \in Seq(LineT) /\ Len(w) = Len(u)
  BY <1>13, <1>18, <1>19, SeqOf
<1>21. \A i \in 1..Len(u) : i # 3 => w[i].account \in Clean
  BY <1>16, <1>19 DEF Plain, Line
<1>22. Consigns(w, payout, r)
  BY <1>2, <1>4, <1>13, <1>15, <1>19, <1>20, <1>21 DEF Consigns, payable
<1>23. ASSUME NEW i \in 1..Len(w) PROVE LineOK("consignment_sale", w[i])
  <2>1. r # NULL
    BY LedgerAssumption
  <2>2. Postable(w[i].account)
    <3>1. CASE i = 3
      BY <1>2, <1>4, <1>13, <1>15, <1>19, <3>1
    <3>2. CASE i # 3
      BY <1>20, <1>21, <3>2 DEF Clean
    <3> QED  BY <3>1, <3>2
  <2>3. Shows(w[i], w[i].account, w[i].debit, w[i].credit, r)
    BY <1>19, <1>20 DEF Shows
  <2> QED  BY <2>1, <2>2, <2>3, PlainSources, LineIsOK
<1>24. "consignment_sale" \in SourceT
  BY DEF SourceT
<1>25. Sound(Posting("consignment_sale", w)) /\ Posting("consignment_sale", w).source = "consignment_sale"
       /\ Posting("consignment_sale", w).lines = w
  BY <1>13, <1>20, <1>23, <1>24, SoundIs
<1>26. ConsignmentSale(model, a, gross, fee, rate, payout, o, r) = Posting("consignment_sale", w)
  BY <1>1 DEF ConsignmentSale, w, v, u, t, s, j, k, l, payable
<1> QED  BY <1>22, <1>25, <1>26

LEMMA OpeningSound ==
  ASSUME NEW a \in CashAccount, NEW x \in Int
  PROVE  /\ Sound(OpeningBalance(a, x)) /\ OpeningBalance(a, x).source = "opening_balance"
         /\ OpeningBalance(a, x).lines[1].account = a
<1>1. a \in Clean
  BY DEF CashAccount, CashCode, Clean, Postable, ControlCode
<1>2. NULL \in OrderT
  BY DEF OrderT
<1>3. Sound(Posting("opening_balance", Move(a, Single("OWNERS_CAPITAL"), x)))
  BY <1>1, <1>2, CleanAccounts, CleanMove, PlainSources
<1>4. Move(a, Single("OWNERS_CAPITAL"), x)[1] = Debit(a, x) /\ Debit(a, x).account = a
  BY DEF Move, Debit
<1> QED  BY <1>3, <1>4 DEF OpeningBalance, Posting

LEMMA ReceivedSound ==
  ASSUME NEW x \in Int, NEW r \in Reference
  PROVE  /\ Sound(InventoryDepositReceived(x, r))
         /\ InventoryDepositReceived(x, r).source = "inventory_deposit_received"
<1> DEFINE to == Single("COGS")
           from == Single("INVENTORY_DEPOSITS")
           lines == WithRef(Move(to, from, x), r)
<1>1. to \in Account /\ from \in Account /\ to[1] = "COGS" /\ from[1] = "INVENTORY_DEPOSITS"
  <2>1. "COGS" \in BookCode /\ "INVENTORY_DEPOSITS" \in BookCode
    BY DEF BookCode, AccountCode, AssetCode, CashCode
  <2> QED  BY <2>1, BookAccount
<1>2. r \in ReferenceT /\ NULL \in OrderT /\ r # NULL
  BY LedgerAssumption DEF ReferenceT, OrderT
<1> HIDE DEF to, from
<1>3. IsMove(lines, to, from, x, r)
  BY <1>1, <1>2, MoveIs
<1>4. InventoryDepositReceived(x, r) = Posting("inventory_deposit_received", lines)
  BY DEF InventoryDepositReceived, to, from
<1> HIDE DEF lines
<1>5. lines \in Seq(LineT) /\ Len(lines) = 2 /\ Shows(lines[1], to, x, 0, r) /\ Shows(lines[2], from, 0, x, r)
  BY <1>3 DEF IsMove
<1>6. \A l, a, v, y : Shows(l, a, v, y, r) /\ a \in {to, from} => LineOK("inventory_deposit_received", l)
  BY <1>1, <1>2 DEF Shows, LineOK, ControlCode, LineT, Line
<1>7. \A k \in 1..Len(lines) : LineOK("inventory_deposit_received", lines[k])
  <2>1. Len(lines) = 2 /\ \A k \in 1..2 : k = 1 \/ k = 2
    BY <1>5
  <2>2. LineOK("inventory_deposit_received", lines[1]) /\ LineOK("inventory_deposit_received", lines[2])
    BY <1>5, <1>6
  <2> QED  BY <2>1, <2>2
<1>8. "inventory_deposit_received" \in SourceT /\ Len(lines) <= MaxLines
  BY <1>5 DEF SourceT, MaxLines
<1>9. /\ Sound(Posting("inventory_deposit_received", lines))
      /\ Posting("inventory_deposit_received", lines).source = "inventory_deposit_received"
  BY <1>5, <1>7, <1>8, SoundIs
<1> QED  BY <1>4, <1>9

\* A bank line booked as a purchase takes its amount from the account, whatever
\* its sign.
LEMMA PurchaseIs ==
  ASSUME NEW row \in BankRow, row.part = 0
  PROVE  LET q == Purchase(row, "cogs_purchase")
         IN  /\ Sound(q) /\ q.source \in RowSource /\ q.source # "inter_account_transfer"
             /\ q.lines[1].account = Single("COGS") /\ CashIn(q.lines) = -Magnitude(row)
             /\ q.lines = Move(Single("COGS"), PayingAccount(row), Magnitude(row))
<1> DEFINE from == PayingAccount(row)
           m == Magnitude(row)
           to == Single("COGS")
           lines == Move(to, from, m)
<1>1. m \in Int /\ from \in Account /\ Postable(from) /\ from[1] \in CashCode /\ from[1] \notin ControlCode
  BY RowTyped, MagnitudeIs, PayingIs
<1>2. to \in Account /\ Postable(to) /\ to[1] = "COGS" /\ to[1] \notin CashCode /\ to[1] \notin ControlCode
  <2>1. "COGS" \in BookCode
    BY DEF BookCode, AccountCode, CashCode
  <2> QED  BY <2>1, BookAccount DEF ControlCode
<1>3. \/ Purchase(row, "cogs_purchase") = Posting("cogs_purchase", lines)
      \/ Purchase(row, "cogs_purchase") = Posting("bank_other", lines)
  BY DEF Purchase, CogsPurchase, OperatingExpense
<1> HIDE DEF from, m, to
<1>4. NULL \in OrderT /\ NULL \in ReferenceT
  BY DEF OrderT, ReferenceT
<1>5. IsMove(lines, to, from, m, NULL)
  BY <1>1, <1>2, <1>4, MoveIs
<1> HIDE DEF lines
<1>6. "cogs_purchase" \in RowSource /\ "bank_other" \in RowSource
  BY DEF RowSource
<1>7. ASSUME NEW source \in RowSource
      PROVE  Sound(Posting(source, lines)) /\ CashIn(lines) = -m
             /\ Posting(source, lines).source = source /\ Posting(source, lines).lines = lines
  <2>1. Plainly(source)
    BY SourcesPlain
  <2>2. Sound(Posting(source, lines)) /\ CashIn(lines) = Cash(to, m) - Cash(from, m)
    BY <1>1, <1>2, <1>5, <2>1, MoveSound
  <2>3. Cash(to, m) = 0 /\ Cash(from, m) = m
    BY <1>1, <1>2 DEF Cash
  <2>4. 0 - m = -m
    BY <1>1
  <2> QED  BY <2>2, <2>3, <2>4 DEF Posting
<1>8. lines[1].account = to
  BY <1>5 DEF IsMove, Shows
<1> QED  BY <1>3, <1>6, <1>7, <1>8 DEF lines, to, from, m

-----------------------------------------------------------------------------
(* The inductive invariant.                                                  *)

EntryT == [source : SourceT, lines : Seq(LineT), period : Period, row : BankRow \cup {NULL},
           reversedBy : Nat, group : WalletGroup \cup {NULL}]

SaleT == [status : {"absent", "created", "confirmed"}, terms : Terms \cup {NULL}, entry : Nat,
          reimbursed : Nat]

LType ==
  /\ journal \in Seq(EntryT) /\ Len(journal) <= MaxEntries + 2
  /\ sales \in [Sale -> SaleT]
  /\ \A s \in Sale : /\ sales[s].status # "absent" => sales[s].terms \in Terms
                     /\ sales[s].entry <= Len(journal) /\ sales[s].reimbursed <= Len(journal)
  /\ openings \in [OpenAccount -> Nat] /\ \A a \in OpenAccount : openings[a] <= Len(journal)
  /\ converting \in [Request -> [ref : Reference, amount : Int, period : Period] \cup {NULL}]

LSound == \A i \in DOMAIN journal : EntryOK(journal[i])

\* Entry j reverses entry i: it is its mirror, and is not reversed itself.
Mirrors(j, i) ==
  /\ j \in DOMAIN journal /\ j # i /\ journal[j].lines = Reversal(journal[i]).lines
  /\ journal[j].period = journal[i].period /\ journal[j].source = journal[i].source
  /\ journal[j].row = journal[i].row /\ journal[j].reversedBy = 0

LReversed ==
  \A i \in DOMAIN journal : journal[i].reversedBy # 0 =>
     \E j \in DOMAIN journal :
        Mirrors(j, i) /\ \A k \in DOMAIN journal : journal[k].reversedBy = j <=> k = i

\* An entry in force: neither reversed nor a reversal.
Live(i) == /\ i \in DOMAIN journal /\ journal[i].reversedBy = 0
           /\ \A k \in DOMAIN journal : journal[k].reversedBy # i

\* What an entry in force moves for its row.
MovesFor(e) ==
  IF e.source = "inter_account_transfer" THEN CashIn(e.lines) = 0 /\ ~Flipped(e)
  ELSE IF Flipped(e) THEN CashIn(e.lines) = -e.row.amount ELSE CashIn(e.lines) = e.row.amount

LCash ==
  \A i \in DOMAIN journal : journal[i].row # NULL =>
     /\ journal[i].source \in RowSource /\ journal[i].row.amount # 0
     /\ Live(i) => MovesFor(journal[i])

OfRow(row) == {k \in DOMAIN journal : journal[k].row = row}

\* The entries of a row: one in force; or one that was corrected, its reversal
\* and the entry in its stead.
Corrects(k, j, row) ==
  /\ k \in DOMAIN journal /\ j = journal[k].reversedBy /\ j # 0
  /\ OfRow(row) = {k, j, j + 1} /\ Live(j + 1) /\ row.part = 0
  /\ journal[k].lines = AsPurchase(row).lines /\ journal[j + 1].lines # AsPurchase(row).lines

LEntries ==
  \A row \in BankRow : OfRow(row) # {} =>
     \/ \E k \in DOMAIN journal : Live(k) /\ OfRow(row) = {k}
     \/ \E k, j \in DOMAIN journal : Corrects(k, j, row)

\* The entry in force that opens an account is the one its row names.
Opens(i, a) == Live(i) /\ journal[i].source = "opening_balance" /\ journal[i].lines[1].account = a

LOpen == \A a \in OpenAccount, i \in DOMAIN journal : openings[a] = i <=> Opens(i, a)

LSales ==
  /\ \A s \in Sale : sales[s].entry # 0 =>
        /\ sales[s].status = "confirmed" /\ journal[sales[s].entry].source = "consignment_sale"
        /\ Consigns(journal[sales[s].entry].lines, sales[s].terms.payout, sales[s].terms.ref)
  /\ \A i \in DOMAIN journal : journal[i].source = "consignment_sale" =>
        \E s \in Sale : sales[s].entry = i
  /\ \A s, t \in Sale : sales[s].entry # 0 /\ sales[s].entry = sales[t].entry => s = t

LInv == LType /\ LSound /\ LReversed /\ LCash /\ LEntries /\ LOpen /\ LSales

-----------------------------------------------------------------------------
(* The steps of the journal.                                                 *)

NewEntry(e) == e \in EntryT /\ EntryOK(e) /\ e.reversedBy = 0

LEMMA SmallLen ==
  ASSUME NEW S, NEW s \in Seq(S), Len(s) <= MaxLines
  PROVE  DOMAIN s = 1..Len(s) /\ Len(s) \in 0..MaxLines /\ Len(s) \in Nat
<1>1. DOMAIN s = 1..Len(s) /\ Len(s) \in Nat
  BY LenProperties
<1>2. \A n \in Nat : n <= MaxLines => n \in 0..MaxLines
  BY DEF MaxLines
<1> QED  BY <1>1, <1>2

\* A sound posting that is accepted makes an entry.
LEMMA EntryIsNew ==
  ASSUME NEW q, Sound(q), Insertable(q), NEW p \in Period, NEW row \in BankRow \cup {NULL},
         NEW w \in WalletGroup \cup {NULL}
  PROVE  LET e == Entry(q, p, row, w)
         IN  /\ NewEntry(e) /\ e.source = q.source /\ e.lines = q.lines /\ e.period = p
             /\ e.row = row /\ e.reversedBy = 0
<1> DEFINE e == Entry(q, p, row, w)
<1>1. /\ e.source = q.source /\ e.lines = q.lines /\ e.period = p /\ e.row = row /\ e.reversedBy = 0
      /\ e.group = w /\ e = [source |-> e.source, lines |-> e.lines, period |-> e.period, row |-> e.row,
                             reversedBy |-> e.reversedBy, group |-> e.group]
  BY DEF Entry
<1> HIDE DEF e
<1>2. /\ q.source \in SourceT /\ q.lines \in Seq(LineT) /\ Len(q.lines) <= MaxLines
      /\ \A k \in 1..Len(q.lines) : LineOK(q.source, q.lines[k])
  BY DEF Sound
<1>3. e \in EntryT
  BY <1>1, <1>2 DEF EntryT
<1>4. TotalDebit(q.lines) = TotalCredit(q.lines)
  BY DEF Insertable, Accepted, Balanced
<1>5. DOMAIN q.lines = 1..Len(q.lines) /\ Len(q.lines) \in 0..MaxLines
  BY <1>2, SmallLen
<1>6. EntryOK(e)
  BY <1>1, <1>2, <1>4, <1>5 DEF EntryOK
<1> QED  BY <1>1, <1>3, <1>6 DEF NewEntry, e

Mirror(e) == Entry(Reversal(e), e.period, e.row, NULL)

LEMMA CashIsInt ==
  ASSUME NEW lines \in Seq(LineT)
  PROVE  CashIn(lines) \in Int /\ \A k \in Nat : CashAt(lines, k) \in Int
<1>1. ASSUME NEW k \in Nat PROVE CashAt(lines, k) \in Int
  <2>1. CASE k \in DOMAIN lines
    <3>1. lines[k] \in LineT
      BY <2>1
    <3>2. lines[k].debit \in Int /\ lines[k].credit \in Int
      BY <3>1 DEF LineT, Line
    <3> QED  BY <3>2 DEF CashAt
  <2>2. CASE k \notin DOMAIN lines
    BY <2>2 DEF CashAt
  <2> QED  BY <2>1, <2>2
<1>2. CashAt(lines, 1) \in Int /\ CashAt(lines, 2) \in Int /\ CashAt(lines, 3) \in Int
      /\ CashAt(lines, 4) \in Int /\ CashAt(lines, 5) \in Int
  BY <1>1
<1> QED  BY <1>1, <1>2 DEF CashIn

LEMMA MinusFive ==
  ASSUME NEW a \in Int, NEW b \in Int, NEW c \in Int, NEW d \in Int, NEW f \in Int
  PROVE  (-a) + (-b) + (-c) + (-d) + (-f) = -(a + b + c + d + f)
OBVIOUS

LEMMA Opposite ==
  ASSUME NEW x \in Int, NEW y \in Int, x + y = 0
  PROVE  x = -y
OBVIOUS

\* The mirror of an entry is an entry, and takes back the cash it moved.
LEMMA MirrorIsNew ==
  ASSUME NEW e \in EntryT, EntryOK(e)
  PROVE  LET m == Mirror(e)
         IN  /\ NewEntry(m) /\ m.lines = Reversal(e).lines /\ m.source = e.source /\ m.period = e.period
             /\ m.row = e.row /\ DOMAIN m.lines = DOMAIN e.lines
             /\ \A k \in DOMAIN e.lines :
                   /\ m.lines[k].account = e.lines[k].account /\ m.lines[k].debit = e.lines[k].credit
                   /\ m.lines[k].credit = e.lines[k].debit /\ m.lines[k].ref = e.lines[k].ref
             /\ CashIn(m.lines) = -CashIn(e.lines)
<1> DEFINE m == Mirror(e)
           s == e.lines
           t == m.lines
<1>1. /\ m.lines = Reversal(e).lines /\ m.source = e.source /\ m.period = e.period /\ m.row = e.row
      /\ m.reversedBy = 0 /\ m.group = NULL
      /\ m = [source |-> m.source, lines |-> m.lines, period |-> m.period, row |-> m.row,
              reversedBy |-> m.reversedBy, group |-> m.group]
  BY DEF Mirror, Entry, Reversal, Posting
<1>0. t = [k \in DOMAIN s |-> [s[k] EXCEPT !.debit = s[k].credit, !.credit = s[k].debit]]
  BY DEF Mirror, Entry, Reversal, Posting
<1>2. /\ e.source \in SourceT /\ s \in Seq(LineT) /\ e.period \in Period /\ e.row \in BankRow \cup {NULL}
  BY DEF EntryT
<1>3. /\ (\E n \in 0..MaxLines : DOMAIN s = 1..n) /\ TotalDebit(s) = TotalCredit(s)
      /\ \A k \in DOMAIN s : LineOK(e.source, s[k])
  BY DEF EntryOK
<1> HIDE DEF m, s, t
<1>4. PICK n \in 0..MaxLines : DOMAIN s = 1..n
  BY <1>3
<1>a. \A k \in 1..n : s[k] \in LineT
  <2>1. DOMAIN s = 1..Len(s) /\ \A k \in 1..Len(s) : s[k] \in LineT
    BY <1>2
  <2> QED  BY <1>4, <2>1
<1>5. n \in Nat /\ DOMAIN t = 1..n /\ t = [k \in DOMAIN t |-> t[k]]
      /\ \A k \in 1..n : t[k] = [s[k] EXCEPT !.debit = s[k].credit, !.credit = s[k].debit]
  <2>1. n \in Nat
    BY <1>4 DEF MaxLines
  <2>2. t = [k \in 1..n |-> [s[k] EXCEPT !.debit = s[k].credit, !.credit = s[k].debit]]
    BY <1>0, <1>4
  <2> QED  BY <2>1, <2>2
<1>6. ASSUME NEW k \in 1..n
      PROVE  /\ t[k] \in LineT /\ t[k].account = s[k].account /\ t[k].debit = s[k].credit
             /\ t[k].credit = s[k].debit /\ t[k].ref = s[k].ref /\ LineOK(e.source, t[k])
  <2>1. s[k] \in LineT /\ t[k] = [s[k] EXCEPT !.debit = s[k].credit, !.credit = s[k].debit]
    BY <1>a, <1>5
  <2>2. /\ t[k] \in LineT /\ t[k].account = s[k].account /\ t[k].debit = s[k].credit
        /\ t[k].credit = s[k].debit /\ t[k].ref = s[k].ref
    BY <2>1 DEF LineT, Line
  <2>3. LineOK(e.source, s[k])
    BY <1>3, <1>4
  <2> QED  BY <2>2, <2>3 DEF LineOK
<1>7. t \in Seq(LineT)
  BY <1>5, <1>6, SeqOf
<1>8. \A i : DebitAt(t, i) = CreditAt(s, i) /\ CreditAt(t, i) = DebitAt(s, i)
  BY <1>4, <1>5, <1>6 DEF DebitAt, CreditAt
<1>9. TotalDebit(t) = TotalCredit(s) /\ TotalCredit(t) = TotalDebit(s)
  BY <1>8 DEF TotalDebit, TotalCredit
<1>10. m \in EntryT
  <2>1. m.source \in SourceT /\ m.period \in Period /\ m.row \in BankRow \cup {NULL}
        /\ m.reversedBy \in Nat /\ m.group \in WalletGroup \cup {NULL} /\ m.lines \in Seq(LineT)
    BY <1>1, <1>2, <1>7 DEF t
  <2> QED  BY <1>1, <2>1 DEF EntryT
<1>11. EntryOK(m)
  BY <1>1, <1>2, <1>3, <1>4, <1>5, <1>6, <1>9 DEF EntryOK, t
<1>12. \A k \in {1, 2, 3, 4, 5} : CashAt(t, k) = -CashAt(s, k) /\ CashAt(s, k) \in Int
  <2>1. ASSUME NEW k \in {1, 2, 3, 4, 5} PROVE CashAt(t, k) = -CashAt(s, k) /\ CashAt(s, k) \in Int
    <3>1. CASE k \in 1..n
      <4>1. s[k] \in LineT /\ k \in DOMAIN s /\ k \in DOMAIN t
        BY <1>a, <1>4, <1>5, <3>1
      <4>2. s[k].debit \in Int /\ s[k].credit \in Int
        BY <4>1 DEF LineT, Line
      <4> QED  BY <1>6, <3>1, <4>1, <4>2 DEF CashAt
    <3>2. CASE k \notin 1..n
      <4>1. CashAt(t, k) = 0 /\ CashAt(s, k) = 0
        BY <1>4, <1>5, <3>2 DEF CashAt
      <4>2. CashAt(t, k) \in Int /\ CashAt(s, k) \in Int /\ CashAt(t, k) + CashAt(s, k) = 0
        BY <4>1
      <4> QED  BY <4>2, Opposite
    <3> QED  BY <3>1, <3>2
  <2> QED  BY <2>1
<1>13. CashIn(t) = -CashIn(s)
  <2>1. /\ CashAt(t, 1) = -CashAt(s, 1) /\ CashAt(t, 2) = -CashAt(s, 2) /\ CashAt(t, 3) = -CashAt(s, 3)
        /\ CashAt(t, 4) = -CashAt(s, 4) /\ CashAt(t, 5) = -CashAt(s, 5)
    BY <1>12
  <2>2. CashAt(s, 1) \in Int /\ CashAt(s, 2) \in Int /\ CashAt(s, 3) \in Int /\ CashAt(s, 4) \in Int
        /\ CashAt(s, 5) \in Int
    BY <1>12
  <2> QED  BY <2>1, <2>2, MinusFive DEF CashIn
<1>14. /\ NewEntry(m) /\ m.lines = Reversal(e).lines /\ m.source = e.source /\ m.period = e.period
       /\ m.row = e.row
  BY <1>1, <1>10, <1>11 DEF NewEntry
<1>15. DOMAIN t = DOMAIN s
  BY <1>4, <1>5
<1>16. \A k \in DOMAIN s : /\ t[k].account = s[k].account /\ t[k].debit = s[k].credit
                           /\ t[k].credit = s[k].debit /\ t[k].ref = s[k].ref
  BY <1>4, <1>6
<1> QED  BY ONLY <1>13, <1>14, <1>15, <1>16 DEF m, s, t

LEMMA OneAppended ==
  ASSUME NEW S, NEW s \in Seq(S), NEW e \in S, NEW t, t = Append(s, e)
  PROVE  /\ t \in Seq(S) /\ Len(t) = Len(s) + 1 /\ t[Len(s) + 1] = e
         /\ \A k \in 1..Len(s) : t[k] = s[k]
BY AppendProperties

LEMMA TwoAppended ==
  ASSUME NEW S, NEW s \in Seq(S), NEW e \in S, NEW f \in S, NEW t, t = s \o <<e, f>>
  PROVE  /\ t \in Seq(S) /\ Len(t) = Len(s) + 2 /\ t[Len(s) + 1] = e /\ t[Len(s) + 2] = f
         /\ \A k \in 1..Len(s) : t[k] = s[k]
<1> DEFINE u == <<e, f>>
<1>1. u \in Seq(S) /\ Len(u) = 2 /\ u[1] = e /\ u[2] = f
  OBVIOUS
<1> HIDE DEF u
<1>2. /\ s \o u \in Seq(S) /\ Len(s \o u) = Len(s) + Len(u)
      /\ \A k \in 1..(Len(s) + Len(u)) : (s \o u)[k] = IF k <= Len(s) THEN s[k] ELSE u[k - Len(s)]
  BY <1>1, ConcatProperties
<1>3. t = s \o u
  BY DEF u
<1>4. Len(s) \in Nat
  OBVIOUS
<1>5. (Len(s) + 1) - Len(s) = 1 /\ (Len(s) + 2) - Len(s) = 2
  BY <1>4
<1> QED  BY <1>1, <1>2, <1>3, <1>4, <1>5

LEMMA TwoMore ==
  ASSUME NEW S, NEW s \in Seq(S), NEW m \in S, NEW e \in S, NEW t, t = Append(s, m) \o <<e>>
  PROVE  /\ t \in Seq(S) /\ Len(t) = Len(s) + 2 /\ t[Len(s) + 1] = m /\ t[Len(s) + 2] = e
         /\ \A k \in 1..Len(s) : t[k] = s[k]
<1> DEFINE v == Append(s, m)
           w == <<e>>
<1>1. v \in Seq(S) /\ Len(v) = Len(s) + 1 /\ v[Len(s) + 1] = m /\ \A k \in 1..Len(s) : v[k] = s[k]
  BY OneAppended
<1>2. w \in Seq(S) /\ Len(w) = 1 /\ w[1] = e /\ Len(s) \in Nat
  OBVIOUS
<1> HIDE DEF v, w
<1>3. /\ v \o w \in Seq(S) /\ Len(v \o w) = Len(v) + Len(w)
      /\ \A k \in 1..(Len(v) + Len(w)) : (v \o w)[k] = IF k <= Len(v) THEN v[k] ELSE w[k - Len(v)]
  BY <1>1, <1>2, ConcatProperties
<1>4. t = v \o w
  BY DEF v, w
<1>5. Len(t) = Len(s) + 2 /\ t \in Seq(S)
  BY <1>1, <1>2, <1>3, <1>4
<1>6. \A k \in 1..(Len(s) + 1) : t[k] = v[k]
  BY <1>1, <1>2, <1>3, <1>4
<1>7. t[Len(s) + 2] = e
  <2>1. (Len(s) + 2) - Len(v) = 1 /\ ~(Len(s) + 2 <= Len(v)) /\ Len(s) + 2 \in 1..(Len(v) + Len(w))
    BY <1>1, <1>2
  <2> QED  BY <1>2, <1>3, <1>4, <2>1
<1>8. t[Len(s) + 1] = m /\ \A k \in 1..Len(s) : t[k] = s[k]
  BY <1>1, <1>2, <1>6
<1> QED  BY <1>5, <1>7, <1>8

\* A step that only adds entries, and one that reverses entry i and adds e.
Grown ==
  /\ journal' \in Seq(EntryT) /\ Len(journal) <= Len(journal') /\ Len(journal') <= MaxEntries + 2
  /\ \A k \in 1..Len(journal) : journal'[k] = journal[k]
  /\ \A k \in 1..Len(journal') : k > Len(journal) => NewEntry(journal'[k])

Swapped(i, e) ==
  /\ i \in 1..Len(journal) /\ Live(i)
  /\ journal' \in Seq(EntryT) /\ Len(journal') = Len(journal) + 2 /\ Len(journal') <= MaxEntries + 2
  /\ \A k \in 1..Len(journal) : k # i => journal'[k] = journal[k]
  /\ journal'[i].source = journal[i].source /\ journal'[i].lines = journal[i].lines
  /\ journal'[i].period = journal[i].period /\ journal'[i].row = journal[i].row
  /\ journal'[i].reversedBy = Len(journal) + 1
  /\ NewEntry(journal'[Len(journal) + 1])
  /\ journal'[Len(journal) + 1].lines = Reversal(journal[i]).lines
  /\ journal'[Len(journal) + 1].source = journal[i].source
  /\ journal'[Len(journal) + 1].period = journal[i].period
  /\ journal'[Len(journal) + 1].row = journal[i].row
  /\ journal'[Len(journal) + 2] = e /\ NewEntry(e)

\* The links of the journal.
LEMMA Links ==
  ASSUME LType, LReversed
  PROVE  /\ Len(journal) \in Nat /\ DOMAIN journal = 1..Len(journal)
         /\ \A k \in 1..Len(journal) : /\ journal[k] \in EntryT /\ journal[k].reversedBy \in Nat
                                       /\ journal[k].reversedBy <= Len(journal)
                                       /\ journal[k].reversedBy # k
<1>1. Len(journal) \in Nat /\ DOMAIN journal = 1..Len(journal)
      /\ \A k \in 1..Len(journal) : journal[k] \in EntryT
  BY DEF LType
<1>2. ASSUME NEW k \in 1..Len(journal)
      PROVE  /\ journal[k].reversedBy \in Nat /\ journal[k].reversedBy <= Len(journal)
             /\ journal[k].reversedBy # k
  <2>1. journal[k].reversedBy \in Nat
    BY <1>1 DEF EntryT
  <2>2. CASE journal[k].reversedBy = 0
    BY <1>1, <2>2
  <2>3. CASE journal[k].reversedBy # 0
    BY <1>1, <2>1, <2>3 DEF LReversed, Mirrors
  <2> QED  BY <2>1, <2>2, <2>3
<1> QED  BY <1>1, <1>2

\* Adding entries keeps the old ones as they are, and brings new ones in force.
LEMMA GrownKeeps ==
  ASSUME LType, LReversed, LSound, Grown
  PROVE  /\ LReversed' /\ LSound'
         /\ \A k \in 1..Len(journal) : Live(k)' <=> Live(k)
         /\ \A k \in 1..Len(journal') : k > Len(journal) => Live(k)'
<1>a. PICK n : n = Len(journal)
  OBVIOUS
<1>b. PICK m : m = Len(journal')
  OBVIOUS
<1>1. /\ n \in Nat /\ DOMAIN journal = 1..n
      /\ \A k \in 1..n : /\ journal[k].reversedBy \in Nat /\ journal[k].reversedBy <= n
                         /\ journal[k].reversedBy # k
  BY <1>a, Links
<1>2. /\ m \in Nat /\ n <= m /\ DOMAIN journal' = 1..m
      /\ \A k \in 1..n : journal'[k] = journal[k]
      /\ \A k \in 1..m : k > n => NewEntry(journal'[k])
  BY <1>a, <1>b DEF Grown
<1>3. \A k \in 1..m : k \notin 1..n => k > n /\ journal'[k].reversedBy = 0 /\ EntryOK(journal'[k])
  BY <1>1, <1>2 DEF NewEntry
<1>4. LSound'
  BY <1>1, <1>2, <1>3 DEF LSound
<1>5. \A k \in 1..m : k > n => Live(k)'
  BY <1>1, <1>2, <1>3 DEF Live
<1>6. ASSUME NEW k \in 1..n PROVE Live(k)' <=> Live(k)
  <2>1. k \in 1..m
    BY <1>1, <1>2
  <2>2. Live(k)' => Live(k)
    BY <1>1, <1>2, <2>1 DEF Live
  <2>3. ASSUME Live(k) PROVE Live(k)'
    BY <1>1, <1>2, <1>3, <2>1, <2>3 DEF Live
  <2> QED  BY <2>2, <2>3
<1>7. LReversed'
  <2>1. SUFFICES ASSUME NEW i \in 1..m, journal'[i].reversedBy # 0
                 PROVE  \E j \in 1..m :
                           Mirrors(j, i)' /\ \A k \in 1..m : journal'[k].reversedBy = j <=> k = i
    BY <1>2 DEF LReversed
  <2>2. i \in 1..n /\ journal'[i] = journal[i]
    BY <1>2, <1>3, <2>1
  <2>3. PICK j \in 1..n : Mirrors(j, i) /\ \A k \in 1..n : journal[k].reversedBy = j <=> k = i
    BY <1>1, <2>1, <2>2 DEF LReversed
  <2>4. j \in 1..m /\ journal'[j] = journal[j] /\ j # 0
    BY <1>1, <1>2
  <2>5. Mirrors(j, i)'
    BY <1>2, <2>2, <2>3, <2>4 DEF Mirrors
  <2>6. ASSUME NEW k \in 1..m PROVE journal'[k].reversedBy = j <=> k = i
    <3>1. CASE k \in 1..n
      BY <1>2, <2>3, <3>1
    <3>2. CASE k \notin 1..n
      BY <1>3, <2>2, <2>4, <3>2
    <3> QED  BY <3>1, <3>2
  <2> QED  BY <2>4, <2>5, <2>6
<1> QED  BY <1>4, <1>5, <1>6, <1>7, <1>a, <1>b

\* A correction takes its entry out of force, and puts another one in.
LEMMA SwappedKeeps ==
  ASSUME LType, LReversed, LSound, NEW i, NEW e, Swapped(i, e)
  PROVE  /\ LReversed' /\ LSound'
         /\ \A k \in 1..Len(journal) : Live(k)' <=> Live(k) /\ k # i
         /\ \A k : k = Len(journal) + 1 => ~Live(k)'
         /\ \A k : k = Len(journal) + 2 => Live(k)'
<1>a. PICK n : n = Len(journal)
  OBVIOUS
<1>1. /\ n \in Nat /\ DOMAIN journal = 1..n
      /\ \A k \in 1..n : /\ journal[k].reversedBy \in Nat /\ journal[k].reversedBy <= n
                         /\ journal[k].reversedBy # k
  BY <1>a, Links
<1>2. /\ i \in 1..n /\ Live(i) /\ DOMAIN journal' = 1..(n + 2)
      /\ \A k \in 1..n : k # i => journal'[k] = journal[k]
      /\ journal'[i].source = journal[i].source /\ journal'[i].lines = journal[i].lines
      /\ journal'[i].period = journal[i].period /\ journal'[i].row = journal[i].row
      /\ journal'[i].reversedBy = n + 1
  BY <1>1, <1>a DEF Swapped
<1>3. /\ NewEntry(journal'[n + 1]) /\ journal'[n + 1].lines = Reversal(journal[i]).lines
      /\ journal'[n + 1].source = journal[i].source /\ journal'[n + 1].period = journal[i].period
      /\ journal'[n + 1].row = journal[i].row /\ NewEntry(journal'[n + 2])
  BY <1>a DEF Swapped
<1>4. \A k \in 1..(n + 2) : k \in 1..n \/ k = n + 1 \/ k = n + 2
  BY <1>1
<1>5. /\ journal'[n + 1].reversedBy = 0 /\ journal'[n + 2].reversedBy = 0
      /\ EntryOK(journal'[n + 1]) /\ EntryOK(journal'[n + 2])
  BY <1>3 DEF NewEntry
<1>6. n + 1 \in 1..(n + 2) /\ n + 2 \in 1..(n + 2) /\ n + 1 \notin 1..n /\ n + 2 \notin 1..n
      /\ \A k \in 1..n : k \in 1..(n + 2)
  BY <1>1
<1>7. \A k \in 1..n : journal[k].reversedBy # i /\ journal[k].reversedBy # n + 1 /\ journal[k].reversedBy # n + 2
  BY <1>1, <1>2 DEF Live
<1>b. \A k \in 1..n : k # i => journal'[k].reversedBy = journal[k].reversedBy
  BY <1>2
<1>c. ASSUME NEW j \in 1..(n + 2), j # n + 1, NEW k \in 1..(n + 2)
      PROVE  journal'[k].reversedBy = j <=> k \in 1..n /\ k # i /\ journal[k].reversedBy = j
  <2>0. j # 0 /\ i \in 1..n
    BY <1>1, <1>2
  <2>1. CASE k \in 1..n /\ k # i
    BY <1>b, <2>1
  <2>2. CASE k = i
    BY <1>2, <1>c, <2>2
  <2>3. CASE k \notin 1..n
    BY <1>4, <1>5, <2>0, <2>3
  <2> QED  BY <2>1, <2>2, <2>3
<1>d. ASSUME NEW k \in 1..(n + 2) PROVE journal'[k].reversedBy = n + 1 <=> k = i
  <2>1. CASE k \in 1..n /\ k # i
    BY <1>b, <1>7, <2>1
  <2>2. CASE k = i
    BY <1>2, <2>2
  <2>3. CASE k \notin 1..n
    <3>1. journal'[k].reversedBy = 0 /\ k # i
      BY <1>2, <1>4, <1>5, <2>3
    <3>2. n + 1 # 0
      BY <1>1
    <3> QED  BY <2>3, <3>1, <3>2
  <2> QED  BY <2>1, <2>2, <2>3
<1>8. LSound'
  <2>1. EntryOK(journal[i])
    BY <1>1, <1>2 DEF LSound
  <2>2. EntryOK(journal'[i])
    BY <1>2, <2>1 DEF EntryOK
  <2>3. \A k \in 1..n : EntryOK(journal'[k])
    BY <1>1, <1>2, <2>2 DEF LSound
  <2> QED  BY <1>2, <1>4, <1>5, <2>3 DEF LSound
<1>9. ~Live(n + 1)'
  BY <1>2, <1>6 DEF Live
<1>10. Live(n + 2)'
  <2>1. \A k \in 1..(n + 2) : journal'[k].reversedBy # n + 2
    <3>1. n + 2 # n + 1
      BY <1>1
    <3> QED  BY <1>6, <1>7, <1>c, <3>1
  <2> QED  BY <1>2, <1>5, <1>6, <2>1 DEF Live
<1>11. ASSUME NEW k \in 1..n PROVE Live(k)' <=> Live(k) /\ k # i
  <2>1. CASE k = i
    BY <1>1, <1>2, <2>1 DEF Live
  <2>2. CASE k # i
    <3>0. k # n + 1 /\ k \in 1..(n + 2) /\ journal[i].reversedBy = 0 /\ k # 0
      BY <1>1, <1>2, <1>6 DEF Live
    <3>1. \A l \in 1..(n + 2) : journal'[l].reversedBy = k <=> l \in 1..n /\ l # i /\ journal[l].reversedBy = k
      BY <1>c, <3>0
    <3> QED  BY <1>1, <1>2, <1>6, <2>2, <3>0, <3>1 DEF Live
  <2> QED  BY <2>1, <2>2
<1>12. LReversed'
  <2>1. SUFFICES ASSUME NEW a \in 1..(n + 2), journal'[a].reversedBy # 0
                 PROVE  \E j \in 1..(n + 2) :
                           Mirrors(j, a)' /\ \A k \in 1..(n + 2) : journal'[k].reversedBy = j <=> k = a
    BY <1>2 DEF LReversed
  <2>2. a \in 1..n
    BY <1>4, <1>5, <2>1
  <2>3. CASE a = i
    <3>1. Reversal(journal'[i]).lines = Reversal(journal[i]).lines
      BY <1>2 DEF Reversal, Posting
    <3>2. n + 1 # i
      BY <1>1, <1>2
    <3>3. PICK j : j = n + 1
      OBVIOUS
    <3>4. Mirrors(j, i)'
      BY <1>2, <1>3, <1>5, <1>6, <3>1, <3>2, <3>3 DEF Mirrors
    <3> QED  BY <1>6, <1>d, <2>3, <3>3, <3>4
  <2>4. CASE a # i
    <3>1. journal'[a] = journal[a] /\ journal[a].reversedBy # 0
      BY <1>2, <2>1, <2>2, <2>4
    <3>2. PICK j \in 1..n : Mirrors(j, a) /\ \A k \in 1..n : journal[k].reversedBy = j <=> k = a
      BY <1>1, <2>2, <3>1 DEF LReversed
    <3>3. j # i /\ j # n + 1 /\ j \in 1..(n + 2)
      BY <1>1, <1>7, <2>2, <3>2
    <3>4. journal'[j] = journal[j]
      BY <1>2, <3>3
    <3>5. Mirrors(j, a)'
      BY <1>2, <3>1, <3>2, <3>3, <3>4 DEF Mirrors
    <3>6. \A k \in 1..(n + 2) : journal'[k].reversedBy = j <=> k = a
      BY <1>c, <2>2, <2>4, <3>2, <3>3
    <3> QED  BY <3>3, <3>5, <3>6
  <2> QED  BY <2>3, <2>4
<1> QED  BY <1>8, <1>9, <1>10, <1>11, <1>12, <1>a

-----------------------------------------------------------------------------
(* What the steps keep.                                                      *)

\* The entries of a row, when only entries without one, or of one new row, come.
LEMMA GrownRows ==
  ASSUME LType, LReversed, LSound, LCash, LEntries, Grown,
         \A k \in 1..Len(journal') : k > Len(journal) => journal'[k].row = NULL
  PROVE  LCash' /\ LEntries'
<1>a. PICK n : n = Len(journal)
  OBVIOUS
<1>b. PICK m : m = Len(journal')
  OBVIOUS
<1>1. n \in Nat /\ DOMAIN journal = 1..n /\ m \in Nat /\ n <= m /\ DOMAIN journal' = 1..m
      /\ \A k \in 1..n : journal'[k] = journal[k]
  BY <1>a, <1>b, Links DEF Grown
<1>2. /\ \A k \in 1..n : Live(k)' <=> Live(k)
      /\ \A k \in 1..m : k \notin 1..n => Live(k)' /\ journal'[k].row = NULL
  <2>1. \A k \in 1..m : k \notin 1..n => k > n
    BY <1>1
  <2> QED  BY <1>1, <1>a, <1>b, <2>1, GrownKeeps
<1>3. NULL \notin BankRow
  BY LedgerAssumption
<1>4. LCash'
  <2>1. \A k \in 1..n : journal[k].row # NULL =>
          /\ journal[k].source \in RowSource /\ journal[k].row.amount # 0
          /\ Live(k) => MovesFor(journal[k])
    BY <1>1 DEF LCash
  <2>2. ASSUME NEW k \in 1..m, journal'[k].row # NULL
        PROVE  /\ journal'[k].source \in RowSource /\ journal'[k].row.amount # 0
               /\ Live(k)' => MovesFor(journal'[k])
    <3>1. k \in 1..n
      BY <1>2, <2>2
    <3> QED  BY <1>1, <1>2, <2>1, <2>2, <3>1
  <2> QED  BY <1>1, <2>2 DEF LCash
<1>5. ASSUME NEW row \in BankRow PROVE OfRow(row)' = OfRow(row)
  BY <1>1, <1>2, <1>3 DEF OfRow
<1>6. LEntries'
  <2>1. SUFFICES ASSUME NEW row \in BankRow, OfRow(row)' # {}
                 PROVE  \/ \E k \in 1..m : Live(k)' /\ OfRow(row)' = {k}
                        \/ \E k, j \in 1..m : Corrects(k, j, row)'
    BY <1>1 DEF LEntries
  <2>2. OfRow(row)' = OfRow(row) /\ OfRow(row) # {} /\ \A k \in 1..n : k \in 1..m
    BY <1>1, <1>5, <2>1
  <2>3. CASE \E k \in 1..n : Live(k) /\ OfRow(row) = {k}
    BY <1>2, <2>2, <2>3
  <2>4. CASE \E k, j \in 1..n : Corrects(k, j, row)
    <3>1. PICK k \in 1..n, j \in 1..n : Corrects(k, j, row)
      BY <2>4
    <3>2. j + 1 \in 1..n
      BY <1>1, <3>1 DEF Corrects, OfRow
    <3>3. Corrects(k, j, row)'
      BY <1>1, <1>2, <2>2, <3>1, <3>2 DEF Corrects
    <3> QED  BY <2>2, <3>3
  <2> QED  BY <1>1, <2>2, <2>3, <2>4 DEF LEntries
<1> QED  BY <1>4, <1>6

LEMMA GrownRow ==
  ASSUME LType, LReversed, LSound, LCash, LEntries, Grown, Len(journal') = Len(journal) + 1,
         NEW row \in BankRow, OfRow(row) = {}, NEW e, e = journal'[Len(journal')],
         e.row = row, e.source \in RowSource, row.amount # 0, MovesFor(e)
  PROVE  LCash' /\ LEntries'
<1>a. PICK n : n = Len(journal)
  OBVIOUS
<1>b. PICK m : m = n + 1
  OBVIOUS
<1>1. n \in Nat /\ DOMAIN journal = 1..n /\ DOMAIN journal' = 1..m
      /\ \A k \in 1..n : journal'[k] = journal[k]
  BY <1>a, <1>b, Links DEF Grown
<1>2. /\ \A k \in 1..n : k \in 1..m
      /\ m \in 1..m /\ m \notin 1..n /\ m > n /\ \A k \in 1..m : k \in 1..n \/ k = m
  BY <1>1, <1>b
<1>3. Len(journal') = m /\ journal'[m] = e
  BY <1>a, <1>b
<1>4. (\A k \in 1..n : Live(k)' <=> Live(k)) /\ Live(m)'
  BY <1>2, <1>3, <1>a, GrownKeeps
<1>5. LCash'
  <2>1. \A k \in 1..n : journal[k].row # NULL =>
          /\ journal[k].source \in RowSource /\ journal[k].row.amount # 0
          /\ Live(k) => MovesFor(journal[k])
    BY <1>1 DEF LCash
  <2>2. ASSUME NEW k \in 1..m, journal'[k].row # NULL
        PROVE  /\ journal'[k].source \in RowSource /\ journal'[k].row.amount # 0
               /\ Live(k)' => MovesFor(journal'[k])
    <3>1. CASE k \in 1..n
      BY <1>1, <1>4, <2>1, <2>2, <3>1
    <3>2. CASE k = m
      BY <1>3, <3>2
    <3> QED  BY <1>2, <3>1, <3>2
  <2> QED  BY <1>1, <2>2 DEF LCash
<1>6. LEntries'
  <2>1. SUFFICES ASSUME NEW r \in BankRow, OfRow(r)' # {}
                 PROVE  \/ \E k \in 1..m : Live(k)' /\ OfRow(r)' = {k}
                        \/ \E k, j \in 1..m : Corrects(k, j, r)'
    BY <1>1 DEF LEntries
  <2>2. CASE r = row
    <3>1. OfRow(r)' = {m}
      BY <1>1, <1>2, <1>3, <2>2 DEF OfRow
    <3> QED  BY <1>2, <1>4, <3>1
  <2>3. CASE r # row
    <3>1. OfRow(r)' = OfRow(r) /\ OfRow(r) # {}
      BY <1>1, <1>2, <1>3, <2>1, <2>3 DEF OfRow
    <3>2. CASE \E k \in 1..n : Live(k) /\ OfRow(r) = {k}
      BY <1>2, <1>4, <3>1, <3>2
    <3>3. CASE \E k, j \in 1..n : Corrects(k, j, r)
      <4>1. PICK k \in 1..n, j \in 1..n : Corrects(k, j, r)
        BY <3>3
      <4>2. j + 1 \in 1..n
        BY <1>1, <4>1 DEF Corrects, OfRow
      <4>3. Corrects(k, j, r)'
        BY <1>1, <1>2, <1>4, <3>1, <4>1, <4>2 DEF Corrects
      <4> QED  BY <1>2, <4>3
    <3> QED  BY <1>1, <3>1, <3>2, <3>3 DEF LEntries
  <2> QED  BY <2>2, <2>3
<1> QED  BY <1>5, <1>6

\* A correction of row's entry i, which is its only one, by e.
LEMMA SwappedRow ==
  ASSUME LType, LReversed, LSound, LCash, LEntries, NEW i, NEW e, Swapped(i, e),
         NEW row \in BankRow, OfRow(row) = {i}, row.part = 0,
         journal[i].lines = AsPurchase(row).lines, e.row = row, e.lines # AsPurchase(row).lines,
         e.source \in RowSource, MovesFor(e)
  PROVE  LCash' /\ LEntries'
<1>a. PICK n : n = Len(journal)
  OBVIOUS
<1>b. PICK m : m = n + 2
  OBVIOUS
<1>1. /\ n \in Nat /\ DOMAIN journal = 1..n /\ DOMAIN journal' = 1..m /\ i \in 1..n /\ Live(i)
      /\ \A k \in 1..n : k # i => journal'[k] = journal[k]
      /\ journal'[i].source = journal[i].source /\ journal'[i].lines = journal[i].lines
      /\ journal'[i].row = journal[i].row /\ journal'[i].reversedBy = n + 1
      /\ journal'[n + 1].source = journal[i].source
      /\ journal'[n + 1].row = journal[i].row /\ journal'[m] = e /\ journal[i].row = row
  BY <1>a, <1>b, Links DEF Swapped, OfRow
<1>2. /\ \A k \in 1..n : k \in 1..m
      /\ m \in 1..m /\ n + 1 \in 1..m /\ m = (n + 1) + 1 /\ n + 1 # 0
      /\ \A k \in 1..m : k \in 1..n \/ k = n + 1 \/ k = m
  BY <1>1, <1>b
<1>3. /\ \A k \in 1..n : Live(k)' <=> Live(k) /\ k # i
      /\ ~Live(n + 1)' /\ Live(m)'
  BY <1>a, <1>b, SwappedKeeps
<1>4. NULL \notin BankRow
  BY LedgerAssumption
<1>5. LCash'
  <2>1. \A k \in 1..n : journal[k].row # NULL =>
          /\ journal[k].source \in RowSource /\ journal[k].row.amount # 0
          /\ Live(k) => MovesFor(journal[k])
    BY <1>1 DEF LCash
  <2>2. ASSUME NEW k \in 1..m, journal'[k].row # NULL
        PROVE  /\ journal'[k].source \in RowSource /\ journal'[k].row.amount # 0
               /\ Live(k)' => MovesFor(journal'[k])
    <3>1. CASE k \in 1..n /\ k # i
      BY <1>1, <1>3, <2>1, <2>2, <3>1
    <3>2. CASE k = i
      BY <1>1, <1>3, <2>1, <2>2, <3>2
    <3>3. CASE k = n + 1
      BY <1>1, <1>3, <2>1, <2>2, <3>3
    <3>4. CASE k = m
      BY <1>1, <1>4, <2>1, <3>4
    <3> QED  BY <1>2, <3>1, <3>2, <3>3, <3>4
  <2> QED  BY <1>1, <2>2 DEF LCash
<1>6. \A k \in 1..n : journal'[k].row = journal[k].row
  BY <1>1
<1>7. LEntries'
  <2>1. SUFFICES ASSUME NEW r \in BankRow, OfRow(r)' # {}
                 PROVE  \/ \E k \in 1..m : Live(k)' /\ OfRow(r)' = {k}
                        \/ \E k, j \in 1..m : Corrects(k, j, r)'
    BY <1>1 DEF LEntries
  <2>2. CASE r = row
    <3>1. OfRow(r)' = {i, n + 1, m}
      <4>1. \A k \in 1..n : journal[k].row = row <=> k = i
        BY <1>1 DEF OfRow
      <4> QED  BY <1>1, <1>2, <1>6, <2>2, <4>1 DEF OfRow
    <3>2. PICK j : j = n + 1
      OBVIOUS
    <3>3. Corrects(i, j, r)'
      BY <1>1, <1>2, <1>3, <2>2, <3>1, <3>2 DEF Corrects
    <3> QED  BY <1>1, <1>2, <3>2, <3>3
  <2>3. CASE r # row
    <3>1. OfRow(r)' = OfRow(r) /\ OfRow(r) # {} /\ i \notin OfRow(r)
      BY <1>1, <1>2, <1>6, <2>1, <2>3 DEF OfRow
    <3>2. CASE \E k \in 1..n : Live(k) /\ OfRow(r) = {k}
      BY <1>2, <1>3, <3>1, <3>2
    <3>3. CASE \E k, j \in 1..n : Corrects(k, j, r)
      <4>1. PICK k \in 1..n, j \in 1..n : Corrects(k, j, r)
        BY <3>3
      <4>2. j + 1 \in 1..n /\ k # i /\ j + 1 # i
        BY <1>1, <3>1, <4>1 DEF Corrects, OfRow
      <4>3. Corrects(k, j, r)'
        BY <1>1, <1>2, <1>3, <3>1, <4>1, <4>2 DEF Corrects
      <4> QED  BY <1>2, <4>3
    <3> QED  BY <1>1, <3>1, <3>2, <3>3 DEF LEntries
  <2> QED  BY <2>2, <2>3
<1> QED  BY <1>5, <1>7

\* A correction of an entry without a row.
LEMMA SwappedRows ==
  ASSUME LType, LReversed, LSound, LCash, LEntries, NEW i, NEW e, Swapped(i, e),
         journal[i].row = NULL, e.row = NULL
  PROVE  LCash' /\ LEntries'
<1>a. PICK n : n = Len(journal)
  OBVIOUS
<1>b. PICK m : m = n + 2
  OBVIOUS
<1>1. /\ n \in Nat /\ DOMAIN journal = 1..n /\ DOMAIN journal' = 1..m /\ i \in 1..n
      /\ \A k \in 1..n : k # i => journal'[k] = journal[k]
      /\ journal'[i].row = NULL /\ journal'[n + 1].row = NULL /\ journal'[m].row = NULL
  BY <1>a, <1>b, Links DEF Swapped
<1>2. (\A k \in 1..n : k \in 1..m) /\ \A k \in 1..m : k \in 1..n \/ k = n + 1 \/ k = m
  BY <1>1, <1>b
<1>3. \A k \in 1..n : Live(k)' <=> Live(k) /\ k # i
  BY <1>a, SwappedKeeps
<1>4. NULL \notin BankRow
  BY LedgerAssumption
<1>5. \A k \in 1..m : journal'[k].row # NULL => k \in 1..n /\ k # i
  BY <1>1, <1>2
<1>6. LCash'
  <2>1. \A k \in 1..n : journal[k].row # NULL =>
          /\ journal[k].source \in RowSource /\ journal[k].row.amount # 0
          /\ Live(k) => MovesFor(journal[k])
    BY <1>1 DEF LCash
  <2>2. ASSUME NEW k \in 1..m, journal'[k].row # NULL
        PROVE  /\ journal'[k].source \in RowSource /\ journal'[k].row.amount # 0
               /\ Live(k)' => MovesFor(journal'[k])
    <3>1. k \in 1..n /\ journal'[k] = journal[k]
      BY <1>1, <1>5, <2>2
    <3> QED  BY <1>3, <2>1, <2>2, <3>1
  <2> QED  BY <1>1, <2>2 DEF LCash
<1>7. LEntries'
  <2>1. SUFFICES ASSUME NEW r \in BankRow, OfRow(r)' # {}
                 PROVE  \/ \E k \in 1..m : Live(k)' /\ OfRow(r)' = {k}
                        \/ \E k, j \in 1..m : Corrects(k, j, r)'
    BY <1>1 DEF LEntries
  <2>2. OfRow(r)' = OfRow(r) /\ OfRow(r) # {} /\ i \notin OfRow(r)
    BY <1>1, <1>2, <1>4, <1>5, <2>1 DEF OfRow, Swapped
  <2>3. CASE \E k \in 1..n : Live(k) /\ OfRow(r) = {k}
    BY <1>2, <1>3, <2>2, <2>3
  <2>4. CASE \E k, j \in 1..n : Corrects(k, j, r)
    <3>1. PICK k \in 1..n, j \in 1..n : Corrects(k, j, r)
      BY <2>4
    <3>2. j + 1 \in 1..n /\ k # i /\ j + 1 # i
      BY <1>1, <2>2, <3>1 DEF Corrects, OfRow
    <3>3. Corrects(k, j, r)'
      BY <1>1, <1>2, <1>3, <2>2, <3>1, <3>2 DEF Corrects
    <3> QED  BY <1>2, <3>3
  <2> QED  BY <1>1, <2>2, <2>3, <2>4 DEF LEntries
<1> QED  BY <1>6, <1>7

\* The openings, when no entry that opens an account comes.
LEMMA GrownOpen ==
  ASSUME LType, LReversed, LSound, LOpen, Grown, openings' = openings,
         \A k \in 1..Len(journal') : k > Len(journal) => journal'[k].source # "opening_balance"
  PROVE  LOpen'
<1>a. PICK n : n = Len(journal)
  OBVIOUS
<1>b. PICK m : m = Len(journal')
  OBVIOUS
<1>1. n \in Nat /\ DOMAIN journal = 1..n /\ m \in Nat /\ n <= m /\ DOMAIN journal' = 1..m
      /\ \A k \in 1..n : journal'[k] = journal[k]
  BY <1>a, <1>b, Links DEF Grown
<1>2. \A k \in 1..m : k \notin 1..n => k > n
  BY <1>1
<1>3. /\ \A k \in 1..n : Live(k)' <=> Live(k)
      /\ \A k \in 1..m : k \notin 1..n => journal'[k].source # "opening_balance"
  BY <1>1, <1>2, <1>a, <1>b, GrownKeeps
<1>4. ASSUME NEW a \in OpenAccount, NEW i \in 1..m PROVE openings'[a] = i <=> Opens(i, a)'
  <2>1. openings[a] \in Nat /\ openings[a] <= n
    BY <1>a DEF LType
  <2>2. CASE i \in 1..n
    BY <1>1, <1>3, <2>2 DEF LOpen, Opens
  <2>3. CASE i \notin 1..n
    BY <1>1, <1>2, <1>3, <2>1, <2>3 DEF Opens
  <2> QED  BY <2>2, <2>3
<1> QED  BY <1>1, <1>4 DEF LOpen

\* An account that has none is opened.
LEMMA GrownOpening ==
  ASSUME LType, LReversed, LSound, LOpen, Grown, Len(journal') = Len(journal) + 1,
         NEW a \in OpenAccount, openings[a] = 0, openings' = [openings EXCEPT ![a] = Len(journal) + 1],
         NEW e, e = journal'[Len(journal')], e.source = "opening_balance", e.lines[1].account = a
  PROVE  LOpen'
<1>a. PICK n : n = Len(journal)
  OBVIOUS
<1>b. PICK m : m = n + 1
  OBVIOUS
<1>1. n \in Nat /\ DOMAIN journal = 1..n /\ DOMAIN journal' = 1..m
      /\ \A k \in 1..n : journal'[k] = journal[k]
  BY <1>a, <1>b, Links DEF Grown
<1>2. /\ m \in 1..m /\ m \notin 1..n /\ m > n /\ \A k \in 1..m : k \in 1..n \/ k = m
  BY <1>1, <1>b
<1>3. Len(journal') = m /\ journal'[m] = e
  BY <1>a, <1>b
<1>4. (\A k \in 1..n : Live(k)' <=> Live(k)) /\ Live(m)'
  BY <1>2, <1>3, <1>a, GrownKeeps
<1>5. openings'[a] = m /\ \A b \in OpenAccount : b # a => openings'[b] = openings[b]
  BY <1>a, <1>b DEF LType
<1>6. ASSUME NEW b \in OpenAccount, NEW i \in 1..m PROVE openings'[b] = i <=> Opens(i, b)'
  <2>1. openings[b] \in Nat /\ openings[b] <= n
    BY <1>a DEF LType
  <2>2. CASE i \in 1..n
    <3>1. openings[b] = i <=> Opens(i, b)
      BY <1>1, <2>2 DEF LOpen
    <3>2. Opens(i, b)' <=> Opens(i, b)
      BY <1>1, <1>4, <2>2 DEF Opens
    <3>3. b = a => openings[b] # i /\ openings'[b] # i
      BY <1>1, <1>2, <1>5, <2>2
    <3> QED  BY <1>5, <3>1, <3>2, <3>3
  <2>3. CASE i = m
    <3>1. Opens(i, b)' <=> b = a
      BY <1>3, <1>4, <2>3 DEF Opens
    <3>2. b # a => openings'[b] # m
      BY <1>1, <1>b, <1>5, <2>1
    <3> QED  BY <1>5, <2>3, <3>1, <3>2
  <2> QED  BY <1>2, <2>2, <2>3
<1> QED  BY <1>1, <1>6 DEF LOpen

\* A correction of an entry that opens no account.
LEMMA SwappedOpen ==
  ASSUME LType, LReversed, LSound, LOpen, NEW i, NEW e, Swapped(i, e), openings' = openings,
         journal[i].source # "opening_balance", e.source # "opening_balance"
  PROVE  LOpen'
<1>a. PICK n : n = Len(journal)
  OBVIOUS
<1>b. PICK m : m = n + 2
  OBVIOUS
<1>1. /\ n \in Nat /\ DOMAIN journal = 1..n /\ DOMAIN journal' = 1..m /\ i \in 1..n
      /\ \A k \in 1..n : k # i => journal'[k] = journal[k]
      /\ journal'[i].source = journal[i].source
      /\ journal'[n + 1].source = journal[i].source /\ journal'[m] = e
  BY <1>a, <1>b, Links DEF Swapped
<1>2. \A k \in 1..m : k \in 1..n \/ k = n + 1 \/ k = m
  BY <1>1, <1>b
<1>3. \A k \in 1..n : Live(k)' <=> Live(k) /\ k # i
  BY <1>a, SwappedKeeps
<1>4. ASSUME NEW a \in OpenAccount, NEW k \in 1..m PROVE openings'[a] = k <=> Opens(k, a)'
  <2>1. openings[a] \in Nat /\ openings[a] <= n
    BY <1>a DEF LType
  <2>2. CASE k \in 1..n
    BY <1>1, <1>3, <2>2 DEF LOpen, Opens
  <2>3. CASE k \notin 1..n
    <3>1. ~Opens(k, a)'
      BY <1>1, <1>2, <2>3 DEF Opens
    <3>2. openings[a] # k
      BY <1>1, <1>b, <1>2, <2>1, <2>3
    <3> QED  BY <3>1, <3>2
  <2> QED  BY <2>2, <2>3
<1> QED  BY <1>1, <1>4 DEF LOpen

\* The opening of an account is corrected.
LEMMA SwappedOpening ==
  ASSUME LType, LReversed, LSound, LOpen, NEW a \in OpenAccount, NEW i, i = openings[a], NEW e,
         Swapped(i, e), openings' = [openings EXCEPT ![a] = Len(journal) + 2],
         e.source = "opening_balance", e.lines[1].account = a
  PROVE  LOpen' /\ journal[i].source = "opening_balance"
<1>a. PICK n : n = Len(journal)
  OBVIOUS
<1>b. PICK m : m = n + 2
  OBVIOUS
<1>1. /\ n \in Nat /\ DOMAIN journal = 1..n /\ DOMAIN journal' = 1..m /\ i \in 1..n
      /\ \A k \in 1..n : k # i => journal'[k] = journal[k]
      /\ journal'[m] = e
  BY <1>a, <1>b, Links DEF Swapped
<1>2. /\ \A k \in 1..m : k \in 1..n \/ k = n + 1 \/ k = m
      /\ m \notin 1..n /\ n + 1 \notin 1..n /\ n + 1 # m
  BY <1>1, <1>b
<1>3. /\ \A k \in 1..n : Live(k)' <=> Live(k) /\ k # i
      /\ \A k : k = n + 1 => ~Live(k)'
      /\ Live(m)'
  BY <1>a, <1>b, SwappedKeeps
<1>4. openings'[a] = m /\ \A b \in OpenAccount : b # a => openings'[b] = openings[b]
  BY <1>a, <1>b DEF LType
<1>5. Opens(i, a)
  BY <1>1 DEF LOpen
<1>6. ASSUME NEW b \in OpenAccount, NEW k \in 1..m PROVE openings'[b] = k <=> Opens(k, b)'
  <2>1. openings[b] \in Nat /\ openings[b] <= n
    BY <1>a DEF LType
  <2>2. CASE k \in 1..n /\ k # i
    <3>1. openings[b] = k <=> Opens(k, b)
      BY <1>1, <2>2 DEF LOpen
    <3>2. Opens(k, b)' <=> Opens(k, b)
      BY <1>1, <1>3, <2>2 DEF Opens
    <3>3. b = a => openings[b] # k /\ openings'[b] # k
      BY <1>2, <1>4, <2>2
    <3> QED  BY <1>4, <3>1, <3>2, <3>3
  <2>3. CASE k = i
    <3>1. ~Opens(k, b)'
      BY <1>1, <1>3, <2>3 DEF Opens
    <3>2. openings[b] = i => b = a
      BY <1>1, <1>5 DEF LOpen, Opens
    <3> QED  BY <1>1, <1>2, <1>4, <2>3, <3>1, <3>2
  <2>4. CASE k = n + 1
    <3>1. ~Opens(k, b)'
      BY <1>3, <2>4 DEF Opens
    <3>2. openings[b] # k
      BY <1>1, <2>1, <2>4
    <3> QED  BY <1>2, <1>4, <2>4, <3>1, <3>2
  <2>5. CASE k = m
    <3>1. Opens(k, b)' <=> b = a
      BY <1>1, <1>3, <2>5 DEF Opens
    <3>2. b # a => openings'[b] # m
      BY <1>1, <1>b, <1>4, <2>1
    <3> QED  BY <1>4, <2>5, <3>1, <3>2
  <2> QED  BY <1>2, <2>2, <2>3, <2>4, <2>5
<1> QED  BY <1>1, <1>5, <1>6 DEF LOpen, Opens

\* The sales that are posted stay as they are.
SalesKept ==
  \A s \in Sale : /\ sales'[s].entry = sales[s].entry
                  /\ sales[s].entry # 0 => sales'[s].status = sales[s].status
                                           /\ sales'[s].terms = sales[s].terms

LEMMA GrownSales ==
  ASSUME LType, LSales, Grown, SalesKept,
         \A k \in 1..Len(journal') : k > Len(journal) => journal'[k].source # "consignment_sale"
  PROVE  LSales'
<1>a. PICK n : n = Len(journal)
  OBVIOUS
<1>b. PICK m : m = Len(journal')
  OBVIOUS
<1>1. n \in Nat /\ DOMAIN journal = 1..n /\ m \in Nat /\ n <= m /\ DOMAIN journal' = 1..m
      /\ \A k \in 1..n : journal'[k] = journal[k]
  BY <1>a, <1>b DEF Grown, LType
<1>2. \A k \in 1..m : k \notin 1..n => k > n
  BY <1>1
<1>3. \A k \in 1..m : k \notin 1..n => journal'[k].source # "consignment_sale"
  BY <1>2, <1>a, <1>b
<1>4. \A s \in Sale : sales[s].entry # 0 => sales[s].entry \in 1..n
  BY <1>1, <1>a DEF LType, SaleT
<1>5. \A s \in Sale : sales'[s].entry # 0 =>
        /\ sales'[s].status = "confirmed" /\ journal'[sales'[s].entry].source = "consignment_sale"
        /\ Consigns(journal'[sales'[s].entry].lines, sales'[s].terms.payout, sales'[s].terms.ref)
  BY <1>1, <1>4 DEF LSales, SalesKept
<1>6. \A i \in 1..m : journal'[i].source = "consignment_sale" => \E s \in Sale : sales'[s].entry = i
  BY <1>1, <1>3 DEF LSales, SalesKept
<1>7. \A s, t \in Sale : sales'[s].entry # 0 /\ sales'[s].entry = sales'[t].entry => s = t
  BY DEF LSales, SalesKept
<1> QED  BY <1>1, <1>5, <1>6, <1>7 DEF LSales

\* A confirmed sale is posted.
LEMMA GrownSale ==
  ASSUME LType, LSales, Grown, Len(journal') = Len(journal) + 1,
         NEW s \in Sale, sales[s].status = "confirmed", sales[s].entry = 0,
         sales' = [sales EXCEPT ![s].entry = Len(journal) + 1],
         NEW e, e = journal'[Len(journal')], e.source = "consignment_sale",
         Consigns(e.lines, sales[s].terms.payout, sales[s].terms.ref)
  PROVE  LSales'
<1>a. PICK n : n = Len(journal)
  OBVIOUS
<1>b. PICK m : m = n + 1
  OBVIOUS
<1>1. n \in Nat /\ DOMAIN journal = 1..n /\ DOMAIN journal' = 1..m
      /\ \A k \in 1..n : journal'[k] = journal[k]
  BY <1>a, <1>b DEF Grown, LType
<1>2. /\ m \notin 1..n /\ m # 0 /\ \A k \in 1..m : k \in 1..n \/ k = m
  BY <1>1, <1>b
<1>3. journal'[m] = e
  BY <1>a, <1>b
<1>4. \A t \in Sale : sales[t].entry # 0 => sales[t].entry \in 1..n
  BY <1>1, <1>a DEF LType, SaleT
<1>5. /\ \A t \in Sale : t # s => sales'[t] = sales[t]
      /\ sales'[s] = [sales[s] EXCEPT !.entry = m] /\ sales[s] \in SaleT
  BY <1>a, <1>b DEF LType
<1>6. sales'[s].entry = m /\ sales'[s].status = sales[s].status /\ sales'[s].terms = sales[s].terms
  BY <1>5 DEF SaleT
<1>7. ASSUME NEW t \in Sale, sales'[t].entry # 0
      PROVE  /\ sales'[t].status = "confirmed" /\ journal'[sales'[t].entry].source = "consignment_sale"
             /\ Consigns(journal'[sales'[t].entry].lines, sales'[t].terms.payout, sales'[t].terms.ref)
  <2>1. CASE t = s
    BY <1>3, <1>6, <2>1
  <2>2. CASE t # s
    <3>1. sales[t].entry \in 1..n /\ sales'[t] = sales[t]
      BY <1>4, <1>5, <1>7, <2>2
    <3> QED  BY <1>1, <1>7, <3>1 DEF LSales
  <2> QED  BY <2>1, <2>2
<1>8. ASSUME NEW i \in 1..m, journal'[i].source = "consignment_sale"
      PROVE  \E t \in Sale : sales'[t].entry = i
  <2>1. CASE i = m
    BY <1>6, <2>1
  <2>2. CASE i \in 1..n
    <3>1. PICK t \in Sale : sales[t].entry = i
      BY <1>1, <1>8, <2>2 DEF LSales
    <3>2. t # s
      BY <1>1, <2>2, <3>1
    <3> QED  BY <1>5, <3>1, <3>2
  <2> QED  BY <1>2, <2>1, <2>2
<1>9. ASSUME NEW t \in Sale, NEW u \in Sale, sales'[t].entry # 0, sales'[t].entry = sales'[u].entry
      PROVE  t = u
  <2>1. CASE t = s \/ u = s
    BY <1>2, <1>4, <1>5, <1>6, <1>9, <2>1
  <2>2. CASE t # s /\ u # s
    BY <1>5, <1>9, <2>2 DEF LSales
  <2> QED  BY <2>1, <2>2
<1> QED  BY <1>1, <1>7, <1>8, <1>9 DEF LSales

\* A correction of an entry that is no sale.
LEMMA SwappedSales ==
  ASSUME LType, LSales, NEW i, NEW e, Swapped(i, e), sales' = sales,
         journal[i].source # "consignment_sale", e.source # "consignment_sale"
  PROVE  LSales'
<1>a. PICK n : n = Len(journal)
  OBVIOUS
<1>b. PICK m : m = n + 2
  OBVIOUS
<1>1. /\ n \in Nat /\ DOMAIN journal = 1..n /\ DOMAIN journal' = 1..m /\ i \in 1..n
      /\ \A k \in 1..n : k # i => journal'[k] = journal[k]
      /\ journal'[i].source = journal[i].source
      /\ journal'[n + 1].source = journal[i].source /\ journal'[m] = e
  BY <1>a, <1>b DEF Swapped, LType
<1>2. \A k \in 1..m : k \in 1..n \/ k = n + 1 \/ k = m
  BY <1>1, <1>b
<1>3. \A k \in 1..m : journal'[k].source = "consignment_sale" =>
         k \in 1..n /\ journal[k].source = "consignment_sale"
  BY <1>1, <1>2
<1>4. \A t \in Sale : sales[t].entry # 0 =>
         sales[t].entry \in 1..n /\ journal'[sales[t].entry] = journal[sales[t].entry]
  <2>1. \A t \in Sale : sales[t].entry # 0 => sales[t].entry \in 1..n
    BY <1>1, <1>a DEF LType, SaleT
  <2> QED  BY <1>1, <2>1 DEF LSales
<1>5. \A s \in Sale : sales'[s].entry # 0 =>
        /\ sales'[s].status = "confirmed" /\ journal'[sales'[s].entry].source = "consignment_sale"
        /\ Consigns(journal'[sales'[s].entry].lines, sales'[s].terms.payout, sales'[s].terms.ref)
  BY <1>4 DEF LSales
<1>6. \A k \in 1..m : journal'[k].source = "consignment_sale" => \E s \in Sale : sales'[s].entry = k
  BY <1>1, <1>3 DEF LSales
<1>7. \A s, t \in Sale : sales'[s].entry # 0 /\ sales'[s].entry = sales'[t].entry => s = t
  BY DEF LSales
<1> QED  BY <1>1, <1>5, <1>6, <1>7 DEF LSales

-----------------------------------------------------------------------------
(* The steps.                                                                *)

\* What an accepted posting adds.
LEMMA Inserted ==
  ASSUME LType, NEW q, Sound(q), NEW p \in Period, NEW row \in BankRow \cup {NULL},
         NEW w \in WalletGroup \cup {NULL}, Insert(q, p, row, w)
  PROVE  /\ Grown /\ Len(journal') = Len(journal) + 1
         /\ journal'[Len(journal')].source = q.source /\ journal'[Len(journal')].lines = q.lines
         /\ journal'[Len(journal')].row = row
         /\ \A k \in 1..Len(journal') : k > Len(journal) => k = Len(journal')
<1>a. PICK n : n = Len(journal)
  OBVIOUS
<1>b. PICK e : e = Entry(q, p, row, w)
  OBVIOUS
<1>1. n \in Nat /\ journal \in Seq(EntryT) /\ n + 1 <= MaxEntries /\ MaxEntries \in Nat
  BY <1>a, LedgerAssumption DEF LType, Insert, Room
<1>2. /\ NewEntry(e) /\ e.source = q.source /\ e.lines = q.lines /\ e.row = row
  BY <1>b, EntryIsNew DEF Insert
<1>3. e \in EntryT /\ journal' = Append(journal, e)
  BY <1>2, <1>b DEF NewEntry, Insert
<1>4. /\ journal' \in Seq(EntryT) /\ Len(journal') = n + 1 /\ journal'[n + 1] = e
      /\ \A k \in 1..n : journal'[k] = journal[k]
  BY <1>1, <1>3, <1>a, OneAppended
<1>5. \A k \in 1..(n + 1) : k > n => k = n + 1
  BY <1>1
<1>6. Grown
  BY <1>1, <1>2, <1>4, <1>5, <1>a DEF Grown
<1> QED  BY <1>2, <1>4, <1>5, <1>6, <1>a

\* A step that leaves the journal alone adds no entry.
LEMMA NothingAdded ==
  ASSUME LType, journal' = journal
  PROVE  Grown /\ \A k \in 1..Len(journal') : ~(k > Len(journal))
<1>1. Len(journal) \in Nat
  BY DEF LType
<1> QED  BY <1>1 DEF LType, Grown

ConversionT == [ref : Reference, amount : Int, period : Period]

\* The type of the tables beside the journal.
LEMMA StepType ==
  ASSUME LType, journal' \in Seq(EntryT), Len(journal') <= MaxEntries + 2, Len(journal) <= Len(journal'),
         \/ sales' = sales
         \/ \E s \in Sale, x \in SaleT :
               /\ sales' = [sales EXCEPT ![s] = x] /\ (x.status # "absent" => x.terms \in Terms)
               /\ x.entry <= Len(journal') /\ x.reimbursed <= Len(journal'),
         \/ openings' = openings
         \/ \E a \in OpenAccount, x \in Nat : openings' = [openings EXCEPT ![a] = x] /\ x <= Len(journal'),
         \/ converting' = converting
         \/ \E q \in Request, x \in ConversionT \cup {NULL} : converting' = [converting EXCEPT ![q] = x]
  PROVE  LType'
<1>1. Len(journal) \in Nat /\ Len(journal') \in Nat
  BY DEF LType
<1>2. /\ sales' \in [Sale -> SaleT]
      /\ \A s \in Sale : /\ sales'[s].status # "absent" => sales'[s].terms \in Terms
                         /\ sales'[s].entry <= Len(journal') /\ sales'[s].reimbursed <= Len(journal')
  <2>1. /\ sales \in [Sale -> SaleT]
        /\ \A s \in Sale : /\ sales[s].status # "absent" => sales[s].terms \in Terms
                           /\ sales[s].entry <= Len(journal) /\ sales[s].reimbursed <= Len(journal)
                           /\ sales[s].entry \in Nat /\ sales[s].reimbursed \in Nat
    BY DEF LType, SaleT
  <2>2. \A s \in Sale : sales[s].entry <= Len(journal') /\ sales[s].reimbursed <= Len(journal')
    BY <1>1, <2>1
  <2>3. CASE sales' = sales
    BY <2>1, <2>2, <2>3
  <2>4. CASE \E s \in Sale, x \in SaleT :
               /\ sales' = [sales EXCEPT ![s] = x] /\ (x.status # "absent" => x.terms \in Terms)
               /\ x.entry <= Len(journal') /\ x.reimbursed <= Len(journal')
    <3>1. PICK s \in Sale, x \in SaleT :
               /\ sales' = [sales EXCEPT ![s] = x] /\ (x.status # "absent" => x.terms \in Terms)
               /\ x.entry <= Len(journal') /\ x.reimbursed <= Len(journal')
      BY <2>4
    <3>2. sales' \in [Sale -> SaleT] /\ sales'[s] = x /\ \A t \in Sale : t # s => sales'[t] = sales[t]
      BY <2>1, <3>1
    <3>3. ASSUME NEW t \in Sale
          PROVE  /\ sales'[t].status # "absent" => sales'[t].terms \in Terms
                 /\ sales'[t].entry <= Len(journal') /\ sales'[t].reimbursed <= Len(journal')
      <4>1. CASE t = s
        BY <3>1, <3>2, <4>1
      <4>2. CASE t # s
        BY <2>1, <2>2, <3>2, <4>2
      <4> QED  BY <4>1, <4>2
    <3> QED  BY <3>2, <3>3
  <2> QED  BY <2>3, <2>4
<1>3. openings' \in [OpenAccount -> Nat] /\ \A a \in OpenAccount : openings'[a] <= Len(journal')
  <2>1. openings \in [OpenAccount -> Nat] /\ \A a \in OpenAccount : openings[a] <= Len(journal')
    BY <1>1 DEF LType
  <2> QED  BY <2>1
<1>4. converting' \in [Request -> ConversionT \cup {NULL}]
  BY DEF LType, ConversionT
<1> QED  BY <1>2, <1>3, <1>4 DEF LType, ConversionT

\* A posting for no row that neither opens an account nor posts a sale.
LEMMA PostingKeeps ==
  ASSUME LInv, NEW q, Sound(q), q.source \notin {"opening_balance", "consignment_sale"},
         NEW p \in Period, NEW w \in WalletGroup \cup {NULL}, Insert(q, p, NULL, w), sales' = sales,
         openings' = openings,
         \/ converting' = converting
         \/ \E r \in Request, x \in ConversionT \cup {NULL} : converting' = [converting EXCEPT ![r] = x]
  PROVE  LInv'
<1>1. LType /\ LSound /\ LReversed /\ LCash /\ LEntries /\ LOpen /\ LSales
  BY DEF LInv
<1>2. /\ Grown /\ Len(journal') = Len(journal) + 1
      /\ \A k \in 1..Len(journal') : k > Len(journal) =>
            /\ journal'[k].source \notin {"opening_balance", "consignment_sale"}
            /\ journal'[k].row = NULL
  BY <1>1, Inserted
<1>3. LReversed' /\ LSound'
  BY <1>1, <1>2, GrownKeeps
<1>4. LCash' /\ LEntries'
  BY <1>1, <1>2, GrownRows
<1>5. LOpen'
  BY <1>1, <1>2, GrownOpen
<1>6. SalesKept
  BY DEF SalesKept
<1>7. LSales'
  BY <1>1, <1>2, <1>6, GrownSales
<1>8. LType'
  BY <1>1, <1>2, StepType DEF Grown
<1> QED  BY <1>3, <1>4, <1>5, <1>7, <1>8 DEF LInv

LEMMA BookKeeps ==
  ASSUME LInv, NEW q, Sound(q), q.source \notin {"opening_balance", "consignment_sale"},
         NEW p \in Period, Book(q, p)
  PROVE  LInv'
BY PostingKeeps DEF Book

\* A step that adds nothing to the journal.
LEMMA TablesKeep ==
  ASSUME LInv, journal' = journal, openings' = openings, SalesKept,
         \/ sales' = sales
         \/ \E s \in Sale, x \in SaleT :
               /\ sales' = [sales EXCEPT ![s] = x] /\ (x.status # "absent" => x.terms \in Terms)
               /\ x.entry <= Len(journal') /\ x.reimbursed <= Len(journal'),
         \/ converting' = converting
         \/ \E r \in Request, x \in ConversionT \cup {NULL} : converting' = [converting EXCEPT ![r] = x]
  PROVE  LInv'
<1>1. LType /\ LSound /\ LReversed /\ LCash /\ LEntries /\ LOpen /\ LSales
  BY DEF LInv
<1>2. /\ Grown /\ \A k \in 1..Len(journal') : ~(k > Len(journal))
  BY <1>1, NothingAdded
<1>3. LReversed' /\ LSound'
  BY <1>1, <1>2, GrownKeeps
<1>4. LCash' /\ LEntries'
  BY <1>1, <1>2, GrownRows
<1>5. LOpen'
  BY <1>1, <1>2, GrownOpen
<1>6. LSales'
  BY <1>1, <1>2, GrownSales
<1>7. LType'
  BY <1>1, <1>2, StepType DEF Grown
<1> QED  BY <1>3, <1>4, <1>5, <1>6, <1>7 DEF LInv

LEMMA Tables ==
  /\ \A row \in BankRow : row.month \in Period /\ row # NULL
  /\ \A d \in Sold : d.gross \in Int /\ d.fee \in Int /\ d.rate \in Int
  /\ \A d \in Withdrawn : d.gross \in Int /\ d.fee \in Int /\ d.rate \in Int /\ d.booked \in Int
  /\ \A v \in Valuation : v.usd \in Int /\ v.rate \in Int
  /\ \A x \in Opened : x \in Int
  /\ \A t \in Terms : t.payout \in Int /\ t.ref \in Reference
  /\ NULL \in WalletGroup \cup {NULL} /\ NULL \in BankRow \cup {NULL}
  /\ \A o \in Order : o \in OrderT
BY LedgerAssumption DEF OrderT

LEMMA SellKeeps ==
  ASSUME LInv, NEW a \in EbayAccount, NEW o \in Order, NEW d \in Sold, NEW p \in Period,
         SellOrder(a, o, d, p)
  PROVE  LInv'
<1> DEFINE q == EbaySale(a, d.gross, d.fee, d.rate, o)
<1>1. Sound(q) /\ q.source = "ebay_sale"
  BY Tables, SaleSound
<1>2. Book(q, p)
  BY DEF SellOrder
<1> HIDE DEF q
<1> QED  BY <1>1, <1>2, BookKeeps

LEMMA MoveSources ==
  ASSUME NEW a, NEW w, NEW x, NEW o
  PROVE  /\ Refund(a, x, o).source = "ebay_refund" /\ RefundFeeCredit(a, x, o).source = "ebay_refund"
         /\ EbayWalletExpense(a, "GENERAL_OPEX", x, o).source = "bank_other"
         /\ InterAccountTransfer(<<"PAYONEER_WALLET", w>>, EbayWallet(a), x).source = "inter_account_transfer"
BY DEF Refund, RefundFeeCredit, EbayWalletExpense, InterAccountTransfer, Posting

LEMMA RefundKeeps ==
  ASSUME LInv, NEW a \in EbayAccount, NEW o \in Order, NEW d \in Sold, NEW p \in Period,
         RefundOrder(a, o, d, p)
  PROVE  LInv'
<1> DEFINE q == Refund(a, Idr(d.gross, d.rate), o)
           r == RefundFeeCredit(a, Idr(d.fee, d.rate), o)
<1>1. Sound(q) /\ q.source = "ebay_refund" /\ Sound(r) /\ r.source = "ebay_refund"
  <2>1. Idr(d.gross, d.rate) \in Int /\ Idr(d.fee, d.rate) \in Int /\ o \in OrderT
    BY Tables, IdrIsInt
  <2>2. ASSUME NEW x \in Int PROVE Sound(Refund(a, x, o)) /\ Sound(RefundFeeCredit(a, x, o))
    <3>1. o \in OrderT
      BY <2>1
    <3>2. CASE WalletGroup # {}
      BY <3>1, <3>2, MovesSound
    <3>3. CASE WalletGroup = {}
      <4>1. Plainly("ebay_refund") /\ EbayWallet(a) \in Clean /\ Single("SALES_RETURNS_ALLOWANCES") \in Clean
            /\ Single("EBAY_SELLING_FEES") \in Clean /\ StageWallet(a) = EbayWallet(a)
        BY PlainSources, CleanAccounts DEF StageWallet
      <4> QED  BY <3>1, <4>1, CleanMove DEF Refund, RefundFeeCredit
    <3> QED  BY <3>2, <3>3
  <2> QED  BY <2>1, <2>2, MoveSources
<1>2. CASE ~(d.fee > 0)
  <2>1. Book(q, p)
    BY <1>2 DEF RefundOrder
  <2> HIDE DEF q
  <2> QED  BY <1>1, <2>1, BookKeeps
<1>3. CASE d.fee > 0
  <2> DEFINE e == Entry(q, p, NULL, NULL)
             f == Entry(r, p, NULL, NULL)
  <2>1. /\ Room(2) /\ Insertable(q) /\ Insertable(r) /\ journal' = journal \o <<e, f>>
        /\ UNCHANGED <<sales, openings, converting>>
    BY <1>3 DEF RefundOrder
  <2> HIDE DEF q, r
  <2>2. /\ NewEntry(e) /\ NewEntry(f) /\ e.source = "ebay_refund" /\ f.source = "ebay_refund"
        /\ e.row = NULL /\ f.row = NULL
    <3>1. NULL \in WalletGroup \cup {NULL} /\ NULL \in BankRow \cup {NULL}
      OBVIOUS
    <3>2. ASSUME NEW u, Sound(u), Insertable(u)
          PROVE  NewEntry(Entry(u, p, NULL, NULL)) /\ Entry(u, p, NULL, NULL).source = u.source
                 /\ Entry(u, p, NULL, NULL).row = NULL
      BY <3>1, <3>2, EntryIsNew
    <3> QED  BY <1>1, <2>1, <3>2
  <2> HIDE DEF e, f
  <2>a. PICK n : n = Len(journal)
    OBVIOUS
  <2>3. /\ LType /\ LSound /\ LReversed /\ LCash /\ LEntries /\ LOpen /\ LSales
        /\ n \in Nat /\ journal \in Seq(EntryT) /\ n + 2 <= MaxEntries /\ MaxEntries \in Nat
    BY <2>1, <2>a, LedgerAssumption DEF LInv, LType, Room
  <2>4. e \in EntryT /\ f \in EntryT
    BY <2>2 DEF NewEntry
  <2>5. /\ journal' \in Seq(EntryT) /\ Len(journal') = n + 2 /\ journal'[n + 1] = e /\ journal'[n + 2] = f
        /\ \A k \in 1..n : journal'[k] = journal[k]
    BY <2>1, <2>3, <2>4, <2>a, TwoAppended
  <2>6. \A k \in 1..(n + 2) : k > n => k = n + 1 \/ k = n + 2
    BY <2>3
  <2>7. Len(journal') <= MaxEntries + 2 /\ n <= Len(journal')
    BY <2>3, <2>5
  <2>8. Grown
    BY <2>2, <2>5, <2>6, <2>7, <2>a DEF Grown
  <2>9. \A k \in 1..Len(journal') : k > Len(journal) =>
           journal'[k].row = NULL /\ journal'[k].source \notin {"opening_balance", "consignment_sale"}
    BY <2>2, <2>5, <2>6, <2>a
  <2>10. SalesKept /\ openings' = openings /\ sales' = sales /\ converting' = converting
    BY <2>1 DEF SalesKept
  <2>11. LReversed' /\ LSound'
    BY <2>3, <2>8, GrownKeeps
  <2>12. LCash' /\ LEntries'
    BY <2>3, <2>8, <2>9, GrownRows
  <2>13. LOpen'
    BY <2>3, <2>8, <2>9, <2>10, GrownOpen
  <2>14. LSales'
    BY <2>3, <2>8, <2>9, <2>10, GrownSales
  <2>15. LType'
    BY <2>3, <2>5, <2>7, <2>10, <2>a, StepType
  <2> QED  BY <2>11, <2>12, <2>13, <2>14, <2>15 DEF LInv
<1> QED  BY <1>2, <1>3

LEMMA FeeKeeps ==
  ASSUME LInv, NEW a \in EbayAccount, NEW x \in Opened, NEW p \in Period, ChargeFee(a, x, p)
  PROVE  LInv'
<1> DEFINE q == EbayWalletExpense(a, "GENERAL_OPEX", x, NULL)
<1>1. Sound(q)
  <2>1. x \in Int /\ NULL \in OrderT
    BY Tables DEF OrderT
  <2>2. Plainly("bank_other") /\ EbayWallet(a) \in Clean /\ Single("GENERAL_OPEX") \in Clean
    BY PlainSources, CleanAccounts
  <2> QED  BY <2>1, <2>2, CleanMove DEF EbayWalletExpense
<1>2. q.source = "bank_other"
  BY MoveSources
<1>3. Book(q, p)
  BY DEF ChargeFee
<1> HIDE DEF q
<1> QED  BY <1>1, <1>2, <1>3, BookKeeps

LEMMA PayoutKeeps ==
  ASSUME LInv, NEW a \in EbayAccount, NEW w \in WalletGroup, NEW x \in Opened, NEW p \in Period,
         ConfirmPayout(a, w, x, p)
  PROVE  LInv'
<1> DEFINE q == InterAccountTransfer(<<"PAYONEER_WALLET", w>>, EbayWallet(a), x)
<1>1. Sound(q)
  <2>1. x \in Int /\ NULL \in OrderT
    BY Tables DEF OrderT
  <2> QED  BY <2>1, MovesSound
<1>2. q.source = "inter_account_transfer"
  BY MoveSources
<1>3. Book(q, p)
  BY DEF ConfirmPayout
<1> HIDE DEF q
<1> QED  BY <1>1, <1>2, <1>3, BookKeeps

LEMMA WithdrawKeeps ==
  ASSUME LInv, NEW w \in WalletGroup, NEW d \in Withdrawn, NEW p \in Period, Withdraw(w, d, p)
  PROVE  LInv'
<1> DEFINE q == RealizedFxWithdrawal(w, d.gross, d.fee, d.rate, d.booked)
<1>1. Sound(q)
  BY Tables, WithdrawalSound
<1>2. q.source = "payoneer_withdrawal"
  BY DEF RealizedFxWithdrawal, Posting
<1>3. Book(q, p)
  BY DEF Withdraw
<1> HIDE DEF q
<1> QED  BY <1>1, <1>2, <1>3, BookKeeps

\* A balance is an amount.
LEMMA BalanceIsInt ==
  ASSUME LInv, NEW a, NEW p
  PROVE  BalanceThrough(a, p) \in Int
<1>1. JournalOK
  <2>1. Len(journal) \in Nat /\ DOMAIN journal = 1..Len(journal)
    BY DEF LInv, LType
  <2> QED  BY <2>1 DEF JournalOK, LInv, LSound
<1>2. OfAccount(Through(p), a) \in SUBSET Rows
  BY DEF OfAccount, Through
<1>3. Debits(OfAccount(Through(p), a)) \in Int /\ Credits(OfAccount(Through(p), a)) \in Int
  BY <1>1, <1>2, DebitsAre
<1> QED  BY <1>3 DEF BalanceThrough, Signed

LEMMA RevalueKeeps ==
  ASSUME LInv, NEW w \in WalletGroup, NEW v \in Valuation, NEW p \in Period, Revalue(w, v, p)
  PROVE  LInv'
<1>a. PICK b : b = BalanceThrough(<<"PAYONEER_WALLET", w>>, p)
  OBVIOUS
<1>b. PICK q : q = UnrealizedFxRevaluation(w, v.usd, b, v.rate)
  OBVIOUS
<1>1. b \in Int
  BY <1>a, BalanceIsInt
<1>2. Sound(q)
  BY <1>1, <1>b, Tables, RevaluationSound
<1>3. q.source = "fx_revaluation"
  BY <1>b DEF UnrealizedFxRevaluation, Posting
<1>4. Insert(q, p, NULL, w) /\ UNCHANGED <<sales, openings, converting>>
  BY <1>a, <1>b DEF Revalue
<1> QED  BY <1>2, <1>3, <1>4, PostingKeeps

LEMMA FinishKeeps ==
  ASSUME LInv, NEW r \in Request, FinishConversion(r)
  PROVE  LInv'
<1>a. PICK c : c = converting[r]
  OBVIOUS
<1>1. c \in ConversionT
  BY <1>a DEF LInv, LType, ConversionT, FinishConversion
<1>b. PICK q : q = InventoryDepositReceived(c.amount, c.ref)
  OBVIOUS
<1>2. c.amount \in Int /\ c.ref \in Reference /\ c.period \in Period
  BY <1>1 DEF ConversionT
<1>3. Sound(q) /\ q.source = "inventory_deposit_received"
  BY <1>2, <1>b, ReceivedSound
<1>4. Insert(q, c.period, NULL, NULL) /\ sales' = sales /\ openings' = openings
      /\ converting' = [converting EXCEPT ![r] = NULL]
  BY <1>a, <1>b DEF FinishConversion
<1>5. NULL \in ConversionT \cup {NULL}
  OBVIOUS
<1> QED  BY <1>2, <1>3, <1>4, <1>5, PostingKeeps

LEMMA StartKeeps ==
  ASSUME LInv, NEW q \in Request, NEW r \in Reference, NEW x \in Opened, NEW p \in Period,
         StartConversion(q, r, x, p)
  PROVE  LInv'
<1>1. [ref |-> r, amount |-> x, period |-> p] \in ConversionT \cup {NULL}
  BY Tables DEF ConversionT
<1>2. /\ journal' = journal /\ openings' = openings /\ sales' = sales
      /\ converting' = [converting EXCEPT ![q] = [ref |-> r, amount |-> x, period |-> p]]
  BY DEF StartConversion
<1>3. SalesKept
  BY <1>2 DEF SalesKept
<1> QED  BY <1>1, <1>2, <1>3, TablesKeep

\* What a row's posting moves.
LEMMA PostingMoves ==
  ASSUME NEW row \in BankRow, NEW q, RowPosting(row, q), NEW e, e.row = row, e.lines = q.lines,
         e.source = q.source
  PROVE  MovesFor(e) /\ ~Flipped(e) /\ row.amount # 0 /\ e.source \in RowSource
<1>1. row.amount \in Int /\ row.part \in Nat
  BY RowTyped
<1>2. ASSUME Flipped(e) PROVE FALSE
  <2>1. row.amount > 0 /\ row.part = 0 /\ e.lines = AsPurchase(row).lines
    BY <1>2 DEF Flipped
  <2>2. AsPurchase(row).lines = Purchase(row, "cogs_purchase").lines
    BY DEF AsPurchase, Entry
  <2>3. q.lines[1].account = Single("COGS") /\ CashIn(q.lines) = -Magnitude(row)
    BY <2>1, <2>2, PurchaseIs
  <2>4. row.amount >= 0
    BY <1>1, <2>1
  <2>5. Magnitude(row) = row.amount
    BY <1>1, <2>4, MagnitudeIs
  <2>6. CASE q.source = "inter_account_transfer"
    BY <2>3, <2>6 DEF RowPosting, Single
  <2>7. CASE q.source # "inter_account_transfer"
    <3>1. CashIn(q.lines) = row.amount
      BY <2>7 DEF RowPosting
    <3> QED  BY <1>1, <2>1, <2>3, <2>5, <3>1
  <2> QED  BY <2>6, <2>7
<1> QED  BY <1>2 DEF MovesFor, RowPosting

LEMMA BookRowKeeps ==
  ASSUME LInv, NEW row \in BankRow, NEW c \in Label, BookRow(row, c)
  PROVE  LInv'
<1>0. LType /\ LSound /\ LReversed /\ LCash /\ LEntries /\ LOpen /\ LSales
  BY DEF LInv
<1>a. PICK q : q = Posted(row, c)
  OBVIOUS
<1>1. RowPosting(row, q)
  <2>1. c \in Category /\ Bookable(row, c)
    BY LedgerAssumption DEF BookRow
  <2> QED  BY <1>a, <2>1, PostedIs
<1>2. Sound(q) /\ q.source \in RowSource
  BY <1>1 DEF RowPosting
<1>3. Insert(q, row.month, row, NULL) /\ openings' = openings /\ converting' = converting
  BY <1>a DEF BookRow
<1>b. PICK e : e = journal'[Len(journal')]
  OBVIOUS
<1>4. /\ Grown /\ Len(journal') = Len(journal) + 1 /\ e.source = q.source /\ e.lines = q.lines /\ e.row = row
      /\ \A k \in 1..Len(journal') : k > Len(journal) => k = Len(journal')
  <2>1. row.month \in Period /\ row \in BankRow \cup {NULL} /\ NULL \in WalletGroup \cup {NULL}
    BY Tables
  <2> QED  BY <1>0, <1>2, <1>3, <1>b, <2>1, Inserted
<1>5. MovesFor(e) /\ row.amount # 0 /\ e.source \in RowSource
  BY <1>1, <1>4, PostingMoves
<1>6. OfRow(row) = {}
  BY DEF OfRow, BookRow
<1>7. LCash' /\ LEntries'
  BY <1>0, <1>4, <1>5, <1>6, <1>b, GrownRow
<1>8. e.source \notin {"opening_balance", "consignment_sale"}
  BY <1>5 DEF RowSource
<1>9. LReversed' /\ LSound'
  BY <1>0, <1>4, GrownKeeps
<1>10. LOpen'
  BY <1>0, <1>3, <1>4, <1>8, <1>b, GrownOpen
<1>11. /\ SalesKept
       /\ \/ sales' = sales
          \/ \E s \in Sale, x \in SaleT :
                /\ sales' = [sales EXCEPT ![s] = x] /\ (x.status # "absent" => x.terms \in Terms)
                /\ x.entry <= Len(journal') /\ x.reimbursed <= Len(journal')
  <2>a. PICK n : n = Len(journal) + 1
    OBVIOUS
  <2>1. n \in Nat /\ Len(journal') = n /\ Len(journal) <= n
    BY <1>0, <1>4, <2>a DEF LType
  <2>2. CASE sales' = sales
    BY <2>2 DEF SalesKept
  <2>3. CASE \E s \in Owed(row.ref) : sales' = [sales EXCEPT ![s].reimbursed = n]
    <3>1. PICK s \in Sale : sales' = [sales EXCEPT ![s].reimbursed = n]
      BY <2>3 DEF Owed
    <3>2. sales \in [Sale -> SaleT] /\ sales[s] \in SaleT /\ sales[s].entry <= Len(journal)
          /\ (sales[s].status # "absent" => sales[s].terms \in Terms)
      BY <1>0 DEF LType
    <3>b. PICK x : x = [sales[s] EXCEPT !.reimbursed = n]
      OBVIOUS
    <3>3. /\ x \in SaleT /\ x.entry = sales[s].entry /\ x.status = sales[s].status
          /\ x.terms = sales[s].terms /\ x.reimbursed = n
      BY <2>1, <3>2, <3>b DEF SaleT
    <3>4. sales' = [sales EXCEPT ![s] = x]
      BY <3>1, <3>b
    <3>5. x.entry <= n /\ x.reimbursed <= n
      <4>1. sales[s].entry \in Nat /\ Len(journal) \in Nat
        BY <1>0, <3>2 DEF SaleT, LType
      <4> QED  BY <2>1, <3>2, <3>3, <4>1
    <3>6. \A t \in Sale : sales'[t] = IF t = s THEN x ELSE sales[t]
      BY <3>2, <3>4
    <3>7. SalesKept
      BY <3>3, <3>6 DEF SalesKept
    <3> QED  BY <2>1, <3>2, <3>3, <3>4, <3>5, <3>7
  <2>4. sales' = sales \/ \E s \in Owed(row.ref) : sales' = [sales EXCEPT ![s].reimbursed = n]
    BY <2>a DEF BookRow, Next1
  <2> QED  BY <2>2, <2>3, <2>4
<1>12. LSales'
  BY <1>0, <1>4, <1>8, <1>11, <1>b, GrownSales
<1>13. LType'
  BY <1>0, <1>3, <1>4, <1>11, StepType DEF Grown
<1> QED  BY <1>7, <1>9, <1>10, <1>12, <1>13 DEF LInv

\* A reversal with the entry in its stead.
LEMMA ReversesSwaps ==
  ASSUME LType, LSound, LReversed, NEW i, Live(i), NEW e, NewEntry(e), RoomToCorrect, Reverses(i, <<e>>)
  PROVE  Swapped(i, e) /\ Len(journal) <= Len(journal')
<1>a. PICK n : n = Len(journal)
  OBVIOUS
<1>b. PICK j : j = journal[i]
  OBVIOUS
<1>1. /\ n \in Nat /\ journal \in Seq(EntryT) /\ n <= MaxEntries /\ MaxEntries \in Nat /\ DOMAIN journal = 1..n
  BY <1>a, LedgerAssumption DEF LType, RoomToCorrect
<1>2. i \in 1..n /\ j \in EntryT /\ EntryOK(j)
  BY <1>1, <1>b DEF Live, LSound
<1>c. PICK m : m = Mirror(j)
  OBVIOUS
<1>3. NewEntry(m) /\ m.lines = Reversal(j).lines /\ m.source = j.source /\ m.period = j.period /\ m.row = j.row
  BY <1>2, <1>c, MirrorIsNew
<1>4. m \in EntryT /\ e \in EntryT /\ n + 1 \in Nat
  BY <1>1, <1>3 DEF NewEntry
<1>5. journal' = Append([journal EXCEPT ![i].reversedBy = n + 1], m) \o <<e>>
  BY <1>a, <1>b, <1>c DEF Reverses, Mirror, Next1
<1>6. /\ journal' \in Seq(EntryT) /\ Len(journal') = n + 2 /\ journal'[n + 1] = m /\ journal'[n + 2] = e
      /\ \A k \in 1..n : k # i => journal'[k] = journal[k]
      /\ journal'[i].source = j.source /\ journal'[i].lines = j.lines /\ journal'[i].period = j.period
      /\ journal'[i].row = j.row /\ journal'[i].reversedBy = n + 1
  <2> DEFINE u == [journal EXCEPT ![i].reversedBy = n + 1]
  <2>1. /\ DOMAIN u = 1..n /\ u = [k \in DOMAIN u |-> u[k]]
        /\ \A k \in 1..n : k # i => u[k] = journal[k]
        /\ u[i] = [j EXCEPT !.reversedBy = n + 1]
    BY <1>1, <1>2, <1>b
  <2> HIDE DEF u
  <2>2. /\ u[i] \in EntryT /\ u[i].source = j.source /\ u[i].lines = j.lines /\ u[i].period = j.period
        /\ u[i].row = j.row /\ u[i].reversedBy = n + 1
    BY <1>2, <1>4, <2>1 DEF EntryT
  <2>3. \A k \in 1..n : u[k] \in EntryT
    BY <1>1, <2>1, <2>2
  <2>4. u \in Seq(EntryT) /\ Len(u) = n
    BY <1>1, <2>1, <2>3, SeqOf
  <2>5. journal' = Append(u, m) \o <<e>>
    BY <1>5 DEF u
  <2>6. /\ journal' \in Seq(EntryT) /\ Len(journal') = n + 2 /\ journal'[n + 1] = m /\ journal'[n + 2] = e
        /\ \A k \in 1..n : journal'[k] = u[k]
    BY <1>4, <2>4, <2>5, TwoMore
  <2> QED  BY <1>2, <2>1, <2>2, <2>6
<1>7. n + 2 <= MaxEntries + 2 /\ n <= n + 2
  BY <1>1
<1> QED  BY <1>2, <1>3, <1>6, <1>7, <1>a, <1>b DEF Swapped

\* An entry that books a row as a purchase, and is not reversed, is its only one.
LEMMA OnlyPurchase ==
  ASSUME LInv, NEW i \in DOMAIN journal, NEW row \in BankRow, journal[i].row = row, row.part = 0,
         journal[i].lines = AsPurchase(row).lines, journal[i].reversedBy = 0
  PROVE  Live(i) /\ OfRow(row) = {i}
<1>1. i \in OfRow(row)
  BY DEF OfRow
<1>2. CASE \E k \in DOMAIN journal : Live(k) /\ OfRow(row) = {k}
  BY <1>1, <1>2
<1>3. CASE \E k, j \in DOMAIN journal : Corrects(k, j, row)
  <2>1. PICK k \in DOMAIN journal, j \in DOMAIN journal : Corrects(k, j, row)
    BY <1>3
  <2>2. i # k /\ i # j + 1
    BY <2>1 DEF Corrects
  <2>3. i = j
    BY <1>1, <2>1, <2>2 DEF Corrects
  <2>4. Mirrors(j, k)
    BY <2>1 DEF LInv, LReversed, Corrects
  <2>5. journal[k] \in EntryT /\ EntryOK(journal[k])
    BY <2>1 DEF LInv, LType, LSound
  <2>6. CashIn(journal[i].lines) = -CashIn(journal[k].lines)
    BY <2>3, <2>4, <2>5, MirrorIsNew DEF Mirrors
  <2>7. journal[k].lines = journal[i].lines
    BY <2>1 DEF Corrects
  <2>8. CashIn(journal[i].lines) = -Magnitude(row)
    <3>1. AsPurchase(row).lines = Purchase(row, "cogs_purchase").lines
      BY DEF AsPurchase, Entry
    <3> QED  BY <3>1, PurchaseIs
  <2>9. row.amount \in Int /\ row.amount # 0 /\ Magnitude(row) \in Int
    <3>1. row # NULL
      BY LedgerAssumption
    <3> QED  BY <3>1, RowTyped, MagnitudeIs DEF LInv, LCash
  <2>10. Magnitude(row) # 0
    BY <2>9, MagnitudeIs
  <2>b. PICK m : m = Magnitude(row)
    OBVIOUS
  <2>c. PICK x : x = CashIn(journal[i].lines)
    OBVIOUS
  <2>11. m \in Int /\ m # 0 /\ x = -m /\ x = -x
    BY <2>6, <2>7, <2>8, <2>9, <2>10, <2>b, <2>c
  <2> QED  BY ONLY <2>11
<1> QED  BY <1>1, <1>2, <1>3 DEF LInv, LEntries

LEMMA CorrectEntryKeeps ==
  ASSUME LInv, NEW i \in DOMAIN journal, NEW c \in Corrected, CorrectEntry(i, c)
  PROVE  LInv'
<1>0. LType /\ LSound /\ LReversed /\ LCash /\ LEntries /\ LOpen /\ LSales
  BY DEF LInv
<1>a. PICK row : row = journal[i].row
  OBVIOUS
<1>b. PICK q : q = Posted(row, c)
  OBVIOUS
<1>c. PICK p : p = journal[i].period
  OBVIOUS
<1>d. PICK e : e = Entry(q, p, row, NULL)
  OBVIOUS
<1>1. /\ row # NULL /\ row.part = 0 /\ journal[i].lines = AsPurchase(row).lines /\ journal[i].reversedBy = 0
      /\ Bookable(row, c) /\ RoomToCorrect /\ Reverses(i, <<e>>)
      /\ sales' = sales /\ openings' = openings /\ converting' = converting
  BY <1>a, <1>b, <1>c, <1>d DEF CorrectEntry
<1>2. journal[i] \in EntryT /\ row \in BankRow /\ p \in Period /\ journal[i].source \in RowSource
  <2>1. journal[i] \in EntryT
    BY <1>0 DEF LType
  <2> QED  BY <1>0, <1>1, <1>a, <1>c, <2>1 DEF EntryT, LCash
<1>3. Live(i) /\ OfRow(row) = {i}
  BY <1>1, <1>2, <1>a, OnlyPurchase
<1>4. RowPosting(row, q) /\ q.lines[1].account # Single("COGS") /\ Insertable(q)
  <2>1. c \in Category
    BY DEF Corrected, Category, Outflow, Inflow, PurchaseCategory, ExpenseOf
  <2> QED  BY <1>1, <1>2, <1>b, <2>1, PostedIs DEF Bookable
<1>5. /\ NewEntry(e) /\ e.source = q.source /\ e.lines = q.lines /\ e.row = row
  <2>1. Sound(q) /\ row \in BankRow \cup {NULL} /\ NULL \in WalletGroup \cup {NULL}
    BY <1>2, <1>4 DEF RowPosting
  <2> QED  BY <1>2, <1>4, <1>d, <2>1, EntryIsNew
<1>6. MovesFor(e) /\ e.source \in RowSource
  BY <1>2, <1>4, <1>5, PostingMoves
<1>7. e.lines # AsPurchase(row).lines
  <2>1. AsPurchase(row).lines = Purchase(row, "cogs_purchase").lines
    BY DEF AsPurchase, Entry
  <2>2. AsPurchase(row).lines[1].account = Single("COGS")
    BY <1>1, <1>2, <2>1, PurchaseIs
  <2> QED  BY <1>4, <1>5, <2>2
<1>8. Swapped(i, e) /\ Len(journal) <= Len(journal')
  BY <1>0, <1>1, <1>3, <1>5, ReversesSwaps
<1>9. LCash' /\ LEntries'
  BY <1>0, <1>1, <1>2, <1>3, <1>5, <1>6, <1>7, <1>8, SwappedRow
<1>10. LReversed' /\ LSound'
  BY <1>0, <1>8, SwappedKeeps
<1>11. \A s \in RowSource : s # "opening_balance" /\ s # "consignment_sale"
  BY DEF RowSource
<1>12. LOpen'
  BY <1>0, <1>1, <1>2, <1>6, <1>8, <1>11, SwappedOpen
<1>13. LSales'
  BY <1>0, <1>1, <1>2, <1>6, <1>8, <1>11, SwappedSales
<1>14. LType'
  BY <1>0, <1>1, <1>8, StepType DEF Swapped
<1> QED  BY <1>9, <1>10, <1>12, <1>13, <1>14 DEF LInv

\* A step on one sale that is not posted.
LEMMA SaleStep ==
  ASSUME LInv, NEW s \in Sale, NEW x \in SaleT, sales' = [sales EXCEPT ![s] = x], x.entry = 0,
         sales[s].entry = 0, x.reimbursed = sales[s].reimbursed, x.status # "absent" => x.terms \in Terms,
         journal' = journal, openings' = openings, converting' = converting
  PROVE  LInv'
<1>1. sales \in [Sale -> SaleT] /\ sales[s] \in SaleT /\ sales[s].reimbursed <= Len(journal) /\ Len(journal) \in Nat
  BY DEF LInv, LType
<1>2. \A t \in Sale : sales'[t] = IF t = s THEN x ELSE sales[t]
  BY <1>1
<1>3. SalesKept
  BY <1>2 DEF SalesKept
<1>4. x.entry <= Len(journal') /\ x.reimbursed <= Len(journal')
  BY <1>1
<1> QED  BY <1>3, <1>4, TablesKeep

LEMMA CreateKeeps ==
  ASSUME LInv, NEW s \in Sale, NEW t \in Terms, CreateSale(s, t)
  PROVE  LInv'
<1>1. sales \in [Sale -> SaleT] /\ sales[s] \in SaleT
  BY DEF LInv, LType
<1>a. PICK x : x = [sales[s] EXCEPT !.status = "created", !.terms = t]
  OBVIOUS
<1>2. /\ x \in SaleT /\ x.entry = sales[s].entry /\ x.reimbursed = sales[s].reimbursed /\ x.terms = t
  BY <1>1, <1>a DEF SaleT
<1>3. /\ sales' = [sales EXCEPT ![s].status = "created", ![s].terms = t]
      /\ journal' = journal /\ openings' = openings /\ converting' = converting
  BY DEF CreateSale
<1>4. sales' = [sales EXCEPT ![s] = x]
  BY <1>1, <1>3, <1>a
<1>5. sales[s].entry = 0
  BY DEF LInv, LSales, CreateSale
<1> QED  BY <1>2, <1>3, <1>4, <1>5, SaleStep

LEMMA ConfirmKeeps ==
  ASSUME LInv, NEW s \in Sale, ConfirmSale(s)
  PROVE  LInv'
<1>1. sales \in [Sale -> SaleT] /\ sales[s] \in SaleT /\ sales[s].terms \in Terms
  BY DEF LInv, LType, ConfirmSale
<1>a. PICK x : x = [sales[s] EXCEPT !.status = "confirmed"]
  OBVIOUS
<1>2. /\ x \in SaleT /\ x.entry = sales[s].entry /\ x.reimbursed = sales[s].reimbursed /\ x.terms = sales[s].terms
  BY <1>1, <1>a DEF SaleT
<1>3. /\ sales' = [sales EXCEPT ![s].status = "confirmed"]
      /\ journal' = journal /\ openings' = openings /\ converting' = converting
  BY DEF ConfirmSale
<1>4. sales' = [sales EXCEPT ![s] = x]
  BY <1>1, <1>3, <1>a
<1>5. sales[s].entry = 0
  BY DEF LInv, LSales, ConfirmSale
<1> QED  BY <1>1, <1>2, <1>3, <1>4, <1>5, SaleStep

LEMMA PostSaleKeeps ==
  ASSUME LInv, NEW s \in Sale, NEW a \in EbayAccount, NEW o \in Order, NEW d \in Sold, NEW p \in Period,
         PostSale(s, a, o, d, p)
  PROVE  LInv'
<1>0. LType /\ LSound /\ LReversed /\ LCash /\ LEntries /\ LOpen /\ LSales
  BY DEF LInv
<1>a. PICK t : t = sales[s].terms
  OBVIOUS
<1>b. PICK q : q = ConsignmentSale(t.model, a, d.gross, d.fee, d.rate, t.payout, o, t.ref)
  OBVIOUS
<1>1. /\ sales[s].status = "confirmed" /\ sales[s].entry = 0 /\ Insert(q, p, NULL, NULL)
      /\ sales' = [sales EXCEPT ![s].entry = Len(journal) + 1] /\ openings' = openings /\ converting' = converting
  BY <1>a, <1>b DEF PostSale, MayPost, Next1
<1>2. t \in Terms /\ sales[s] \in SaleT /\ sales \in [Sale -> SaleT] /\ sales[s].reimbursed <= Len(journal)
  BY <1>0, <1>1, <1>a DEF LType
<1>3. Sound(q) /\ q.source = "consignment_sale" /\ Consigns(q.lines, t.payout, t.ref)
  BY <1>2, <1>b, Tables, ConsignmentShape
<1>c. PICK e : e = journal'[Len(journal')]
  OBVIOUS
<1>4. /\ Grown /\ Len(journal') = Len(journal) + 1 /\ e.source = q.source /\ e.lines = q.lines /\ e.row = NULL
      /\ \A k \in 1..Len(journal') : k > Len(journal) => k = Len(journal')
  <2>1. NULL \in BankRow \cup {NULL} /\ NULL \in WalletGroup \cup {NULL}
    OBVIOUS
  <2> QED  BY <1>0, <1>1, <1>3, <1>c, <2>1, Inserted
<1>5. LReversed' /\ LSound'
  BY <1>0, <1>4, GrownKeeps
<1>6. LCash' /\ LEntries'
  BY <1>0, <1>4, <1>c, GrownRows
<1>7. LOpen'
  <2>1. e.source # "opening_balance"
    BY <1>3, <1>4
  <2> QED  BY <1>0, <1>1, <1>4, <1>c, <2>1, GrownOpen
<1>8. LSales'
  BY <1>0, <1>1, <1>3, <1>4, <1>a, <1>c, GrownSale
<1>9. LType'
  <2>a. PICK x : x = [sales[s] EXCEPT !.entry = Len(journal) + 1]
    OBVIOUS
  <2>1. Len(journal) \in Nat
    BY <1>0 DEF LType
  <2>2. /\ x \in SaleT /\ x.terms \in Terms /\ x.entry = Len(journal) + 1
        /\ x.reimbursed = sales[s].reimbursed /\ x.reimbursed \in Nat
    BY <1>2, <1>a, <2>1, <2>a DEF SaleT
  <2>3. sales' = [sales EXCEPT ![s] = x]
    BY <1>1, <1>2, <2>a
  <2>4. x.entry <= Len(journal') /\ x.reimbursed <= Len(journal') /\ Len(journal) <= Len(journal')
    BY <1>2, <1>4, <2>1, <2>2
  <2>5. journal' \in Seq(EntryT) /\ Len(journal') <= MaxEntries + 2
    BY <1>4 DEF Grown
  <2> QED  BY <1>0, <1>1, <2>2, <2>3, <2>4, <2>5, StepType
<1> QED  BY <1>5, <1>6, <1>7, <1>8, <1>9 DEF LInv

LEMMA OpenKeeps ==
  ASSUME LInv, NEW a \in OpenAccount, NEW x \in Opened, NEW p \in Period, OpenBalance(a, x, p)
  PROVE  LInv'
<1>0. LType /\ LSound /\ LReversed /\ LCash /\ LEntries /\ LOpen /\ LSales
  BY DEF LInv
<1>a. PICK q : q = OpeningBalance(a, x)
  OBVIOUS
<1>1. /\ openings[a] = 0 /\ Insert(q, p, NULL, NULL)
      /\ openings' = [openings EXCEPT ![a] = Len(journal) + 1] /\ sales' = sales /\ converting' = converting
  BY <1>a DEF OpenBalance, Next1
<1>2. Sound(q) /\ q.source = "opening_balance" /\ q.lines[1].account = a
  <2>1. a \in CashAccount /\ x \in Int
    BY LedgerAssumption
  <2> QED  BY <1>a, <2>1, OpeningSound
<1>c. PICK e : e = journal'[Len(journal')]
  OBVIOUS
<1>4. /\ Grown /\ Len(journal') = Len(journal) + 1 /\ e.source = q.source /\ e.lines = q.lines /\ e.row = NULL
      /\ \A k \in 1..Len(journal') : k > Len(journal) => k = Len(journal')
  <2>1. NULL \in BankRow \cup {NULL} /\ NULL \in WalletGroup \cup {NULL}
    OBVIOUS
  <2> QED  BY <1>0, <1>1, <1>2, <1>c, <2>1, Inserted
<1>5. LReversed' /\ LSound'
  BY <1>0, <1>4, GrownKeeps
<1>6. LCash' /\ LEntries'
  BY <1>0, <1>4, <1>c, GrownRows
<1>7. LOpen'
  BY <1>0, <1>1, <1>2, <1>4, <1>c, GrownOpening
<1>8. LSales'
  <2>1. e.source # "consignment_sale" /\ SalesKept
    BY <1>1, <1>2, <1>4 DEF SalesKept
  <2> QED  BY <1>0, <1>4, <1>c, <2>1, GrownSales
<1>9. LType'
  <2>1. Len(journal) + 1 \in Nat /\ Len(journal) + 1 <= Len(journal') /\ Len(journal) <= Len(journal')
    BY <1>0, <1>4 DEF LType
  <2>2. journal' \in Seq(EntryT) /\ Len(journal') <= MaxEntries + 2
    BY <1>4 DEF Grown
  <2> QED  BY <1>0, <1>1, <2>1, <2>2, StepType
<1> QED  BY <1>5, <1>6, <1>7, <1>8, <1>9 DEF LInv

LEMMA CorrectOpeningKeeps ==
  ASSUME LInv, NEW a \in OpenAccount, NEW x \in Opened, NEW p \in Period, CorrectOpening(a, x, p)
  PROVE  LInv'
<1>0. LType /\ LSound /\ LReversed /\ LCash /\ LEntries /\ LOpen /\ LSales
  BY DEF LInv
<1>a. PICK q : q = OpeningBalance(a, x)
  OBVIOUS
<1>b. PICK e : e = Entry(q, p, NULL, NULL)
  OBVIOUS
<1>c. PICK i : i = openings[a]
  OBVIOUS
<1>1. /\ i # 0 /\ RoomToCorrect /\ Insertable(q) /\ Reverses(i, <<e>>)
      /\ openings' = [openings EXCEPT ![a] = Len(journal) + 2] /\ sales' = sales /\ converting' = converting
  <2>1. Len(journal) \in Nat
    BY <1>0 DEF LType
  <2>2. (Len(journal) + 1) + 1 = Len(journal) + 2
    BY <2>1
  <2> QED  BY <1>a, <1>b, <1>c, <2>2 DEF CorrectOpening, Reopening, Next1
<1>2. Sound(q) /\ q.source = "opening_balance" /\ q.lines[1].account = a
  <2>1. a \in CashAccount /\ x \in Int
    BY LedgerAssumption
  <2> QED  BY <1>a, <2>1, OpeningSound
<1>3. NewEntry(e) /\ e.source = "opening_balance" /\ e.lines = q.lines /\ e.row = NULL
  <2>1. NULL \in BankRow \cup {NULL} /\ NULL \in WalletGroup \cup {NULL}
    OBVIOUS
  <2>2. Insertable(q) /\ Sound(q)
    BY <1>1, <1>2
  <2>3. NewEntry(e) /\ e.source = q.source /\ e.lines = q.lines /\ e.row = NULL
    BY <1>b, <2>1, <2>2, EntryIsNew
  <2> QED  BY <1>2, <2>3
<1>4. Live(i) /\ journal[i].source = "opening_balance" /\ i \in DOMAIN journal
  <2>1. i \in DOMAIN journal
    BY <1>0, <1>1, <1>c DEF LType
  <2> QED  BY <1>0, <1>c, <2>1 DEF LOpen, Opens
<1>5. Swapped(i, e) /\ Len(journal) <= Len(journal')
  BY <1>0, <1>1, <1>3, <1>4, ReversesSwaps
<1>6. journal[i].row = NULL
  <2>1. journal[i].source \notin RowSource
    BY <1>4 DEF RowSource
  <2> QED  BY <1>0, <1>4, <2>1 DEF LCash
<1>7. LReversed' /\ LSound'
  BY <1>0, <1>5, SwappedKeeps
<1>8. LCash' /\ LEntries'
  BY <1>0, <1>3, <1>5, <1>6, SwappedRows
<1>9. LOpen'
  BY <1>0, <1>1, <1>2, <1>3, <1>5, <1>c, SwappedOpening
<1>10. LSales'
  <2>1. journal[i].source # "consignment_sale" /\ e.source # "consignment_sale"
    BY <1>3, <1>4
  <2> QED  BY <1>0, <1>1, <1>5, <2>1, SwappedSales
<1>11. LType'
  <2>1. Len(journal) + 2 \in Nat /\ Len(journal) + 2 <= Len(journal')
    BY <1>0, <1>5 DEF LType, Swapped
  <2>2. journal' \in Seq(EntryT) /\ Len(journal') <= MaxEntries + 2
    BY <1>5 DEF Swapped
  <2> QED  BY <1>0, <1>1, <1>5, <2>1, <2>2, StepType
<1> QED  BY <1>7, <1>8, <1>9, <1>10, <1>11 DEF LInv

\* The first entry there may be, an inflow booked as a purchase, is sound.
LEMMA FirstEntry ==
  ASSUME NEW row \in BankRow, row.amount > 0, row.part = 0, NEW e, e = AsPurchase(row)
  PROVE  /\ NewEntry(e) /\ e.row = row /\ e.source \in RowSource /\ row.amount # 0 /\ MovesFor(e)
<1>a. PICK q : q = Purchase(row, "cogs_purchase")
  OBVIOUS
<1>b. PICK m : m = Magnitude(row)
  OBVIOUS
<1>1. /\ Sound(q) /\ q.source \in RowSource /\ q.source # "inter_account_transfer" /\ CashIn(q.lines) = -m
      /\ q.lines = Move(Single("COGS"), PayingAccount(row), m)
  BY <1>a, <1>b, PurchaseIs
<1>2. row.amount \in Int /\ row.amount >= 0 /\ row.month \in Period /\ row \in BankRow \cup {NULL}
      /\ NULL \in WalletGroup \cup {NULL} /\ row.amount # 0
  <2>1. row.amount \in Int
    BY RowTyped
  <2> QED  BY <2>1, Tables
<1>3. m = row.amount /\ m \in Int /\ m > 0
  BY <1>2, <1>b, MagnitudeIs
<1>4. Insertable(q)
  <2>1. Accepted(q.lines)
    BY <1>1, <1>3, MoveAccepted
  <2> QED  BY <1>1, <2>1 DEF Insertable, TransferAllowed
<1>5. e = Entry(q, row.month, row, NULL)
  BY <1>a DEF AsPurchase
<1>6. NewEntry(e) /\ e.source = q.source /\ e.lines = q.lines /\ e.row = row
  BY <1>1, <1>2, <1>4, <1>5, EntryIsNew
<1>7. MovesFor(e)
  <2>1. e.source # "inter_account_transfer" /\ CashIn(e.lines) = -e.row.amount
    BY <1>1, <1>3, <1>6
  <2>2. Flipped(e)
    <3>1. e.row # NULL
      BY <1>6, LedgerAssumption
    <3> QED  BY <1>6, <3>1 DEF Flipped
  <2> QED  BY <2>1, <2>2 DEF MovesFor
<1> QED  BY <1>1, <1>2, <1>6, <1>7

LEMMA InitInv ==
  ASSUME Init
  PROVE  LInv
<1>1. /\ sales = [s \in Sale |-> NoSale] /\ openings = [a \in OpenAccount |-> 0]
      /\ converting = [q \in Request |-> NULL]
  BY DEF Init
<1>2. NoSale \in SaleT /\ NoSale.status = "absent" /\ NoSale.entry = 0 /\ NoSale.reimbursed = 0
  BY DEF NoSale, SaleT
<1>3. ASSUME journal \in Seq(EntryT), Len(journal) = 0 \/ Len(journal) = 1
      PROVE  LType
  <2>1. Len(journal) \in Nat /\ Len(journal) <= MaxEntries + 2
    <3>1. MaxEntries \in Nat
      BY LedgerAssumption
    <3>2. Len(journal) \in Nat /\ Len(journal) <= 1
      <4>1. CASE Len(journal) = 0
        BY <4>1
      <4>2. CASE Len(journal) = 1
        BY <4>2
      <4> QED  BY <1>3, <4>1, <4>2
    <3> QED  BY <3>1, <3>2
  <2>2. /\ sales \in [Sale -> SaleT]
        /\ \A s \in Sale : sales[s].status = "absent" /\ sales[s].entry = 0 /\ sales[s].reimbursed = 0
    BY <1>1, <1>2
  <2>3. openings \in [OpenAccount -> Nat] /\ \A a \in OpenAccount : openings[a] = 0
    BY <1>1
  <2>4. converting \in [Request -> ConversionT \cup {NULL}]
    BY <1>1
  <2>5. 0 <= Len(journal)
    BY <2>1
  <2> QED  BY <1>3, <2>1, <2>2, <2>3, <2>4, <2>5 DEF LType, ConversionT
<1>4. CASE journal = <<>>
  <2>1. LType /\ DOMAIN journal = {}
    BY <1>3, <1>4
  <2>2. LSound /\ LReversed /\ LCash /\ LEntries
    BY <2>1 DEF LSound, LReversed, LCash, LEntries, OfRow
  <2>3. LOpen /\ LSales
    BY <1>1, <1>2, <2>1 DEF LOpen, LSales
  <2> QED  BY <2>1, <2>2, <2>3 DEF LInv
<1>5. CASE \E row \in BankRow : row.amount > 0 /\ row.part = 0 /\ journal = <<AsPurchase(row)>>
  <2>1. PICK row \in BankRow : row.amount > 0 /\ row.part = 0 /\ journal = <<AsPurchase(row)>>
    BY <1>5
  <2>a. PICK e : e = AsPurchase(row)
    OBVIOUS
  <2>2. NewEntry(e) /\ e.row = row /\ e.source \in RowSource /\ row.amount # 0 /\ MovesFor(e)
    BY <2>1, <2>a, FirstEntry
  <2>3. e \in EntryT /\ EntryOK(e) /\ e.reversedBy = 0
    BY <2>2 DEF NewEntry
  <2>4. /\ journal = <<e>> /\ DOMAIN journal = {1} /\ journal[1] = e /\ journal \in Seq(EntryT)
        /\ Len(journal) = 1
    BY <2>1, <2>3, <2>a
  <2>5. LType
    BY <1>3, <2>4
  <2>6. LSound /\ LReversed /\ Live(1)
    BY <2>3, <2>4 DEF LSound, LReversed, Live
  <2>7. LCash
    BY <2>2, <2>4 DEF LCash
  <2>8. LEntries
    <3>1. \A r \in BankRow : OfRow(r) # {} => OfRow(r) = {1}
      BY <2>4 DEF OfRow
    <3> QED  BY <2>4, <2>6, <3>1 DEF LEntries
  <2>9. e.source # "opening_balance" /\ e.source # "consignment_sale"
    BY <2>2 DEF RowSource
  <2>10. LOpen
    BY <1>1, <2>4, <2>9 DEF LOpen, Opens
  <2>11. LSales
    BY <1>1, <1>2, <2>4, <2>9 DEF LSales
  <2> QED  BY <2>5, <2>6, <2>7, <2>8, <2>10, <2>11 DEF LInv
<1> QED  BY <1>4, <1>5 DEF Init

LEMMA NextInv ==
  ASSUME LInv, [Next]_vars
  PROVE  LInv'
<1>1. CASE UNCHANGED vars
  <2>1. journal' = journal /\ sales' = sales /\ openings' = openings /\ converting' = converting /\ SalesKept
    BY <1>1 DEF vars, SalesKept
  <2> QED  BY <2>1, TablesKeep
<1>2. CASE Reported
  BY <1>2, SellKeeps, RefundKeeps, FeeKeeps, PayoutKeeps, WithdrawKeeps, RevalueKeeps DEF Reported
<1>3. CASE Queued
  BY <1>3, BookRowKeeps, CorrectEntryKeeps DEF Queued
<1>4. CASE Consigned
  BY <1>4, CreateKeeps, ConfirmKeeps, PostSaleKeeps DEF Consigned
<1>5. CASE Balances
  BY <1>5, OpenKeeps, CorrectOpeningKeeps DEF Balances
<1>6. CASE Conversions
  BY <1>6, StartKeeps, FinishKeeps DEF Conversions
<1> QED  BY <1>1, <1>2, <1>3, <1>4, <1>5, <1>6 DEF Next

-----------------------------------------------------------------------------
(* What the invariant says of the books.                                     *)

LEMMA Sane ==
  ASSUME LInv
  PROVE  /\ JournalOK /\ Len(journal) \in Nat /\ DOMAIN journal = 1..Len(journal)
         /\ \A i \in DOMAIN journal : journal[i] \in EntryT /\ EntryOK(journal[i])
<1>1. Len(journal) \in Nat /\ DOMAIN journal = 1..Len(journal)
      /\ \A i \in DOMAIN journal : journal[i] \in EntryT
  BY DEF LInv, LType
<1> QED  BY <1>1 DEF JournalOK, LInv, LSound

LEMMA TypeOKHolds ==
  ASSUME LInv
  PROVE  TypeOK
<1>1. LType /\ LReversed
  BY DEF LInv
<1>2. Len(journal) <= MaxEntries + 2
  BY <1>1 DEF LType
<1>3. ASSUME NEW i \in DOMAIN journal
      PROVE  /\ journal[i].period \in Period /\ journal[i].row \in BankRow \cup {NULL}
             /\ journal[i].reversedBy \in 0 .. Len(journal)
             /\ \A j \in DOMAIN journal[i].lines : journal[i].lines[j].account \in Account
  <2>1. journal[i] \in EntryT /\ Len(journal) \in Nat /\ journal[i].reversedBy \in Nat
        /\ journal[i].reversedBy <= Len(journal)
    BY <1>1, Links
  <2>2. journal[i].lines \in Seq(LineT)
    BY <2>1 DEF EntryT
  <2>3. \A j \in DOMAIN journal[i].lines : journal[i].lines[j] \in LineT
    BY <2>2
  <2>4. \A l \in LineT : l.account \in Account
    BY DEF LineT, Line
  <2>5. journal[i].period \in Period /\ journal[i].row \in BankRow \cup {NULL}
    BY <2>1 DEF EntryT
  <2> QED  BY <2>1, <2>3, <2>4, <2>5
<1>4. ASSUME NEW s \in Sale
      PROVE  /\ sales[s].terms \in Terms \cup {NULL} /\ sales[s].status \in {"absent", "created", "confirmed"}
             /\ {sales[s].entry, sales[s].reimbursed} \subseteq 0 .. Len(journal)
  <2>1. /\ sales[s] \in SaleT /\ sales[s].entry <= Len(journal) /\ sales[s].reimbursed <= Len(journal)
        /\ Len(journal) \in Nat
    BY <1>1 DEF LType
  <2>2. sales[s].entry \in Nat /\ sales[s].reimbursed \in Nat
        /\ sales[s].terms \in Terms \cup {NULL} /\ sales[s].status \in {"absent", "created", "confirmed"}
    BY <2>1 DEF SaleT
  <2> QED  BY <2>1, <2>2
<1>5. openings \in [OpenAccount -> 0 .. Len(journal)]
  <2>1. openings \in [OpenAccount -> Nat] /\ \A a \in OpenAccount : openings[a] <= Len(journal)
        /\ Len(journal) \in Nat
    BY <1>1 DEF LType
  <2>2. \A a \in OpenAccount : openings[a] \in 0 .. Len(journal)
    BY <2>1
  <2> QED  BY <2>1, <2>2
<1> QED  BY <1>2, <1>3, <1>4, <1>5 DEF TypeOK

\* The entries in force are those the statements of the properties name.
LEMMA LiveIs ==
  ASSUME LInv, NEW i \in DOMAIN journal
  PROVE  Live(i) <=> journal[i].reversedBy = 0 /\ i \notin Reversals
<1>1. i # 0
  BY Sane
<1> QED  BY <1>1 DEF Live, Reversals

LEMMA OneOpeningHolds ==
  ASSUME LInv
  PROVE  OneOpeningInForce
<1>1. SUFFICES ASSUME NEW a \in OpenAccount
               PROVE  {i \in DOMAIN journal : /\ journal[i].source = "opening_balance"
                                              /\ journal[i].lines[1].account = a
                                              /\ journal[i].reversedBy = 0
                                              /\ i \notin Reversals} = {openings[a]} \ {0}
  BY DEF OneOpeningInForce
<1>2. \A i \in DOMAIN journal : openings[a] = i <=>
         /\ journal[i].source = "opening_balance" /\ journal[i].lines[1].account = a
         /\ journal[i].reversedBy = 0 /\ i \notin Reversals
  BY LiveIs DEF LInv, LOpen, Opens
<1>3. openings[a] # 0 => openings[a] \in DOMAIN journal
  BY Sane DEF LInv, LType
<1>4. 0 \notin DOMAIN journal
  BY Sane
<1> QED  BY <1>2, <1>3, <1>4

\* The rows of one place of an entry, and of the whole, that move cash.
LEMMA RowCash ==
  ASSUME JournalOK, NEW i \in DOMAIN journal, NEW k \in 1..MaxLines
  PROVE  LET S == {r \in Rows : r[1] = i /\ r[2] = k /\ Code(r) \in CashCode} IN
         /\ S \in SUBSET Rows
         /\ Debits(S) = CashAt(journal[i].lines, k) /\ CashAt(journal[i].lines, k) \in Int
<1> DEFINE S == {r \in Rows : r[1] = i /\ r[2] = k /\ Code(r) \in CashCode}
           s == journal[i].lines
           r == <<i, k>>
<1>1. CASE k \in DOMAIN s /\ s[k].account[1] \in CashCode
  <2>1. r \in Rows
    BY <1>1 DEF Rows
  <2>2. Code(r) = s[k].account[1]
    BY DEF Code, LineOf
  <2>3. S = {r}
    <3>1. ASSUME NEW x \in S PROVE x = r
      BY RowIs
    <3> QED  BY <1>1, <2>1, <2>2, <3>1
  <2>4. Amount[r] = s[k].debit - s[k].credit /\ Amount[r] \in Int
    BY <2>1, RowIs DEF LineOf
  <2>5. S \in SUBSET Rows
    OBVIOUS
  <2>6. CashAt(s, k) = s[k].debit - s[k].credit
    BY <1>1 DEF CashAt
  <2> HIDE DEF S, r, s
  <2>7. Debits(S) = Total(Amount, {r})
    BY <2>3, <2>5, DebitsAre
  <2>8. Total(Amount, {r}) = Amount[r]
    BY <2>4, TotalSingle
  <2> QED  BY <2>4, <2>5, <2>6, <2>7, <2>8 DEF S, s
<1>2. CASE ~(k \in DOMAIN s /\ s[k].account[1] \in CashCode)
  <2>1. S = {}
    <3>1. ASSUME NEW x \in S PROVE FALSE
      <4>1. x[1] = i /\ x[2] = k /\ x = <<x[1], x[2]>> /\ x[2] \in DOMAIN journal[x[1]].lines
            /\ Code(x) \in CashCode
        BY RowIs
      <4>2. Code(x) = s[k].account[1]
        BY <4>1 DEF Code, LineOf
      <4> QED  BY <1>2, <4>1, <4>2
    <3> QED  BY <3>1
  <2>2. CashAt(s, k) = 0
    BY <1>2 DEF CashAt
  <2>3. Debits(S) = 0
    <3> HIDE DEF S
    <3> QED  BY <2>1, NoRowsNoDebits
  <2> QED  BY <2>1, <2>2, <2>3
<1> QED  BY <1>1, <1>2

LEMMA EntryCash ==
  ASSUME JournalOK, NEW i \in DOMAIN journal
  PROVE  Debits(OfCodes(EntryRows({i}), CashCode)) = CashIn(journal[i].lines)
         /\ CashIn(journal[i].lines) \in Int
<1> DEFINE S(k) == {r \in Rows : r[1] = i /\ r[2] = k /\ Code(r) \in CashCode}
           C(k) == CashAt(journal[i].lines, k)
<1>1. \A k \in 1..5 : S(k) \in SUBSET Rows /\ Debits(S(k)) = C(k) /\ C(k) \in Int
  <2>1. ASSUME NEW k \in 1..5
        PROVE  S(k) \in SUBSET Rows /\ Debits(S(k)) = C(k) /\ C(k) \in Int
    <3>1. k \in 1..MaxLines
      BY DEF MaxLines
    <3> QED  BY <3>1, RowCash
  <2> QED  BY <2>1
<1>2. \A k, l \in 1..5 : k # l => S(k) \cap S(l) = {}
  OBVIOUS
<1>3. OfCodes(EntryRows({i}), CashCode) = (((S(1) \cup S(2)) \cup S(3)) \cup S(4)) \cup S(5)
  <2>1. \A r \in Rows : r[1] = i => r[2] \in 1..5
    <3>1. ASSUME NEW r \in Rows, r[1] = i PROVE r[2] \in 1..5
      <4>1. EntryOK(journal[i]) /\ r[2] \in DOMAIN journal[i].lines
        BY <3>1, RowIs
      <4>2. PICK n \in 0..MaxLines : DOMAIN journal[i].lines = 1..n
        BY <4>1 DEF EntryOK
      <4> QED  BY <4>1, <4>2 DEF MaxLines
    <3> QED  BY <3>1
  <2>2. \A x \in 1..5 : x = 1 \/ x = 2 \/ x = 3 \/ x = 4 \/ x = 5
    OBVIOUS
  <2> QED  BY <2>1, <2>2 DEF EntryRows, OfCodes
<1> DEFINE u == S(1) v == S(2) w == S(3) x == S(4) y == S(5)
<1>6. /\ u \in SUBSET Rows /\ v \in SUBSET Rows /\ w \in SUBSET Rows /\ x \in SUBSET Rows /\ y \in SUBSET Rows
      /\ u \cap v = {} /\ (u \cup v) \cap w = {} /\ ((u \cup v) \cup w) \cap x = {}
      /\ (((u \cup v) \cup w) \cup x) \cap y = {}
  BY <1>2
<1>7. /\ Debits(u) = C(1) /\ Debits(v) = C(2) /\ Debits(w) = C(3) /\ Debits(x) = C(4) /\ Debits(y) = C(5)
      /\ C(1) \in Int /\ C(2) \in Int /\ C(3) \in Int /\ C(4) \in Int /\ C(5) \in Int
  <2> HIDE DEF S, C
  <2> QED  BY <1>1
<1>8. OfCodes(EntryRows({i}), CashCode) = (((u \cup v) \cup w) \cup x) \cup y
  BY <1>3
<1>0. CashIn(journal[i].lines) = C(1) + C(2) + C(3) + C(4) + C(5)
  BY DEF CashIn
<1> HIDE DEF S, C, u, v, w, x, y
<1>9. Debits(u \cup v) = Debits(u) + Debits(v)
  BY <1>6, DebitsUnion
<1>10. Debits((u \cup v) \cup w) = Debits(u \cup v) + Debits(w)
  BY <1>6, DebitsUnion
<1>11. Debits(((u \cup v) \cup w) \cup x) = Debits((u \cup v) \cup w) + Debits(x)
  BY <1>6, DebitsUnion
<1>12. Debits((((u \cup v) \cup w) \cup x) \cup y) = Debits(((u \cup v) \cup w) \cup x) + Debits(y)
  BY <1>6, DebitsUnion
<1>13. Debits(OfCodes(EntryRows({i}), CashCode)) = C(1) + C(2) + C(3) + C(4) + C(5)
  BY <1>7, <1>8, <1>9, <1>10, <1>11, <1>12
<1>14. C(1) + C(2) + C(3) + C(4) + C(5) \in Int
  BY <1>7
<1> QED  BY <1>0, <1>13, <1>14


-----------------------------------------------------------------------------
(* The properties of the books.                                              *)

LEMMA ReversedTwice ==
  ASSUME LInv, NEW i \in DOMAIN journal, NEW j, j = journal[i].reversedBy, j # 0
  PROVE  /\ Mirrors(j, i) /\ j \in DOMAIN journal /\ j # i
         /\ \A k \in DOMAIN journal : journal[k].reversedBy = j => k = i
<1>1. PICK m \in DOMAIN journal :
         Mirrors(m, i) /\ \A k \in DOMAIN journal : journal[k].reversedBy = m <=> k = i
  BY DEF LInv, LReversed
<1>2. m = j
  BY <1>1
<1> QED  BY <1>1, <1>2 DEF Mirrors

\* An entry and its reversal show the same accounts, with the sides exchanged.
LEMMA MirrorLines ==
  ASSUME LInv, NEW i \in DOMAIN journal, NEW j, j = journal[i].reversedBy, j # 0
  PROVE  LET s == journal[i].lines  t == journal[j].lines
         IN  /\ DOMAIN t = DOMAIN s /\ CashIn(t) = -CashIn(s)
             /\ \A k \in DOMAIN s : /\ t[k].account = s[k].account
                                    /\ t[k].debit = s[k].credit /\ t[k].credit = s[k].debit
<1>1. PICK e : e = journal[i]
  OBVIOUS
<1>2. e \in EntryT /\ EntryOK(e)
  BY <1>1, Sane
<1>3. journal[j].lines = Mirror(e).lines
  <2>1. journal[j].lines = Reversal(e).lines
    BY <1>1, ReversedTwice DEF Mirrors
  <2>2. Mirror(e).lines = Reversal(e).lines
    BY <1>2, MirrorIsNew
  <2> QED  BY <2>1, <2>2
<1>4. PICK t : t = journal[j].lines
  OBVIOUS
<1>5. /\ DOMAIN t = DOMAIN e.lines /\ CashIn(t) = -CashIn(e.lines)
      /\ \A k \in DOMAIN e.lines : /\ t[k].account = e.lines[k].account
                                   /\ t[k].debit = e.lines[k].credit /\ t[k].credit = e.lines[k].debit
  BY <1>2, <1>3, <1>4, MirrorIsNew
<1> QED  BY <1>1, <1>4, <1>5

\* On every account the two add up to nothing.
LEMMA MirrorCancels ==
  ASSUME LInv, NEW i \in DOMAIN journal, NEW j, j = journal[i].reversedBy, j # 0, NEW a
  PROVE  Debits({r \in OfAccount(Rows, a) : r[1] \in {i, j}}) = 0
<1> DEFINE S == {r \in OfAccount(Rows, a) : r[1] = i}
           T == {r \in OfAccount(Rows, a) : r[1] = j}
           b == [x \in S |-> <<j, x[2]>>]
<1>1. JournalOK
  BY Sane
<1>2. S \in SUBSET Rows /\ T \in SUBSET Rows
  BY DEF OfAccount
<1>3. S \cap T = {} /\ {r \in OfAccount(Rows, a) : r[1] \in {i, j}} = S \cup T
  BY ReversedTwice
<1>4. \A x \in S : b[x] = <<j, x[2]>>
  OBVIOUS
<1>5. j \in DOMAIN journal
  BY ReversedTwice
<1>6. PICK s : s = journal[i].lines
  OBVIOUS
<1>7. PICK t : t = journal[j].lines
  OBVIOUS
<1>8. /\ DOMAIN t = DOMAIN s
      /\ \A k \in DOMAIN s : /\ t[k].account = s[k].account
                             /\ t[k].debit = s[k].credit /\ t[k].credit = s[k].debit
  BY <1>6, <1>7, MirrorLines
<1>9. \A x \in Rows : x[1] = i => x[2] \in DOMAIN s /\ x = <<i, x[2]>> /\ LineOf(x) = s[x[2]]
  BY <1>1, <1>6, RowIs DEF LineOf
<1>10. \A k \in DOMAIN t : <<j, k>> \in Rows /\ LineOf(<<j, k>>) = t[k]
  BY <1>5, <1>7 DEF Rows, LineOf
<1>11. ASSUME NEW x \in S
       PROVE  b[x] \in T /\ Amount[x] \in Int /\ Amount[b[x]] = -Amount[x]
  <2>1. x \in Rows /\ x[1] = i /\ LineOf(x).account = a
    BY DEF OfAccount
  <2>2. PICK k \in DOMAIN s : k = x[2]
    BY <1>9, <2>1
  <2>3. PICK y : y = <<j, k>>
    OBVIOUS
  <2>4. y \in Rows /\ y[1] = j /\ LineOf(y) = t[k] /\ LineOf(x) = s[k] /\ b[x] = y
    BY <1>4, <1>8, <1>9, <1>10, <2>1, <2>2, <2>3
  <2>5. LineOf(y).account = a /\ LineOf(y).debit = LineOf(x).credit /\ LineOf(y).credit = LineOf(x).debit
    BY <1>8, <2>1, <2>4
  <2>6. Amount[x] = LineOf(x).debit - LineOf(x).credit /\ Amount[y] = LineOf(y).debit - LineOf(y).credit
    BY <1>1, <2>1, <2>4, RowIs
  <2>7. LineOf(x).debit \in Int /\ LineOf(x).credit \in Int
    BY <1>1, <2>1, RowIs DEF LineOK
  <2>8. Amount[x] \in Int /\ Amount[y] = -Amount[x]
    BY <2>5, <2>6, <2>7
  <2>9. y \in T
    BY <2>4, <2>5 DEF OfAccount
  <2> QED  BY <2>4, <2>8, <2>9
<1>12. T = {b[x] : x \in S}
  <2>1. ASSUME NEW y \in T PROVE \E x \in S : b[x] = y
    <3>1. y \in Rows /\ y[1] = j /\ LineOf(y).account = a
      BY DEF OfAccount
    <3>2. y[2] \in DOMAIN t /\ y = <<j, y[2]>> /\ LineOf(y) = t[y[2]]
      BY <1>1, <1>7, <3>1, RowIs DEF LineOf
    <3>3. PICK x : x = <<i, y[2]>>
      OBVIOUS
    <3>4. x \in Rows /\ x[1] = i /\ x[2] = y[2] /\ LineOf(x) = s[y[2]]
      BY <1>6, <1>8, <3>2, <3>3 DEF Rows, LineOf
    <3>5. LineOf(x).account = a
      BY <1>8, <3>1, <3>2, <3>4
    <3>6. x \in S
      BY <3>4, <3>5 DEF OfAccount
    <3> QED  BY <1>4, <3>2, <3>4, <3>6
  <2> QED  BY <1>11, <2>1
<1>13. \A x, y \in S : b[x] = b[y] => x = y
  <2>1. \A x \in S : x = <<i, x[2]>>
    BY <1>2, <1>9
  <2> QED  BY <1>4, <2>1
<1> HIDE DEF S, T, b
<1>14. IsFiniteSet(S)
  BY <1>1, <1>2, RowsFinite
<1>15. \A x \in S : Amount[x] \in Int /\ Amount[b[x]] = -Amount[x]
  BY <1>11
<1>16. Total(Amount, T) = -Total(Amount, S)
  BY <1>12, <1>13, <1>14, <1>15, TotalOpposite
<1>17. Debits(S) = Total(Amount, S) /\ Debits(T) = Total(Amount, T) /\ Debits(S) \in Int
  BY <1>1, <1>2, DebitsAre
<1>18. Debits(S \cup T) = Debits(S) + Debits(T)
  BY <1>1, <1>2, <1>3, DebitsUnion
<1>19. Debits(T) = -Debits(S)
  BY <1>16, <1>17
<1>20. Debits(S \cup T) = 0
  <2>1. \A d \in Int : d + (-d) = 0
    OBVIOUS
  <2> QED  BY <1>17, <1>18, <1>19, <2>1
<1> QED  BY <1>3, <1>20

LEMMA ReversalHolds ==
  ASSUME LInv
  PROVE  ReversalCancels
<1>1. SUFFICES ASSUME NEW i \in DOMAIN journal, NEW j, j = journal[i].reversedBy, j # 0
               PROVE  /\ journal[j].period = journal[i].period
                      /\ \A a \in Account : Debits({r \in OfAccount(Rows, a) : r[1] \in {i, j}}) = 0
                      /\ \A k \in DOMAIN journal : journal[k].reversedBy = j => k = i
  BY DEF ReversalCancels
<1>2. \A a \in Account : Debits({r \in OfAccount(Rows, a) : r[1] \in {i, j}}) = 0
  BY <1>1, MirrorCancels
<1>3. /\ journal[j].period = journal[i].period
      /\ \A k \in DOMAIN journal : journal[k].reversedBy = j => k = i
  BY <1>1, ReversedTwice DEF Mirrors
<1> QED  BY <1>2, <1>3


\* A sale's payout is an integer, so what is owed for many is their sum.
LEMMA PayoutFold ==
  ASSUME NEW K, IsFiniteSet(K)
  PROVE  MapThenSumSet(LAMBDA s : sales[s].terms.payout, K) = Total([x \in K |-> sales[x].terms.payout], K)
<1> DEFINE f == [x \in K |-> sales[x].terms.payout]
           Eq(k) == k = [s \in SUBSET K |-> IF s = {} THEN 0
                           ELSE sales[(CHOOSE x \in s : TRUE)].terms.payout + k[s \ {CHOOSE x \in s : TRUE}]]
<1>1. \A k : Sums(k, f, K) <=> Eq(k)
  <2>1. ASSUME NEW s \in SUBSET K, s # {}
        PROVE  f[Pick(s)] = sales[(CHOOSE x \in s : TRUE)].terms.payout
    BY <2>1 DEF Pick
  <2> HIDE DEF f
  <2> QED  BY <2>1 DEF Sums, Pick
<1>2. MapThenSumSet(LAMBDA s : sales[s].terms.payout, K) = (CHOOSE k : Eq(k))[K]
  BY DEF MapThenSumSet, MapThenFoldSet
<1> HIDE DEF Eq, f
<1>3. \E k : Eq(k)
  BY <1>1, SumsExists
<1>4. Sums(CHOOSE k : Eq(k), f, K)
  BY <1>1, <1>3
<1> QED  BY <1>2, <1>4, TotalIs DEF f

\* What a posted sale owes is on one row, the third of its entry.
LEMMA PostedRow ==
  ASSUME LInv, NEW s \in Sale, sales[s].entry # 0
  PROVE  LET x == <<sales[s].entry, 3>>
         IN  /\ sales[s].status = "confirmed" /\ sales[s].terms.payout \in Int
             /\ x \in Rows /\ Source(x) = "consignment_sale"
             /\ LineOf(x).account = Single("CONSIGNOR_PAYABLE") /\ LineOf(x).ref = sales[s].terms.ref
             /\ Amount[x] = -sales[s].terms.payout
<1>1. PICK i : i = sales[s].entry
  OBVIOUS
<1>2. PICK lines : lines = journal[i].lines
  OBVIOUS
<1>3. /\ sales[s].status = "confirmed" /\ journal[i].source = "consignment_sale"
      /\ Consigns(lines, sales[s].terms.payout, sales[s].terms.ref)
  BY <1>1, <1>2 DEF LInv, LSales
<1>4. i \in DOMAIN journal
  <2>1. sales[s].entry \in Nat /\ sales[s].entry <= Len(journal)
    BY DEF LInv, LType, SaleT
  <2>2. Len(journal) \in Nat /\ DOMAIN journal = 1..Len(journal)
    BY Sane
  <2> QED  BY <1>1, <2>1, <2>2
<1>5. sales[s].terms.payout \in Int
  <2>1. sales[s].terms \in Terms
    BY <1>3 DEF LInv, LType
  <2> QED  BY <2>1, Tables
<1>6. DOMAIN lines = 1..Len(lines)
  <2>1. journal[i] \in EntryT
    BY <1>4, Sane
  <2>2. lines \in Seq(LineT)
    BY <1>2, <2>1 DEF EntryT
  <2> QED  BY <2>2, LenProperties
<1>7. /\ 3 \in DOMAIN lines /\ lines[3].account = Single("CONSIGNOR_PAYABLE") /\ lines[3].debit = 0
      /\ lines[3].credit = sales[s].terms.payout /\ lines[3].ref = sales[s].terms.ref
  BY <1>3, <1>6 DEF Consigns
<1>8. PICK x : x = <<i, 3>>
  OBVIOUS
<1>9. x \in Rows /\ x[1] = i /\ LineOf(x) = lines[3]
  BY <1>2, <1>4, <1>7, <1>8 DEF Rows, LineOf
<1>10. Amount[x] = 0 - sales[s].terms.payout
  <2>1. Amount[x] = LineOf(x).debit - LineOf(x).credit
    BY <1>9, Sane, RowIs
  <2> QED  BY <1>7, <1>9, <2>1
<1>11. Amount[x] = -sales[s].terms.payout
  BY <1>5, <1>10
<1>12. Source(x) = "consignment_sale"
  BY <1>3, <1>9 DEF Source
<1> QED  BY <1>1, <1>3, <1>5, <1>7, <1>8, <1>9, <1>11, <1>12

\* No other row of a consignment sale is on the payable.
LEMMA RowPosted ==
  ASSUME LInv, NEW x \in Rows, LineOf(x).account = Single("CONSIGNOR_PAYABLE"),
         Source(x) = "consignment_sale"
  PROVE  \E s \in Sale : /\ sales[s].entry # 0 /\ x = <<sales[s].entry, 3>>
                         /\ LineOf(x).ref = sales[s].terms.ref
<1>1. /\ x[1] \in DOMAIN journal /\ x[2] \in DOMAIN journal[x[1]].lines /\ x = <<x[1], x[2]>>
  BY Sane, RowIs
<1>2. PICK i : i = x[1]
  OBVIOUS
<1>3. PICK lines : lines = journal[i].lines
  OBVIOUS
<1>4. journal[i].source = "consignment_sale" /\ i \in DOMAIN journal /\ i # 0
  BY <1>1, <1>2, Sane DEF Source
<1>5. PICK s \in Sale : sales[s].entry = i
  BY <1>4 DEF LInv, LSales
<1>6. Consigns(lines, sales[s].terms.payout, sales[s].terms.ref)
  BY <1>3, <1>4, <1>5 DEF LInv, LSales
<1>7. DOMAIN lines = 1..Len(lines)
  <2>1. journal[i] \in EntryT
    BY <1>4, Sane
  <2>2. lines \in Seq(LineT)
    BY <1>3, <2>1 DEF EntryT
  <2> QED  BY <2>2, LenProperties
<1>8. LineOf(x) = lines[x[2]] /\ x[2] \in 1..Len(lines)
  BY <1>1, <1>2, <1>3, <1>7 DEF LineOf
<1>9. x[2] = 3
  BY <1>6, <1>8 DEF Consigns
<1>10. LineOf(x).ref = sales[s].terms.ref
  BY <1>6, <1>8, <1>9 DEF Consigns
<1> QED  BY <1>1, <1>2, <1>4, <1>5, <1>9, <1>10

LEMMA AccruedHolds ==
  ASSUME LInv
  PROVE  AccruedAsConfirmed
<1>1. SUFFICES ASSUME NEW r \in Reference, NEW accrued, NEW posted,
                      accrued = {x \in OfAccount(Rows, Single("CONSIGNOR_PAYABLE")) :
                                    Source(x) = "consignment_sale" /\ LineOf(x).ref = r},
                      posted = {s \in Sale : sales[s].entry # 0 /\ sales[s].terms.ref = r}
               PROVE  /\ \A s \in posted : sales[s].status = "confirmed"
                      /\ Credits(accrued) = MapThenSumSet(LAMBDA s : sales[s].terms.payout, posted)
  BY DEF AccruedAsConfirmed
<1> DEFINE f == [s \in posted |-> sales[s].terms.payout]
           b == [s \in posted |-> <<sales[s].entry, 3>>]
<1>2. JournalOK /\ Len(journal) \in Nat
  BY Sane
<1>3. \A s \in posted : s \in Sale /\ sales[s].entry # 0 /\ sales[s].terms.ref = r
  BY <1>1
<1>4. \A s \in posted : b[s] = <<sales[s].entry, 3>> /\ f[s] = sales[s].terms.payout
  OBVIOUS
<1>5. \A s \in posted : /\ sales[s].status = "confirmed" /\ f[s] \in Int
                        /\ b[s] \in accrued /\ Amount[b[s]] = -f[s]
  BY <1>1, <1>3, <1>4, PostedRow DEF OfAccount
<1>6. \A x \in accrued : \E s \in posted : x = b[s]
  <2>1. ASSUME NEW x \in accrued PROVE \E s \in posted : x = b[s]
    <3>1. /\ x \in Rows /\ LineOf(x).account = Single("CONSIGNOR_PAYABLE")
          /\ Source(x) = "consignment_sale" /\ LineOf(x).ref = r
      BY <1>1 DEF OfAccount
    <3>2. PICK s \in Sale : /\ sales[s].entry # 0 /\ x = <<sales[s].entry, 3>>
                            /\ LineOf(x).ref = sales[s].terms.ref
      BY <3>1, RowPosted
    <3>3. s \in posted
      BY <1>1, <3>1, <3>2
    <3> QED  BY <1>4, <3>2, <3>3
  <2> QED  BY <2>1
<1>7. \A s, t \in posted : sales[s].entry = sales[t].entry => s = t
  BY <1>3 DEF LInv, LSales
<1>8. accrued \in SUBSET Rows
  BY <1>1 DEF OfAccount
<1>9. IsFiniteSet(posted)
  <2> DEFINE g == [s \in posted |-> sales[s].entry]
             N == 1..Len(journal)
  <2>1. \A s \in posted : sales[s].entry \in N
    <3>1. \A s \in posted : sales[s].entry \in Nat /\ sales[s].entry <= Len(journal) /\ sales[s].entry # 0
      BY <1>3 DEF LInv, LType, SaleT
    <3> QED  BY <1>2, <3>1
  <2>2. g \in Injection(posted, N)
    BY <1>7, <2>1 DEF Injection, IsInjective
  <2>3. IsFiniteSet(N)
    BY <1>2, FS_Interval
  <2> HIDE DEF g, N
  <2> QED  BY <2>2, <2>3, FS_Injection
<1>10. \A s, t \in posted : b[s] = b[t] => s = t
  BY <1>4, <1>7
<1>11. MapThenSumSet(LAMBDA s : sales[s].terms.payout, posted) = Total(f, posted)
  BY <1>9, PayoutFold
<1> HIDE DEF f, b
<1>12. accrued = {b[s] : s \in posted}
  BY <1>5, <1>6
<1>13. Total(Amount, accrued) = -Total(f, posted)
  BY <1>5, <1>9, <1>10, <1>12, TotalOpposite
<1>14. Total(f, posted) \in Int
  BY <1>5, <1>9, TotalInt
<1>15. Credits(accrued) = -Total(Amount, accrued)
  BY <1>2, <1>8, DebitsAre
<1>16. Credits(accrued) = Total(f, posted)
  <2>1. \A d \in Int : -(-d) = d
    OBVIOUS
  <2> QED  BY <1>13, <1>14, <1>15, <2>1
<1> QED  BY <1>5, <1>11, <1>16


\* The cash that two sets of entries move.
LEMMA CashOfBoth ==
  ASSUME JournalOK, NEW E, NEW F, E \cap F = {}
  PROVE  /\ CashMoved(EntryRows(E \cup F)) = CashMoved(EntryRows(E)) + CashMoved(EntryRows(F))
         /\ CashMoved(EntryRows(E)) \in Int /\ CashMoved(EntryRows(F)) \in Int
<1>1. PICK U : U = OfCodes(EntryRows(E), CashCode)
  OBVIOUS
<1>2. PICK V : V = OfCodes(EntryRows(F), CashCode)
  OBVIOUS
<1>3. U \in SUBSET Rows /\ V \in SUBSET Rows /\ U \cap V = {}
  BY <1>1, <1>2 DEF OfCodes, EntryRows
<1>4. OfCodes(EntryRows(E \cup F), CashCode) = U \cup V
  BY <1>1, <1>2 DEF OfCodes, EntryRows
<1>5. Debits(U \cup V) = Debits(U) + Debits(V) /\ Debits(U) \in Int /\ Debits(V) \in Int
  BY <1>3, DebitsUnion
<1> QED  BY <1>1, <1>2, <1>4, <1>5 DEF CashMoved

LEMMA CashOfOne ==
  ASSUME JournalOK, NEW i \in DOMAIN journal
  PROVE  CashMoved(EntryRows({i})) = CashIn(journal[i].lines) /\ CashIn(journal[i].lines) \in Int
BY EntryCash DEF CashMoved

\* A row that was booked has one entry in force, which alone moves cash for it.
LEMMA RowMoves ==
  ASSUME LInv, NEW row \in BankRow, OfRow(row) # {}
  PROVE  \E l \in OfRow(row) :
            /\ Live(l) /\ \A k \in OfRow(row) : Live(k) => k = l
            /\ CashMoved(EntryRows(OfRow(row))) = CashIn(journal[l].lines)
<1>0. JournalOK
  BY Sane
<1>1. CASE \E k \in DOMAIN journal : Live(k) /\ OfRow(row) = {k}
  BY <1>0, <1>1, CashOfOne
<1>2. CASE \E k, j \in DOMAIN journal : Corrects(k, j, row)
  <2>1. PICK k \in DOMAIN journal, j \in DOMAIN journal : Corrects(k, j, row)
    BY <1>2
  <2>2. PICK l : l = j + 1
    OBVIOUS
  <2>3. /\ j = journal[k].reversedBy /\ j # 0 /\ OfRow(row) = {k, j, l} /\ Live(l)
    BY <2>1, <2>2 DEF Corrects
  <2>4. j # k /\ CashIn(journal[j].lines) = -CashIn(journal[k].lines)
    BY <2>3, ReversedTwice, MirrorLines
  <2>5. ~Live(k) /\ ~Live(j) /\ l \in DOMAIN journal
    BY <2>3 DEF Live
  <2>6. l # k /\ l # j
    BY <2>3, <2>5
  <2>7. OfRow(row) = ({k} \cup {j}) \cup {l} /\ {k} \cap {j} = {} /\ ({k} \cup {j}) \cap {l} = {}
    BY <2>3, <2>4, <2>6
  <2>8. CashMoved(EntryRows({k} \cup {j})) = CashMoved(EntryRows({k})) + CashMoved(EntryRows({j}))
    BY <1>0, <2>7, CashOfBoth
  <2>9. CashMoved(EntryRows(({k} \cup {j}) \cup {l})) =
           CashMoved(EntryRows({k} \cup {j})) + CashMoved(EntryRows({l}))
    BY <1>0, <2>7, CashOfBoth
  <2>10. PICK x : x = CashIn(journal[k].lines)
    OBVIOUS
  <2>11. PICK y : y = CashIn(journal[l].lines)
    OBVIOUS
  <2>12. /\ x \in Int /\ y \in Int /\ CashMoved(EntryRows({k})) = x /\ CashMoved(EntryRows({l})) = y
         /\ CashMoved(EntryRows({j})) = -x
    BY <1>0, <2>4, <2>5, <2>10, <2>11, CashOfOne
  <2>13. CashMoved(EntryRows(OfRow(row))) = (x + (-x)) + y
    BY <2>7, <2>8, <2>9, <2>12
  <2>14. (x + (-x)) + y = y
    BY <2>12
  <2>15. l \in OfRow(row) /\ \A m \in OfRow(row) : Live(m) => m = l
    BY <2>3, <2>5
  <2> QED  BY <2>3, <2>11, <2>13, <2>14, <2>15
<1> QED  BY <1>1, <1>2 DEF LInv, LEntries

LEMMA CashHolds ==
  ASSUME LInv
  PROVE  CashMovesByTheRow
<1>1. SUFFICES ASSUME NEW i \in RowEntries, NEW R, NEW last,
                      R = {r \in Rows : journal[r[1]].row = journal[i].row},
                      last = {j \in RowEntries : /\ journal[j].row = journal[i].row
                                                 /\ journal[j].reversedBy = 0 /\ j \notin Reversals}
               PROVE  /\ Cardinality(last) = 1
                      /\ \A j \in last :
                            CashMoved(R) = CASE journal[j].source = "inter_account_transfer" -> 0
                                             [] Flipped(journal[j]) -> -journal[i].row.amount
                                             [] OTHER -> journal[i].row.amount
  BY DEF CashMovesByTheRow
<1>2. PICK row : row = journal[i].row
  OBVIOUS
<1>3. i \in DOMAIN journal /\ row # NULL
  BY <1>2 DEF RowEntries
<1>4. row \in BankRow
  <2>1. journal[i] \in EntryT
    BY <1>3, Sane
  <2> QED  BY <1>2, <1>3, <2>1 DEF EntryT
<1>5. i \in OfRow(row)
  BY <1>2, <1>3 DEF OfRow
<1>6. PICK l \in OfRow(row) :
            /\ Live(l) /\ \A k \in OfRow(row) : Live(k) => k = l
            /\ CashMoved(EntryRows(OfRow(row))) = CashIn(journal[l].lines)
  BY <1>4, <1>5, RowMoves
<1>7. R = EntryRows(OfRow(row))
  <2>1. \A r \in Rows : r[1] \in DOMAIN journal
    BY Sane, RowIs
  <2> QED  BY <1>1, <1>2, <2>1 DEF EntryRows, OfRow
<1>8. \A j \in last : j \in OfRow(row) /\ Live(j)
  BY <1>1, <1>2, LiveIs DEF OfRow, RowEntries
<1>9. l \in DOMAIN journal /\ journal[l].row = row
  BY <1>6 DEF OfRow
<1>10. l \in last
  BY <1>1, <1>2, <1>3, <1>6, <1>9, LiveIs DEF RowEntries
<1>11. last = {l}
  BY <1>6, <1>8, <1>10
<1>12. Cardinality(last) = 1
  BY <1>11, FS_Singleton
<1>13. MovesFor(journal[l])
  BY <1>3, <1>6, <1>9 DEF LInv, LCash
<1>14. CashMoved(R) = CashIn(journal[l].lines)
  BY <1>6, <1>7
<1>15. CASE journal[l].source = "inter_account_transfer"
  <2>1. CashMoved(R) = 0 /\ ~Flipped(journal[l])
    BY <1>13, <1>14, <1>15 DEF MovesFor
  <2> QED  BY <1>11, <1>12, <1>15, <2>1
<1>16. CASE journal[l].source # "inter_account_transfer" /\ Flipped(journal[l])
  <2>1. CashMoved(R) = -journal[i].row.amount
    BY <1>2, <1>9, <1>13, <1>14, <1>16 DEF MovesFor
  <2> QED  BY <1>11, <1>12, <1>16, <2>1
<1>17. CASE journal[l].source # "inter_account_transfer" /\ ~Flipped(journal[l])
  <2>1. CashMoved(R) = journal[i].row.amount
    BY <1>2, <1>9, <1>13, <1>14, <1>17 DEF MovesFor
  <2> QED  BY <1>11, <1>12, <1>17, <2>1
<1> QED  BY <1>15, <1>16, <1>17

LEMMA CashFlowHolds ==
  ASSUME LInv
  PROVE  CashFlowTiesOut
BY Sane, CashTiesOut DEF CashFlowTiesOut

LEMMA StatementsHold ==
  ASSUME LInv
  PROVE  StatementsAgree
<1>1. JournalOK
  BY Sane
<1>2. \A p \in Period : BalanceSheetDifference(p) = 0
  BY <1>1, BalanceSheetBalances
<1>3. \A p \in Period : RetainedEarnings(p) = MapThenSumSet(NetIncome, {q \in Period : q <= p})
  BY <1>1, EarningsAreIncome
<1>4. \A p \in Period : TotalRevenue(Within(p)) =
              MapThenSumSet(LAMBDA a : NetRevenue(p, a), EbayAccount)
                + MapThenSumSet(LAMBDA r : Credits({r}), Unattributed(p))
  BY <1>1, RevenueSplits
<1> QED  BY <1>2, <1>3, <1>4 DEF StatementsAgree

LEMMA SubsidiaryHolds ==
  ASSUME LInv
  PROVE  SubsidiaryTiesOut
BY Sane, ReferencesTieOut DEF SubsidiaryTiesOut, ControlCode

-----------------------------------------------------------------------------
(* The theorems.                                                             *)

\* The books keep their inductive invariant: typed and balanced entries, each
\* reversed at most once and by its mirror, one in force for a row and for an
\* account's opening balance, and one for a posted sale.
THEOREM BooksKept == Spec => []LInv
<1>1. Init => LInv
  BY InitInv
<1>2. LInv /\ [Next]_vars => LInv'
  BY NextInv
<1> QED  BY <1>1, <1>2, PTL DEF Spec

\* Whatever is posted, corrected and reversed, by any caller, every link of the
\* tables is to an entry of the journal and every line is on an account there is
\* (_insert_journal_entry and its callers).
THEOREM LedgerTyped == Spec => []TypeOK
<1>1. LInv => TypeOK
  BY TypeOKHolds
<1> QED  BY <1>1, BooksKept, PTL

\* The cash at the end of a month is the cash at its beginning and the lines of
\* the statement of cash flows, for every journal the postings can make
\* (cash_flow_statement).
THEOREM CashFlowExplained == Spec => []CashFlowTiesOut
<1>1. LInv => CashFlowTiesOut
  BY CashFlowHolds
<1> QED  BY <1>1, BooksKept, PTL

\* The balance sheet balances, retained earnings are the net incomes of the months
\* so far, and the accounts' revenues and what nobody can claim are the revenue of
\* the P&L, in every month of every journal (balance_sheet_report, pnl_report,
\* attribute_entries_to_ebay_account).
THEOREM BalanceSheetBalanced == Spec => []StatementsAgree
<1>1. LInv => StatementsAgree
  BY StatementsHold
<1> QED  BY <1>1, BooksKept, PTL

\* The balances of a control account by reference add up to its balance: no
\* posting reaches one without a reference (account_balance_through_by_reference).
THEOREM ControlAccountsTieOut == Spec => []SubsidiaryTiesOut
<1>1. LInv => SubsidiaryTiesOut
  BY SubsidiaryHolds
<1> QED  BY <1>1, BooksKept, PTL

\* Every bank line that was booked, whatever its category and however it was
\* corrected, moves its own amount of cash in its own direction, or none if it is a
\* transfer, but for the old entries no script corrected yet
\* (_DIRECTIONAL_CATEGORY_SIGNS, correct_journal_entry_917.py).
THEOREM CashByTheRow == Spec => []CashMovesByTheRow
<1>1. LInv => CashMovesByTheRow
  BY CashHolds
<1> QED  BY <1>1, BooksKept, PTL

\* The opening balance in force of an account is the one its opening_balances row
\* names, and there is no other (post_opening_balance, _ensure_jan1_opening_balance).
THEOREM OneOpening == Spec => []OneOpeningInForce
<1>1. LInv => OneOpeningInForce
  BY OneOpeningHolds
<1> QED  BY <1>1, BooksKept, PTL

\* A consignor is owed the payouts of the posted, confirmed sales, each once
\* (post_consignment_sale).
THEOREM AccruedOnce == Spec => []AccruedAsConfirmed
<1>1. LInv => AccruedAsConfirmed
  BY AccruedHolds
<1> QED  BY <1>1, BooksKept, PTL

\* A reversed entry has one reversal, in its month, and the two add up to nothing on
\* every account (post_reversal_entry).
THEOREM ReversedOnce == Spec => []ReversalCancels
<1>1. LInv => ReversalCancels
  BY ReversalHolds
<1> QED  BY <1>1, BooksKept, PTL

=============================================================================
