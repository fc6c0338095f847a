--------------------------- MODULE MonthEndProofs ---------------------------
(***************************************************************************)
(* The proofs about Window and MonthEnd, for every calendar, every set of    *)
(* accounts and documents, and every history of files, labels and failures.  *)
(***************************************************************************)
EXTENDS MonthEndProperties, SequenceTheorems, SumLemmas

-----------------------------------------------------------------------------
(* The calendar.                                                             *)

\* Every day of the calendar has its month.
LEMMA PeriodExists ==
  ASSUME NEW n \in Day
  PROVE  /\ PeriodOf(n) \in Month
         /\ LastDay[PeriodOf(n) - 1] < n /\ n <= LastDay[PeriodOf(n)]
<1>1. PICK m \in Month : LastDay[m - 1] < n /\ n <= LastDay[m]
  BY CalendarAssumption DEF Day
<1> QED  BY <1>1 DEF PeriodOf

\* The last days grow, and months have at least 28 days.
LEMMA LastDayFacts ==
  ASSUME NEW m \in Month
  PROVE  /\ m \in Int /\ m - 1 \in 0..Months /\ m \in 0..Months
         /\ LastDay[m] \in Int /\ LastDay[m - 1] \in Int
         /\ LastDay[m] >= LastDay[m - 1] + 28
<1>1. m - 1 \in 0..Months /\ m \in 0..Months
  BY CalendarAssumption DEF Month
<1>2. LastDay[m] \in Nat /\ LastDay[m - 1] \in Nat
  BY <1>1, CalendarAssumption
<1>3. LastDay[m] - LastDay[m - 1] \in 28..31
  BY CalendarAssumption
<1> QED  BY <1>1, <1>2, <1>3

\* A day is in one month only.
LEMMA PeriodUnique ==
  ASSUME NEW n \in Day, NEW m \in Month, LastDay[m - 1] < n, n <= LastDay[m]
  PROVE  PeriodOf(n) = m
<1> DEFINE p == PeriodOf(n)
<1>1. p \in Month /\ LastDay[p - 1] < n /\ n <= LastDay[p]
  BY PeriodExists
<1> HIDE DEF p
<1>2. LastDay[m] \in Int /\ LastDay[m - 1] \in Int /\ m \in Int /\ m - 1 \in 0..Months /\ m \in 0..Months
  BY LastDayFacts
<1>3. LastDay[p] \in Int /\ LastDay[p - 1] \in Int /\ p \in Int /\ p - 1 \in 0..Months /\ p \in 0..Months
  BY <1>1, LastDayFacts
<1>4. n \in Int
  BY <1>2, CalendarAssumption DEF Day
<1>5. ASSUME p < m PROVE FALSE
  <2>1. LastDay[p] <= LastDay[m - 1]
    BY <1>2, <1>3, <1>5, CalendarAssumption
  <2> QED  BY <1>1, <1>2, <1>3, <1>4, <2>1
<1>6. ASSUME m < p PROVE FALSE
  <2>1. LastDay[m] <= LastDay[p - 1]
    BY <1>2, <1>3, <1>6, CalendarAssumption
  <2> QED  BY <1>1, <1>2, <1>3, <1>4, <2>1
<1>7. p = m
  BY <1>2, <1>3, <1>5, <1>6
<1> QED  BY <1>7 DEF p

\* The periods of a run are months, and at most two.
LEMMA PeriodsAreMonths ==
  ASSUME NEW n \in Day
  PROVE  /\ Len(PeriodsToSync(n)) \in 0..2
         /\ \A i \in 1..Len(PeriodsToSync(n)) : PeriodsToSync(n)[i] \in Month
<1> DEFINE p == PeriodOf(n)
<1>1. p \in Month
  BY PeriodExists
<1>2. p > 1 => p - 1 \in Month
  BY <1>1, CalendarAssumption DEF Month
<1>3. PeriodsToSync(n) = <<>> \/ PeriodsToSync(n) = <<p>> \/ (p > 1 /\ PeriodsToSync(n) = <<p, p - 1>>)
  BY DEF PeriodsToSync
<1> HIDE DEF p
<1>4. CASE PeriodsToSync(n) = <<>>
  BY <1>4
<1>5. CASE PeriodsToSync(n) = <<p>>
  BY <1>1, <1>5
<1>6. CASE p > 1 /\ PeriodsToSync(n) = <<p, p - 1>>
  BY <1>1, <1>2, <1>6
<1> QED  BY <1>3, <1>4, <1>5, <1>6

\* On a day of month m, or of the seven days after it, the routine syncs m.
LEMMA WindowSyncsMonth ==
  ASSUME NEW n \in Day, NEW m \in Month, n \in (LastDay[m] - 15)..(LastDay[m] + 7)
  PROVE  \E i \in 1..Len(PeriodsToSync(n)) : PeriodsToSync(n)[i] = m
<1>1. LastDay[m] \in Int /\ LastDay[m - 1] \in Int /\ m \in Int /\ m \in 0..Months
      /\ LastDay[m] >= LastDay[m - 1] + 28
  BY LastDayFacts
<1>2. n \in Int /\ n >= LastDay[m] - 15 /\ n <= LastDay[m] + 7 /\ n <= LastDay[Months]
  BY <1>1 DEF Day
<1>3. CASE n <= LastDay[m]
  <2>1. PeriodOf(n) = m
    BY <1>1, <1>2, <1>3, PeriodUnique
  <2>2. RoutineSyncActive(n)
    BY <2>1, <1>1, <1>2, <1>3 DEF RoutineSyncActive, PreCloseWindowActive, MonthEnd, LookAhead
  <2>3. PeriodsToSync(n) = <<m>> \/ PeriodsToSync(n) = <<m, m - 1>>
    BY <2>1, <2>2 DEF PeriodsToSync
  <2>4. 1 \in 1..Len(PeriodsToSync(n)) /\ PeriodsToSync(n)[1] = m
    BY <2>3
  <2> QED  BY <2>4
<1>4. CASE LastDay[m] < n
  <2>1. m # Months
    BY <1>1, <1>2, <1>4
  <2>2. m + 1 \in Month /\ (m + 1) - 1 = m
    BY <2>1, <1>1, CalendarAssumption DEF Month
  <2>3. LastDay[m + 1] \in Int /\ LastDay[m + 1] >= LastDay[m] + 28
    <3>1. LastDay[m + 1] \in Int /\ LastDay[m + 1] >= LastDay[(m + 1) - 1] + 28
      BY <2>2, LastDayFacts
    <3> QED  BY <3>1, <2>2
  <2>4. PeriodOf(n) = m + 1
    <3>1. LastDay[(m + 1) - 1] < n /\ n <= LastDay[m + 1]
      BY <2>2, <2>3, <1>1, <1>2, <1>4
    <3> QED  BY <3>1, <2>2, PeriodUnique
  <2>5. PostCloseTailActive(n)
    BY <2>2, <2>4, <1>1, <1>2 DEF PostCloseTailActive, PreviousMonthEnd, TailDays
  <2>6. PeriodOf(n) > 1 /\ PeriodOf(n) - 1 = m
    BY <2>2, <2>4, <1>1 DEF Month
  <2>7. PeriodsToSync(n) = <<PeriodOf(n), m>>
    BY <2>5, <2>6 DEF PeriodsToSync, RoutineSyncActive
  <2>8. 2 \in 1..Len(PeriodsToSync(n)) /\ PeriodsToSync(n)[2] = m
    BY <2>7
  <2> QED  BY <2>8
<1> QED  BY <1>1, <1>2, <1>3, <1>4

-----------------------------------------------------------------------------
(* The pairs of a routine run.                                               *)

LEMMA AccountsFacts ==
  /\ Len(Accounts) \in Nat /\ DOMAIN Accounts = 1..Len(Accounts)
  /\ \A x \in 1..Len(Accounts) : Accounts[x] \in Account
  /\ \A a \in Account : \E x \in 1..Len(Accounts) : Accounts[x] = a
<1>1. Accounts \in Seq(Account)
  BY MonthEndAssumption
<1>2. Len(Accounts) \in Nat /\ DOMAIN Accounts = 1..Len(Accounts)
  BY <1>1
<1>3. \A a \in Account : \E x \in DOMAIN Accounts : Accounts[x] = a
  BY DEF Account
<1>4. \A x \in DOMAIN Accounts : Accounts[x] \in Account
  BY DEF Account
<1> QED  BY <1>2, <1>3, <1>4

LEMMA RunsType ==
  ASSUME NEW n \in Day
  PROVE  RunsOn(n) \in Seq(Account \X Month)
<1> DEFINE ps == PeriodsToSync(n)
           k == Len(ps)
           L == Len(Accounts)
<1>1. k \in 0..2 /\ \A i \in 1..k : ps[i] \in Month
  BY PeriodsAreMonths
<1>2. L \in Nat /\ \A x \in 1..L : Accounts[x] \in Account
  BY AccountsFacts
<1>3. RunsOn(n) = [i \in 1..(L * k) |-> <<Accounts[((i - 1) \div k) + 1], ps[((i - 1) % k) + 1]>>]
  BY DEF RunsOn
<1> HIDE DEF ps, k, L
<1>4. L * k \in Nat
  BY <1>1, <1>2
<1>5. ASSUME NEW i \in 1..(L * k)
      PROVE  <<Accounts[((i - 1) \div k) + 1], ps[((i - 1) % k) + 1]>> \in Account \X Month
  <2>1. CASE k = 0
    BY <1>2, <1>5, <2>1
  <2>2. CASE k = 1
    <3>1. ((i - 1) \div k) + 1 \in 1..L /\ ((i - 1) % k) + 1 \in 1..k
      BY <1>2, <2>2
    <3> QED  BY <3>1, <1>1, <1>2
  <2>3. CASE k = 2
    <3>1. ((i - 1) \div k) + 1 \in 1..L /\ ((i - 1) % k) + 1 \in 1..k
      BY <1>2, <2>3
    <3> QED  BY <3>1, <1>1, <1>2
  <2> QED  BY <1>1, <2>1, <2>2, <2>3
<1> QED  BY <1>3, <1>4, <1>5

\* A run tries every account for every period of the day.
LEMMA RunsCover ==
  ASSUME NEW n \in Day, NEW a \in Account, NEW y \in 1..Len(PeriodsToSync(n))
  PROVE  \E i \in DOMAIN RunsOn(n) : RunsOn(n)[i] = <<a, PeriodsToSync(n)[y]>>
<1> DEFINE ps == PeriodsToSync(n)
           k == Len(ps)
           L == Len(Accounts)
<1>1. k \in 0..2 /\ y \in 1..k
  BY PeriodsAreMonths
<1>2. L \in Nat
  BY AccountsFacts
<1>3. PICK x \in 1..L : Accounts[x] = a
  BY AccountsFacts
<1>4. RunsOn(n) = [i \in 1..(L * k) |-> <<Accounts[((i - 1) \div k) + 1], ps[((i - 1) % k) + 1]>>]
  BY DEF RunsOn
<1> HIDE DEF ps, k, L
<1> DEFINE i == (x - 1) * k + y
<1>5. i \in 1..(L * k) /\ ((i - 1) \div k) + 1 = x /\ ((i - 1) % k) + 1 = y
  <2>1. CASE k = 1
    BY <1>1, <1>2, <1>3, <2>1
  <2>2. CASE k = 2
    BY <1>1, <1>2, <1>3, <2>2
  <2> QED  BY <1>1, <2>1, <2>2
<1> HIDE DEF i
<1>6. i \in DOMAIN RunsOn(n) /\ RunsOn(n)[i] = <<a, ps[y]>>
  BY <1>3, <1>4, <1>5
<1> QED  BY <1>6 DEF ps

LEMMA HeadOrTail ==
  ASSUME NEW S, NEW s \in Seq(S), s # <<>>, NEW i \in DOMAIN s
  PROVE  s[i] = Head(s) \/ \E j \in DOMAIN Tail(s) : Tail(s)[j] = s[i]
<1>1. Tail(s) \in Seq(S) /\ Len(Tail(s)) = Len(s) - 1 /\ Len(s) \in Nat /\ i \in 1..Len(s)
  BY HeadTailProperties
<1>2. CASE i = 1
  BY <1>2
<1>3. CASE i # 1
  <2>1. i - 1 \in 1..Len(Tail(s))
    BY <1>1, <1>3
  <2>2. Tail(s)[i - 1] = s[i]
    BY <2>1, <1>1
  <2> QED  BY <2>1, <2>2, <1>1
<1> QED  BY <1>2, <1>3

-----------------------------------------------------------------------------
(* No day of the window passes without its syncs.                            *)

\* Today's pairs are tried or still to be tried.
Tried ==
    /\ today \in Day
    /\ todo \in Seq(Account \X Month)
    /\ \A i \in DOMAIN RunsOn(today) :
          \/ RunsOn(today)[i] \in attempted
          \/ \E j \in DOMAIN todo : todo[j] = RunsOn(today)[i]

\* The run of the day moves with three actions.
LEMMA RunMoves ==
  ASSUME [Next]_vars
  PROVE  NextDay \/ RoutineSync \/ RoutineSyncFails \/ UNCHANGED <<today, todo, attempted>>
<1>1. CASE UNCHANGED vars
  BY <1>1 DEF vars
<1>2. CASE Clockwork
  BY <1>2 DEF Clockwork, Provision, StartRevaluation, Revalue, ReadBookValue, ReadUsdBalance,
              PostRevaluation, schedule
<1>3. CASE StartRevaluation("manual")
  BY <1>3 DEF StartRevaluation
<1>4. CASE Human
  BY <1>4 DEF Human, PutFile, Label, SyncNow, PostOpeningBalance, SeedRate, BackfillReference, schedule
<1>5. CASE ProvisionFails \/ ProvisionByHand
  BY <1>5 DEF ProvisionFails, ProvisionByHand
<1> QED  BY <1>1, <1>2, <1>3, <1>4, <1>5 DEF Next

LEMMA NextDayIsADay == today \in Day /\ NextDay => today' \in Day
<1> SUFFICES ASSUME today \in Day, NextDay PROVE today' \in Day
  OBVIOUS
<1>1. End \in Day /\ today < End /\ today' = today + 1
  BY MonthEndAssumption DEF NextDay
<1>2. LastDay[0] \in Int /\ LastDay[Months] \in Int
  BY CalendarAssumption
<1>3. today \in Int /\ End \in Int /\ LastDay[0] + 1 <= today /\ End <= LastDay[Months]
  BY <1>1, <1>2 DEF Day
<1>4. today + 1 \in (LastDay[0] + 1)..LastDay[Months]
  BY <1>1, <1>2, <1>3
<1> QED  BY <1>1, <1>4 DEF Day

LEMMA TriedInit == Init => Tried
<1> SUFFICES ASSUME Init PROVE Tried
  OBVIOUS
<1>1. today \in Day /\ todo = RunsOn(today)
  BY MonthEndAssumption DEF Init
<1>2. todo \in Seq(Account \X Month)
  BY <1>1, RunsType
<1> QED  BY <1>1, <1>2 DEF Tried

LEMMA TriedTail ==
  ASSUME Tried, todo # <<>>, todo' = Tail(todo), attempted' = attempted \cup {Head(todo)},
         today' = today
  PROVE  Tried'
<1>1. todo \in Seq(Account \X Month)
  BY DEF Tried
<1>2. Tail(todo) \in Seq(Account \X Month)
  BY <1>1, HeadTailProperties
<1>3. ASSUME NEW i \in DOMAIN RunsOn(today)
      PROVE  \/ RunsOn(today)[i] \in attempted \cup {Head(todo)}
             \/ \E j \in DOMAIN Tail(todo) : Tail(todo)[j] = RunsOn(today)[i]
  <2>1. CASE RunsOn(today)[i] \in attempted
    BY <2>1
  <2>2. CASE \E j \in DOMAIN todo : todo[j] = RunsOn(today)[i]
    BY <1>1, <2>2, HeadOrTail
  <2> QED  BY <2>1, <2>2 DEF Tried
<1>4. RunsOn(today)' = RunsOn(today)
  BY DEF RunsOn, PeriodsToSync, RoutineSyncActive, PostCloseTailActive, PreCloseWindowActive,
         PreviousMonthEnd, MonthEnd, PeriodOf
<1> QED  BY <1>2, <1>3, <1>4 DEF Tried

LEMMA TriedStep == Tried /\ [Next]_vars => Tried'
<1> SUFFICES ASSUME Tried, [Next]_vars PROVE Tried'
  OBVIOUS
<1>1. CASE RoutineSync
  BY <1>1, TriedTail DEF RoutineSync
<1>2. CASE RoutineSyncFails
  BY <1>2, TriedTail DEF RoutineSyncFails
<1>3. CASE NextDay
  <2>1. today' \in Day
    BY <1>3, NextDayIsADay DEF Tried
  <2>2. todo' = RunsOn(today')
    BY <1>3 DEF NextDay
  <2>3. RunsOn(today') \in Seq(Account \X Month)
    BY <2>1, RunsType
  <2> QED  BY <2>1, <2>2, <2>3 DEF Tried
<1>4. CASE UNCHANGED <<today, todo, attempted>>
  BY <1>4 DEF Tried
<1> QED  BY <1>1, <1>2, <1>3, <1>4, RunMoves

\* What a day must leave behind: the tries of the months in their window.
LEMMA SweptStep ==
  ASSUME Tried, [Next]_vars, today' # today, NEW a \in Account, NEW m \in Month,
         today \in (LastDay[m] - 15)..(LastDay[m] + 7)
  PROVE  <<a, m>> \in attempted
<1>1. NextDay
  BY RunMoves DEF RoutineSync, RoutineSyncFails
<1>2. todo = <<>> /\ today \in Day
  BY <1>1 DEF NextDay, Tried
<1>3. PICK y \in 1..Len(PeriodsToSync(today)) : PeriodsToSync(today)[y] = m
  BY <1>2, WindowSyncsMonth
<1>4. PICK i \in DOMAIN RunsOn(today) : RunsOn(today)[i] = <<a, PeriodsToSync(today)[y]>>
  BY <1>2, RunsCover
<1>5. DOMAIN todo = {}
  BY <1>2
<1>6. RunsOn(today)[i] \in attempted
  BY <1>4, <1>5 DEF Tried
<1> QED  BY <1>3, <1>4, <1>6

\* From 15 days before a month's end to 7 days after it, each account is synced
\* for that month every day, or the sync was tried and failed on its own.
THEOREM CloseIsSweptAlways == Spec => CloseIsSwept
<1>1. Tried /\ [Next]_vars =>
        [today' # today => \A a \in Account, m \in Month :
            today \in (LastDay[m] - 15)..(LastDay[m] + 7) => <<a, m>> \in attempted]_vars
  BY SweptStep
<1> QED  BY <1>1, TriedInit, TriedStep, PTL DEF Spec, CloseIsSwept

-----------------------------------------------------------------------------
(* The next month's folders are there before it begins, unless a job failed.  *)

\* A month has its folders, unless its provisioning failed and was not made good.
Ready(m) == m \notin missed => FoldersFor(m, Place) \subseteq folders

\* Once the 25th's job has run, the next month is ready.
Provisioned ==
    /\ today \in Day
    /\ Ready(PeriodOf(today))
    /\ (DayOfMonth(today) > 25 \/ (DayOfMonth(today) = 25 /\ "provision" \notin due))
          => Ready(PeriodOf(today) + 1)

LEMMA DayOfMonthIn ==
  ASSUME NEW n, NEW p, PeriodOf(n) = p
  PROVE  DayOfMonth(n) = n - LastDay[p - 1]
BY DEF DayOfMonth

\* The day after a day of month p, and the month it falls in.
LEMMA DayAfter ==
  ASSUME NEW n \in Int, n + 1 <= LastDay[Months], NEW p \in Month,
         LastDay[p - 1] < n, n <= LastDay[p]
  PROVE  /\ LastDay[p] \in Int /\ LastDay[p - 1] \in Int
         /\ LastDay[p] >= LastDay[p - 1] + 28
         /\ \/ LastDay[p - 1] < n + 1 /\ n + 1 <= LastDay[p]
            \/ /\ n = LastDay[p] /\ p + 1 \in Month
               /\ LastDay[(p + 1) - 1] < n + 1 /\ n + 1 <= LastDay[p + 1]
<1>1. LastDay[p] \in Int /\ LastDay[p - 1] \in Int /\ LastDay[p] >= LastDay[p - 1] + 28
  BY LastDayFacts
<1>2. CASE n + 1 <= LastDay[p]
  BY <1>1, <1>2
<1>3. CASE LastDay[p] < n + 1
  <2>1. n = LastDay[p]
    BY <1>1, <1>3
  <2>2. p # Months
    BY <1>1, <2>1
  <2>3. p + 1 \in Month /\ (p + 1) - 1 = p
    BY <2>2, CalendarAssumption DEF Month
  <2>4. LastDay[p + 1] \in Int /\ LastDay[p + 1] >= LastDay[(p + 1) - 1] + 28
    <3> DEFINE q == p + 1
    <3>1. q \in Month
      BY <2>3
    <3> HIDE DEF q
    <3>2. LastDay[q] \in Int /\ LastDay[q] >= LastDay[q - 1] + 28
      BY <3>1, LastDayFacts
    <3> QED  BY <3>2 DEF q
  <2>5. LastDay[(p + 1) - 1] = n
    BY <2>1, <2>3
  <2> QED  BY <1>1, <2>1, <2>3, <2>4, <2>5
<1> QED  BY <1>1, <1>2, <1>3

\* The next day is the next of the month, or the first of the next month, and
\* then today was its 28th or later.
LEMMA NextDayOfMonth ==
  ASSUME NEW n \in Day, n + 1 \in Day
  PROVE  /\ DayOfMonth(n) \in Int
         /\ \/ PeriodOf(n + 1) = PeriodOf(n) /\ DayOfMonth(n + 1) = DayOfMonth(n) + 1
            \/ /\ PeriodOf(n + 1) = PeriodOf(n) + 1 /\ DayOfMonth(n + 1) = 1
               /\ DayOfMonth(n) >= 28
<1>1. PICK p \in Month : p = PeriodOf(n) /\ LastDay[p - 1] < n /\ n <= LastDay[p]
  BY PeriodExists
<1>2. n \in Int /\ n + 1 <= LastDay[Months]
  BY DEF Day
<1>3. /\ LastDay[p] \in Int /\ LastDay[p - 1] \in Int
      /\ LastDay[p] >= LastDay[p - 1] + 28
      /\ \/ LastDay[p - 1] < n + 1 /\ n + 1 <= LastDay[p]
         \/ /\ n = LastDay[p] /\ p + 1 \in Month
            /\ LastDay[(p + 1) - 1] < n + 1 /\ n + 1 <= LastDay[p + 1]
  BY <1>1, <1>2, DayAfter
<1>4. DayOfMonth(n) = n - LastDay[p - 1]
  BY <1>1 DEF DayOfMonth
<1>7. LastDay[p] \in Int /\ LastDay[p - 1] \in Int /\ LastDay[p] >= LastDay[p - 1] + 28
  BY <1>3
<1>5. CASE LastDay[p - 1] < n + 1 /\ n + 1 <= LastDay[p]
  <2>1. PeriodOf(n + 1) = p
    BY <1>5, PeriodUnique
  <2>2. DayOfMonth(n + 1) = (n + 1) - LastDay[p - 1]
    BY <2>1, DayOfMonthIn
  <2>3. DayOfMonth(n) \in Int /\ DayOfMonth(n + 1) = DayOfMonth(n) + 1
    BY <1>2, <1>4, <1>7, <2>2
  <2> QED  BY <1>1, <2>1, <2>3
<1>6. CASE n = LastDay[p] /\ p + 1 \in Month
           /\ LastDay[(p + 1) - 1] < n + 1 /\ n + 1 <= LastDay[p + 1]
  <2>1. PeriodOf(n + 1) = p + 1
    BY <1>6, PeriodUnique
  <2>2. DayOfMonth(n + 1) = (n + 1) - LastDay[(p + 1) - 1]
    BY <2>1, DayOfMonthIn
  <2>3. (p + 1) - 1 = p
    BY DEF Month
  <2>4. DayOfMonth(n) \in Int /\ DayOfMonth(n) >= 28
    BY <1>2, <1>4, <1>6, <1>7
  <2>5. DayOfMonth(n + 1) = 1
    BY <1>2, <1>6, <2>2, <2>3
  <2> QED  BY <1>1, <2>1, <2>4, <2>5
<1> QED  BY <1>3, <1>5, <1>6

LEMMA ProvisionedInit == Init => Provisioned
<1> SUFFICES ASSUME Init PROVE Provisioned
  OBVIOUS
<1>1. today \in Day /\ today = Start /\ due = DueOn(today)
  BY MonthEndAssumption DEF Init
<1>2. DayOfMonth(today) <= 25
  BY <1>1, MonthEndAssumption
<1>3. DayOfMonth(today) = 25 => "provision" \in due
  BY <1>1 DEF DueOn
<1>4. DayOfMonth(today) \in Int
  <2>1. PeriodOf(today) \in Month
    BY <1>1, PeriodExists
  <2>2. LastDay[PeriodOf(today) - 1] \in Int
    BY <2>1, LastDayFacts
  <2> QED  BY <1>1, <2>2 DEF DayOfMonth, Day
<1>5. Ready(PeriodOf(today))
  BY <1>1 DEF Init, Ready
<1> QED  BY <1>1, <1>2, <1>3, <1>4, <1>5 DEF Provisioned

\* On a day folders only appear, and what is taken off the missed periods has them.
\* The job of the 25th ends with the next period ready.
LEMMA FolderMoves ==
  ASSUME [Next]_vars, ~NextDay
  PROVE  /\ today' = today
         /\ \A m : Ready(m) => Ready(m)'
         /\ "provision" \in due => "provision" \in due' \/ Ready(NextPeriod(today))'
<1>0. ASSUME UNCHANGED <<today, folders, missed>>, "provision" \in due => "provision" \in due'
      PROVE  /\ today' = today
             /\ \A m : Ready(m) => Ready(m)'
             /\ "provision" \in due => "provision" \in due' \/ Ready(NextPeriod(today))'
  BY <1>0 DEF Ready
<1>1. CASE UNCHANGED vars
  BY <1>0, <1>1 DEF vars
<1>2. CASE RoutineSync \/ RoutineSyncFails
  BY <1>0, <1>2 DEF RoutineSync, RoutineSyncFails
<1>3. CASE \E j \in Runner : StartRevaluation(j)
  BY <1>0, <1>3 DEF StartRevaluation
<1>4. CASE \E j \in Runner : Revalue(j)
  BY <1>0, <1>4 DEF Revalue, ReadBookValue, ReadUsdBalance, PostRevaluation, schedule
<1>5. ASSUME NEW d, NEW v, PutFile(d, v)
      PROVE  /\ today' = today /\ due' = due
             /\ \A m : Ready(m) => Ready(m)'
  BY <1>5 DEF PutFile, Ready
<1>6. CASE Human
  BY <1>0, <1>5, <1>6 DEF Human, Label, SyncNow, PostOpeningBalance, SeedRate, BackfillReference, schedule
<1>7. CASE Provision
  <2>1. PICK n : n = NextPeriod(today) /\ n = NextPeriod(today)'
    BY <1>7 DEF Provision, NextPeriod, PeriodOf
  <2>2. /\ today' = today /\ missed' = missed
        /\ folders' = folders \cup FoldersFor(n, Place)
    BY <1>7, <2>1 DEF Provision
  <2>3. Ready(n)' /\ \A m : Ready(m) => Ready(m)'
    BY <2>2 DEF Ready
  <2> QED  BY <2>1, <2>2, <2>3
<1>8. CASE ProvisionFails
  <2>1. PICK n : n = NextPeriod(today) /\ n = NextPeriod(today)'
    BY <1>8 DEF ProvisionFails, NextPeriod, PeriodOf
  <2>2. today' = today /\ missed' = missed \cup {n} /\ folders \subseteq folders'
    BY <1>8, <2>1 DEF ProvisionFails
  <2>3. Ready(n)' /\ \A m : Ready(m) => Ready(m)'
    BY <2>2 DEF Ready
  <2> QED  BY <2>1, <2>2, <2>3
<1>9. CASE ProvisionByHand
  <2>1. PICK n : n = NextPeriod(today)
    OBVIOUS
  <2>2. /\ today' = today /\ missed' = missed \ {n} /\ due' = due
        /\ folders' = folders \cup FoldersFor(n, Place)
    BY <1>9, <2>1 DEF ProvisionByHand
  <2> QED  BY <2>2 DEF Ready
<1> QED
  BY <1>1, <1>2, <1>3, <1>4, <1>6, <1>7, <1>8, <1>9 DEF Next, Clockwork, Runner

LEMMA ProvisionedStep == Provisioned /\ [Next]_vars => Provisioned'
<1> SUFFICES ASSUME Provisioned, [Next]_vars PROVE Provisioned'
  OBVIOUS
<1>1. today \in Day
  BY DEF Provisioned
<1>2. CASE NextDay
  <2>1. /\ today + 1 \in Day /\ today' = today + 1 /\ due' = DueOn(today + 1)
        /\ "provision" \notin due /\ \A m : Ready(m) => Ready(m)'
    BY <1>1, <1>2, NextDayIsADay DEF NextDay, Ready
  <2>2. PICK p : p = PeriodOf(today)
    OBVIOUS
  <2>3. PICK q : q = PeriodOf(today + 1) /\ q = PeriodOf(today)'
    BY <2>1 DEF PeriodOf
  <2>4. DayOfMonth(today)' = DayOfMonth(today + 1)
    BY <2>1 DEF PeriodOf, DayOfMonth
  <2>5. CASE q = p /\ DayOfMonth(today + 1) = DayOfMonth(today) + 1
    <3>1. DayOfMonth(today + 1) = 25 => "provision" \in due'
      BY <2>1 DEF DueOn
    <3>2. DayOfMonth(today + 1) > 25 => DayOfMonth(today) > 25 \/ DayOfMonth(today) = 25
      BY <1>1, <2>1, <2>5, NextDayOfMonth
    <3>3. DayOfMonth(today + 1) > 25 => Ready(q + 1)'
      BY <2>1, <2>2, <2>5, <3>2 DEF Provisioned
    <3>4. Ready(q)'
      BY <2>1, <2>2, <2>5 DEF Provisioned
    <3> QED  BY <2>1, <2>3, <2>4, <3>1, <3>3, <3>4 DEF Provisioned
  <2>6. CASE q = p + 1 /\ DayOfMonth(today + 1) = 1 /\ DayOfMonth(today) >= 28
    <3>1. DayOfMonth(today) > 25
      BY <1>1, <2>1, <2>6, NextDayOfMonth
    <3>2. Ready(q)'
      BY <2>1, <2>2, <2>6, <3>1 DEF Provisioned
    <3> QED  BY <2>1, <2>3, <2>4, <2>6, <3>2 DEF Provisioned
  <2> QED  BY <1>1, <2>1, <2>2, <2>3, <2>5, <2>6, NextDayOfMonth
<1>3. CASE ~NextDay
  <2>1. /\ today' = today
        /\ \A m : Ready(m) => Ready(m)'
        /\ "provision" \in due => "provision" \in due' \/ Ready(NextPeriod(today))'
    BY <1>3, FolderMoves
  <2>2. PICK p : p = PeriodOf(today) /\ p = PeriodOf(today)' /\ p + 1 = NextPeriod(today)'
    BY <2>1 DEF PeriodOf, NextPeriod
  <2>3. DayOfMonth(today)' = DayOfMonth(today)
    BY <2>1 DEF PeriodOf, DayOfMonth
  <2>4. "provision" \in due => "provision" \in due' \/ Ready(p + 1)'
    BY <2>1, <2>2
  <2>5. Ready(p)' /\ (Ready(p + 1) => Ready(p + 1)')
    BY <2>1, <2>2 DEF Provisioned
  <2> QED  BY <1>1, <2>1, <2>2, <2>3, <2>4, <2>5 DEF Provisioned
<1> QED  BY <1>2, <1>3

\* Whatever the lengths of the months, a month begins with all its upload folders
\* or after a failed provisioning that nobody made good in time.
THEOREM FolderIsReadyAlways == Spec => []FolderIsReady
<1>1. Provisioned => FolderIsReady
  BY DEF Provisioned, FolderIsReady, Ready
<1> QED  BY <1>1, ProvisionedInit, ProvisionedStep, PTL DEF Spec

-----------------------------------------------------------------------------
(* A wallet group is revalued once for a month.                              *)

\* The table and the ledger move together, from nothing to one revaluation.
OneRevaluation ==
    \/ reval = <<>> /\ restated = <<>>
    \/ \E u, v : reval = <<u>> /\ restated = <<v>>

LEMMA RevaluationMoves ==
  ASSUME [Next]_vars
  PROVE  \/ UNCHANGED <<reval, restated>>
         \/ reval = <<>> /\ \E j \in Runner : Restate(j)
<1>1. CASE UNCHANGED vars
  BY <1>1 DEF vars
<1>2. CASE RoutineSync \/ RoutineSyncFails \/ NextDay \/ Provision \/ ProvisionFails \/ ProvisionByHand
  BY <1>2 DEF RoutineSync, RoutineSyncFails, NextDay, Provision, ProvisionFails, ProvisionByHand, revaluation
<1>3. CASE \E j \in Runner : StartRevaluation(j)
  BY <1>3 DEF StartRevaluation
<1>4. CASE \E j \in Runner : ReadBookValue(j) \/ ReadUsdBalance(j)
  BY <1>4 DEF ReadBookValue, ReadUsdBalance
<1>5. CASE \E j \in Runner : PostRevaluation(j)
  BY <1>5 DEF PostRevaluation
<1>6. CASE Human
  BY <1>6 DEF Human, PutFile, Label, SyncNow, PostOpeningBalance, SeedRate, BackfillReference, revaluation
<1> QED
  BY <1>1, <1>2, <1>3, <1>4, <1>5, <1>6 DEF Next, Clockwork, Runner, Revalue

LEMMA OneRevaluationStep == OneRevaluation /\ [Next]_vars => OneRevaluation'
<1> SUFFICES ASSUME OneRevaluation, [Next]_vars PROVE OneRevaluation'
  OBVIOUS
<1>1. CASE UNCHANGED <<reval, restated>>
  BY <1>1 DEF OneRevaluation
<1>2. ASSUME reval = <<>>, NEW j \in Runner, Restate(j)
      PROVE  OneRevaluation'
  <2>1. restated = <<>>
    BY <1>2 DEF OneRevaluation
  <2> QED  BY <1>2, <2>1 DEF Restate, OneRevaluation
<1> QED  BY <1>1, <1>2, RevaluationMoves

\* However many runs overlap, there is one revaluation at most, with its entry.
THEOREM RevaluedOnceAlways == Spec => []RevaluedOnce
<1>1. Init => OneRevaluation
  BY DEF Init, OneRevaluation
<1>2. ASSUME OneRevaluation PROVE RevaluedOnce
  <2>1. CASE reval = <<>> /\ restated = <<>>
    BY <2>1 DEF RevaluedOnce
  <2>2. ASSUME NEW u, NEW v, reval = <<u>>, restated = <<v>> PROVE RevaluedOnce
    <3>1. Len(<<u>>) = 1 /\ Len(<<v>>) = 1
      OBVIOUS
    <3> QED  BY <2>2, <3>1 DEF RevaluedOnce
  <2> QED  BY <1>2, <2>1, <2>2 DEF OneRevaluation
<1> QED  BY <1>1, <1>2, OneRevaluationStep, PTL DEF Spec

-----------------------------------------------------------------------------
(* Final is honest.                                                          *)

\* What is ingested is in the queue, a statement that is ingested is checked,
\* and agreement was found with an opening balance in the ledger.
Checked ==
    /\ row \in [Row -> {"absent", "needs_review", "labelled", "refused", "posted"}]
    /\ \A d \in Doc : drive[d] \in {0} \cup DOMAIN Versions[d]
    /\ src \in [Doc -> Nat]
    /\ \A d \in Doc : src[d] \in {0} \cup DOMAIN Versions[d]
    /\ check \in [Balanced -> {"none", "ok", "material"}]
    /\ \A d \in Doc : \A r \in Content(d, src[d]) : row[r] # "absent"
    /\ \A d \in Balanced : src[d] # 0 => check[d] # "none"
    /\ \A d \in Balanced : check[d] = "ok" => opening

LEMMA ContentIsRows ==
  ASSUME NEW d \in Doc, NEW v \in {0} \cup DOMAIN Versions[d]
  PROVE  Content(d, v) \subseteq RowsOf(d) /\ RowsOf(d) \subseteq Row
<1>1. RowsOf(d) \subseteq Row
  BY Zenon DEF Row
<1>2. CASE v = 0
  BY <1>1, <1>2 DEF Content
<1>3. CASE v # 0 /\ v \in DOMAIN Versions[d]
  <2>1. Content(d, v) = Versions[d][v]
    BY <1>3 DEF Content
  <2>2. Versions[d][v] \subseteq RowsOf(d)
    BY <1>3, Zenon DEF RowsOf
  <2> QED  BY <1>1, <2>1, <2>2
<1> QED  BY <1>2, <1>3

LEMMA CheckedInit == Init => Checked
<1> SUFFICES ASSUME Init PROVE Checked
  OBVIOUS
<1>1. \A d \in Doc : drive[d] \in {0} \cup DOMAIN Versions[d]
  BY MonthEndAssumption DEF Init
<1>2. src = [d \in Doc |-> 0] /\ row = [r \in Row |-> "absent"]
      /\ check = [d \in Balanced |-> "none"]
  BY DEF Init
<1>3. \A d \in Doc : Content(d, src[d]) = {}
  BY <1>2 DEF Content
<1>4. Balanced \subseteq Doc
  BY MonthEndAssumption DEF Doc
<1> QED  BY <1>1, <1>2, <1>3, <1>4 DEF Checked

\* What the columns of a sync's transaction are afterwards.
LEMMA ReadStep ==
  ASSUME Checked, NEW a, ReadDocuments(a), PostRows(Staged(a)), UNCHANGED <<drive, opening>>
  PROVE  Checked'
<1>1. /\ src' = [d \in Doc |-> IF d \in ReadFor(a) THEN drive[d] ELSE src[d]]
      /\ row' \in [Row -> {"absent", "needs_review", "labelled", "refused", "posted"}]
      /\ \A d \in Doc : drive'[d] \in {0} \cup DOMAIN Versions[d]
  BY DEF ReadDocuments, PostRows, Checked
<1>2. src' \in [Doc -> Nat] /\ \A d \in Doc : src'[d] \in {0} \cup DOMAIN Versions[d]
  <2>1. \A d \in Doc : drive[d] \in Nat
    <3> SUFFICES ASSUME NEW d \in Doc PROVE drive[d] \in Nat
      OBVIOUS
    <3>1. Versions[d] \in Seq(SUBSET Row)
      BY MonthEndAssumption
    <3>2. DOMAIN Versions[d] \subseteq Nat
      BY <3>1
    <3> QED  BY <3>2 DEF Checked
  <2> QED  BY <1>1, <2>1 DEF Checked
<1>3. \A d \in Balanced : d \in Doc /\ d \in ReadFor(a)
  BY MonthEndAssumption DEF Doc, ReadFor
<1>4. /\ check' \in [Balanced -> {"none", "ok", "material"}]
      /\ \A d \in Balanced : drive[d] # 0 => check'[d] # "none"
      /\ \A d \in Balanced : check'[d] = "ok" => opening
  BY <1>3 DEF ReadDocuments, Recorded, Agrees, Checked
<1>5. \A d \in Balanced : src'[d] # 0 => check'[d] # "none"
  BY <1>1, <1>3, <1>4
<1>6. ASSUME NEW d \in Doc, NEW r \in Content(d, src'[d])
      PROVE  row'[r] # "absent"
  <2>1. r \in Row
    BY <1>2, <1>6, ContentIsRows
  <2>2. CASE d \in ReadFor(a)
    <3>1. r \in Staged(a)
      BY <1>1, <1>6, <2>2 DEF Staged
    <3> QED  BY <2>1, <3>1 DEF PostRows
  <2>3. CASE d \notin ReadFor(a)
    <3>1. row[r] # "absent"
      BY <1>1, <1>6, <2>3 DEF Checked
    <3> QED  BY <2>1, <3>1 DEF PostRows
  <2> QED  BY <2>2, <2>3
<1>7. \A d \in Doc : \A r \in Content(d, src[d])' : row'[r] # "absent"
  BY <1>6 DEF Content
<1> QED  BY <1>1, <1>2, <1>4, <1>5, <1>6 DEF Checked, Content

\* The sync of another month posts what is labelled.
LEMMA OtherStep ==
  ASSUME Checked, PostRows({}), UNCHANGED <<src, check, drive, opening>>
  PROVE  Checked'
<1>1. row' \in [Row -> {"absent", "needs_review", "labelled", "refused", "posted"}]
  BY DEF PostRows, Checked
<1>2. ASSUME NEW d \in Doc, NEW r \in Content(d, src[d])
      PROVE  row'[r] # "absent"
  <2>1. r \in Row
    BY <1>2, ContentIsRows DEF Checked
  <2>2. row[r] # "absent"
    BY <1>2 DEF Checked
  <2> QED  BY <2>1, <2>2 DEF PostRows
<1> QED  BY <1>1, <1>2 DEF Checked, Content

LEMMA SyncPeriodStep ==
  ASSUME Checked, NEW a, NEW p, SyncPeriod(a, p)
  PROVE  Checked'
<1>1. CASE p = Closing
  BY <1>1, ReadStep DEF SyncPeriod
<1>2. CASE p # Closing
  BY <1>2, OtherStep DEF SyncPeriod
<1> QED  BY <1>1, <1>2

LEMMA CheckedStep == Checked /\ [Next]_vars => Checked'
<1> SUFFICES ASSUME Checked, [Next]_vars PROVE Checked'
  OBVIOUS
<1>0. ASSUME UNCHANGED documents PROVE Checked'
  BY <1>0 DEF documents, Checked, Content
<1>1. CASE UNCHANGED vars
  BY <1>0, <1>1 DEF vars, documents
<1>2. CASE RoutineSync
  BY <1>2, SyncPeriodStep DEF RoutineSync
<1>3. CASE RoutineSyncFails \/ NextDay \/ Provision \/ ProvisionFails \/ ProvisionByHand
  BY <1>0, <1>3 DEF RoutineSyncFails, NextDay, Provision, ProvisionFails, ProvisionByHand
<1>4. CASE \E j \in Runner : StartRevaluation(j) \/ Revalue(j)
  BY <1>0, <1>4 DEF StartRevaluation, Revalue, ReadBookValue, ReadUsdBalance, PostRevaluation
<1>5. CASE \E a \in Account : SyncNow(a)
  BY <1>5, SyncPeriodStep DEF SyncNow
<1>6. ASSUME NEW d \in Doc, NEW v \in {0} \cup DOMAIN Versions[d], PutFile(d, v)
      PROVE  Checked'
  BY <1>6 DEF PutFile, Checked, Content
<1>7. ASSUME NEW r \in Row, NEW label \in {"labelled", "refused"}, Label(r, label)
      PROVE  Checked'
  BY <1>7 DEF Label, Checked, Content
<1>8. CASE PostOpeningBalance
  BY <1>8 DEF PostOpeningBalance, Checked, Content
<1>9. CASE BackfillReference \/ \E w \in DOMAIN Rate : SeedRate(w)
  BY <1>0, <1>9 DEF BackfillReference, SeedRate
<1>10. Removable \subseteq Doc
  BY MonthEndAssumption
<1> QED
  BY <1>1, <1>2, <1>3, <1>4, <1>5, <1>6, <1>7, <1>8, <1>9, <1>10 DEF Next, Clockwork, Runner, Human

LEMMA CheckedIsHonest == Checked => FinalIsHonest
<1> SUFFICES ASSUME Checked, NEW s \in Scope, Final(s), NEW d \in Expected(s)
             PROVE  /\ src[d] # 0
                    /\ \A r \in RowsOf(d) : row[r] # "absent" => row[r] = "posted"
                    /\ d \in Balanced => opening /\ Content(d, src[d]) \subseteq Posted(d)
  BY DEF FinalIsHonest
<1>1. /\ Expected(s) \subseteq Doc
      /\ d \in Balanced => s = "consolidated" \/ d \in GroupDoc
  <2>1. CASE s = "consolidated"
    BY <2>1 DEF Expected
  <2>2. CASE s = "wallet_group"
    BY <2>2 DEF Expected, Doc
  <2>3. CASE s # "consolidated" /\ s # "wallet_group"
    <3>1. s \in Account /\ Expected(s) = {s} \cup GroupDoc
      BY <2>3 DEF Scope, Expected
    <3>2. s \notin Balanced
      BY <3>1, MonthEndAssumption
    <3> QED  BY <3>1, <3>2 DEF Doc
  <2> QED  BY <2>1, <2>2, <2>3
<1>2. src[d] # 0
  BY DEF Final, Missing
<1>3. ASSUME NEW r \in RowsOf(d), row[r] # "absent"
      PROVE  row[r] = "posted"
  <2>1. r \in Row
    BY <1>1, Zenon DEF Row
  <2>2. r \in UNION {RowsOf(e) : e \in Expected(s)}
    BY Zenon
  <2>3. row[r] \notin {"needs_review", "labelled", "refused"}
    BY <2>2 DEF Final, NeedsReview
  <2> QED  BY <1>3, <2>1, <2>3 DEF Checked
<1>4. ASSUME d \in Balanced
      PROVE  opening /\ Content(d, src[d]) \subseteq Posted(d)
  <2>1. check[d] # "material"
    BY <1>1, <1>4 DEF Final, Material
  <2>2. check[d] = "ok"
    BY <1>2, <1>4, <2>1 DEF Checked
  <2>3. opening
    BY <1>4, <2>2 DEF Checked
  <2>4. \A r \in Content(d, src[d]) : r \in RowsOf(d) /\ row[r] # "absent"
    BY <1>1, ContentIsRows DEF Checked
  <2> QED  BY <1>3, <2>3, <2>4 DEF Posted
<1> QED  BY <1>2, <1>3, <1>4

\* A scope shown as Final has everything its statements say in the ledger.
THEOREM FinalIsHonestAlways == Spec => []FinalIsHonest
BY CheckedInit, CheckedStep, CheckedIsHonest, PTL DEF Spec
-----------------------------------------------------------------------------
(* A revaluation restates the wallet to its dollars.                         *)

PostedRows == UNION {Posted(d) : d \in WalletDoc}

\* The wallet before the month's revaluation, with the rows R in it.
Dollars(R) == PriorUsd + Cardinality(R)
Booked(R) == PriorIdr + PriorDiff + RowRate * Cardinality(R)

\* Each value a run has read, and each entry made of them, is the one of the rows
\* that were posted then; the book value only if there was no revaluation yet.
Sound(s, none) ==
    /\ s.at \in {"idle", "book", "usd", "post"}
    /\ s.at \in {"usd", "post"} =>
          /\ s.rate \in Nat /\ s.book \in Int /\ s.rows \subseteq Row
          /\ none => s.book = Booked(s.rows)
    /\ s.at = "post" =>
          /\ s.usd \in Int
          /\ ~s.torn => s.usd = Dollars(s.rows)

Restates(u, amount) ==
    /\ amount \in Int /\ u.usd \in Int /\ u.rate \in Nat /\ u.rows \subseteq Row
    /\ ~u.torn => amount = Dollars(u.rows) * u.rate - Booked(u.rows)

Revalued ==
    /\ OneRevaluation
    /\ seeded \subseteq DOMAIN Rate
    /\ job = [j \in Runner |-> job[j]]
    /\ \A j \in Runner : Sound(job[j], reval = <<>>)
    /\ \A i \in DOMAIN reval : Restates(reval[i], restated[i])

LEMMA RowSets ==
  ASSUME NEW R \in SUBSET Row
  PROVE  IsFiniteSet(R) /\ Cardinality(R) \in Nat /\ Dollars(R) \in Int /\ Booked(R) \in Int
<1>1. IsFiniteSet(R) /\ Cardinality(R) \in Nat
  BY MonthEndAssumption, FS_Subset, FS_CardinalityType
<1>2. RowRate \in Int /\ PriorUsd \in Int /\ PriorIdr \in Int /\ PriorDiff \in Int
  BY MonthEndAssumption
<1> QED  BY <1>1, <1>2 DEF Dollars, Booked

LEMMA PostedAreRows == PostedRows \subseteq Row
<1>1. \A d \in WalletDoc : d \in Doc
  BY MonthEndAssumption
<1>2. \A d \in Doc : RowsOf(d) \subseteq Row
  BY Zenon DEF Row
<1>3. \A d \in WalletDoc : Posted(d) \subseteq Row
  BY <1>1, <1>2 DEF Posted
<1> QED  BY <1>3 DEF PostedRows

\* The two balances are sums of the lines in any order.
LEMMA IdrFold ==
  ASSUME NEW K, IsFiniteSet(K)
  PROVE  MapThenSumSet(LAMBDA l : l.idr, K) = Total([l \in K |-> l.idr], K)
<1> DEFINE f == [l \in K |-> l.idr]
           Eq(k) == k = [s \in SUBSET K |-> IF s = {} THEN 0
                           ELSE (CHOOSE x \in s : TRUE).idr + k[s \ {CHOOSE x \in s : TRUE}]]
<1>1. \A k : Sums(k, f, K) <=> Eq(k)
  <2>1. ASSUME NEW s \in SUBSET K, s # {}
        PROVE  f[Pick(s)] = (CHOOSE x \in s : TRUE).idr
    BY <2>1 DEF Pick
  <2> HIDE DEF f
  <2> QED  BY <2>1 DEF Sums, Pick
<1>2. MapThenSumSet(LAMBDA l : l.idr, K) = (CHOOSE k : Eq(k))[K]
  BY DEF MapThenSumSet, MapThenFoldSet
<1> HIDE DEF Eq, f
<1>3. \E k : Eq(k)
  BY <1>1, SumsExists
<1>4. Sums(CHOOSE k : Eq(k), f, K)
  BY <1>1, <1>3
<1> QED  BY <1>2, <1>4, TotalIs DEF f

LEMMA UsdFold ==
  ASSUME NEW K, IsFiniteSet(K)
  PROVE  MapThenSumSet(LAMBDA l : l.usd, K) = Total([l \in K |-> l.usd], K)
<1> DEFINE f == [l \in K |-> l.usd]
           Eq(k) == k = [s \in SUBSET K |-> IF s = {} THEN 0
                           ELSE (CHOOSE x \in s : TRUE).usd + k[s \ {CHOOSE x \in s : TRUE}]]
<1>1. \A k : Sums(k, f, K) <=> Eq(k)
  <2>1. ASSUME NEW s \in SUBSET K, s # {}
        PROVE  f[Pick(s)] = (CHOOSE x \in s : TRUE).usd
    BY <2>1 DEF Pick
  <2> HIDE DEF f
  <2> QED  BY <2>1 DEF Sums, Pick
<1>2. MapThenSumSet(LAMBDA l : l.usd, K) = (CHOOSE k : Eq(k))[K]
  BY DEF MapThenSumSet, MapThenFoldSet
<1> HIDE DEF Eq, f
<1>3. \E k : Eq(k)
  BY <1>1, SumsExists
<1>4. Sums(CHOOSE k : Eq(k), f, K)
  BY <1>1, <1>3
<1> QED  BY <1>2, <1>4, TotalIs DEF f

\* The four kinds of lines, told apart by their names.
OpeningLine == [id |-> <<"opening">>, source |-> "opening_balance", idr |-> PriorIdr, usd |-> PriorUsd]
PriorLine == [id |-> <<"prior">>, source |-> "fx_revaluation", idr |-> PriorDiff, usd |-> PriorUsd]
RowLine == [r \in PostedRows |->
              [id |-> <<"row", r>>, source |-> "review_queue", idr |-> RowRate, usd |-> 1]]
RowLines == {RowLine[r] : r \in PostedRows}
RestatedLine == [id |-> <<"revaluation", 1>>, source |-> "fx_revaluation", idr |-> restated[1],
                 usd |-> reval[1].usd]
RestatedLines == IF reval = <<>> THEN {} ELSE {RestatedLine}

LEMMA LinesAre ==
  ASSUME OneRevaluation
  PROVE  WalletLine = ({OpeningLine} \cup RowLines) \cup ({PriorLine} \cup RestatedLines)
<1>1. {[id |-> <<"row", r>>, source |-> "review_queue", idr |-> RowRate, usd |-> 1] : r \in PostedRows}
      = RowLines
  BY DEF RowLines, RowLine
<1>2. {[id |-> <<"revaluation", i>>, source |-> "fx_revaluation", idr |-> restated[i], usd |-> reval[i].usd] :
            i \in DOMAIN restated \cap DOMAIN reval}
      = RestatedLines
  <2>1. CASE reval = <<>>
    BY <2>1 DEF RestatedLines
  <2>2. CASE reval # <<>>
    <3>1. DOMAIN restated \cap DOMAIN reval = {1}
      BY <2>2 DEF OneRevaluation
    <3> QED  BY <2>2, <3>1 DEF RestatedLines, RestatedLine
  <2> QED  BY <2>1, <2>2
<1>3. WalletLine = {OpeningLine, PriorLine} \cup RowLines \cup RestatedLines
  BY <1>1, <1>2, Zenon DEF WalletLine, OpeningLine, PriorLine, PostedRows
<1> QED  BY <1>3

LEMMA LinesDiffer ==
  /\ OpeningLine \notin RowLines /\ PriorLine \notin RestatedLines
  /\ ({OpeningLine} \cup RowLines) \cap ({PriorLine} \cup RestatedLines) = {}
  /\ \A l \in {OpeningLine} \cup RowLines : l.source # "fx_revaluation"
  /\ \A l \in {PriorLine} \cup RestatedLines : l.source = "fx_revaluation"
  /\ \A r, q \in PostedRows : RowLine[r] = RowLine[q] => r = q
<1>1. OpeningLine.source = "opening_balance" /\ PriorLine.source = "fx_revaluation"
      /\ PriorLine.id[1] = "prior"
  BY DEF OpeningLine, PriorLine
<1>2. \A l \in RowLines : l.source = "review_queue"
  BY DEF RowLines, RowLine
<1>3. \A l \in RestatedLines : l.source = "fx_revaluation" /\ l.id[1] = "revaluation"
  BY DEF RestatedLines, RestatedLine
<1>4. \A r \in PostedRows : RowLine[r].id[2] = r
  BY DEF RowLine
<1>5. \A r, q \in PostedRows : RowLine[r] = RowLine[q] => r = q
  BY <1>4
<1> QED  BY <1>1, <1>2, <1>3, <1>5

LEMMA LinesFinite ==
  /\ IsFiniteSet(PostedRows) /\ IsFiniteSet(RowLines) /\ IsFiniteSet({OpeningLine} \cup RowLines)
  /\ IsFiniteSet({PriorLine} \cup RestatedLines)
<1>1. IsFiniteSet(PostedRows)
  BY PostedAreRows, RowSets
<1>2. IsFiniteSet(RowLines)
  <2>1. RowLine \in Surjection(PostedRows, RowLines)
    BY DEF Surjection, RowLine, RowLines
  <2> QED  BY <1>1, <2>1, FS_Surjection
<1>3. IsFiniteSet({OpeningLine}) /\ IsFiniteSet({PriorLine}) /\ IsFiniteSet(RestatedLines)
  BY FS_Singleton, FS_EmptySet DEF RestatedLines
<1> QED  BY <1>1, <1>2, <1>3, FS_Union

\* What the rows and the opening balance come to.
LEMMA RowsTotal ==
  ASSUME NEW f, NEW c \in Int, NEW o \in Int, f[OpeningLine] = o,
         \A r \in PostedRows : f[RowLine[r]] = c
  PROVE  Total(f, {OpeningLine} \cup RowLines) = o + c * Cardinality(PostedRows)
<1>1. IsFiniteSet({OpeningLine}) /\ {OpeningLine} \cap RowLines = {}
  BY FS_Singleton, LinesDiffer
<1>2. Total(f, {OpeningLine}) = o
  BY TotalSingle
<1>3. Total(f, RowLines) = c * Cardinality(PostedRows)
  <2>1. Total(f, {RowLine[r] : r \in PostedRows}) = c * Cardinality(PostedRows)
    BY LinesFinite, LinesDiffer, TotalEach
  <2> QED  BY <2>1 DEF RowLines
<1>4. \A l \in {OpeningLine} \cup RowLines : f[l] \in Int
  BY DEF RowLines
<1> QED  BY <1>1, <1>2, <1>3, <1>4, LinesFinite, TotalUnion

\* compute_payoneer_wallet_balance's dollars leave out every revaluation.
LEMMA UsdBalanceIs ==
  ASSUME OneRevaluation
  PROVE  UsdBalance = Dollars(PostedRows)
<1> DEFINE K == {OpeningLine} \cup RowLines
           f == [l \in K |-> l.usd]
<1>1. {l \in WalletLine : l.source # "fx_revaluation"} = K
  BY LinesAre, LinesDiffer
<1>2. UsdBalance = Total(f, K)
  <2>1. MapThenSumSet(LAMBDA l : l.usd, K) = Total(f, K)
    BY LinesFinite, UsdFold
  <2> QED  BY <1>1, <2>1, Zenon DEF UsdBalance
<1>3. f[OpeningLine] = PriorUsd /\ \A r \in PostedRows : f[RowLine[r]] = 1
  BY DEF OpeningLine, RowLine, RowLines
<1> HIDE DEF f
<1>6. PriorUsd \in Int /\ 1 \in Int
  BY MonthEndAssumption
<1>4. Total(f, K) = PriorUsd + 1 * Cardinality(PostedRows)
  BY <1>3, <1>6, RowsTotal
<1>5. Cardinality(PostedRows) \in Nat
  BY PostedAreRows, RowSets
<1> QED  BY <1>2, <1>4, <1>5, <1>6 DEF Dollars

\* Its book value is that of its rows and of what revaluations made of it.
LEMMA BookValueIs ==
  ASSUME OneRevaluation, reval # <<>> => restated[1] \in Int
  PROVE  BookValue = Booked(PostedRows) + (IF reval = <<>> THEN 0 ELSE restated[1])
<1> DEFINE K == {OpeningLine} \cup RowLines
           M == {PriorLine} \cup RestatedLines
           f == [l \in WalletLine |-> l.idr]
<1>1. WalletLine = K \cup M /\ IsFiniteSet(WalletLine) /\ K \cap M = {}
  <2>1. WalletLine = K \cup M /\ K \cap M = {}
    BY LinesAre, LinesDiffer
  <2>2. IsFiniteSet(K) /\ IsFiniteSet(M)
    BY LinesFinite
  <2> QED  BY <2>1, <2>2, FS_Union
<1>2. BookValue = Total(f, K \cup M)
  <2>1. MapThenSumSet(LAMBDA l : l.idr, WalletLine) = Total(f, WalletLine)
    BY <1>1, IdrFold
  <2> QED  BY <1>1, <2>1, Zenon DEF BookValue
<1>3. PriorIdr \in Int /\ PriorDiff \in Int /\ RowRate \in Int
  BY MonthEndAssumption
<1>4. f[OpeningLine] = PriorIdr /\ f[PriorLine] = PriorDiff
  BY <1>1 DEF OpeningLine, PriorLine
<1>5. \A r \in PostedRows : f[RowLine[r]] = RowRate
  BY <1>1 DEF RowLine, RowLines
<1>6. reval # <<>> => f[RestatedLine] = restated[1]
  BY <1>1 DEF RestatedLines, RestatedLine
<1> HIDE DEF f
<1>7. Total(f, K) = PriorIdr + RowRate * Cardinality(PostedRows)
  BY <1>3, <1>4, <1>5, RowsTotal
<1>8. Total(f, M) = PriorDiff + (IF reval = <<>> THEN 0 ELSE restated[1])
  <2>1. Total(f, {PriorLine}) = PriorDiff
    BY <1>3, <1>4, TotalSingle
  <2>2. CASE reval = <<>>
    <3>1. M = {PriorLine}
      BY <2>2 DEF RestatedLines
    <3> QED  BY <1>3, <2>1, <2>2, <3>1
  <2>3. CASE reval # <<>>
    <3>1. RestatedLines = {RestatedLine} /\ {PriorLine} \cap {RestatedLine} = {}
      BY <2>3, LinesDiffer DEF RestatedLines
    <3>2. Total(f, {RestatedLine}) = restated[1]
      BY <1>6, <2>3, TotalSingle
    <3>3. IsFiniteSet({PriorLine}) /\ IsFiniteSet({RestatedLine})
      BY FS_Singleton
    <3>4. \A l \in {PriorLine} \cup {RestatedLine} : f[l] \in Int
      BY <1>3, <1>4, <1>6, <2>3
    <3>5. Total(f, {PriorLine} \cup {RestatedLine}) = Total(f, {PriorLine}) + Total(f, {RestatedLine})
      BY <3>1, <3>3, <3>4, TotalUnion
    <3> QED  BY <2>1, <2>3, <3>1, <3>2, <3>5
  <2> QED  BY <2>2, <2>3
<1>9. \A l \in K \cup M : f[l] \in Int
  BY <1>3, <1>4, <1>5, <1>6 DEF RowLines, RestatedLines
<1>10. IsFiniteSet(K) /\ IsFiniteSet(M)
  BY LinesFinite
<1> HIDE DEF K, M
<1>11. BookValue = Total(f, K) + Total(f, M)
  BY <1>1, <1>2, <1>9, <1>10, TotalUnion
<1>12. PICK n \in Nat : n = Cardinality(PostedRows)
  BY PostedAreRows, RowSets
<1>13. PICK c \in Int : c = RowRate * n
  BY <1>3, <1>12
<1>14. PICK z \in Int : z = IF reval = <<>> THEN 0 ELSE restated[1]
  OBVIOUS
<1> QED  BY <1>3, <1>7, <1>8, <1>11, <1>12, <1>13, <1>14 DEF Booked

LEMMA SoundLater ==
  ASSUME NEW s, NEW before \in BOOLEAN, NEW after \in BOOLEAN, Sound(s, before), after => before
  PROVE  Sound(s, after)
BY DEF Sound

\* A run's next step leaves the other run's state as it is.
LEMMA StepSound ==
  ASSUME Revalued, NEW j \in Runner, NEW s, Step(j, s), Sound(s, reval' = <<>>),
         reval' = <<>> => reval = <<>>
  PROVE  /\ job' = [k \in Runner |-> job'[k]]
         /\ \A k \in Runner : Sound(job'[k], reval' = <<>>)
<1>1. job' = [k \in Runner |-> IF k = j THEN s ELSE job[k]]
  BY DEF Step, Revalued
<1>2. \A k \in Runner : job'[k] = IF k = j THEN s ELSE job[k]
  BY <1>1
<1>3. job' = [k \in Runner |-> job'[k]]
  BY <1>1, <1>2
<1>4. ASSUME NEW k \in Runner PROVE Sound(job'[k], reval' = <<>>)
  <2>1. CASE k = j
    BY <1>2, <2>1
  <2>2. CASE k # j
    <3>1. Sound(job[k], reval = <<>>)
      BY DEF Revalued
    <3>2. Sound(job[k], reval' = <<>>)
      BY <3>1, SoundLater
    <3> QED  BY <1>2, <2>2, <3>2
  <2> QED  BY <2>1, <2>2
<1> QED  BY <1>3, <1>4

LEMMA RevaluedStart ==
  ASSUME Revalued, NEW j \in Runner, StartRevaluation(j)
  PROVE  Revalued'
<1>1. UNCHANGED <<seeded, reval, restated>>
  BY DEF StartRevaluation
<1>2. PICK s \in {[at |-> "book"], Idle} : Step(j, s)
  BY DEF StartRevaluation
<1>3. s.at \in {"idle", "book"}
  BY DEF Idle
<1>4. Sound(s, reval' = <<>>)
  BY <1>3 DEF Sound
<1>5. /\ job' = [k \in Runner |-> job'[k]]
      /\ \A k \in Runner : Sound(job'[k], reval' = <<>>)
  BY <1>1, <1>2, <1>4, StepSound
<1> QED  BY <1>1, <1>5 DEF Revalued, OneRevaluation

LEMMA IdleSound ==
  ASSUME NEW none \in BOOLEAN
  PROVE  Sound(Idle, none)
<1>1. Idle.at = "idle"
  BY DEF Idle
<1> QED  BY <1>1 DEF Sound

\* The closing rate in force is one of the published.
LEMMA KnownRateIs ==
  ASSUME seeded \subseteq DOMAIN Rate, seeded # {}
  PROVE  KnownRate \in Nat
<1>1. Rate \in Seq(Nat) /\ Len(Rate) \in Nat /\ DOMAIN Rate = 1..Len(Rate)
  BY MonthEndAssumption
<1> DEFINE T == {Len(Rate) - w : w \in seeded}
<1>2. T \in SUBSET Nat /\ T # {}
  BY <1>1
<1>3. PICK n \in T : \A m \in T : n <= m
  BY <1>2, LeastNat
<1>4. PICK w \in seeded : n = Len(Rate) - w
  BY <1>3
<1>5. \A v \in seeded : w >= v
  <2>1. ASSUME NEW v \in seeded PROVE w >= v
    <3>1. n <= Len(Rate) - v
      BY <1>3
    <3>2. v \in Int /\ w \in Int
      BY <1>1
    <3> QED  BY <1>1, <1>4, <3>1, <3>2
  <2> QED  BY <2>1
<1>6. Max(seeded) \in seeded
  BY <1>5 DEF Max
<1> QED  BY <1>1, <1>6 DEF KnownRate

LEMMA RevaluedBook ==
  ASSUME Revalued, NEW j \in Runner, ReadBookValue(j)
  PROVE  Revalued'
<1>1. UNCHANGED <<seeded, reval, restated>>
  BY DEF ReadBookValue
<1> DEFINE s == IF seeded = {} THEN Idle
               ELSE [at |-> "usd", rate |-> KnownRate, book |-> BookValue, rows |-> PostedRows]
<1>2. Step(j, s)
  BY DEF ReadBookValue, PostedRows
<1>3. Sound(s, reval' = <<>>)
  <2>1. CASE seeded = {}
    BY <2>1, IdleSound
  <2>2. CASE seeded # {}
    <3>1. KnownRate \in Nat
      BY <2>2, KnownRateIs DEF Revalued
    <3>2. Booked(PostedRows) \in Int /\ PostedRows \subseteq Row
      BY PostedAreRows, RowSets
    <3>3. reval # <<>> => restated[1] \in Int
      <4>1. reval # <<>> => 1 \in DOMAIN reval
        BY DEF Revalued, OneRevaluation
      <4> QED  BY <4>1 DEF Revalued, Restates
    <3>4. BookValue = Booked(PostedRows) + (IF reval = <<>> THEN 0 ELSE restated[1])
      BY <3>3, BookValueIs DEF Revalued
    <3>5. BookValue \in Int /\ (reval = <<>> => BookValue = Booked(PostedRows))
      BY <3>2, <3>3, <3>4
    <3>6. /\ s.at = "usd" /\ s.rate = KnownRate /\ s.book = BookValue /\ s.rows = PostedRows
      BY <2>2
    <3> HIDE DEF s
    <3> QED  BY <1>1, <3>1, <3>2, <3>5, <3>6 DEF Sound
  <2> QED  BY <2>1, <2>2
<1> HIDE DEF s
<1>4. /\ job' = [k \in Runner |-> job'[k]]
      /\ \A k \in Runner : Sound(job'[k], reval' = <<>>)
  BY <1>1, <1>2, <1>3, StepSound
<1> QED  BY <1>1, <1>4 DEF Revalued, OneRevaluation

LEMMA RevaluedUsd ==
  ASSUME Revalued, NEW j \in Runner, ReadUsdBalance(j)
  PROVE  Revalued'
<1>1. UNCHANGED <<seeded, reval, restated>>
  BY DEF ReadUsdBalance
<1> DEFINE s == [at |-> "post", rate |-> job[j].rate, book |-> job[j].book, usd |-> UsdBalance,
                 rows |-> job[j].rows, torn |-> job[j].rows # PostedRows]
<1>2. Step(j, s) \/ Step(j, Idle)
  BY DEF ReadUsdBalance, PostedRows
<1>3. Sound(s, reval' = <<>>)
  <2>1. UsdBalance = Dollars(PostedRows) /\ Dollars(PostedRows) \in Int
    BY UsdBalanceIs, PostedAreRows, RowSets DEF Revalued
  <2>2. /\ s.at = "post" /\ s.rate = job[j].rate /\ s.book = job[j].book /\ s.usd = UsdBalance
        /\ s.rows = job[j].rows /\ (s.torn <=> job[j].rows # PostedRows)
    OBVIOUS
  <2>3. job[j].at = "usd" /\ Sound(job[j], reval = <<>>)
    BY DEF ReadUsdBalance, Revalued
  <2> HIDE DEF s
  <2> QED  BY <1>1, <2>1, <2>2, <2>3 DEF Sound
<1>4. Sound(Idle, reval' = <<>>)
  BY IdleSound
<1> HIDE DEF s
<1>5. /\ job' = [k \in Runner |-> job'[k]]
      /\ \A k \in Runner : Sound(job'[k], reval' = <<>>)
  BY <1>1, <1>2, <1>3, <1>4, StepSound
<1> QED  BY <1>1, <1>5 DEF Revalued, OneRevaluation

LEMMA RevaluedPost ==
  ASSUME Revalued, NEW j \in Runner, PostRevaluation(j)
  PROVE  Revalued'
<1>1. UNCHANGED seeded /\ Step(j, Idle)
  BY DEF PostRevaluation
<1>2. reval' = <<>> => reval = <<>>
  BY DEF PostRevaluation, Restate, Revalued, OneRevaluation
<1>3. /\ job' = [k \in Runner |-> job'[k]]
      /\ \A k \in Runner : Sound(job'[k], reval' = <<>>)
  BY <1>1, <1>2, IdleSound, StepSound
<1>4. CASE UNCHANGED <<reval, restated>>
  BY <1>1, <1>3, <1>4 DEF Revalued, OneRevaluation
<1>5. CASE reval = <<>> /\ Restate(j)
  <2>1. PICK u : u = [usd |-> job[j].usd, rate |-> job[j].rate, rows |-> job[j].rows, torn |-> job[j].torn]
    OBVIOUS
  <2>2. PICK v : v = Diff(j)
    OBVIOUS
  <2>3. reval' = <<u>> /\ restated' = <<v>>
    BY <1>5, <2>1, <2>2 DEF Restate, Revalued, OneRevaluation
  <2>4. OneRevaluation'
    BY <2>3 DEF OneRevaluation
  <2>5. /\ job[j].rate \in Nat /\ job[j].book \in Int /\ job[j].rows \subseteq Row
        /\ job[j].book = Booked(job[j].rows)
        /\ job[j].usd \in Int /\ (~job[j].torn => job[j].usd = Dollars(job[j].rows))
    <3>1. job[j].at = "post" /\ Sound(job[j], reval = <<>>)
      BY DEF PostRevaluation, Revalued
    <3> QED  BY <1>5, <3>1 DEF Sound
  <2>6. /\ v \in Int /\ u.usd \in Int /\ u.rate \in Nat /\ u.rows \subseteq Row
        /\ ~u.torn => v = Dollars(u.rows) * u.rate - Booked(u.rows)
    BY <2>1, <2>2, <2>5 DEF Diff
  <2>7. DOMAIN reval' = {1} /\ reval'[1] = u /\ restated'[1] = v
    BY <2>3
  <2>8. \A i \in DOMAIN reval' : Restates(reval'[i], restated'[i])
    BY <2>6, <2>7 DEF Restates
  <2> QED  BY <1>1, <1>3, <2>4, <2>8 DEF Revalued
<1> QED  BY <1>4, <1>5 DEF PostRevaluation

LEMMA RevaluedInit == Init => Revalued
<1> SUFFICES ASSUME Init PROVE Revalued
  OBVIOUS
<1>1. reval = <<>> /\ restated = <<>> /\ seeded = {} /\ job = [j \in Runner |-> Idle]
  BY DEF Init
<1>2. \A j \in Runner : Sound(job[j], reval = <<>>)
  BY <1>1, IdleSound
<1> QED  BY <1>1, <1>2 DEF Revalued, OneRevaluation

LEMMA RevaluedStep == Revalued /\ [Next]_vars => Revalued'
<1> SUFFICES ASSUME Revalued, [Next]_vars PROVE Revalued'
  OBVIOUS
<1>0. ASSUME UNCHANGED <<job, reval, restated>>, seeded' \subseteq DOMAIN Rate
      PROVE  Revalued'
  BY <1>0 DEF Revalued, OneRevaluation
<1>1. CASE UNCHANGED vars
  BY <1>0, <1>1 DEF vars, Revalued
<1>2. CASE RoutineSync \/ RoutineSyncFails \/ NextDay \/ Provision \/ ProvisionFails \/ ProvisionByHand
  BY <1>0, <1>2 DEF RoutineSync, RoutineSyncFails, NextDay, Provision, ProvisionFails, ProvisionByHand, revaluation, Revalued
<1>3. CASE \E j \in Runner : StartRevaluation(j)
  BY <1>3, RevaluedStart
<1>4. CASE \E j \in Runner : Revalue(j)
  BY <1>4, RevaluedBook, RevaluedUsd, RevaluedPost DEF Revalue
<1>5. CASE Human
  BY <1>0, <1>5 DEF Human, PutFile, Label, SyncNow, PostOpeningBalance, SeedRate, BackfillReference,
                    revaluation, Revalued
<1> QED  BY <1>1, <1>2, <1>3, <1>4, <1>5 DEF Next, Clockwork, Runner

\* Whatever runs overlap, the revaluation of a wallet group restates it to its
\* dollars at the rate the run read, an earlier revaluation notwithstanding,
\* unless a row was posted between the run's two queries or since.
THEOREM RevaluedAtBalanceAlways == Spec => []RevaluedAtBalance
<1>1. ASSUME Revalued PROVE RevaluedAtBalance
  <2> SUFFICES ASSUME NEW i \in DOMAIN reval, ~reval[i].torn, PostedRows = reval[i].rows
               PROVE  BookValue = (PriorUsd + Cardinality(PostedRows)) * reval[i].rate
    BY DEF RevaluedAtBalance, PostedRows
  <2>1. i = 1 /\ reval # <<>>
    BY <1>1 DEF Revalued, OneRevaluation
  <2>2. /\ restated[1] \in Int /\ reval[1].rate \in Nat
        /\ restated[1] = Dollars(PostedRows) * reval[1].rate - Booked(PostedRows)
    BY <1>1, <2>1 DEF Revalued, Restates
  <2>3. BookValue = Booked(PostedRows) + restated[1]
    BY <1>1, <2>1, <2>2, BookValueIs DEF Revalued
  <2>4. Booked(PostedRows) \in Int /\ Dollars(PostedRows) \in Int
    BY PostedAreRows, RowSets
  <2>5. PICK p \in Int : p = Dollars(PostedRows) * reval[1].rate
    BY <2>2, <2>4
  <2>6. BookValue = p
    BY <2>2, <2>3, <2>4, <2>5
  <2> QED  BY <2>1, <2>5, <2>6 DEF Dollars
<1> QED  BY <1>1, RevaluedInit, RevaluedStep, PTL DEF Spec

-----------------------------------------------------------------------------
(* The shape of the state.                                                   *)

\* What is not in the other invariants.
Shaped ==
    /\ due \subseteq {"fx", "provision", "manual"}
    /\ attempted \subseteq Account \X Month
    /\ folders \subseteq (Month \cup {Months + 1}) \X Place
    /\ missed \subseteq Month \cup {Months + 1}
    /\ opening \in BOOLEAN /\ referenced \in BOOLEAN
    /\ failures \in 0..MaxFailures

LEMMA DueShaped ==
  ASSUME NEW n
  PROVE  DueOn(n) \subseteq {"fx", "provision", "manual"}
BY DEF DueOn

LEMMA NextPeriodShaped ==
  ASSUME NEW n \in Day
  PROVE  NextPeriod(n) \in Month \cup {Months + 1}
<1>1. PeriodOf(n) \in Month
  BY PeriodExists
<1> QED  BY <1>1, CalendarAssumption DEF NextPeriod, Month

\* The prefixes of Places are places.
LEMMA PlacesFacts ==
  \A n \in 0..(Len(Places) - 1) : {Places[i] : i \in 1..n} \subseteq Place
<1>1. Accounts \in Seq(Account) /\ Len(Accounts) \in Nat
  BY AccountsFacts, MonthEndAssumption
<1>2. Places \in Seq(Place)
  <2>1. Accounts \in Seq(Place) /\ <<"group", "master">> \in Seq(Place)
    BY <1>1 DEF Place
  <2> QED  BY <2>1 DEF Places
<1> QED  BY <1>2

LEMMA ShapedInit == Init => Shaped
<1> SUFFICES ASSUME Init PROVE Shaped
  OBVIOUS
<1>1. Start \in Day
  BY MonthEndAssumption
<1>2. PeriodOf(Start) \in Month
  BY <1>1, PeriodExists
<1>3. due \subseteq {"fx", "provision", "manual"}
  BY DueShaped DEF Init
<1>4. failures \in 0..MaxFailures
  BY MonthEndAssumption DEF Init
<1>5. folders \subseteq (Month \cup {Months + 1}) \X Place /\ missed = {}
  BY <1>2 DEF Init, FoldersFor
<1> QED  BY <1>2, <1>3, <1>4, <1>5 DEF Init, Shaped

LEMMA ShapedStep == Tried /\ Shaped /\ [Next]_vars => Shaped'
<1> SUFFICES ASSUME Tried, Shaped, [Next]_vars PROVE Shaped'
  OBVIOUS
<1>0. ASSUME UNCHANGED <<attempted, folders, missed, opening, referenced, failures>>, due' \subseteq due
      PROVE  Shaped'
  BY <1>0 DEF Shaped
<1>1. CASE UNCHANGED vars
  BY <1>0, <1>1 DEF vars
<1>2. todo # <<>> => Head(todo) \in Account \X Month
  BY HeadTailProperties DEF Tried
<1>3. CASE RoutineSync
  <2>1. UNCHANGED <<due, folders, missed, opening, referenced, failures>>
    BY <1>3 DEF RoutineSync, SyncPeriod, revaluation
  <2>2. attempted' = attempted \cup {Head(todo)} /\ todo # <<>>
    BY <1>3 DEF RoutineSync
  <2> QED  BY <1>2, <2>1, <2>2 DEF Shaped
<1>4. CASE RoutineSyncFails
  <2>1. UNCHANGED <<due, folders, missed, opening, referenced>>
    BY <1>4 DEF RoutineSyncFails, documents, revaluation
  <2>2. attempted' = attempted \cup {Head(todo)} /\ todo # <<>>
        /\ failures < MaxFailures /\ failures' = failures + 1
    BY <1>4 DEF RoutineSyncFails
  <2>3. failures' \in 0..MaxFailures
    BY <2>2, MonthEndAssumption DEF Shaped
  <2> QED  BY <1>2, <2>1, <2>2, <2>3 DEF Shaped
<1>5. CASE NextDay
  <2>1. due' \subseteq {"fx", "provision", "manual"}
    BY <1>5, DueShaped DEF NextDay
  <2>2. attempted' = {} /\ UNCHANGED <<folders, missed, opening, referenced, failures>>
    BY <1>5 DEF NextDay, documents, revaluation
  <2> QED  BY <2>1, <2>2 DEF Shaped
<1>6. CASE Provision \/ ProvisionFails \/ ProvisionByHand
  <2>1. NextPeriod(today) \in Month \cup {Months + 1}
    BY NextPeriodShaped DEF Tried
  <2>2. \A places : places \subseteq Place =>
          FoldersFor(NextPeriod(today), places) \subseteq (Month \cup {Months + 1}) \X Place
    BY <2>1 DEF FoldersFor
  <2>3. \A n \in 0..(Len(Places) - 1) : {Places[i] : i \in 1..n} \subseteq Place
    BY PlacesFacts
  <2>4. /\ due' \subseteq due /\ UNCHANGED <<attempted, opening, referenced>>
        /\ missed' \subseteq missed \cup {NextPeriod(today)}
    BY <1>6 DEF Provision, ProvisionFails, ProvisionByHand, documents, revaluation
  <2>5. folders' \subseteq (Month \cup {Months + 1}) \X Place
    <3>1. PICK places \in SUBSET Place : folders' = folders \cup FoldersFor(NextPeriod(today), places)
      BY <1>6, <2>3 DEF Provision, ProvisionFails, ProvisionByHand
    <3> QED  BY <2>2, <3>1 DEF Shaped
  <2>6. failures' \in 0..MaxFailures
    BY <1>6, MonthEndAssumption DEF Provision, ProvisionFails, ProvisionByHand, Shaped
  <2> QED  BY <2>1, <2>4, <2>5, <2>6 DEF Shaped
<1>7. CASE \E j \in Runner : StartRevaluation(j)
  BY <1>0, <1>7 DEF StartRevaluation, documents
<1>8. CASE \E j \in Runner : Revalue(j)
  BY <1>0, <1>8 DEF Revalue, ReadBookValue, ReadUsdBalance, PostRevaluation, schedule, documents
<1>9. CASE Human
  <2>1. CASE PostOpeningBalance
    BY <2>1 DEF PostOpeningBalance, schedule, revaluation, Shaped
  <2>2. CASE BackfillReference
    BY <2>2 DEF BackfillReference, schedule, documents, Shaped
  <2>3. ASSUME NEW d \in Doc, NEW v, PutFile(d, v) PROVE Shaped'
    <3>1. Closing \in Month /\ PlaceOf(d) \in Place
      BY MonthEndAssumption DEF PlaceOf, Place
    <3>2. /\ folders' = folders \cup {<<Closing, PlaceOf(d)>>}
          /\ UNCHANGED <<due, attempted, missed, opening, referenced, failures>>
      BY <2>3 DEF PutFile, revaluation
    <3> QED  BY <3>1, <3>2 DEF Shaped
  <2>4. CASE \E r, label : Label(r, label)
    BY <1>0, <2>4 DEF Label, schedule, revaluation
  <2>5. CASE \E a : SyncNow(a)
    BY <1>0, <2>5 DEF SyncNow, SyncPeriod, schedule, revaluation
  <2>6. CASE \E w : SeedRate(w)
    BY <1>0, <2>6 DEF SeedRate, schedule, documents
  <2>7. Removable \subseteq Doc
    BY MonthEndAssumption
  <2> QED  BY <1>9, <2>1, <2>2, <2>3, <2>4, <2>5, <2>6, <2>7 DEF Human
<1> QED  BY <1>1, <1>3, <1>4, <1>5, <1>6, <1>7, <1>8, <1>9 DEF Next, Clockwork, Runner

\* The month's close keeps its types, in which each pair of a run is of an active
\* account and a month, and no file is a version nobody uploaded.
THEOREM TypeCorrect == Spec => []TypeOK
<1>1. ASSUME Tried, Checked, Revalued, Shaped PROVE TypeOK
  <2>1. \A d \in Doc : {drive[d], src[d]} \subseteq {0} \cup DOMAIN Versions[d]
    BY <1>1 DEF Checked
  <2>2. \A j \in Runner : job[j].at \in {"idle", "book", "usd", "post"}
    BY <1>1 DEF Revalued, Sound
  <2>3. restated \in Seq(Int)
    <3>1. CASE restated = <<>>
      BY <3>1
    <3>2. ASSUME NEW u, NEW v, reval = <<u>>, restated = <<v>> PROVE restated \in Seq(Int)
      <4>1. v \in Int
        BY <1>1, <3>2 DEF Revalued, Restates
      <4> QED  BY <3>2, <4>1
    <3> QED  BY <1>1, <3>1, <3>2 DEF Revalued, OneRevaluation
  <2> QED  BY <1>1, <2>1, <2>2, <2>3 DEF TypeOK, Tried, Checked, Revalued, Shaped
<1> QED
  BY <1>1, TriedInit, TriedStep, CheckedInit, CheckedStep, RevaluedInit, RevaluedStep, ShapedInit,
     ShapedStep, PTL DEF Spec

=============================================================================
