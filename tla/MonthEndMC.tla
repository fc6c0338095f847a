----------------------------- MODULE MonthEndMC -----------------------------
(* A small instance of MonthEnd for TLC. *)
EXTENDS MonthEndProperties

CONSTANTS shop, payoneer, master, w1, m1, m2

\* January to March: February closes.
Quarter == [m \in 0..3 |-> CASE m = 0 -> 0 [] m = 1 -> 31 [] m = 2 -> 59 [] m = 3 -> 90]

OneShop == <<shop>>

\* The statement is revised: a line appears late.
TwoVersions ==
    [d \in {shop, payoneer, master} |->
        CASE d = shop -> << {} >>
          [] d = payoneer -> << {w1} >>
          [] d = master -> << {m1}, {m1, m2} >>]

\* The sales export is there when the instance starts.
SalesOnly == [d \in {shop, payoneer, master} |-> IF d = shop THEN 1 ELSE 0]

\* The wallet holds one dollar, at 12 since the last revaluation.
WeekRates == <<12, 11>>

=============================================================================
