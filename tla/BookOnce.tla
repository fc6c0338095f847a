------------------------------ MODULE BookOnce ------------------------------
(***************************************************************************)
(* What the program promises a reader of the books, of the lines of the    *)
(* review queue and of the rows the two ingestions book: a line is booked  *)
(* at most once and for good, the entry it is linked to exists by the time *)
(* the link does, and everything a sync books appears at once.             *)
(***************************************************************************)
CONSTANTS Line, External, NULL

VARIABLES
    seen,   \* lines the program has read
    book,   \* the entry each line is linked to: a line's own, or an external one
    made    \* lines that made an entry of their own

bookVars == <<seen, book, made>>

BookInit ==
    /\ seen = {}
    /\ book = [l \in Line |-> NULL]
    /\ made = {}

\* A line booked in this step.
Books(l) == book[l] = NULL /\ book'[l] # NULL

\* One commit of a sync.
Settle ==
    /\ book' \in [Line -> Line \cup External \cup {NULL}]
    /\ seen \subseteq seen'
    /\ \A l \in Line : Books(l) \/ book'[l] = book[l]
    /\ \A l \in Line : Books(l) => l \in seen' /\ book'[l] \in made' \cup External
    /\ made' = made \cup {l \in Line : Books(l) /\ book'[l] = l}

BookSpec == BookInit /\ [][Settle]_bookVars

=============================================================================
