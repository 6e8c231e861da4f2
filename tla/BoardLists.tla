------------------------------ MODULE BoardLists ------------------------------
(***************************************************************************)
(* What the board promises, with no positions, locks or transactions: each  *)
(* column holds an ordered list of tasks, and one request at a time puts a  *)
(* single task at one place of one list, takes a task off the board, or     *)
(* removes a column with what it holds.  No other task ever changes its     *)
(* place among the rest.                                                    *)
(***************************************************************************)
EXTENDS Integers

CONSTANTS Tasks, Columns, Unborn, Gone

VARIABLES
    home,    \* the column each task is in, or Unborn or Gone
    ahead,   \* <<t, u>>: t and u are in one column, t above u
    columns  \* the columns of the board

listVars == <<home, ahead, columns>>

In(c) == {t \in Tasks : home[t] = c}

\* The pairs that say nothing of the tasks in S.
Apart(S) == {p \in ahead : p[1] \notin S /\ p[2] \notin S}

TypeOK ==
    /\ home \in [Tasks -> Columns \cup {Unborn, Gone}]
    /\ ahead \in SUBSET (Tasks \X Tasks)
    /\ columns \in SUBSET Columns

\* Each list is totally ordered, and only tasks of one list are compared.
ListsAreOrdered ==
    \A t, u \in Tasks :
        /\ <<t, u>> \in ahead => t # u /\ home[t] = home[u] /\ home[t] \in Columns
        /\ t # u /\ home[t] = home[u] /\ home[t] \in Columns =>
               (<<t, u>> \in ahead <=> <<u, t>> \notin ahead)

Init == TypeOK /\ ListsAreOrdered

\* A task lands in a column, below the tasks in `above' and over the others.
Put(t, c) ==
    /\ home[t] # Gone
    /\ c \in columns
    /\ \E above \in SUBSET (In(c) \ {t}) :
          /\ \A p \in ahead : p[2] \in above /\ p[1] # t => p[1] \in above
          /\ ahead' = Apart({t}) \cup (above \X {t}) \cup ({t} \X (In(c) \ (above \cup {t})))
    /\ home' = [home EXCEPT ![t] = c]
    /\ UNCHANGED columns

Take(t) ==
    /\ home[t] \in Columns
    /\ home' = [home EXCEPT ![t] = Gone]
    /\ ahead' = Apart({t})
    /\ UNCHANGED columns

Drop(c) ==
    /\ c \in columns
    /\ columns' = columns \ {c}
    /\ home' = [t \in Tasks |-> IF home[t] = c THEN Gone ELSE home[t]]
    /\ ahead' = Apart(In(c))

Next ==
    \/ \E t \in Tasks : Take(t) \/ \E c \in Columns : Put(t, c)
    \/ \E c \in Columns : Drop(c)

Spec == Init /\ [][Next]_listVars

=============================================================================
