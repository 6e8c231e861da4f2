----------------------------- MODULE MCTaskOrder -----------------------------
(***************************************************************************)
(* Small boards for TaskOrder, with a gap of 2: two neighbours a position   *)
(* apart must be respread at once, a task at an end of a list need not.     *)
(***************************************************************************)
EXTENDS TaskOrder

CONSTANTS A, B

TwoColumns == {A, B}

\* A tight pair, a task apart, and a task yet to be created; a tight pair in each column, where
\* two respreads can cross; and an empty column, whose removal can meet an arrival.
TightPairs ==
    {[home |-> <<A, A, B, Unborn>>, pos |-> <<2, 3, 2, 0>>],
     [home |-> <<A, A, B, B>>, pos |-> <<2, 3, 2, 3>>],
     [home |-> <<A, Unborn, Unborn, Unborn>>, pos |-> <<2, 0, 0, 0>>]}

\* One task in one column, the other column empty: where a removal races an arrival.
OneEmpty == {[home |-> <<A, Unborn>>, pos |-> <<2, 0>>]}
=============================================================================
