------------------------------- MODULE MCBoards -------------------------------
(***************************************************************************)
(* The rows of one board: the list of MCPositions with its one writer, and  *)
(* under concurrent requests the columns, the checklists of a task, what    *)
(* else hangs on a task, and the board as a browser shows it.  They share   *)
(* no row in these models, so a behaviour is one of one of them (`part')    *)
(* and the others rest in an initial state.                                 *)
(***************************************************************************)
EXTENDS ColumnOrder, Checklists, TaskLinks, MCPositions, BoardClient, TLC

VARIABLE part

boardsVars == <<part, columnVars, checklistVars, linkVars, clientVars, vars>>

\* An empty board, three columns of which two leave no gap, and the same with room.
MCStartColumns == {EmptyList, 1 :> 2 @@ 2 :> 3 @@ 3 :> 5}

\* No checklists; two, one of which has three items, two of them without a gap.
MCRow(of, pos) == [of |-> of, pos |-> pos, done |-> FALSE]
MCStartLists ==
    {NoRows, 1 :> MCRow(0, 2) @@ 2 :> MCRow(0, 4) @@ 3 :> MCRow(1, 2) @@ 4 :> MCRow(1, 3)
                 @@ 5 :> MCRow(1, 5)}

\* A board without tasks, and one with the later of two, each of which is a page, in one of two
\* lanes; the other may be created.
MCStartBoards == {NoTasks, 2 :> [lane |-> "a", text |-> 1]}

BoardsInit ==
    /\ part \in {"columns", "checklists", "links", "client", "list"}
    /\ ColumnInit /\ (part # "columns" => ~board)
    /\ ChecklistInit /\ (part # "checklists" => row = NoRows)
    /\ LinkInit /\ (part # "links" => labels = {})
    /\ ClientInit /\ (part # "client" => rows = NoTasks)
    /\ Init

BoardsNext ==
    /\ UNCHANGED part
    /\ \/ part = "columns" /\ ColumnNext
       \/ part # "columns" /\ UNCHANGED columnVars
    /\ \/ part = "checklists" /\ ChecklistNext
       \/ part # "checklists" /\ UNCHANGED checklistVars
    /\ \/ part = "links" /\ LinkNext
       \/ part # "links" /\ UNCHANGED linkVars
    /\ \/ part = "client" /\ ClientNext
       \/ part # "client" /\ UNCHANGED clientVars
    /\ \/ part = "list" /\ Next
       \/ part # "list" /\ UNCHANGED vars

\* ColumnFairness, in the behaviours that are of the columns; in those of the browser the debounce
\* fires, requests are answered, and what was sent arrives.
BoardsSpec ==
    /\ BoardsInit /\ [][BoardsNext]_boardsVars
    /\ \A k \in Editors : /\ WF_columnVars(part = "columns" /\ ColumnStep(k))
                          /\ WF_columnVars(part = "columns" /\ BreakDeadlock(k))
    /\ WF_clientVars(part = "client" /\ FireResync)
    /\ WF_clientVars(part = "client" /\ AnswerRead)
    /\ WF_clientVars(part = "client" /\ ClientReceives)

\* The variables of the components keep their types, in particular: a board that is gone has no
\* columns, a task wears labels of its board only (the cascades of the schema), and a browser's
\* resync is queued only behind one that is running.
BoardsTypeOK == ColumnTypeOK /\ ChecklistTypeOK /\ LinkTypeOK /\ ClientTypeOK

(***************************************************************************)
(* No two columns of a board, no two checklists of a task and no two items  *)
(* of a checklist are given one position by requests that run at the same   *)
(* time: the locks on the board, the task and the checklist see to it.      *)
(***************************************************************************)
PositionsDistinct == ColumnsDistinct /\ AppendsDistinct

=============================================================================
