----------------------------- MODULE ColumnOrder -----------------------------
(***************************************************************************)
(* One board and its columns (apps/api/src/board): BoardService and         *)
(* ColumnService, with the two locks TaskService.create takes that meet     *)
(* theirs.  Columns are ordered as tasks are, but what a request locks      *)
(* before it reads the list is the Board row, which the foreign keys of     *)
(* tasks and columns share and which a deletion of the board takes.         *)
(*                                                                         *)
(* A statement names the rows it has to lock (`want'); LockRow takes them   *)
(* one at a time, and the statement goes on when none is left.              *)
(***************************************************************************)
EXTENDS Positions

CONSTANTS
    Editors,         \* requests being served at the same time
    ColumnIds,       \* ids of columns, existing and still to be created
    StartColumns,    \* boards earlier requests may have left: functions from ids to positions
    Stages,          \* how many columns defaultColumnsFor lists
    ColumnOps,       \* bound: the kinds of request that arrive
    MaxColumnOps     \* bound: requests served in one behaviour

\* The Board row, among the rows a transaction locks.
BoardRow == -1

ColumnOpNames == {"create", "defaults", "update", "remove", "move", "task", "drop", "found",
                  "rename"}

ASSUME ColumnAssumption ==
    /\ ColumnIds \subseteq Nat \ {NoRow}
    /\ IsFiniteSet(ColumnIds)
    /\ \A list \in StartColumns :
          /\ DOMAIN list \subseteq ColumnIds
          /\ list \in [DOMAIN list -> Int]
          /\ \A a, b \in DOMAIN list : a # b => list[a] # list[b]
    /\ Stages \in Nat \ {0}
    /\ ColumnOps \subseteq ColumnOpNames
    /\ MaxColumnOps \in Nat

VARIABLES
    board,       \* is the Board row there?
    place,       \* Column.position of the columns there are
    spent,       \* ids that have been used
    occupied,    \* columns with tasks
    trail,       \* activity rows: <<type, column>>
    edit,        \* each request: what it asks for, the statement it is at, the list it read
    held,        \* the rows its transaction has locked
    want,        \* the rows its statement has still to lock
    editsBegun   \* requests started

columnRows == <<board, place, spent, occupied, trail>>
columnVars == <<board, place, spent, occupied, trail, edit, held, want, editsBegun>>

EmptyList == [c \in {} |-> 0]

NoEdit == [op |-> "none", col |-> NoRow, prev |-> NoRow, next |-> NoRow, at |-> "idle",
           list |-> EmptyList]

ColumnSteps == {"idle", "read", "own", "write", "record", "seed", "count", "delete", "insert"}

ColumnTypeOK ==
    /\ board \in BOOLEAN
    /\ DOMAIN place \subseteq spent
    /\ \A c \in DOMAIN place : place[c] \in Int
    /\ ~board => place = EmptyList
    /\ spent \subseteq ColumnIds
    /\ occupied \subseteq DOMAIN place
    /\ trail \subseteq {"created", "updated", "deleted"} \X (ColumnIds \cup {BoardRow})
    /\ \A k \in Editors :
          /\ edit[k].op \in ColumnOpNames \cup {"none"}
          /\ edit[k].at \in ColumnSteps
          /\ {edit[k].col, edit[k].prev, edit[k].next} \subseteq ColumnIds \cup {NoRow}
          /\ DOMAIN edit[k].list \subseteq ColumnIds
          /\ held[k] \subseteq ColumnIds \cup {BoardRow}
          /\ want[k] \subseteq ColumnIds \cup {BoardRow}
    /\ editsBegun \in 0..MaxColumnOps

ColumnInit ==
    /\ board \in BOOLEAN
    /\ place \in IF board THEN StartColumns ELSE {EmptyList}
    /\ spent = DOMAIN place
    /\ occupied = {}
    /\ trail = {}
    /\ edit = [k \in Editors |-> NoEdit]
    /\ held = [k \in Editors |-> {}]
    /\ want = [k \in Editors |-> {}]
    /\ editsBegun = 0

There(r) == IF r = BoardRow THEN board ELSE r \in DOMAIN place

\* The foreign key of a task shares the Board row with another's, and with an update of its
\* name; every other pair of locks conflicts.
LockedBy(k, r) ==
    {m \in Editors \ {k} :
        /\ r \in held[m]
        /\ r = BoardRow => \/ "task" \notin {edit[k].op, edit[m].op}
                           \/ ~ {edit[k].op, edit[m].op} \subseteq {"task", "rename"}}

\* A request arrives; its first statement wants the rows R.
Arrive(k, op, col, prev, next, step, R) ==
    /\ edit[k] = NoEdit
    /\ op \in ColumnOps
    /\ editsBegun < MaxColumnOps
    /\ editsBegun' = editsBegun + 1
    /\ edit' = [edit EXCEPT ![k] = [op |-> op, col |-> col, prev |-> prev, next |-> next,
                                    at |-> step, list |-> EmptyList]]
    /\ want' = [want EXCEPT ![k] = R]
    /\ UNCHANGED <<columnRows, held>>

\* The statement client k is at has its rows, and is reached with this step.
Ready(k, step) == edit[k].at = step /\ want[k] = {}

\* The transaction goes on with another statement.
GoOn(k, step, list, R) ==
    /\ edit' = [edit EXCEPT ![k].at = step, ![k].list = list]
    /\ want' = [want EXCEPT ![k] = R]
    /\ UNCHANGED <<columnRows, held, editsBegun>>

\* The transaction ends and gives up its locks; the request is over or has a step left.
Finish(k, e) ==
    /\ edit' = [edit EXCEPT ![k] = e]
    /\ held' = [held EXCEPT ![k] = {}]
    /\ want' = [want EXCEPT ![k] = {}]
    /\ UNCHANGED editsBegun

\* Slip: the refused request leaves its transaction open, and its rows locked.
AbandonTransaction(k) ==
    /\ edit' = [edit EXCEPT ![k] = NoEdit]
    /\ want' = [want EXCEPT ![k] = {}]
    /\ UNCHANGED <<columnRows, held, editsBegun>>

RollBack(k) == Finish(k, NoEdit) /\ UNCHANGED columnRows

\* Slip: the board is never locked.
SkipRow(k) ==
    \E r \in want[k] :
        /\ want' = [want EXCEPT ![k] = @ \ {r}]
        /\ held' = [held EXCEPT ![k] = IF r = BoardRow THEN @ ELSE @ \cup {r}]
        /\ UNCHANGED <<columnRows, edit, editsBegun>>

(***************************************************************************)
(* A row another transaction has locked is waited for; a row that is gone   *)
(* when the statement gets to it is passed over.                            *)
(***************************************************************************)
LockRow(k) ==
    \E r \in want[k] :
        /\ There(r) => LockedBy(k, r) = {}
        /\ want' = [want EXCEPT ![k] = @ \ {r}]
        /\ held' = [held EXCEPT ![k] = IF There(r) THEN @ \cup {r} ELSE @]
        /\ UNCHANGED <<columnRows, edit, editsBegun>>

-----------------------------------------------------------------------------
(* create and move *)

\* The next n unused ids.  Bound: ids are left for every creation and seeding in flight.
Fresh(n) == {c \in ColumnIds \ spent : Cardinality({d \in ColumnIds \ spent : d =< c}) =< n}
IdsLeft == Cardinality(ColumnIds \ spent) >= Stages * Cardinality(Editors)

\* assertBoard, then SELECT ... FOR UPDATE on the board.  `prev' is the DTO's afterColumnId.
CreateColumn(k) == \E prev \in DOMAIN place \cup {NoRow} :
    board /\ IdsLeft /\ Arrive(k, "create", NoRow, prev, NoRow, "read", {BoardRow})

\* The column is found before the lock.  `next' is the DTO's afterColumnId, this time.
MoveColumn(k) == \E c \in DOMAIN place, prev, next \in DOMAIN place \cup {NoRow} :
    c \notin {prev, next} /\ Arrive(k, "move", c, prev, next, "read", {BoardRow})

Siblings(e) == [c \in DOMAIN place \ {e.col} |-> place[c]]

\* Slip: a DTO name is translated the way the other operation means it.
SwappedSlot(e) == AheadOf(e.list, e.next, e.prev)

Slot(e) == AheadOf(e.list, e.prev, e.next)

\* The rows a statement writes besides its own: all of them when the gap is exhausted.
Respread(e, list) == IF MustSpread(list, AheadOf(list, e.prev, e.next)) THEN DOMAIN list ELSE {}

\* A neighbour that is not in the list is a 404.  A move writes its own row first.
ReadColumns(k) ==
    LET e == edit[k]
        list == Siblings(e)
    IN  /\ Ready(k, "read")
        /\ CASE NeighborNotFound(list, e.prev, e.next) -> RollBack(k)
             [] e.op = "move" /\ ~NeighborNotFound(list, e.prev, e.next) ->
                    GoOn(k, "own", list, {e.col})
             [] OTHER -> GoOn(k, "write", list, Respread(e, list))

\* column.update: P2025, a 404, when the row went after it was found.
WriteOwnColumn(k) ==
    /\ Ready(k, "own")
    /\ IF edit[k].col \in held[k]
       THEN GoOn(k, "write", edit[k].list, Respread(edit[k], edit[k].list))
       ELSE RollBack(k)

\* The positions once client k's column c has its slot: those it locked, and nobody else's.
Inserted(k, c) ==
    [d \in DOMAIN place \cup {c} |->
        IF d = c THEN OwnPosition(edit[k].list, Slot(edit[k]))
        ELSE IF d \in held[k] THEN OtherPosition(edit[k].list, Slot(edit[k]), d)
        ELSE place[d]]

\* The new row's position is that of the slot; the creation is recorded after the commit.
CommitColumn(k) ==
    /\ Ready(k, "write")
    /\ edit[k].op = "create"
    /\ IF ~board
       THEN RollBack(k)
       ELSE \E c \in Fresh(1) :
              /\ place' = Inserted(k, c)
              /\ spent' = spent \cup {c}
              /\ Finish(k, [edit[k] EXCEPT !.col = c, !.at = "record"])
              /\ UNCHANGED <<board, occupied, trail>>

CommitMove(k) ==
    /\ Ready(k, "write")
    /\ edit[k].op = "move"
    /\ place' = Inserted(k, edit[k].col)
    /\ Finish(k, NoEdit)
    /\ UNCHANGED <<board, spent, occupied, trail>>

\* The activity row of a creation is written after the commit, and may fail: a 500 for a
\* column that is there.
RecordCreation(k) ==
    /\ Ready(k, "record")
    /\ trail' \in {trail, trail \cup {<<"created", edit[k].col>>}}
    /\ Finish(k, NoEdit)
    /\ UNCHANGED <<board, place, spent, occupied>>

-----------------------------------------------------------------------------
(* The other operations of the two services *)

\* defaultColumnsFor: the stages a board starts with, a gap apart.
Seeded == [c \in Fresh(Stages) |-> Gap * Cardinality({d \in Fresh(Stages) : d =< c})]

SeedColumns(k) == board /\ IdsLeft /\ Arrive(k, "defaults", NoRow, NoRow, NoRow, "seed", {BoardRow})

\* A board that has columns is a 409; otherwise it gains the whole set, with its audit rows.
CommitDefaults(k) ==
    /\ Ready(k, "seed")
    /\ IF ~board \/ DOMAIN place # {}
       THEN RollBack(k)
       ELSE /\ place' = Seeded
            /\ spent' = spent \cup DOMAIN Seeded
            /\ trail' = trail \cup ({"created"} \X DOMAIN Seeded)
            /\ Finish(k, NoEdit)
            /\ UNCHANGED <<board, occupied>>

UpdateColumn(k) == \E c \in DOMAIN place : Arrive(k, "update", c, NoRow, NoRow, "write", {c})

\* Name, colour or category, in a transaction that found the row and audits the change.
CommitUpdate(k) ==
    /\ Ready(k, "write")
    /\ edit[k].op = "update"
    /\ IF edit[k].col \notin DOMAIN place
       THEN RollBack(k)
       ELSE /\ trail' = trail \cup {<<"updated", edit[k].col>>}
            /\ Finish(k, NoEdit)
            /\ UNCHANGED <<board, place, spent, occupied>>

RemoveColumn(k) == \E c \in DOMAIN place : Arrive(k, "remove", c, NoRow, NoRow, "count", {})

\* A column with tasks is a 409.
CountColumnTasks(k) ==
    /\ Ready(k, "count")
    /\ edit[k].op = "remove"
    /\ IF edit[k].col \in occupied THEN RollBack(k) ELSE GoOn(k, "delete", EmptyList, {edit[k].col})

\* The audit row of a deletion stands or falls with it: count = 0 is a 404.
DeleteColumn(k) ==
    LET c == edit[k].col
    IN  /\ Ready(k, "delete")
        /\ edit[k].op = "remove"
        /\ IF c \notin DOMAIN place
           THEN RollBack(k)
           ELSE /\ place' = [d \in DOMAIN place \ {c} |-> place[d]]
                /\ occupied' = occupied \ {c}
                /\ trail' = trail \cup {<<"deleted", c>>}
                /\ Finish(k, NoEdit)
                /\ UNCHANGED <<board, spent>>

\* BoardService.create: the board, its starting columns and one audit row, in one transaction.
FoundBoard(k) ==
    /\ ~board /\ spent = {} /\ \A m \in Editors : edit[m] = NoEdit
    /\ Arrive(k, "found", NoRow, NoRow, NoRow, "write", {})

CommitBoard(k) ==
    /\ Ready(k, "write")
    /\ edit[k].op = "found"
    /\ board' = TRUE
    /\ place' = Seeded
    /\ spent' = spent \cup DOMAIN Seeded
    /\ trail' = trail \cup {<<"created", BoardRow>>}
    /\ Finish(k, NoEdit)
    /\ UNCHANGED occupied

RenameBoard(k) == board /\ Arrive(k, "rename", NoRow, NoRow, NoRow, "write", {BoardRow})

CommitRename(k) ==
    /\ Ready(k, "write")
    /\ edit[k].op = "rename"
    /\ IF ~board
       THEN RollBack(k)
       ELSE /\ trail' = trail \cup {<<"updated", BoardRow>>}
            /\ Finish(k, NoEdit)
            /\ UNCHANGED <<board, place, spent, occupied>>

DropBoard(k) == board /\ Arrive(k, "drop", NoRow, NoRow, NoRow, "count", {BoardRow})

\* The Board row is deleted first, and the cascade takes the columns there are.
CascadeBoard(k) ==
    /\ Ready(k, "count")
    /\ edit[k].op = "drop"
    /\ IF BoardRow \in held[k] THEN GoOn(k, "delete", EmptyList, DOMAIN place) ELSE RollBack(k)

CommitDrop(k) ==
    /\ Ready(k, "delete")
    /\ edit[k].op = "drop"
    /\ board' = FALSE
    /\ place' = EmptyList
    /\ occupied' = {}
    /\ trail' = trail \cup {<<"deleted", BoardRow>>}
    /\ Finish(k, NoEdit)
    /\ UNCHANGED spent

\* TaskService.create locks the column first; its insert's foreign key shares the Board row.
CreateTask(k) == \E c \in DOMAIN place : Arrive(k, "task", c, NoRow, NoRow, "insert", {c})

ShareBoard(k) == Ready(k, "insert") /\ GoOn(k, "write", EmptyList, {BoardRow})

\* Slip: the insert does not ask whether the column is still there.
InsertBlindly(k) ==
    /\ Ready(k, "write")
    /\ edit[k].op = "task"
    /\ occupied' = occupied \cup {edit[k].col}
    /\ Finish(k, NoEdit)
    /\ UNCHANGED <<board, place, spent, trail>>

InsertTask(k) ==
    /\ Ready(k, "write")
    /\ edit[k].op = "task"
    /\ IF edit[k].col \notin DOMAIN place
       THEN RollBack(k)
       ELSE /\ occupied' = occupied \cup {edit[k].col}
            /\ Finish(k, NoEdit)
            /\ UNCHANGED <<board, place, spent, trail>>

-----------------------------------------------------------------------------
(* PostgreSQL *)

\* The transactions client k cannot go on without.
HeldUp(k) ==
    IF \A r \in want[k] : There(r) /\ LockedBy(k, r) # {}
    THEN UNION {LockedBy(k, r) : r \in want[k]}
    ELSE {}

Stuck(S) == \A k \in S : HeldUp(k) # {} /\ HeldUp(k) \subseteq S

BreakDeadlock(k) == (\E S \in SUBSET Editors : k \in S /\ Stuck(S)) /\ RollBack(k)

-----------------------------------------------------------------------------

ColumnRequest(k) ==
    \/ CreateColumn(k) \/ MoveColumn(k) \/ SeedColumns(k) \/ UpdateColumn(k)
    \/ RemoveColumn(k) \/ FoundBoard(k) \/ RenameBoard(k) \/ DropBoard(k) \/ CreateTask(k)

ColumnStep(k) ==
    \/ LockRow(k)
    \/ ReadColumns(k) \/ WriteOwnColumn(k) \/ CommitColumn(k) \/ CommitMove(k) \/ RecordCreation(k)
    \/ CommitDefaults(k) \/ CommitUpdate(k) \/ CountColumnTasks(k) \/ DeleteColumn(k)
    \/ CommitBoard(k) \/ CommitRename(k) \/ CascadeBoard(k) \/ CommitDrop(k) \/ ShareBoard(k) \/ InsertTask(k)

ColumnNext == \E k \in Editors : ColumnRequest(k) \/ ColumnStep(k) \/ BreakDeadlock(k)

ColumnSpec == ColumnInit /\ [][ColumnNext]_columnVars

\* Statements are carried out and the deadlock detector runs; no request has to arrive.
ColumnFairness ==
    \A k \in Editors : WF_columnVars(ColumnStep(k)) /\ WF_columnVars(BreakDeadlock(k))

-----------------------------------------------------------------------------
(* Properties *)

(***************************************************************************)
(* No two columns share a position: creations, moves and seedings that meet *)
(* are kept apart by the lock on the Board row, which each takes before it  *)
(* reads the list, although deletions take none.                            *)
(***************************************************************************)
ColumnsDistinct == \A c, d \in DOMAIN place : c # d => place[c] # place[d]

(***************************************************************************)
(* A column comes to stand between the neighbours its request named, those  *)
(* of them that are still there: create's afterColumnId is the one ahead,   *)
(* move's is the one behind.                                                *)
(***************************************************************************)
ColumnsLandBeside ==
    [][\A k \in Editors, c \in ColumnIds :
          /\ edit[k].at = "write"
          /\ \/ edit[k].op = "create" /\ c \in DOMAIN place' \ DOMAIN place
             \/ edit[k].op = "move" /\ c = edit[k].col
          /\ edit'[k].at # "write"
          /\ place' # place
          => /\ edit[k].prev \in DOMAIN place => place'[edit[k].prev] < place'[c]
             /\ edit[k].next \in DOMAIN place => place'[c] < place'[edit[k].next]]_columnVars

(***************************************************************************)
(* Every request ends, although a respread of the columns holds the board   *)
(* and waits for a column, while the creation of a task holds that column   *)
(* and waits for the board.                                                 *)
(***************************************************************************)
EveryColumnRequestEnds == \A k \in Editors : edit[k] # NoEdit ~> edit[k] = NoEdit

=============================================================================
