------------------------------ MODULE Checklists ------------------------------
(***************************************************************************)
(* The checklists of one task and their items: ChecklistService and         *)
(* ChecklistItemService (apps/api/src/task), with the event after each      *)
(* change that makes the people who have the board open read it again.      *)
(* The two services follow one protocol a level apart, so a row is a        *)
(* checklist of the task or an item of a checklist.                         *)
(*                                                                         *)
(* An append locks its parent before it reads where the list ends.  A move  *)
(* reads its neighbours and writes its own row in two statements without a  *)
(* lock, and never respreads.                                               *)
(***************************************************************************)
EXTENDS Positions

CONSTANTS
    Writers,             \* requests being served at the same time
    ListRows,            \* ids of checklists and items, existing and still to be created
    StartLists,          \* what earlier requests may have left: functions from ids to rows
    MaxChecklistOps      \* bound: requests served in one behaviour

ASSUME ChecklistAssumption ==
    /\ ListRows \subseteq Nat \ {NoRow}
    /\ IsFiniteSet(ListRows)
    /\ IsFiniteSet(Writers)
    /\ MaxChecklistOps \in Nat

VARIABLES
    card,           \* is the Task row there?
    row,            \* Checklist and ChecklistItem rows: [of, pos, done]
    usedRows,       \* ids that have been used
    shifted,        \* rows that have been moved
    change,         \* each request: what it asks for, the statement it is at, what it read
    stale,          \* has a TASK_UPDATED reached a watcher that has not read the task since?
    shown,          \* the rows a watcher's last read returned
    changesBegun    \* requests started

checklistRows == <<card, row, usedRows, shifted>>
checklistVars == <<card, row, usedRows, shifted, change, stale, shown, changesBegun>>

NoRows == [r \in {} |-> 0]
NoChange == [op |-> "none", id |-> NoRow, of |-> NoRow, after |-> NoRow, at |-> "idle",
             list |-> NoRows, holds |-> FALSE]

RowRecords == [of : ListRows \cup {NoRow}, pos : Int, done : BOOLEAN]

ASSUME StartListsAssumption == \A rows \in StartLists :
    /\ \E S \in SUBSET ListRows : rows \in [S -> RowRecords]
    /\ \A r \in DOMAIN rows :
          rows[r].of # NoRow => rows[r].of \in DOMAIN rows /\ rows[rows[r].of].of = NoRow
    /\ \A r, s \in DOMAIN rows : r # s /\ rows[r].of = rows[s].of => rows[r].pos # rows[s].pos

ChecklistTypeOK ==
    /\ card \in BOOLEAN
    /\ DOMAIN row \subseteq usedRows /\ shifted \subseteq usedRows /\ usedRows \subseteq ListRows
    /\ \A r \in DOMAIN row :
          row[r].of \in ListRows \cup {NoRow} /\ row[r].pos \in Int /\ row[r].done \in BOOLEAN
    /\ \A k \in Writers :
          /\ change[k].op \in {"none", "add", "edit", "remove", "move"}
          /\ change[k].at \in {"idle", "lock", "last", "insert", "write", "read", "place", "announce"}
          /\ {change[k].id, change[k].of, change[k].after} \subseteq ListRows \cup {NoRow}
    /\ stale \in BOOLEAN
    /\ changesBegun \in 0..MaxChecklistOps

ChecklistInit ==
    /\ card = TRUE
    /\ row \in StartLists
    /\ usedRows = DOMAIN row
    /\ shifted = {}
    /\ change = [k \in Writers |-> NoChange]
    /\ stale = FALSE
    /\ shown = row
    /\ changesBegun = 0

\* The task, for a checklist; the checklist, for an item.
ParentThere(p) == IF p = NoRow THEN card ELSE p \in DOMAIN row

\* The rows of one list, with their positions.
Listed(p) == {r \in DOMAIN row : row[r].of = p}
PositionsIn(p) == [r \in Listed(p) |-> row[r].pos]

\* Is the parent row p locked FOR UPDATE by another append?
Locked(k, p) == \E m \in Writers \ {k} : change[m].holds /\ change[m].of = p

\* findTaskBasic, and for a row that is named the lookup that answers 404.
Ask(k, op, r, p, after, step) ==
    /\ change[k] = NoChange
    /\ card
    /\ changesBegun < MaxChecklistOps
    /\ changesBegun' = changesBegun + 1
    /\ change' = [change EXCEPT ![k] = [NoChange EXCEPT !.op = op, !.id = r, !.of = p,
                                                        !.after = after, !.at = step]]
    /\ UNCHANGED <<checklistRows, stale, shown>>

Advance(k, e) ==
    /\ change' = [change EXCEPT ![k] = e]
    /\ UNCHANGED <<stale, shown, changesBegun>>

\* The request is over and has changed nothing: a roll-back, a 404, or nothing to do.
Refuse(k) == Advance(k, NoChange) /\ UNCHANGED checklistRows

\* Slip: the change is committed and nobody is told.
CommittedUnheard(k) == Advance(k, NoChange)

\* The change is committed; the task is read again and announced next.
Committed(k) == Advance(k, [change[k] EXCEPT !.at = "announce", !.holds = FALSE])

-----------------------------------------------------------------------------
(* create *)

AddRow(k) == \E p \in Listed(NoRow) \cup {NoRow} :
    /\ Cardinality(ListRows \ usedRows) >= Cardinality(Writers)
    /\ Ask(k, "add", NoRow, p, NoRow, "lock")

\* Slip: the end of the list is read without the lock on its parent.
ReadUnlocked(k) ==
    /\ change[k].at = "lock"
    /\ Advance(k, [change[k] EXCEPT !.at = "last"])
    /\ UNCHANGED checklistRows

LockParent(k) ==
    /\ change[k].at = "lock"
    /\ ~Locked(k, change[k].of)
    /\ Advance(k, [change[k] EXCEPT !.at = "last", !.holds = ParentThere(change[k].of)])
    /\ UNCHANGED checklistRows

ReadLast(k) ==
    /\ change[k].at = "last"
    /\ Advance(k, [change[k] EXCEPT !.at = "insert", !.list = PositionsIn(change[k].of)])
    /\ UNCHANGED checklistRows

\* The row's foreign key refuses a parent that is gone.
InsertRow(k) ==
    LET c == change[k]
        last == LastOf(c.list, DOMAIN c.list)
        new == CHOOSE r \in ListRows \ usedRows : \A s \in ListRows \ usedRows : r =< s
    IN  /\ c.at = "insert"
        /\ IF ~ParentThere(c.of)
           THEN Refuse(k)
           ELSE /\ row' = [r \in DOMAIN row \cup {new} |->
                             IF r = new
                             THEN [of |-> c.of, done |-> FALSE,
                                   pos |-> (IF last = NoRow THEN 0 ELSE c.list[last]) + Gap]
                             ELSE row[r]]
                /\ usedRows' = usedRows \cup {new}
                /\ Committed(k)
                /\ UNCHANGED <<card, shifted>>

-----------------------------------------------------------------------------
(* update, remove *)

EditRow(k) == \E r \in DOMAIN row : Ask(k, "edit", r, row[r].of, NoRow, "write")

RemoveRow(k) == \E r \in DOMAIN row : Ask(k, "remove", r, row[r].of, NoRow, "write")

\* updateMany and deleteMany wait for an append that holds the checklist; no row is a 404.  An
\* item's PATCH with an empty body looks the row up, and writes and announces nothing.
WriteEdit(k) ==
    LET r == change[k].id
    IN  /\ change[k].op = "edit" /\ change[k].at = "write"
        /\ ~Locked(k, r)
        /\ IF r \notin DOMAIN row
           THEN Refuse(k)
           ELSE \/ /\ row' = [row EXCEPT ![r].done = ~@]
                   /\ Committed(k)
                   /\ UNCHANGED <<card, usedRows, shifted>>
                \/ row[r].of # NoRow /\ Refuse(k)

DeleteRow(k) ==
    LET r == change[k].id
    IN  /\ change[k].op = "remove" /\ change[k].at = "write"
        /\ ~Locked(k, r)
        /\ IF r \notin DOMAIN row
           THEN Refuse(k)
           ELSE /\ row' = [s \in {s \in DOMAIN row \ {r} : row[s].of # r} |-> row[s]]
                /\ Committed(k)
                /\ UNCHANGED <<card, usedRows, shifted>>

-----------------------------------------------------------------------------
(* move *)

MoveRow(k) == \E r \in DOMAIN row : \E after \in (Listed(row[r].of) \cup {NoRow}) \ {r} :
    Ask(k, "move", r, row[r].of, after, "read")

\* The moved row, or the one to put it behind, is not in the list: a 404.
ReadSiblings(k) ==
    LET c == change[k]
        list == PositionsIn(c.of)
    IN  /\ c.at = "read"
        /\ IF c.id \notin DOMAIN list \/ c.after \notin DOMAIN list \cup {NoRow}
           THEN Refuse(k)
           ELSE /\ Advance(k, [c EXCEPT !.at = "place", !.list = list])
                /\ UNCHANGED checklistRows

\* Slip: the moved row is left in the list its new neighbours are taken from.
OthersWithItself(c) == c.list

Others(c) == [r \in DOMAIN c.list \ {c.id} |-> c.list[r]]

\* The row behind the slot: the query orders by position alone, so rows that tie come in any
\* order.  Without afterId the slot is in front of the list.
Behind(c) ==
    LET others == Others(c)
        ties == {r \in DOMAIN others \ {c.after} : others[r] = others[c.after]}
    IN  IF c.after = NoRow
        THEN {FirstOf(others, DOMAIN others)}
        ELSE ties \cup {FirstOf(others, {r \in DOMAIN others : others[r] > others[c.after]})}

PlaceRow(k) ==
    LET c == change[k]
    IN  /\ c.at = "place"
        /\ ~Locked(k, c.id)
        /\ IF c.id \notin DOMAIN row
           THEN Refuse(k)
           ELSE \E next \in Behind(c) :
                  /\ row' = [row EXCEPT ![c.id].pos = Midpoint(Others(c), c.after, next)]
                  /\ shifted' = shifted \cup {c.id}
                  /\ Committed(k)
                  /\ UNCHANGED <<card, usedRows>>

-----------------------------------------------------------------------------
(* The events, and the task's own deletion *)

\* emitUpdated: the task is read again, and a task that is gone is a 404 after the commit.
Announce(k) ==
    /\ change[k].at = "announce"
    /\ change' = [change EXCEPT ![k] = NoChange]
    /\ stale' = (stale \/ card)
    /\ UNCHANGED <<checklistRows, shown, changesBegun>>

\* A watcher reads the task over REST once the event reaches it.
Refetch ==
    /\ stale
    /\ stale' = FALSE
    /\ shown' = row
    /\ UNCHANGED <<checklistRows, change, changesBegun>>

\* TaskService.remove: the cascade takes the rows, and waits for the locks on them.
DeleteTask ==
    /\ card
    /\ \A k \in Writers : ~change[k].holds
    /\ card' = FALSE
    /\ row' = NoRows
    /\ UNCHANGED <<usedRows, shifted, change, stale, shown, changesBegun>>

ChecklistNext ==
    \/ \E k \in Writers :
          \/ AddRow(k) \/ LockParent(k) \/ ReadLast(k) \/ InsertRow(k)
          \/ EditRow(k) \/ WriteEdit(k) \/ RemoveRow(k) \/ DeleteRow(k)
          \/ MoveRow(k) \/ ReadSiblings(k) \/ PlaceRow(k)
          \/ Announce(k)
    \/ Refetch
    \/ DeleteTask

ChecklistSpec == ChecklistInit /\ [][ChecklistNext]_checklistVars

-----------------------------------------------------------------------------
(* Properties *)

(***************************************************************************)
(* Rows that were appended and never moved do not share a position, however *)
(* many appends, moves and deletions meet: ChecklistService.create and      *)
(* ChecklistItemService.create lock the parent before they read its end.    *)
(***************************************************************************)
AppendsDistinct ==
    \A r, s \in DOMAIN row \ shifted : r # s /\ row[r].of = row[s].of => row[r].pos # row[s].pos

(***************************************************************************)
(* A move that found the list as it still is, and behind the row it named   *)
(* neither a tie nor a gap too small to halve, puts its row right behind    *)
(* that row, or in front of the list when it named none.                    *)
(***************************************************************************)
MovesLandBehind ==
    [][\A k \in Writers :
         LET c == change[k]
             others == {r \in DOMAIN c.list : r # c.id}
             front == {r \in others : c.after # NoRow /\ c.list[r] =< c.list[c.after]}
         IN  /\ c.at = "place" /\ change'[k].at = "announce"
             /\ c.list = PositionsIn(c.of)
             /\ c.after # NoRow =>
                   \A r \in others \ {c.after} : c.list[r] - c.list[c.after] \notin {0, 1}
             => /\ \A r \in front : row'[r].pos < row'[c.id].pos
                /\ \A r \in others \ front : row'[c.id].pos < row'[r].pos]_checklistVars

(***************************************************************************)
(* Once no request is in flight and a watcher has answered its events, what *)
(* it shows is what the database has: every committed change of a task that *)
(* is still there is announced, after its commit.                           *)
(***************************************************************************)
WatchersCatchUp ==
    card /\ ~stale /\ (\A k \in Writers : change[k] = NoChange) => shown = row

=============================================================================
