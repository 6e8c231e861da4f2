------------------------------ MODULE TaskOrder ------------------------------
(***************************************************************************)
(* The tasks of one board (apps/api/src/task/task.service.ts) and the       *)
(* removal of its columns (apps/api/src/board/column.service.ts), request   *)
(* by request, as PostgreSQL runs them under READ COMMITTED: every          *)
(* statement reads what is committed when it starts, a row another          *)
(* transaction has locked is waited for, and what a transaction writes is   *)
(* seen by the others when it commits.  A statement, or a run of statements *)
(* nothing can come between, is one action.                                 *)
(*                                                                         *)
(* A transaction's writes are kept as the rows it has locked (`locked'); the *)
(* committing step applies them.                                            *)
(***************************************************************************)
EXTENDS Positions

CONSTANTS
    Clients,         \* requests being served at the same time
    Tasks,           \* ids of tasks, existing and still to be created
    Columns,
    Unborn,          \* the home of a task not created yet
    Gone,            \* the home of a deleted task
    StartBoards,     \* boards earlier requests may have left
    Offered,         \* bound: the kinds of request that arrive
    MaxRequests      \* bound: requests served in one behaviour

ASSUME TaskOrderAssumption ==
    /\ Tasks \subseteq Nat \ {NoRow}
    /\ IsFiniteSet(Tasks)
    /\ Columns # {}
    /\ Unborn \notin Columns
    /\ Gone \notin Columns
    /\ Unborn # Gone
    /\ StartBoards \subseteq [home : [Tasks -> Columns \cup {Unborn}], pos : [Tasks -> Int]]
    /\ \A b \in StartBoards, t, u \in Tasks :
          t # u /\ b.home[t] = b.home[u] /\ b.home[t] \in Columns => b.pos[t] # b.pos[u]
    /\ MaxRequests \in Nat

VARIABLES
    home,      \* Task.columnId, committed
    pos,       \* Task.position, committed
    columns,   \* the Column rows
    pc,        \* the statement each client is at
    request,   \* what it asked for
    siblings,  \* the sibling rows its transaction read
    locked,    \* the Task rows its transaction has written
    waiting,   \* the Task rows its statement still has to write
    served     \* requests started

rows == <<home, pos, columns>>
txn  == <<pc, request, siblings, locked, waiting>>
vars == <<home, pos, columns, pc, request, siblings, locked, waiting, served>>

Requests ==
    [kind : {"none", "create", "move", "remove", "drop"},
     task : Tasks \cup {NoRow}, col : Columns, prev : Tasks \cup {NoRow},
     next : Tasks \cup {NoRow}]

Steps == {"idle", "lock", "read", "own", "spread", "delete", "count", "drop", "cascade"}

In(c) == {t \in Tasks : home[t] = c}
OnBoard(t) == home[t] \in Columns

\* The Column row a client's transaction holds, FOR UPDATE or because it deletes it.
Holds(k, c) == pc[k] \in {"read", "own", "spread", "cascade"} /\ request[k].col = c

ColumnFree(k, c) == \A m \in Clients \ {k} : ~(Holds(m, c) /\ c \in columns)
RowFree(k, t) == \A m \in Clients \ {k} : t \notin locked[m]

Ahead(k) == AheadOf(siblings[k], request[k].prev, request[k].next)

TypeOK ==
    /\ home \in [Tasks -> Columns \cup {Unborn, Gone}]
    /\ pos \in [Tasks -> Int]
    /\ columns \in SUBSET Columns
    /\ pc \in [Clients -> Steps]
    /\ request \in [Clients -> Requests]
    /\ siblings = [k \in Clients |-> siblings[k]]
    /\ \A k \in Clients : \E S \in SUBSET Tasks : siblings[k] \in [S -> Int]
    /\ locked \in [Clients -> SUBSET Tasks]
    /\ waiting \in [Clients -> SUBSET Tasks]
    /\ served \in 0..MaxRequests

DistinctPositions ==
    \A t, u \in Tasks :
        t # u /\ home[t] = home[u] /\ home[t] \in Columns => pos[t] # pos[u]

NoRequest == [kind |-> "none", task |-> NoRow, col |-> CHOOSE c \in Columns : TRUE,
              prev |-> NoRow, next |-> NoRow]

Init ==
    /\ \E b \in StartBoards : home = b.home /\ pos = b.pos
    /\ columns = Columns
    /\ pc = [k \in Clients |-> "idle"]
    /\ request = [k \in Clients |-> NoRequest]
    /\ siblings = [k \in Clients |-> [t \in {} |-> 0]]
    /\ locked = [k \in Clients |-> {}]
    /\ waiting = [k \in Clients |-> {}]
    /\ served = 0

Goto(k, step) == pc' = [pc EXCEPT ![k] = step]

\* The transaction ends, committed or rolled back, and gives up its locks.
End(k) ==
    /\ Goto(k, "idle")
    /\ locked' = [locked EXCEPT ![k] = {}]
    /\ waiting' = [waiting EXCEPT ![k] = {}]
    /\ siblings' = [siblings EXCEPT ![k] = [t \in {} |-> 0]]
    /\ request' = [request EXCEPT ![k] = NoRequest]
    /\ UNCHANGED served

Abort(k) == End(k) /\ UNCHANGED rows

Begin(k, r, step) ==
    /\ pc[k] = "idle"
    /\ r.kind \in Offered
    /\ served < MaxRequests
    /\ served' = served + 1
    /\ request' = [request EXCEPT ![k] = r]
    /\ Goto(k, step)
    /\ UNCHANGED <<rows, siblings, locked, waiting>>

-----------------------------------------------------------------------------
(* create and move *)

\* Bound: a create is served only while the model has an id left for it.
IdLeft ==
    Cardinality({m \in Clients : pc[m] # "idle" /\ request[m].kind = "create"})
        < Cardinality(In(Unborn))

\* The column is looked up before the transaction.  `prev' is the DTO's afterTaskId.
BeginCreate(k) ==
    \E c \in columns, prev \in Tasks \cup {NoRow} :
        /\ IdLeft
        /\ Begin(k, [kind |-> "create", task |-> NoRow, col |-> c, prev |-> prev, next |-> NoRow],
                 "lock")

\* Task and target column are read in the transaction, before any lock.
BeginMove(k) ==
    \E t \in Tasks, c \in columns, prev, next \in Tasks \cup {NoRow} :
        /\ OnBoard(t)
        /\ t \notin {prev, next}
        /\ Begin(k, [kind |-> "move", task |-> t, col |-> c, prev |-> prev, next |-> next],
                 "lock")

\* Slip: the transaction never waits for the lock.
UnlockedColumn(k) == pc[k] = "lock" /\ Goto(k, "read")
                     /\ UNCHANGED <<rows, request, siblings, locked, waiting, served>>

\* SELECT ... FOR UPDATE on the column; no row, no lock, when it is gone.
LockColumn(k) ==
    /\ pc[k] = "lock"
    /\ ColumnFree(k, request[k].col)
    /\ Goto(k, "read")
    /\ UNCHANGED <<rows, request, siblings, locked, waiting, served>>

\* The siblings without the task being moved, ordered; a missing neighbour is a 404.
ReadSiblings(k) ==
    LET r == request[k]
        list == [t \in In(r.col) \ {r.task} |-> pos[t]]
    IN  /\ pc[k] = "read"
        /\ IF NeighborNotFound(list, r.prev, r.next)
           THEN Abort(k)
           ELSE /\ siblings' = [siblings EXCEPT ![k] = list]
                /\ IF r.kind = "move"
                   THEN Goto(k, "own") /\ UNCHANGED waiting
                   ELSE /\ Goto(k, "spread")
                        /\ waiting' = [waiting EXCEPT ![k] =
                              IF MustSpread(list, AheadOf(list, r.prev, r.next))
                              THEN DOMAIN list ELSE {}]
                /\ UNCHANGED <<rows, request, locked, served>>

\* Slip: the row written is the neighbour's.
WriteNeighborRow(k) ==
    /\ pc[k] = "own"
    /\ locked' = [locked EXCEPT ![k] = {request[k].prev}]
    /\ Goto(k, "spread")
    /\ UNCHANGED <<rows, request, siblings, waiting, served>>

\* A move writes the moved row first: 404 when it is deleted, 409 when the column is.
WriteOwnRow(k) ==
    LET t == request[k].task
    IN  /\ pc[k] = "own"
        /\ IF ~OnBoard(t)
           THEN Abort(k)
           ELSE /\ RowFree(k, t)
                /\ IF request[k].col \notin columns
                   THEN Abort(k)
                   ELSE /\ locked' = [locked EXCEPT ![k] = {t}]
                        /\ waiting' = [waiting EXCEPT ![k] =
                              IF MustSpread(siblings[k], Ahead(k))
                              THEN DOMAIN siblings[k] ELSE {}]
                        /\ Goto(k, "spread")
                        /\ UNCHANGED <<rows, request, siblings, served>>

\* Slip: the batch forgets its column, and respreads a task that has left.
SpreadAnyRow(k) ==
    /\ pc[k] = "spread"
    /\ \E t \in waiting[k] :
          /\ waiting' = [waiting EXCEPT ![k] = @ \ {t}]
          /\ RowFree(k, t)
          /\ locked' = [locked EXCEPT ![k] = @ \cup {t}]
    /\ UNCHANGED <<rows, pc, request, siblings, served>>

\* Whether a statement scoped by the column still finds the row when it gets to it.
Matches(k, t) == home[t] = request[k].col

(***************************************************************************)
(* batchUpdateTaskPositions, row by row: a row that has left the column no  *)
(* longer matches; a row another transaction has written is waited for.     *)
(***************************************************************************)
SpreadRow(k) ==
    /\ pc[k] = "spread"
    /\ \E t \in waiting[k] :
          /\ waiting' = [waiting EXCEPT ![k] = @ \ {t}]
          /\ IF Matches(k, t)
             THEN RowFree(k, t) /\ locked' = [locked EXCEPT ![k] = @ \cup {t}]
             ELSE UNCHANGED locked
    /\ UNCHANGED <<rows, pc, request, siblings, served>>

\* The committed rows once client k has put task t in its slot.
Placed(k, t) ==
    /\ home' = [home EXCEPT ![t] = request[k].col]
    /\ pos' = [u \in Tasks |->
                 IF u = t THEN OwnPosition(siblings[k], Ahead(k))
                 ELSE IF u \in locked[k] THEN OtherPosition(siblings[k], Ahead(k), u)
                 ELSE pos[u]]
    /\ UNCHANGED columns

CommitMove(k) ==
    /\ pc[k] = "spread"
    /\ waiting[k] = {}
    /\ request[k].kind = "move"
    /\ Placed(k, request[k].task)
    /\ End(k)

\* The insert comes last; its foreign key refuses a column that is gone.
CommitCreate(k) ==
    /\ pc[k] = "spread"
    /\ waiting[k] = {}
    /\ request[k].kind = "create"
    /\ IF request[k].col \notin columns
       THEN Abort(k)
       ELSE \E t \in Tasks : home[t] = Unborn /\ Placed(k, t) /\ End(k)

-----------------------------------------------------------------------------
(* remove, and ColumnService.remove *)

BeginRemove(k) ==
    \E t \in Tasks, c \in columns :
        /\ home[t] = c
        /\ Begin(k, [kind |-> "remove", task |-> t, col |-> c, prev |-> NoRow, next |-> NoRow],
                 "delete")

\* deleteMany; a count of zero rolls the activity entry back with a 404.
DeleteTask(k) ==
    LET t == request[k].task
    IN  /\ pc[k] = "delete"
        /\ IF ~OnBoard(t)
           THEN Abort(k)
           ELSE /\ RowFree(k, t)
                /\ home' = [home EXCEPT ![t] = Gone]
                /\ UNCHANGED <<pos, columns>>
                /\ End(k)

BeginDrop(k) ==
    \E c \in columns :
        Begin(k, [kind |-> "drop", task |-> NoRow, col |-> c, prev |-> NoRow, next |-> NoRow],
              "count")

\* Slip: a column that has tasks is not refused, it is waited for.
CountUntilEmpty(k) ==
    /\ pc[k] = "count"
    /\ In(request[k].col) = {}
    /\ Goto(k, "drop") /\ UNCHANGED <<rows, request, siblings, locked, waiting, served>>

\* A column that has tasks is a 409.
CountTasks(k) ==
    /\ pc[k] = "count"
    /\ IF In(request[k].col) # {}
       THEN Abort(k)
       ELSE Goto(k, "drop") /\ UNCHANGED <<rows, request, siblings, locked, waiting, served>>

\* deleteMany on the column: its row first, then, by the foreign key, its tasks.
DeleteColumn(k) ==
    LET c == request[k].col
    IN  /\ pc[k] = "drop"
        /\ IF c \notin columns
           THEN Abort(k)
           ELSE /\ ColumnFree(k, c)
                /\ waiting' = [waiting EXCEPT ![k] = In(c)]
                /\ Goto(k, "cascade")
                /\ UNCHANGED <<rows, request, siblings, locked, served>>

CascadeRow(k) ==
    /\ pc[k] = "cascade"
    /\ \E t \in waiting[k] :
          /\ waiting' = [waiting EXCEPT ![k] = @ \ {t}]
          /\ IF Matches(k, t)
             THEN RowFree(k, t) /\ locked' = [locked EXCEPT ![k] = @ \cup {t}]
             ELSE UNCHANGED locked
    /\ UNCHANGED <<rows, pc, request, siblings, served>>

CommitDrop(k) ==
    /\ pc[k] = "cascade"
    /\ waiting[k] = {}
    /\ columns' = columns \ {request[k].col}
    /\ home' = [t \in Tasks |-> IF t \in locked[k] THEN Gone ELSE home[t]]
    /\ UNCHANGED pos
    /\ End(k)

-----------------------------------------------------------------------------
(* PostgreSQL and the connection *)

\* The transactions client k cannot go on without.
WaitsFor(k) ==
    CASE pc[k] \in {"lock", "drop"} ->
            {m \in Clients \ {k} : Holds(m, request[k].col) /\ request[k].col \in columns}
      [] pc[k] \in {"own", "delete"} ->
            {m \in Clients \ {k} : OnBoard(request[k].task) /\ request[k].task \in locked[m]}
      [] /\ pc[k] \in {"spread", "cascade"}
         /\ \A t \in waiting[k] : Matches(k, t) /\ ~RowFree(k, t) ->
            {m \in Clients \ {k} : waiting[k] \cap locked[m] # {}}
      [] OTHER -> {}

\* The transactions of S wait for one another only: the server ends one of them.
Deadlocked(S) == \A k \in S : WaitsFor(k) # {} /\ WaitsFor(k) \subseteq S

EndDeadlock(k) ==
    /\ \E S \in SUBSET Clients : k \in S /\ Deadlocked(S)
    /\ Abort(k)

\* A connection that breaks, or the five seconds of an interactive transaction.
LoseConnection(k) == pc[k] # "idle" /\ Abort(k)

-----------------------------------------------------------------------------

Statement(k) ==
    \/ LockColumn(k) \/ ReadSiblings(k) \/ WriteOwnRow(k) \/ SpreadRow(k)
    \/ CommitMove(k) \/ CommitCreate(k) \/ DeleteTask(k)
    \/ CountTasks(k) \/ DeleteColumn(k) \/ CascadeRow(k) \/ CommitDrop(k)
    \/ EndDeadlock(k)

Arrival(k) == BeginCreate(k) \/ BeginMove(k) \/ BeginRemove(k) \/ BeginDrop(k)

Next == \E k \in Clients : Arrival(k) \/ Statement(k) \/ LoseConnection(k)

Spec == Init /\ [][Next]_vars

(***************************************************************************)
(* A request that has started goes on: the process and the server keep      *)
(* running, and the server breaks deadlocks.  Nothing makes requests arrive *)
(* or connections fail.                                                     *)
(***************************************************************************)
FairSpec == Spec /\ \A k \in Clients : WF_vars(Statement(k))

-----------------------------------------------------------------------------

\* The list each column shows: t above u.
Above == {p \in Tasks \X Tasks :
            /\ home[p[1]] = home[p[2]]
            /\ OnBoard(p[1])
            /\ pos[p[1]] < pos[p[2]]}

Lists == INSTANCE BoardLists WITH ahead <- Above

(***************************************************************************)
(* Whatever the interleaving, what the transactions do to the rows is what  *)
(* one request at a time would do to lists: in particular a respread never  *)
(* reorders the other tasks of the column, and never touches a task that    *)
(* has left it (rebalance-sql.ts:10-11).                                    *)
(***************************************************************************)
ListsImplemented == Lists!Spec

(***************************************************************************)
(* A created or moved task lands where the request said, although the rows  *)
(* were read some statements earlier: next to each named neighbour that is  *)
(* still in the column, and last when none was named.                       *)
(***************************************************************************)
LandsNextTo(k, t) ==
    LET c == request[k].col
        p == request[k].prev
        n == request[k].next
        there == {u \in Tasks \ {t} : home[u] = c}
    IN  /\ p \in there => /\ pos'[p] < pos'[t]
                          /\ \A u \in there : ~(pos'[p] < pos'[u] /\ pos'[u] < pos'[t])
        /\ n \in there => /\ pos'[t] < pos'[n]
                          /\ \A u \in there : ~(pos'[t] < pos'[u] /\ pos'[u] < pos'[n])
        /\ p = NoRow /\ n = NoRow => \A u \in there : pos'[u] < pos'[t]

NeighboursAreKept ==
    [][\A k \in Clients :
         pc[k] = "spread" /\ pc'[k] = "idle" /\ rows' # rows =>
             \A t \in Tasks :
                 (t = request[k].task \/ home[t] = Unborn) /\ home'[t] = request[k].col
                     => LandsNextTo(k, t)]_vars

(***************************************************************************)
(* Every request that has started ends: waiting for a row or a column never *)
(* lasts for ever, deadlocks between two respreads included.                *)
(***************************************************************************)
EveryRequestEnds == \A k \in Clients : pc[k] # "idle" ~> pc[k] = "idle"

(***************************************************************************)
(* A column leaves the board only when it holds no task: column.service.ts  *)
(* :318-320 gives this as the reason to count and delete in one transaction.*)
(***************************************************************************)
ColumnsLeaveEmpty ==
    [][\A c \in columns \ columns' : In(c) = {}]_vars

=============================================================================
