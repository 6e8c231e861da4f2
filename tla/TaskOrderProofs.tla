--------------------------- MODULE TaskOrderProofs ---------------------------
(***************************************************************************)
(* TaskOrder for every board, every number of clients and every gap.        *)
(***************************************************************************)
EXTENDS TaskOrder, PositionsProofs

-----------------------------------------------------------------------------
(***************************************************************************)
(* The inductive invariant.  Distinct positions rest on what a transaction  *)
(* may still rely on when it writes: it holds the column alone, the rows it *)
(* read are the column's rows, less those that have left, and the rows it   *)
(* has written are its own.                                                 *)
(***************************************************************************)
ColumnExclusive ==
    \A k, m \in Clients, c \in columns : Holds(k, c) /\ Holds(m, c) => k = m

RowExclusive ==
    \A k, m \in Clients : k # m => locked[k] \cap locked[m] = {}

Reads(k) == In(request[k].col) \ {request[k].task}

\* What client k read is a list with its slot in it, and no row has joined since.
SlotRead(k) ==
    /\ IsList(siblings[k])
    /\ Strict(siblings[k])
    /\ ~NeighborNotFound(siblings[k], request[k].prev, request[k].next)
    /\ IsSlot(siblings[k], Ahead(k))
    /\ request[k].col \in columns =>
          \A t \in Reads(k) : t \in DOMAIN siblings[k] /\ siblings[k][t] = pos[t]

RowsWritten(k) ==
    /\ locked[k] # {} => pc[k] \in {"spread", "cascade"}
    /\ \A t \in locked[k] : OnBoard(t) /\ (t = request[k].task \/ home[t] = request[k].col)
    /\ request[k].kind = "create" => request[k].task = NoRow
    /\ request[k].kind \in {"move", "remove"} => request[k].task \in Tasks
    /\ pc[k] = "own" => request[k].kind = "move"
    /\ pc[k] = "delete" => request[k].kind = "remove"
    /\ pc[k] \in {"count", "drop", "cascade"} => request[k].task = NoRow
    /\ pc[k] = "spread" /\ request[k].kind = "move" =>
          request[k].task \in locked[k] /\ request[k].col \in columns
    /\ pc[k] = "spread" /\ MustSpread(siblings[k], Ahead(k)) =>
          Reads(k) \subseteq waiting[k] \cup locked[k]
    /\ pc[k] = "cascade" =>
          request[k].col \in columns /\ In(request[k].col) \subseteq waiting[k] \cup locked[k]

\* The foreign key: a task on the board is in a column of the board.
HomesExist == \A t \in Tasks : OnBoard(t) => home[t] \in columns

IInv ==
    /\ TypeOK
    /\ DistinctPositions
    /\ HomesExist
    /\ ColumnExclusive
    /\ RowExclusive
    /\ \A k \in Clients : pc[k] \in {"own", "spread"} => SlotRead(k)
    /\ \A k \in Clients : RowsWritten(k)

-----------------------------------------------------------------------------
(* Types *)

\* The rows a sibling query of client k returns.
ReadRows(k) == [t \in Reads(k) |-> pos[t]]

LEMMA ReadRowsAreAList ==
    ASSUME TypeOK, NEW k \in Clients
    PROVE  /\ IsList(ReadRows(k))
           /\ DOMAIN ReadRows(k) \in SUBSET Tasks
           /\ \E S \in SUBSET Tasks : ReadRows(k) \in [S -> Int]
<1> DEFINE D == Reads(k)
<1>1. D \in SUBSET Tasks /\ Tasks \subseteq Nat \ {NoRow} /\ IsFiniteSet(Tasks)
  BY TaskOrderAssumption DEF In, Reads
<1>2. \A t \in D : pos[t] \in Int
  BY DEF TypeOK, In, Reads
<1> HIDE DEF D
<1>3. [t \in D |-> pos[t]] \in [D -> Int]
  BY <1>2
<1>4. IsFiniteSet(D)
  BY <1>1, FS_Subset
<1> QED
  BY <1>1, <1>3, <1>4 DEF IsList, ReadRows, D

LEMMA EndTypes ==
    ASSUME TypeOK, NEW k \in Clients, End(k)
    PROVE  /\ pc' \in [Clients -> Steps]
           /\ request' \in [Clients -> Requests]
           /\ siblings' = [m \in Clients |-> siblings'[m]]
           /\ \A m \in Clients : \E S \in SUBSET Tasks : siblings'[m] \in [S -> Int]
           /\ locked' \in [Clients -> SUBSET Tasks]
           /\ waiting' \in [Clients -> SUBSET Tasks]
           /\ served' \in 0..MaxRequests
<1>1. \E S \in SUBSET Tasks : [t \in {} |-> 0] \in [S -> Int]
  <2>1. [t \in {} |-> 0] \in [{} -> Int] /\ {} \in SUBSET Tasks
    OBVIOUS
  <2> QED
    BY <2>1
<1>2. NoRequest \in Requests
  BY TaskOrderAssumption DEF NoRequest, Requests
<1> QED
  BY <1>1, <1>2 DEF TypeOK, End, Goto, Steps

LEMMA AbortTypes ==
    ASSUME TypeOK, NEW k \in Clients, Abort(k)
    PROVE  TypeOK'
<1>1. UNCHANGED rows
  BY DEF Abort
<1> QED
  BY <1>1, EndTypes DEF Abort, TypeOK, rows

-----------------------------------------------------------------------------
(* The invariant, action by action *)

LEMMA InitInv == Init => IInv
<1> SUFFICES ASSUME Init PROVE IInv
  OBVIOUS
<1>1. NoRequest \in Requests
  BY TaskOrderAssumption DEF NoRequest, Requests
<1>2. TypeOK
  <2>1. \E S \in SUBSET Tasks : [t \in {} |-> 0] \in [S -> Int]
    <3>1. [t \in {} |-> 0] \in [{} -> Int] /\ {} \in SUBSET Tasks
      OBVIOUS
    <3> QED
      BY <3>1
  <2>2. home \in [Tasks -> Columns \cup {Unborn}] /\ pos \in [Tasks -> Int]
    BY TaskOrderAssumption DEF Init
  <2>3. 0 \in 0..MaxRequests
    BY TaskOrderAssumption
  <2> QED
    BY <1>1, <2>1, <2>2, <2>3 DEF Init, TypeOK, Steps
<1>3. DistinctPositions
  BY TaskOrderAssumption DEF Init, DistinctPositions
<1>4. HomesExist
  BY DEF Init, HomesExist, OnBoard
<1>5. ColumnExclusive /\ RowExclusive
  BY DEF Init, ColumnExclusive, RowExclusive, Holds
<1>6. \A k \in Clients : pc[k] = "idle" /\ locked[k] = {} /\ request[k].kind = "none"
  BY DEF Init, NoRequest
<1> QED
  BY <1>2, <1>3, <1>4, <1>5, <1>6 DEF IInv, RowsWritten

\* A step of client k that commits nothing leaves the others what they rely on.
LEMMA OthersKeep ==
    ASSUME IInv, NEW k \in Clients, UNCHANGED rows,
           \A m \in Clients \ {k} :
              /\ pc'[m] = pc[m]
              /\ request'[m] = request[m]
              /\ siblings'[m] = siblings[m]
              /\ locked'[m] = locked[m]
              /\ waiting'[m] = waiting[m]
    PROVE  /\ DistinctPositions' /\ HomesExist'
           /\ \A m \in Clients \ {k} : /\ pc'[m] \in {"own", "spread"} => SlotRead(m)'
                                       /\ RowsWritten(m)'
<1>1. UNCHANGED <<home, pos, columns>>
  BY DEF rows
<1>2. DistinctPositions' /\ HomesExist'
  BY <1>1 DEF IInv, DistinctPositions, HomesExist, OnBoard
<1>3. ASSUME NEW m \in Clients \ {k}
      PROVE  /\ pc'[m] \in {"own", "spread"} => SlotRead(m)'
             /\ RowsWritten(m)'
  <2>1. /\ pc'[m] = pc[m] /\ request'[m] = request[m] /\ siblings'[m] = siblings[m]
        /\ locked'[m] = locked[m] /\ waiting'[m] = waiting[m]
    OBVIOUS
  <2>2. Reads(m)' = Reads(m) /\ Ahead(m)' = Ahead(m)
    BY <1>1, <2>1 DEF Reads, In, Ahead
  <2>3. SlotRead(m)' = SlotRead(m)
    BY <1>1, <2>1, <2>2 DEF SlotRead
  <2>4. RowsWritten(m)' = RowsWritten(m)
    BY <1>1, <2>1, <2>2 DEF RowsWritten, OnBoard, In
  <2> QED
    BY <2>1, <2>3, <2>4 DEF IInv
<1> QED
  BY <1>2, <1>3

\* A transaction that gives up changes nothing the others rely on.
LEMMA AbortInv ==
    ASSUME IInv, NEW k \in Clients, Abort(k)
    PROVE  IInv'
<1>1. TypeOK'
  BY AbortTypes DEF IInv
<1>2. /\ UNCHANGED rows
      /\ pc' = [pc EXCEPT ![k] = "idle"]
      /\ request'[k].kind = "none"
      /\ \A m \in Clients \ {k} : request'[m] = request[m]
      /\ locked' = [locked EXCEPT ![k] = {}]
      /\ \A m \in Clients \ {k} : siblings'[m] = siblings[m] /\ waiting'[m] = waiting[m]
  BY DEF Abort, End, Goto, IInv, TypeOK, NoRequest
<1>3. /\ DistinctPositions' /\ HomesExist'
      /\ \A m \in Clients \ {k} : /\ pc'[m] \in {"own", "spread"} => SlotRead(m)'
                                  /\ RowsWritten(m)'
  BY <1>2, OthersKeep DEF IInv, TypeOK
<1>4. ColumnExclusive' /\ RowExclusive'
  BY <1>2 DEF IInv, TypeOK, ColumnExclusive, RowExclusive, Holds, rows
<1>5. pc'[k] = "idle" /\ RowsWritten(k)'
  BY <1>2 DEF IInv, TypeOK, RowsWritten
<1> QED
  BY <1>1, <1>3, <1>4, <1>5 DEF IInv

\* A request arrives: it holds nothing and has read nothing.
LEMMA BeginInv ==
    ASSUME IInv, NEW k \in Clients, NEW r \in Requests, NEW step,
           step \in {"lock", "delete", "count"},
           r.kind = "create" => r.task = NoRow,
           r.kind \in {"move", "remove"} => r.task \in Tasks,
           step = "delete" => r.kind = "remove",
           step = "count" => r.task = NoRow,
           Begin(k, r, step)
    PROVE  IInv'
<1>1. /\ UNCHANGED <<rows, siblings, locked, waiting>>
      /\ pc' = [pc EXCEPT ![k] = step]
      /\ request' = [request EXCEPT ![k] = r]
      /\ served' = served + 1
      /\ pc[k] = "idle"
      /\ served < MaxRequests
  BY DEF Begin, Goto
<1>2. TypeOK'
  BY <1>1, TaskOrderAssumption DEF IInv, TypeOK, Steps, rows
<1>3. /\ DistinctPositions' /\ HomesExist'
      /\ \A m \in Clients \ {k} : /\ pc'[m] \in {"own", "spread"} => SlotRead(m)'
                                  /\ RowsWritten(m)'
  BY <1>1, OthersKeep DEF IInv, TypeOK
<1>4. ColumnExclusive' /\ RowExclusive'
  BY <1>1 DEF IInv, TypeOK, ColumnExclusive, RowExclusive, Holds, rows
<1>5. locked[k] = {}
  BY <1>1 DEF IInv, RowsWritten
<1>6. pc'[k] \notin {"own", "spread"} /\ RowsWritten(k)'
  BY <1>1, <1>5 DEF IInv, TypeOK, RowsWritten
<1> QED
  BY <1>2, <1>3, <1>4, <1>6 DEF IInv

LEMMA ArrivalInv ==
    ASSUME IInv, NEW k \in Clients, Arrival(k)
    PROVE  IInv'
<1>1. NoRow \in Tasks \cup {NoRow} /\ columns \subseteq Columns
  BY DEF IInv, TypeOK
<1>2. CASE BeginCreate(k)
  BY <1>1, <1>2, BeginInv DEF BeginCreate, Requests
<1>3. CASE BeginMove(k)
  BY <1>1, <1>3, BeginInv DEF BeginMove, Requests
<1>4. CASE BeginRemove(k)
  BY <1>1, <1>4, BeginInv DEF BeginRemove, Requests
<1>5. CASE BeginDrop(k)
  BY <1>1, <1>5, BeginInv DEF BeginDrop, Requests
<1> QED
  BY <1>2, <1>3, <1>4, <1>5 DEF Arrival

\* The column is locked by one transaction at a time.
LEMMA LockColumnInv ==
    ASSUME IInv, NEW k \in Clients, LockColumn(k)
    PROVE  IInv'
<1>1. /\ UNCHANGED <<rows, request, siblings, locked, waiting, served>>
      /\ pc' = [pc EXCEPT ![k] = "read"]
      /\ pc[k] = "lock"
      /\ ColumnFree(k, request[k].col)
  BY DEF LockColumn, Goto
<1>2. TypeOK'
  BY <1>1 DEF IInv, TypeOK, Steps, rows
<1>3. /\ DistinctPositions' /\ HomesExist'
      /\ \A m \in Clients \ {k} : /\ pc'[m] \in {"own", "spread"} => SlotRead(m)'
                                  /\ RowsWritten(m)'
  BY <1>1, OthersKeep DEF IInv, TypeOK
<1>4. ColumnExclusive'
  <2>1. SUFFICES ASSUME NEW m \in Clients, NEW n \in Clients, NEW c \in columns,
                        Holds(m, c)', Holds(n, c)'
                 PROVE  m = n
    BY <1>1 DEF ColumnExclusive, rows
  <2>2. \A j \in Clients \ {k} : Holds(j, c)' = Holds(j, c)
    BY <1>1 DEF Holds, IInv, TypeOK
  <2>3. Holds(k, c)' => request[k].col = c
    BY <1>1 DEF Holds
  <2>4. \A j \in Clients \ {k} : request[k].col = c => ~Holds(j, c)
    BY <1>1 DEF ColumnFree
  <2> QED
    BY <2>1, <2>2, <2>3, <2>4 DEF IInv, ColumnExclusive
<1>5. RowExclusive'
  BY <1>1 DEF IInv, RowExclusive
<1>6. pc'[k] \notin {"own", "spread"} /\ RowsWritten(k)'
  BY <1>1 DEF IInv, TypeOK, RowsWritten
<1> QED
  BY <1>2, <1>3, <1>4, <1>5, <1>6 DEF IInv

\* The rows read are the column's, and stay so: nothing joins a locked column.
LEMMA ReadSiblingsInv ==
    ASSUME IInv, NEW k \in Clients, ReadSiblings(k)
    PROVE  IInv'
<1> DEFINE r == request[k]
           list == ReadRows(k)
           ahead == AheadOf(list, r.prev, r.next)
<1>1. list = [t \in In(r.col) \ {r.task} |-> pos[t]]
  BY DEF ReadRows, Reads
<1>2. IsList(list) /\ DOMAIN list \in SUBSET Tasks
      /\ \E S \in SUBSET Tasks : list \in [S -> Int]
  BY ReadRowsAreAList DEF IInv
<1>3. Strict(list)
  BY DEF Strict, ReadRows, Reads, In, IInv, DistinctPositions, TypeOK, HomesExist, OnBoard,
         Requests
<1>4. CASE NeighborNotFound(list, r.prev, r.next)
  BY <1>1, <1>4, AbortInv DEF ReadSiblings
<1>5. CASE ~NeighborNotFound(list, r.prev, r.next)
  <2>1. /\ pc[k] = "read"
        /\ siblings' = [siblings EXCEPT ![k] = list]
        /\ UNCHANGED <<rows, request, locked, served>>
        /\ \/ /\ r.kind = "move"
              /\ pc' = [pc EXCEPT ![k] = "own"]
              /\ UNCHANGED waiting
           \/ /\ r.kind # "move"
              /\ pc' = [pc EXCEPT ![k] = "spread"]
              /\ waiting' = [waiting EXCEPT ![k] =
                                IF MustSpread(list, ahead) THEN DOMAIN list ELSE {}]
    BY <1>1, <1>5 DEF ReadSiblings, Goto
  <2>2. IsSlot(list, ahead)
    BY <1>2, <1>5, RequestedSlot
  <2> HIDE DEF list
  <2>3. TypeOK'
    <3>1. /\ pc' \in [Clients -> Steps]
          /\ waiting' \in [Clients -> SUBSET Tasks]
      <4>1. pc \in [Clients -> Steps] /\ waiting \in [Clients -> SUBSET Tasks]
        BY DEF IInv, TypeOK
      <4>2. pc' \in [Clients -> Steps]
        BY <2>1, <4>1 DEF Steps
      <4>3. waiting' \in [Clients -> SUBSET Tasks]
        BY <1>2, <2>1, <4>1
      <4> QED
        BY <4>2, <4>3
    <3>2. /\ siblings' = [m \in Clients |-> siblings'[m]]
          /\ \A m \in Clients : \E S \in SUBSET Tasks : siblings'[m] \in [S -> Int]
      BY <1>2, <2>1 DEF IInv, TypeOK
    <3> QED
      BY <2>1, <3>1, <3>2 DEF IInv, TypeOK, rows
  <2>4. /\ DistinctPositions' /\ HomesExist'
        /\ \A m \in Clients \ {k} : /\ pc'[m] \in {"own", "spread"} => SlotRead(m)'
                                    /\ RowsWritten(m)'
    BY <2>1, OthersKeep DEF IInv, TypeOK
  <2>5. ColumnExclusive' /\ RowExclusive'
    BY <2>1 DEF IInv, TypeOK, ColumnExclusive, RowExclusive, Holds, rows
  <2>6. /\ siblings'[k] = list /\ Ahead(k)' = ahead /\ Reads(k)' = Reads(k)
        /\ UNCHANGED <<pos, request>>
    BY <2>1 DEF IInv, TypeOK, Ahead, Reads, In, rows
  <2>7. DOMAIN list = Reads(k) /\ \A t \in Reads(k) : list[t] = pos[t]
    BY DEF list, ReadRows
  <2>8. SlotRead(k)'
    BY <1>2, <1>3, <1>5, <2>2, <2>6, <2>7 DEF SlotRead
  <2>9. locked[k] = {}
    BY <2>1 DEF IInv, RowsWritten
  <2>10. pc'[k] = "spread" => waiting'[k] = IF MustSpread(list, ahead) THEN DOMAIN list ELSE {}
    BY <2>1 DEF IInv, TypeOK
  <2>11. RowsWritten(k)'
    BY <2>1, <2>6, <2>7, <2>9, <2>10 DEF IInv, TypeOK, RowsWritten
  <2> QED
    BY <2>3, <2>4, <2>5, <2>8, <2>11 DEF IInv
<1> QED
  BY <1>4, <1>5

\* The moved row is written: it is on the board, and no other transaction's.
LEMMA WriteOwnRowInv ==
    ASSUME IInv, NEW k \in Clients, WriteOwnRow(k)
    PROVE  IInv'
<1> DEFINE t == request[k].task
<1>1. CASE ~OnBoard(t) \/ request[k].col \notin columns
  BY <1>1, AbortInv DEF WriteOwnRow
<1>2. CASE OnBoard(t) /\ request[k].col \in columns
  <2>1. /\ pc[k] = "own"
        /\ RowFree(k, t)
        /\ locked' = [locked EXCEPT ![k] = {t}]
        /\ waiting' = [waiting EXCEPT ![k] =
                          IF MustSpread(siblings[k], Ahead(k)) THEN DOMAIN siblings[k] ELSE {}]
        /\ pc' = [pc EXCEPT ![k] = "spread"]
        /\ UNCHANGED <<rows, request, siblings, served>>
    BY <1>2 DEF WriteOwnRow, Goto
  <2>2. SlotRead(k)
    BY <2>1 DEF IInv
  <2>3. t \in Tasks
    BY <2>1 DEF IInv, RowsWritten
  <2>4. DOMAIN siblings[k] \in SUBSET Tasks
    BY DEF IInv, TypeOK
  <2>5. TypeOK'
    BY <2>1, <2>3, <2>4 DEF IInv, TypeOK, Steps, rows
  <2>6. /\ DistinctPositions' /\ HomesExist'
        /\ \A m \in Clients \ {k} : /\ pc'[m] \in {"own", "spread"} => SlotRead(m)'
                                    /\ RowsWritten(m)'
    BY <2>1, OthersKeep DEF IInv, TypeOK
  <2>7. ColumnExclusive' /\ RowExclusive'
    BY <2>1 DEF IInv, TypeOK, ColumnExclusive, RowExclusive, Holds, RowFree, rows
  <2>8. /\ Ahead(k)' = Ahead(k) /\ Reads(k)' = Reads(k)
        /\ UNCHANGED <<pos, columns, home, siblings, request>>
    BY <2>1 DEF Ahead, Reads, In, rows
  <2>9. SlotRead(k)'
    BY <2>2, <2>8 DEF SlotRead
  <2>10. /\ locked'[k] = {t} /\ pc'[k] = "spread"
         /\ MustSpread(siblings[k], Ahead(k)) => waiting'[k] = DOMAIN siblings[k]
    BY <2>1 DEF IInv, TypeOK
  <2>11. Reads(k) \subseteq DOMAIN siblings[k]
    BY <1>2, <2>2 DEF SlotRead
  <2>12. RowsWritten(k)'
    BY <1>2, <2>8, <2>10, <2>11 DEF IInv, RowsWritten, OnBoard
  <2> QED
    BY <2>5, <2>6, <2>7, <2>9, <2>12 DEF IInv
<1> QED
  BY <1>1, <1>2

\* A row written on the way, by a respread or by a cascade, is no other transaction's.
LEMMA RowByRowInv ==
    ASSUME IInv, NEW k \in Clients, SpreadRow(k) \/ CascadeRow(k)
    PROVE  IInv'
<1>1. PICK t \in waiting[k] :
        /\ waiting' = [waiting EXCEPT ![k] = @ \ {t}]
        /\ \/ /\ Matches(k, t)
              /\ RowFree(k, t)
              /\ locked' = [locked EXCEPT ![k] = @ \cup {t}]
           \/ /\ ~Matches(k, t)
              /\ UNCHANGED locked
        /\ pc[k] \in {"spread", "cascade"}
        /\ UNCHANGED <<rows, pc, request, siblings, served>>
  BY DEF SpreadRow, CascadeRow
<1>2. t \in Tasks
  BY DEF IInv, TypeOK
<1>3. TypeOK'
  <2>1. /\ waiting' \in [Clients -> SUBSET Tasks]
        /\ locked' \in [Clients -> SUBSET Tasks]
    BY <1>1, <1>2 DEF IInv, TypeOK
  <2> QED
    BY <1>1, <2>1 DEF IInv, TypeOK, rows
<1>4. /\ DistinctPositions' /\ HomesExist'
      /\ \A m \in Clients \ {k} : /\ pc'[m] \in {"own", "spread"} => SlotRead(m)'
                                  /\ RowsWritten(m)'
  BY <1>1, OthersKeep DEF IInv, TypeOK
<1>5. ColumnExclusive'
  BY <1>1 DEF IInv, ColumnExclusive, Holds, rows
<1>6. RowExclusive'
  BY <1>1 DEF IInv, TypeOK, RowExclusive, RowFree
<1>7. /\ Ahead(k)' = Ahead(k) /\ Reads(k)' = Reads(k)
      /\ In(request[k].col)' = In(request[k].col)
      /\ UNCHANGED <<home, pos, columns, siblings, request, pc>>
  BY <1>1 DEF Ahead, Reads, In, rows
<1>8. SlotRead(k)' = SlotRead(k)
  BY <1>7 DEF SlotRead
<1>9. /\ locked[k] \subseteq locked'[k]
      /\ locked'[k] \subseteq locked[k] \cup {t}
      /\ t \in locked'[k] \/ home[t] # request[k].col
      /\ t \in locked'[k] \ locked[k] => home[t] = request[k].col
      /\ waiting[k] \subseteq waiting'[k] \cup {t}
  BY <1>1 DEF IInv, TypeOK, Matches
<1>10. RowsWritten(k)'
  <2>1. \A u \in In(request[k].col) \cap (waiting[k] \cup locked[k]) :
           u \in waiting'[k] \cup locked'[k]
    BY <1>9 DEF In
  <2>2. Reads(k) \subseteq In(request[k].col)
    BY DEF Reads
  <2>3. request[k].col \in Columns
    BY DEF IInv, TypeOK, Requests
  <2>4. \A u \in locked'[k] : OnBoard(u) /\ (u = request[k].task \/ home[u] = request[k].col)
    BY <1>9, <2>3 DEF IInv, RowsWritten, OnBoard
  <2> QED
    BY <1>1, <1>7, <1>9, <2>1, <2>2, <2>4 DEF IInv, RowsWritten, OnBoard
<1> QED
  BY <1>3, <1>4, <1>5, <1>6, <1>7, <1>8, <1>10 DEF IInv

\* Counting the tasks of a column, and beginning to delete it.
LEMMA DropStepInv ==
    ASSUME IInv, NEW k \in Clients, CountTasks(k) \/ DeleteColumn(k)
    PROVE  IInv'
<1> DEFINE c == request[k].col
<1>1. CASE Abort(k)
  BY <1>1, AbortInv
<1>2. CASE CountTasks(k) /\ ~Abort(k)
  <2>1. /\ pc[k] = "count"
        /\ pc' = [pc EXCEPT ![k] = "drop"]
        /\ UNCHANGED <<rows, request, siblings, locked, waiting, served>>
    BY <1>2 DEF CountTasks, Goto
  <2>2. TypeOK'
    BY <2>1 DEF IInv, TypeOK, Steps, rows
  <2>3. /\ DistinctPositions' /\ HomesExist'
        /\ \A m \in Clients \ {k} : /\ pc'[m] \in {"own", "spread"} => SlotRead(m)'
                                    /\ RowsWritten(m)'
    BY <2>1, OthersKeep DEF IInv, TypeOK
  <2>4. ColumnExclusive' /\ RowExclusive'
    BY <2>1 DEF IInv, TypeOK, ColumnExclusive, RowExclusive, Holds, rows
  <2>5. pc'[k] \notin {"own", "spread"} /\ RowsWritten(k)'
    BY <2>1 DEF IInv, TypeOK, RowsWritten
  <2> QED
    BY <2>2, <2>3, <2>4, <2>5 DEF IInv
<1>3. CASE DeleteColumn(k) /\ ~Abort(k)
  <2>1. /\ pc[k] = "drop"
        /\ c \in columns
        /\ ColumnFree(k, c)
        /\ waiting' = [waiting EXCEPT ![k] = In(c)]
        /\ pc' = [pc EXCEPT ![k] = "cascade"]
        /\ UNCHANGED <<rows, request, siblings, locked, served>>
    BY <1>3 DEF DeleteColumn, Goto
  <2>2. In(c) \subseteq Tasks
    BY DEF In
  <2>3. TypeOK'
    BY <2>1, <2>2 DEF IInv, TypeOK, Steps, rows
  <2>4. /\ DistinctPositions' /\ HomesExist'
        /\ \A m \in Clients \ {k} : /\ pc'[m] \in {"own", "spread"} => SlotRead(m)'
                                    /\ RowsWritten(m)'
    BY <2>1, OthersKeep DEF IInv, TypeOK
  <2>5. RowExclusive'
    BY <2>1 DEF IInv, RowExclusive
  <2>6. ColumnExclusive'
    <3>1. SUFFICES ASSUME NEW m \in Clients, NEW n \in Clients, NEW d \in columns,
                          Holds(m, d)', Holds(n, d)'
                   PROVE  m = n
      BY <2>1 DEF ColumnExclusive, rows
    <3>2. \A j \in Clients \ {k} : Holds(j, d)' = Holds(j, d)
      BY <2>1 DEF Holds, IInv, TypeOK
    <3>3. Holds(k, d)' => c = d
      BY <2>1 DEF Holds
    <3>4. \A j \in Clients \ {k} : c = d => ~Holds(j, d)
      BY <2>1 DEF ColumnFree
    <3> QED
      BY <3>1, <3>2, <3>3, <3>4 DEF IInv, ColumnExclusive
  <2>7. /\ In(c)' = In(c) /\ UNCHANGED <<home, columns, request, locked>>
        /\ waiting'[k] = In(c) /\ pc'[k] = "cascade" /\ locked[k] = {}
    BY <2>1 DEF IInv, TypeOK, RowsWritten, In, rows
  <2>8. RowsWritten(k)'
    BY <2>1, <2>7 DEF IInv, RowsWritten
  <2> QED
    BY <2>3, <2>4, <2>5, <2>6, <2>7, <2>8 DEF IInv
<1> QED
  BY <1>1, <1>2, <1>3

\* Rows leave the board, written by no other transaction: what the others read only shrinks.
LEMMA RowsLeaveInv ==
    ASSUME IInv, NEW k \in Clients, End(k), UNCHANGED pos,
           home' \in [Tasks -> Columns \cup {Unborn, Gone}], columns' \in SUBSET columns,
           \A t \in Tasks : home'[t] = home[t] \/ (home'[t] = Gone /\ RowFree(k, t)),
           \A m \in Clients \ {k}, d \in columns : Holds(m, d) => d \in columns',
           HomesExist'
    PROVE  IInv'
<1>1. TypeOK'
  BY EndTypes DEF IInv, TypeOK
<1>2. /\ pc' = [pc EXCEPT ![k] = "idle"]
      /\ locked' = [locked EXCEPT ![k] = {}]
      /\ request'[k].kind = "none"
      /\ \A m \in Clients \ {k} : /\ request'[m] = request[m]
                                  /\ siblings'[m] = siblings[m]
                                  /\ waiting'[m] = waiting[m]
  BY DEF End, Goto, IInv, TypeOK, NoRequest
<1>3. Gone \notin Columns
  BY TaskOrderAssumption
<1>4. DistinctPositions'
  BY <1>3 DEF IInv, DistinctPositions
<1>5. ColumnExclusive' /\ RowExclusive'
  BY <1>2 DEF IInv, TypeOK, ColumnExclusive, RowExclusive, Holds
<1>6. ASSUME NEW m \in Clients \ {k}
      PROVE  /\ pc'[m] \in {"own", "spread"} => SlotRead(m)'
             /\ RowsWritten(m)'
  <2>1. /\ pc'[m] = pc[m] /\ request'[m] = request[m] /\ siblings'[m] = siblings[m]
        /\ locked'[m] = locked[m] /\ waiting'[m] = waiting[m]
    BY <1>2 DEF IInv, TypeOK
  <2>2. request[m].col \in Columns
    BY DEF IInv, TypeOK, Requests
  <2>3. /\ Reads(m)' \subseteq Reads(m) /\ Ahead(m)' = Ahead(m)
        /\ In(request[m].col)' \subseteq In(request[m].col)
    BY <1>3, <2>1, <2>2 DEF Reads, In, Ahead
  <2>4. SlotRead(m) => SlotRead(m)'
    BY <2>1, <2>3 DEF SlotRead
  <2>5. \A t \in locked[m] : home'[t] = home[t]
    BY DEF IInv, TypeOK, RowFree
  <2>6. pc[m] \in {"spread", "cascade"} /\ request[m].col \in columns => request[m].col \in columns'
    BY DEF Holds
  <2>7. RowsWritten(m)'
    BY <2>1, <2>3, <2>5, <2>6 DEF IInv, RowsWritten, OnBoard
  <2> QED
    BY <2>1, <2>4, <2>7 DEF IInv
<1>7. pc'[k] = "idle" /\ RowsWritten(k)'
  BY <1>2 DEF IInv, TypeOK, RowsWritten
<1> QED
  BY <1>1, <1>4, <1>5, <1>6, <1>7 DEF IInv

LEMMA DeleteTaskInv ==
    ASSUME IInv, NEW k \in Clients, DeleteTask(k)
    PROVE  IInv'
<1> DEFINE t == request[k].task
<1>1. CASE Abort(k)
  BY <1>1, AbortInv
<1>2. CASE ~Abort(k)
  <2>1. /\ RowFree(k, t) /\ End(k)
        /\ home' = [home EXCEPT ![t] = Gone]
        /\ UNCHANGED <<pos, columns>>
    BY <1>2 DEF DeleteTask
  <2>2. Gone \notin Columns
    BY TaskOrderAssumption
  <2>3. /\ home' \in [Tasks -> Columns \cup {Unborn, Gone}]
        /\ \A u \in Tasks : home'[u] = home[u] \/ (home'[u] = Gone /\ RowFree(k, u))
    BY <2>1 DEF IInv, TypeOK
  <2>4. HomesExist'
    BY <2>1, <2>2, <2>3 DEF IInv, HomesExist, OnBoard
  <2>5. \A m \in Clients \ {k}, d \in columns : Holds(m, d) => d \in columns'
    BY <2>1
  <2> QED
    BY <2>1, <2>3, <2>4, <2>5, RowsLeaveInv
<1> QED
  BY <1>1, <1>2

\* The column goes with the rows the cascade has written: none is left behind.
LEMMA CommitDropInv ==
    ASSUME IInv, NEW k \in Clients, CommitDrop(k)
    PROVE  IInv'
<1> DEFINE c == request[k].col
<1>1. /\ pc[k] = "cascade" /\ waiting[k] = {} /\ End(k) /\ UNCHANGED pos
      /\ columns' = columns \ {c}
      /\ home' = [t \in Tasks |-> IF t \in locked[k] THEN Gone ELSE home[t]]
  BY DEF CommitDrop
<1>2. /\ home' \in [Tasks -> Columns \cup {Unborn, Gone}]
      /\ columns' \in SUBSET columns
  BY <1>1 DEF IInv, TypeOK
<1>3. \A t \in Tasks : home'[t] = home[t] \/ (home'[t] = Gone /\ RowFree(k, t))
  BY <1>1 DEF IInv, RowExclusive, RowFree
<1>4. c \in columns /\ In(c) \subseteq locked[k]
  BY <1>1 DEF IInv, RowsWritten
<1>5. HomesExist'
  <2>1. Gone \notin Columns
    BY TaskOrderAssumption
  <2>2. \A t \in Tasks : OnBoard(t)' => t \notin locked[k] /\ home'[t] = home[t] /\ OnBoard(t)
    BY <1>1, <2>1 DEF OnBoard
  <2> QED
    BY <1>1, <1>4, <2>2 DEF IInv, HomesExist, In, OnBoard
<1>6. \A m \in Clients \ {k}, d \in columns : Holds(m, d) => d \in columns'
  <2>1. Holds(k, c)
    BY <1>1 DEF Holds
  <2> QED
    BY <1>1, <1>4, <2>1 DEF IInv, ColumnExclusive
<1> QED
  BY <1>1, <1>2, <1>3, <1>5, <1>6, RowsLeaveInv

(***************************************************************************)
(* A task takes its slot: the rest of its column, which is of what was      *)
(* read, respread or not, keeps its order, and the task is below what is    *)
(* ahead of the slot and over the others.  No other row changes.            *)
(***************************************************************************)
LEMMA PlacedSlot ==
    ASSUME IInv, NEW k \in Clients, NEW t \in Tasks,
           pc[k] = "spread", waiting[k] = {}, request[k].col \in columns,
           \/ home[t] = Unborn /\ request[k].task = NoRow
           \/ t = request[k].task /\ t \in locked[k],
           Placed(k, t)
    PROVE  LET others == In(request[k].col) \ {t}
           IN  /\ others \subseteq DOMAIN siblings[k]
               /\ \A u \in others : siblings[k][u] = pos[u]
               /\ pos'[t] \in Int /\ \A u \in others : pos'[u] \in Int
               /\ \A u \in others \cap Ahead(k) : pos'[u] < pos'[t]
               /\ \A u \in others \ Ahead(k) : pos'[t] < pos'[u]
               /\ \A u, v \in others : pos[u] < pos[v] => pos'[u] < pos'[v]
               /\ home'[t] = request[k].col
               /\ \A u \in Tasks : u # t => home'[u] = home[u]
               /\ \A u \in Tasks : u # t /\ home[u] # request[k].col => pos'[u] = pos[u]
<1> DEFINE c == request[k].col
           list == siblings[k]
           own == OwnPosition(list, Ahead(k))
           at(u) == OtherPosition(list, Ahead(k), u)
<1>1. /\ home' = [home EXCEPT ![t] = c]
      /\ pos' = [u \in Tasks |-> IF u = t THEN own ELSE IF u \in locked[k] THEN at(u) ELSE pos[u]]
  BY DEF Placed
<1>2. Unborn \notin Columns /\ NoRow \notin Tasks /\ c \in Columns
  BY TaskOrderAssumption DEF IInv, TypeOK, Requests
<1>3. \A u \in In(c) \ {t} : u \in Reads(k)
  BY <1>2 DEF Reads, In
<1>4. /\ SlotRead(k) /\ RowsWritten(k)
      /\ IsList(list) /\ Strict(list) /\ IsSlot(list, Ahead(k))
  BY DEF IInv, SlotRead
<1>5. \A u \in locked[k] \ {t} : home[u] = c
  BY <1>2, <1>4 DEF RowsWritten, IInv, TypeOK
<1>6. \A u \in In(c) \ {t} : u \in DOMAIN list /\ list[u] = pos[u]
  BY <1>3, <1>4 DEF SlotRead
<1>7. /\ own \in Int
      /\ \A u \in DOMAIN list : at(u) \in Int
      /\ \A u, v \in DOMAIN list : list[u] < list[v] => at(u) < at(v)
      /\ \A u \in Ahead(k) : at(u) < own
      /\ \A u \in DOMAIN list \ Ahead(k) : own < at(u)
  BY <1>4, SlotTaken
<1> HIDE DEF own, at
<1>8. \A u \in In(c) \ {t} : pos'[u] = at(u)
  <2>1. SUFFICES ASSUME NEW u \in In(c) \ {t}
                 PROVE  pos'[u] = at(u)
    OBVIOUS
  <2>2. u \in Reads(k) /\ u \in DOMAIN list /\ list[u] = pos[u] /\ u \in Tasks
    BY <1>3, <1>6 DEF In
  <2>3. CASE u \in locked[k]
    BY <1>1, <2>2, <2>3
  <2>4. CASE u \notin locked[k]
    <3>1. ~MustSpread(list, Ahead(k))
      BY <1>4, <2>2, <2>4 DEF RowsWritten
    <3>2. at(u) = list[u]
      BY <3>1 DEF at, OtherPosition
    <3> QED
      BY <1>1, <2>2, <2>4, <3>2
  <2> QED
    BY <2>3, <2>4
<1>9. pos'[t] = own /\ home'[t] = c
  BY <1>1 DEF IInv, TypeOK
<1>10. \A u \in Tasks : u # t => home'[u] = home[u]
  BY <1>1 DEF IInv, TypeOK
<1>11. \A u \in Tasks : u # t /\ home[u] # c => pos'[u] = pos[u]
  BY <1>1, <1>5
<1> QED
  BY <1>6, <1>7, <1>8, <1>9, <1>10, <1>11

(***************************************************************************)
(* A task that takes its slot leaves the invariant.                         *)
(***************************************************************************)
LEMMA PlacedInv ==
    ASSUME IInv, NEW k \in Clients, NEW t \in Tasks,
           pc[k] = "spread", waiting[k] = {}, request[k].col \in columns,
           \/ home[t] = Unborn /\ request[k].task = NoRow
           \/ t = request[k].task /\ t \in locked[k],
           Placed(k, t), End(k)
    PROVE  IInv'
<1> DEFINE c == request[k].col
           others == In(c) \ {t}
<1>1. /\ UNCHANGED columns
      /\ home' = [home EXCEPT ![t] = c]
      /\ DOMAIN pos' = Tasks /\ pos' = [u \in Tasks |-> pos'[u]]
  BY DEF Placed
<1>2. /\ pc' = [pc EXCEPT ![k] = "idle"]
      /\ locked' = [locked EXCEPT ![k] = {}]
      /\ request'[k].kind = "none"
      /\ \A m \in Clients \ {k} : /\ request'[m] = request[m]
                                  /\ siblings'[m] = siblings[m]
                                  /\ waiting'[m] = waiting[m]
  BY DEF End, Goto, IInv, TypeOK, NoRequest
<1>3. c \in Columns /\ Unborn \notin Columns /\ NoRow \notin Tasks
  BY TaskOrderAssumption DEF IInv, TypeOK, Requests
<1>4. /\ pos'[t] \in Int /\ \A u \in others : pos'[u] \in Int
      /\ \A u \in others : pos'[u] < pos'[t] \/ pos'[t] < pos'[u]
      /\ \A u, v \in others : pos[u] < pos[v] => pos'[u] < pos'[v]
  BY PlacedSlot
<1>5. home'[t] = c
  BY PlacedSlot
<1>6. \A u \in Tasks : u # t => home'[u] = home[u]
  BY PlacedSlot
<1>7. \A u \in Tasks : u # t /\ home[u] # c => pos'[u] = pos[u]
  BY PlacedSlot
<1>8. TypeOK'
  <2>1. home' \in [Tasks -> Columns \cup {Unborn, Gone}] /\ columns' \in SUBSET Columns
    BY <1>1, <1>3 DEF IInv, TypeOK
  <2>2. \A u \in Tasks : pos'[u] \in Int
    BY <1>4, <1>7 DEF IInv, TypeOK, In
  <2>3. pos' \in [Tasks -> Int]
    BY <1>1, <2>2
  <2> QED
    BY <2>1, <2>3, EndTypes DEF IInv, TypeOK
<1>9. DistinctPositions'
  <2>1. SUFFICES ASSUME NEW u \in Tasks, NEW v \in Tasks, u # v,
                        home'[u] = home'[v], home'[u] \in Columns
                 PROVE  pos'[u] # pos'[v]
    BY DEF DistinctPositions
  <2>2. CASE home'[u] = c
    <3>1. \A w \in {u, v} \ {t} : w \in others
      BY <1>6, <2>1, <2>2 DEF In
    <3>2. pos'[u] \in Int /\ pos'[v] \in Int
      BY <1>4, <3>1
    <3>3. CASE u = t
      <4>1. v \in others
        BY <2>1, <3>1, <3>3
      <4>2. pos'[v] < pos'[t] \/ pos'[t] < pos'[v]
        BY <1>4, <4>1
      <4> QED
        BY <3>2, <3>3, <4>2
    <3>4. CASE v = t
      <4>1. u \in others
        BY <2>1, <3>1, <3>4
      <4>2. pos'[u] < pos'[t] \/ pos'[t] < pos'[u]
        BY <1>4, <4>1
      <4> QED
        BY <3>2, <3>4, <4>2
    <3>5. CASE u # t /\ v # t
      <4>1. pos[u] < pos[v] \/ pos[v] < pos[u]
        <5>1. home[u] = c /\ home[v] = c
          BY <2>2, <2>1, <1>6, <3>5
        <5>2. pos[u] # pos[v]
          BY <1>3, <2>1, <5>1 DEF IInv, DistinctPositions
        <5>3. pos[u] \in Int /\ pos[v] \in Int
          BY DEF IInv, TypeOK
        <5> QED
          BY <5>2, <5>3
      <4>2. u \in others /\ v \in others
        BY <3>1, <3>5
      <4>3. pos'[u] < pos'[v] \/ pos'[v] < pos'[u]
        BY <1>4, <4>1, <4>2
      <4> QED
        BY <3>2, <4>3
    <3> QED
      BY <3>3, <3>4, <3>5
  <2>3. CASE home'[u] # c
    BY <1>5, <1>6, <1>7, <2>1, <2>3 DEF IInv, DistinctPositions
  <2> QED
    BY <2>2, <2>3
<1>10. HomesExist'
  BY <1>1, <1>5, <1>6 DEF IInv, HomesExist, OnBoard
<1>11. ColumnExclusive' /\ RowExclusive'
  BY <1>1, <1>2 DEF IInv, TypeOK, ColumnExclusive, RowExclusive, Holds
<1>12. ASSUME NEW m \in Clients \ {k}
       PROVE  /\ pc'[m] \in {"own", "spread"} => SlotRead(m)'
              /\ RowsWritten(m)'
  <2>1. /\ pc'[m] = pc[m] /\ request'[m] = request[m] /\ siblings'[m] = siblings[m]
        /\ locked'[m] = locked[m] /\ waiting'[m] = waiting[m] /\ UNCHANGED columns
    BY <1>1, <1>2 DEF IInv, TypeOK
  <2>2. \A d \in columns : Holds(m, d) => d # c
    BY DEF IInv, ColumnExclusive, Holds
  <2>3. request[m].col # c => /\ In(request[m].col)' \subseteq In(request[m].col)
                              /\ Reads(m)' \subseteq Reads(m)
                              /\ \A u \in Reads(m)' : pos'[u] = pos[u]
    BY <1>5, <1>6, <1>7, <2>1 DEF Reads, In
  <2>4. Ahead(m)' = Ahead(m)
    BY <2>1 DEF Ahead
  <2>5. request[m].col \notin columns => In(request[m].col)' = {} /\ Reads(m)' = {}
    BY <1>1, <1>10, <2>1 DEF HomesExist, In, Reads, OnBoard, IInv, TypeOK, Requests
  <2>6. pc[m] \in {"own", "spread", "cascade"} =>
           /\ In(request[m].col)' \subseteq In(request[m].col)
           /\ Reads(m)' \subseteq Reads(m)
           /\ request[m].col \in columns => \A u \in Reads(m)' : pos'[u] = pos[u]
    BY <2>2, <2>3, <2>5 DEF Holds
  <2>7. pc[m] \in {"own", "spread"} => SlotRead(m)'
    BY <2>1, <2>4, <2>6 DEF SlotRead, IInv
  <2>8. \A u \in locked[m] : home'[u] = home[u]
    BY <1>3, <1>6 DEF IInv, RowExclusive, RowsWritten, OnBoard, TypeOK
  <2>9. RowsWritten(m)'
    BY <2>1, <2>4, <2>6, <2>8 DEF IInv, RowsWritten, OnBoard
  <2> QED
    BY <2>1, <2>7, <2>9
<1>13. pc'[k] = "idle" /\ RowsWritten(k)'
  BY <1>2 DEF IInv, TypeOK, RowsWritten
<1> QED
  BY <1>8, <1>9, <1>10, <1>11, <1>12, <1>13 DEF IInv

LEMMA CommitInv ==
    ASSUME IInv, NEW k \in Clients, CommitMove(k) \/ CommitCreate(k)
    PROVE  IInv'
<1>1. CASE Abort(k)
  BY <1>1, AbortInv
<1>2. CASE CommitMove(k)
  <2>1. pc[k] = "spread" /\ request[k].kind = "move"
    BY <1>2 DEF CommitMove
  <2>2. /\ request[k].task \in Tasks /\ request[k].task \in locked[k]
        /\ request[k].col \in columns
    BY <2>1 DEF IInv, RowsWritten
  <2> QED
    BY <1>2, <2>1, <2>2, PlacedInv DEF CommitMove
<1>3. CASE CommitCreate(k) /\ ~Abort(k)
  <2>1. pc[k] = "spread" /\ request[k].kind = "create" /\ request[k].col \in columns
    BY <1>3 DEF CommitCreate
  <2>2. request[k].task = NoRow
    BY <2>1 DEF IInv, RowsWritten
  <2> QED
    BY <1>3, <2>1, <2>2, PlacedInv DEF CommitCreate
<1> QED
  BY <1>1, <1>2, <1>3

LEMMA NextInv == IInv /\ [Next]_vars => IInv'
<1> SUFFICES ASSUME IInv, [Next]_vars PROVE IInv'
  OBVIOUS
<1>1. ASSUME NEW k \in Clients, Arrival(k) PROVE IInv'
  BY <1>1, ArrivalInv
<1>2. ASSUME NEW k \in Clients, Statement(k) PROVE IInv'
  <2>1. CASE LockColumn(k)
    BY <2>1, LockColumnInv
  <2>2. CASE ReadSiblings(k)
    BY <2>2, ReadSiblingsInv
  <2>3. CASE WriteOwnRow(k)
    BY <2>3, WriteOwnRowInv
  <2>4. CASE SpreadRow(k) \/ CascadeRow(k)
    BY <2>4, RowByRowInv
  <2>5. CASE CommitMove(k) \/ CommitCreate(k)
    BY <2>5, CommitInv
  <2>6. CASE DeleteTask(k)
    BY <2>6, DeleteTaskInv
  <2>7. CASE CountTasks(k) \/ DeleteColumn(k)
    BY <2>7, DropStepInv
  <2>8. CASE CommitDrop(k)
    BY <2>8, CommitDropInv
  <2>9. CASE EndDeadlock(k)
    BY <2>9, AbortInv DEF EndDeadlock
  <2> QED
    BY <1>2, <2>1, <2>2, <2>3, <2>4, <2>5, <2>6, <2>7, <2>8, <2>9 DEF Statement
<1>3. ASSUME NEW k \in Clients, LoseConnection(k) PROVE IInv'
  BY <1>3, AbortInv DEF LoseConnection
<1>4. CASE UNCHANGED vars
  BY <1>4 DEF vars, IInv, TypeOK, DistinctPositions, HomesExist, ColumnExclusive, RowExclusive,
     SlotRead, RowsWritten, Reads, In, Ahead, Holds, OnBoard
<1> QED
  BY <1>1, <1>2, <1>3, <1>4 DEF Next

-----------------------------------------------------------------------------
(***************************************************************************)
(* The rows and every transaction's state stay within their types, whatever *)
(* the board, the clients and the order of the statements.                  *)
(***************************************************************************)
THEOREM TypesKept == Spec => []TypeOK
<1>1. IInv => TypeOK
  BY DEF IInv
<1> QED
  BY InitInv, NextInv, <1>1, PTL DEF Spec

(***************************************************************************)
(* No two tasks of a column ever share a position (docs/testing.md:76),     *)
(* whatever the interleaving of creates, moves, removals and column         *)
(* removals, and however tight the gaps earlier requests have left.         *)
(***************************************************************************)
THEOREM PositionsStayDistinct == Spec => []DistinctPositions
<1>1. IInv => DistinctPositions
  BY DEF IInv
<1> QED
  BY InitInv, NextInv, <1>1, PTL DEF Spec

-----------------------------------------------------------------------------
(* The lists the board promises *)

(***************************************************************************)
(* What it is to be above a task, now and next.                             *)
(***************************************************************************)
LEMMA AboveIs ==
    /\ Above \subseteq Tasks \X Tasks /\ Above' \subseteq Tasks \X Tasks
    /\ \A t, u \in Tasks :
          /\ <<t, u>> \in Above <=> home[t] = home[u] /\ home[t] \in Columns /\ pos[t] < pos[u]
          /\ <<t, u>> \in Above' <=> home'[t] = home'[u] /\ home'[t] \in Columns /\ pos'[t] < pos'[u]
BY DEF Above, OnBoard

(***************************************************************************)
(* Distinct positions order the tasks of a column as a list.                *)
(***************************************************************************)
LEMMA OrderedLists == ASSUME IInv PROVE Lists!Init
<1>1. Lists!TypeOK
  BY AboveIs DEF IInv, TypeOK, Lists!TypeOK
<1>2. Lists!ListsAreOrdered
  <2>1. SUFFICES ASSUME NEW t \in Tasks, NEW u \in Tasks
                 PROVE  /\ <<t, u>> \in Above =>
                               t # u /\ home[t] = home[u] /\ home[t] \in Columns
                        /\ t # u /\ home[t] = home[u] /\ home[t] \in Columns =>
                               (<<t, u>> \in Above <=> <<u, t>> \notin Above)
    BY DEF Lists!ListsAreOrdered
  <2>2. pos[t] \in Int /\ pos[u] \in Int
    BY DEF IInv, TypeOK
  <2>3. t # u /\ home[t] = home[u] /\ home[t] \in Columns => pos[t] # pos[u]
    BY DEF IInv, DistinctPositions
  <2> QED
    BY <2>2, <2>3, AboveIs
<1> QED
  BY <1>1, <1>2 DEF Lists!Init

(***************************************************************************)
(* To take a slot in a column is to be put at one place of its list.        *)
(***************************************************************************)
LEMMA PlacedPuts ==
    ASSUME IInv, NEW k \in Clients, NEW t \in Tasks,
           pc[k] = "spread", waiting[k] = {}, request[k].col \in columns,
           \/ home[t] = Unborn /\ request[k].task = NoRow
           \/ t = request[k].task /\ t \in locked[k],
           Placed(k, t)
    PROVE  Lists!Put(t, request[k].col)
<1> DEFINE c == request[k].col
           others == In(c) \ {t}
           above == Ahead(k) \cap others
<1>1. /\ UNCHANGED columns
      /\ home' = [home EXCEPT ![t] = c]
  BY DEF Placed
<1>2. c \in Columns /\ Unborn # Gone /\ Gone \notin Columns
  BY TaskOrderAssumption DEF IInv, TypeOK, Requests
<1>3. home[t] # Gone
  BY <1>2 DEF IInv, RowsWritten, OnBoard
<1>4. /\ \A u \in others : u \in DOMAIN siblings[k] /\ siblings[k][u] = pos[u]
      /\ pos'[t] \in Int /\ \A u \in others : pos'[u] \in Int
      /\ \A u \in others \cap Ahead(k) : pos'[u] < pos'[t]
      /\ \A u \in others \ Ahead(k) : pos'[t] < pos'[u]
      /\ \A u, v \in others : pos[u] < pos[v] => pos'[u] < pos'[v]
  BY PlacedSlot
<1>5. /\ home'[t] = c
      /\ \A u \in Tasks : u # t => home'[u] = home[u]
      /\ \A u \in Tasks : u # t /\ home[u] # c => pos'[u] = pos[u]
  BY PlacedSlot
<1>6. IsSlot(siblings[k], Ahead(k))
  BY DEF IInv, SlotRead
<1>7. \A u \in Tasks : u \in others <=> home[u] = c /\ u # t
  BY DEF In
<1>8. ASSUME NEW p \in Above, p[2] \in above, p[1] # t
      PROVE  p[1] \in above
  <2>1. /\ p = <<p[1], p[2]>> /\ p[1] \in Tasks /\ p[2] \in Tasks
        /\ home[p[1]] = home[p[2]] /\ pos[p[1]] < pos[p[2]]
    BY DEF Above
  <2>2. p[1] \in others /\ p[2] \in others /\ p[2] \in Ahead(k)
    BY <1>7, <1>8, <2>1
  <2>3. Before(siblings[k], p[1], p[2])
    BY <1>4, <2>1, <2>2 DEF Before
  <2> QED
    BY <1>4, <1>6, <2>2, <2>3 DEF IsSlot
<1>9. ASSUME NEW x \in Tasks, NEW y \in Tasks
      PROVE  <<x, y>> \in Above' <=>
                 \/ <<x, y>> \in Above /\ x # t /\ y # t
                 \/ x \in above /\ y = t
                 \/ x = t /\ y \in In(c) \ (above \cup {t})
  <2>1. CASE x = t /\ y = t
    BY <1>4, <2>1, AboveIs
  <2>2. CASE x = t /\ y # t
    <3>1. <<x, y>> \in Above' <=> y \in others /\ pos'[t] < pos'[y]
      BY <1>2, <1>5, <1>7, <2>2, AboveIs
    <3>2. ASSUME y \in others PROVE pos'[t] < pos'[y] <=> y \notin Ahead(k)
      <4>1. pos'[t] \in Int /\ pos'[y] \in Int
        BY <1>4, <3>2
      <4>2. y \in Ahead(k) => pos'[y] < pos'[t]
        BY <1>4, <3>2
      <4>3. y \notin Ahead(k) => pos'[t] < pos'[y]
        BY <1>4, <3>2
      <4> QED
        BY <4>1, <4>2, <4>3
    <3> QED
      BY <2>2, <3>1, <3>2
  <2>3. CASE x # t /\ y = t
    <3>1. <<x, y>> \in Above' <=> x \in others /\ pos'[x] < pos'[t]
      BY <1>2, <1>5, <1>7, <2>3, AboveIs
    <3>2. ASSUME x \in others PROVE pos'[x] < pos'[t] <=> x \in Ahead(k)
      <4>1. pos'[t] \in Int /\ pos'[x] \in Int
        BY <1>4, <3>2
      <4>2. x \in Ahead(k) => pos'[x] < pos'[t]
        BY <1>4, <3>2
      <4>3. x \notin Ahead(k) => pos'[t] < pos'[x]
        BY <1>4, <3>2
      <4> QED
        BY <4>1, <4>2, <4>3
    <3> QED
      BY <2>3, <3>1, <3>2
  <2>4. CASE x # t /\ y # t
    <3>1. home'[x] = home[x] /\ home'[y] = home[y]
      BY <1>5, <2>4
    <3>2. ASSUME home[x] = home[y], home[x] \in Columns
          PROVE  pos'[x] < pos'[y] <=> pos[x] < pos[y]
      <4>1. CASE home[x] # c
        BY <1>5, <2>4, <3>2, <4>1
      <4>2. CASE home[x] = c
        <5>1. x \in others /\ y \in others
          BY <1>7, <2>4, <3>2, <4>2
        <5>2. /\ pos[x] \in Int /\ pos[y] \in Int /\ pos'[x] \in Int /\ pos'[y] \in Int
          BY <1>4, <5>1 DEF IInv, TypeOK
        <5>3. x # y => pos[x] # pos[y]
          BY <3>2 DEF IInv, DistinctPositions
        <5>4. /\ pos[x] < pos[y] => pos'[x] < pos'[y]
              /\ pos[y] < pos[x] => pos'[y] < pos'[x]
          BY <1>4, <5>1
        <5> QED
          BY <5>2, <5>3, <5>4
      <4> QED
        BY <4>1, <4>2
    <3> QED
      BY <2>4, <3>1, <3>2, AboveIs
  <2> QED
    BY <2>1, <2>2, <2>3, <2>4
<1>10. Above' = {p \in Above : p[1] \notin {t} /\ p[2] \notin {t}}
                    \cup (above \X {t}) \cup ({t} \X (In(c) \ (above \cup {t})))
  <2>1. In(c) \subseteq Tasks /\ above \subseteq Tasks
    BY DEF In
  <2> DEFINE A == {p \in Above : p[1] \notin {t} /\ p[2] \notin {t}}
             B == above \X {t}
             C == {t} \X (In(c) \ (above \cup {t}))
  <2>2. Above' \subseteq Tasks \X Tasks /\ A \cup B \cup C \subseteq Tasks \X Tasks
    BY <2>1, AboveIs
  <2>3. \A x, y \in Tasks :
            /\ <<x, y>> \in A <=> <<x, y>> \in Above /\ x # t /\ y # t
            /\ <<x, y>> \in B <=> x \in above /\ y = t
            /\ <<x, y>> \in C <=> x = t /\ y \in In(c) \ (above \cup {t})
    OBVIOUS
  <2> HIDE DEF A, B, C, above
  <2>4. \A x, y \in Tasks : <<x, y>> \in Above' <=> <<x, y>> \in A \cup B \cup C
    BY <1>9, <2>3
  <2>5. Above' = A \cup B \cup C
    BY <2>2, <2>4
  <2> QED
    BY <2>5 DEF A, B, C
<1>11. above \in SUBSET (In(c) \ {t})
  OBVIOUS
<1> HIDE DEF above
<1> QED
  BY <1>1, <1>3, <1>8, <1>10, <1>11 DEF Lists!Put, Lists!In, Lists!Apart, In

(***************************************************************************)
(* Where tasks leave the board, the others keep their order.                *)
(***************************************************************************)
LEMMA LeavingKeepsOrder ==
    ASSUME NEW S \in SUBSET Tasks, UNCHANGED pos,
           \A t \in Tasks : home'[t] = IF t \in S THEN Gone ELSE home[t]
    PROVE  Above' = {p \in Above : p[1] \notin S /\ p[2] \notin S}
<1>1. Gone \notin Columns
  BY TaskOrderAssumption
<1> DEFINE A == {p \in Above : p[1] \notin S /\ p[2] \notin S}
<1>2. \A x, y \in Tasks : <<x, y>> \in A <=> <<x, y>> \in Above /\ x \notin S /\ y \notin S
  OBVIOUS
<1>3. Above' \subseteq Tasks \X Tasks /\ A \subseteq Tasks \X Tasks
  BY AboveIs
<1> HIDE DEF A
<1>4. ASSUME NEW x \in Tasks, NEW y \in Tasks
      PROVE  <<x, y>> \in Above' <=> <<x, y>> \in A
  <2>1. <<x, y>> \in Above <=> home[x] = home[y] /\ home[x] \in Columns /\ pos[x] < pos[y]
    BY AboveIs
  <2>2. <<x, y>> \in Above'
            <=> home'[x] = home'[y] /\ home'[x] \in Columns /\ pos'[x] < pos'[y]
    BY AboveIs
  <2>3. CASE x \in S \/ y \in S
    BY <1>1, <1>2, <2>2, <2>3
  <2>4. CASE x \notin S /\ y \notin S
    BY <1>2, <2>1, <2>2, <2>4
  <2> QED
    BY <2>3, <2>4
<1>5. Above' = A
  BY <1>3, <1>4
<1> QED
  BY <1>5 DEF A

(***************************************************************************)
(* To delete a task is to take it off its list.                             *)
(***************************************************************************)
LEMMA DeleteTakes ==
    ASSUME IInv, NEW k \in Clients, DeleteTask(k), ~Abort(k)
    PROVE  Lists!Take(request[k].task)
<1> DEFINE t == request[k].task
<1>1. /\ OnBoard(t) /\ home' = [home EXCEPT ![t] = Gone] /\ UNCHANGED <<pos, columns>>
      /\ pc[k] = "delete"
  BY DEF DeleteTask
<1>2. t \in Tasks
  BY <1>1 DEF IInv, RowsWritten
<1>3. \A u \in Tasks : home'[u] = IF u \in {t} THEN Gone ELSE home[u]
  BY <1>1, <1>2 DEF IInv, TypeOK
<1>4. Above' = {p \in Above : p[1] \notin {t} /\ p[2] \notin {t}}
  BY <1>1, <1>2, <1>3, LeavingKeepsOrder
<1> QED
  BY <1>1, <1>4 DEF Lists!Take, Lists!Apart, OnBoard

(***************************************************************************)
(* To delete a column is to remove it with what it holds, which is what the *)
(* cascade has locked.                                                      *)
(***************************************************************************)
LEMMA CommitDrops ==
    ASSUME IInv, NEW k \in Clients, CommitDrop(k)
    PROVE  Lists!Drop(request[k].col)
<1> DEFINE c == request[k].col
<1>1. /\ pc[k] = "cascade" /\ waiting[k] = {} /\ UNCHANGED pos
      /\ columns' = columns \ {c}
      /\ home' = [t \in Tasks |-> IF t \in locked[k] THEN Gone ELSE home[t]]
  BY DEF CommitDrop
<1>2. c \in columns /\ In(c) \subseteq locked[k] /\ request[k].task = NoRow
  BY <1>1 DEF IInv, RowsWritten
<1>3. locked[k] \subseteq In(c)
  BY <1>2, TaskOrderAssumption DEF IInv, TypeOK, RowsWritten, In
<1>4. locked[k] = In(c) /\ In(c) \subseteq Tasks
  BY <1>2, <1>3 DEF In
<1>5. home' = [t \in Tasks |-> IF home[t] = c THEN Gone ELSE home[t]]
  BY <1>1, <1>4 DEF In
<1>6. Above' = {p \in Above : p[1] \notin In(c) /\ p[2] \notin In(c)}
  BY <1>1, <1>4, LeavingKeepsOrder
<1> QED
  BY <1>1, <1>2, <1>5, <1>6 DEF Lists!Drop, Lists!Apart, Lists!In, In

(***************************************************************************)
(* Every step of a transaction is one of a request on the lists, or none.   *)
(***************************************************************************)
LEMMA NextLists ==
    ASSUME IInv, [Next]_vars
    PROVE  [Lists!Next]_(Lists!listVars)
<1>1. CASE UNCHANGED rows
  BY <1>1 DEF rows, Lists!listVars, Above, OnBoard
<1>2. ASSUME NEW k \in Clients, CommitMove(k) PROVE Lists!Next
  <2>1. pc[k] = "spread" /\ request[k].kind = "move"
    BY <1>2 DEF CommitMove
  <2>2. /\ request[k].task \in Tasks /\ request[k].task \in locked[k]
        /\ request[k].col \in columns
    BY <2>1 DEF IInv, RowsWritten
  <2>3. Lists!Put(request[k].task, request[k].col) /\ request[k].col \in Columns
    BY <1>2, <2>1, <2>2, PlacedPuts DEF CommitMove, IInv, TypeOK
  <2> QED
    BY <2>2, <2>3 DEF Lists!Next
<1>3. ASSUME NEW k \in Clients, CommitCreate(k), ~Abort(k) PROVE Lists!Next
  <2>1. /\ pc[k] = "spread" /\ waiting[k] = {} /\ request[k].kind = "create"
        /\ request[k].col \in columns /\ request[k].task = NoRow
    BY <1>3 DEF CommitCreate, IInv, RowsWritten
  <2>2. PICK t \in Tasks : home[t] = Unborn /\ Placed(k, t)
    BY <1>3 DEF CommitCreate
  <2>3. Lists!Put(t, request[k].col) /\ request[k].col \in Columns
    BY <2>1, <2>2, PlacedPuts DEF IInv, TypeOK
  <2> QED
    BY <2>3 DEF Lists!Next
<1>4. ASSUME NEW k \in Clients, DeleteTask(k), ~Abort(k) PROVE Lists!Next
  <2>1. request[k].task \in Tasks
    BY <1>4 DEF DeleteTask, IInv, RowsWritten
  <2> QED
    BY <1>4, <2>1, DeleteTakes DEF Lists!Next
<1>5. ASSUME NEW k \in Clients, CommitDrop(k) PROVE Lists!Next
  <2>1. request[k].col \in Columns
    BY DEF IInv, TypeOK, Requests
  <2> QED
    BY <1>5, <2>1, CommitDrops DEF Lists!Next
<1>6. ASSUME NEW k \in Clients,
             \/ Arrival(k) \/ LoseConnection(k) \/ EndDeadlock(k) \/ Abort(k)
             \/ LockColumn(k) \/ ReadSiblings(k) \/ WriteOwnRow(k) \/ SpreadRow(k)
             \/ CountTasks(k) \/ DeleteColumn(k) \/ CascadeRow(k)
      PROVE  UNCHANGED rows
  BY <1>6 DEF Arrival, BeginCreate, BeginMove, BeginRemove, BeginDrop, Begin, LoseConnection,
              EndDeadlock, Abort, LockColumn, ReadSiblings, WriteOwnRow, SpreadRow, CountTasks,
              DeleteColumn, CascadeRow
<1> QED
  BY <1>1, <1>2, <1>3, <1>4, <1>5, <1>6 DEF Next, Statement, vars, rows

(***************************************************************************)
(* The transactions implement the board's lists, for every board, number of *)
(* clients and gap: whatever the interleaving, a commit puts one task at    *)
(* one place of one list, takes one off the board, or removes a column with *)
(* what it holds, and a respread reorders nothing (rebalance-sql.ts:10-11). *)
(***************************************************************************)
THEOREM TransactionsKeepLists == Spec => ListsImplemented
<1>1. Init => Lists!Init
  BY InitInv, OrderedLists
<1>2. IInv /\ [Next]_vars => [Lists!Next]_(Lists!listVars)
  BY NextLists
<1> QED
  BY <1>1, <1>2, InitInv, NextInv, PTL DEF Spec, ListsImplemented, Lists!Spec

-----------------------------------------------------------------------------
(* Where a task lands *)

(***************************************************************************)
(* A task put in the slot of a request is next to the neighbours the request*)
(* named: those that have left the column leave no row in between.          *)
(***************************************************************************)
LEMMA PlacedLands ==
    ASSUME IInv, NEW k \in Clients, NEW t \in Tasks,
           pc[k] = "spread", waiting[k] = {}, request[k].col \in columns,
           \/ home[t] = Unborn /\ request[k].task = NoRow
           \/ t = request[k].task /\ t \in locked[k],
           Placed(k, t)
    PROVE  LandsNextTo(k, t)
<1> DEFINE c == request[k].col
           p == request[k].prev
           n == request[k].next
           list == siblings[k]
           there == {u \in Tasks \ {t} : home[u] = c}
           later == {a \in DOMAIN list : Before(list, p, a)}
<1>1. /\ IsList(list) /\ Strict(list) /\ ~NeighborNotFound(list, p, n)
      /\ Ahead(k) = AheadOf(list, p, n)
  BY DEF IInv, SlotRead, Ahead
<1>2. In(c) \ {t} = there
  BY DEF In
<1>3. /\ \A u \in there : u \in DOMAIN list /\ list[u] = pos[u]
      /\ pos'[t] \in Int /\ \A u \in there : pos'[u] \in Int
      /\ \A u \in there \cap Ahead(k) : pos'[u] < pos'[t]
      /\ \A u \in there \ Ahead(k) : pos'[t] < pos'[u]
      /\ \A u, v \in there : pos[u] < pos[v] => pos'[u] < pos'[v]
  BY <1>2, PlacedSlot
<1>4. \A u \in there : u # NoRow /\ pos[u] \in Int
  BY TaskOrderAssumption DEF IInv, TypeOK
<1> HIDE DEF there
<1>5. ASSUME NEW u \in there, NEW v \in there, Before(list, u, v)
      PROVE  pos'[u] < pos'[v]
  <2>1. u # v
    BY <1>1, <1>3, <1>5, BeforeIsTotal
  <2>2. pos[u] # pos[v]
    BY <1>1, <1>3, <2>1 DEF Strict
  <2>3. pos[u] < pos[v]
    BY <1>3, <1>5, <2>2 DEF Before
  <2> QED
    BY <1>3, <2>3
<1>6. ASSUME p \in there
      PROVE  /\ pos'[p] < pos'[t]
             /\ \A u \in there : ~(pos'[p] < pos'[u] /\ pos'[u] < pos'[t])
  <2>1. p # NoRow /\ p \in DOMAIN list
    BY <1>3, <1>4, <1>6
  <2>2. Ahead(k) = {a \in DOMAIN list : ~Before(list, p, a)}
    BY <1>1, <2>1 DEF AheadOf
  <2>3. p \in Ahead(k)
    BY <1>1, <2>1, <2>2, BeforeIsTotal
  <2>4. ASSUME NEW u \in there, pos'[p] < pos'[u], pos'[u] < pos'[t]
        PROVE  FALSE
    <3>1. u \in Ahead(k)
      BY <1>3, <2>4
    <3>2. u # p
      BY <1>3, <1>6, <2>4
    <3>3. Before(list, u, p)
      BY <1>1, <1>3, <2>1, <2>2, <3>1, <3>2, BeforeIsTotal
    <3>4. pos'[u] < pos'[p]
      BY <1>5, <1>6, <3>3
    <3> QED
      BY <1>3, <1>6, <2>4, <3>4
  <2> QED
    BY <1>3, <1>6, <2>3, <2>4
<1>7. ASSUME n \in there
      PROVE  /\ pos'[t] < pos'[n]
             /\ \A u \in there : ~(pos'[t] < pos'[u] /\ pos'[u] < pos'[n])
  <2>1. n # NoRow /\ n \in DOMAIN list
    BY <1>3, <1>4, <1>7
  <2>2. n \notin Ahead(k) /\ \A u \in DOMAIN list \ Ahead(k) : u # n => Before(list, n, u)
    <3>1. CASE p = NoRow
      <4>1. Ahead(k) = {a \in DOMAIN list : Before(list, a, n)}
        BY <1>1, <2>1, <3>1 DEF AheadOf
      <4> QED
        BY <1>1, <2>1, <4>1, BeforeIsTotal
    <3>2. CASE p # NoRow
      <4>1. Ahead(k) = {a \in DOMAIN list : ~Before(list, p, a)}
        BY <1>1, <3>2 DEF AheadOf
      <4>2. n = FirstOf(list, later)
        BY <1>1, <2>1, <3>2 DEF NeighborNotFound
      <4>3. later # {} /\ later \in SUBSET (DOMAIN list)
        BY <2>1, <4>2 DEF FirstOf
      <4> HIDE DEF later
      <4>4. n \in later /\ \A u \in later : ~Before(list, u, n)
        BY <1>1, <4>2, <4>3, EndsExist
      <4>5. \A u \in DOMAIN list : u \in later <=> u \notin Ahead(k)
        BY <4>1 DEF later
      <4> QED
        BY <1>1, <2>1, <4>4, <4>5, BeforeIsTotal
    <3> QED
      BY <3>1, <3>2
  <2>3. ASSUME NEW u \in there, pos'[t] < pos'[u], pos'[u] < pos'[n]
        PROVE  FALSE
    <3>1. u \notin Ahead(k) /\ u # n /\ u \in DOMAIN list
      BY <1>3, <1>7, <2>3
    <3>2. pos'[n] < pos'[u]
      BY <1>5, <1>7, <2>2, <3>1
    <3> QED
      BY <1>3, <1>7, <2>3, <3>2
  <2> QED
    BY <1>3, <1>7, <2>2, <2>3
<1>8. ASSUME p = NoRow, n = NoRow
      PROVE  \A u \in there : pos'[u] < pos'[t]
  <2>1. Ahead(k) = DOMAIN list
    BY <1>1, <1>8 DEF AheadOf
  <2> QED
    BY <1>3, <2>1
<1> QED
  BY <1>6, <1>7, <1>8 DEF LandsNextTo, there

(***************************************************************************)
(* Only a commit ends a transaction that has its slot and changes the rows, *)
(* and the task it puts in the column is the one it was asked to.           *)
(***************************************************************************)
LEMMA CommitsLand ==
    ASSUME IInv, NEW k \in Clients, CommitMove(k) \/ (CommitCreate(k) /\ ~Abort(k))
    PROVE  \A t \in Tasks :
              (t = request[k].task \/ home[t] = Unborn) /\ home'[t] = request[k].col
                  => LandsNextTo(k, t)
<1>1. Unborn \notin Columns /\ request[k].col \in Columns /\ NoRow \notin Tasks
  BY TaskOrderAssumption DEF IInv, TypeOK, Requests
<1>2. CASE CommitMove(k)
  <2>1. /\ pc[k] = "spread" /\ waiting[k] = {} /\ request[k].kind = "move"
        /\ Placed(k, request[k].task)
    BY <1>2 DEF CommitMove
  <2>2. /\ request[k].task \in Tasks /\ request[k].task \in locked[k]
        /\ request[k].col \in columns
    BY <2>1 DEF IInv, RowsWritten
  <2>3. LandsNextTo(k, request[k].task)
    BY <2>1, <2>2, PlacedLands
  <2>4. \A t \in Tasks : t # request[k].task => home'[t] = home[t]
    BY <2>1 DEF Placed, IInv, TypeOK
  <2> QED
    BY <1>1, <2>3, <2>4
<1>3. CASE CommitCreate(k) /\ ~Abort(k)
  <2>1. /\ pc[k] = "spread" /\ waiting[k] = {} /\ request[k].kind = "create"
        /\ request[k].col \in columns /\ request[k].task = NoRow
    BY <1>3 DEF CommitCreate, IInv, RowsWritten
  <2>2. PICK t \in Tasks : home[t] = Unborn /\ Placed(k, t)
    BY <1>3 DEF CommitCreate
  <2>3. LandsNextTo(k, t)
    BY <2>1, <2>2, PlacedLands
  <2>4. \A u \in Tasks : u # t => home'[u] = home[u]
    BY <2>2 DEF Placed, IInv, TypeOK
  <2> QED
    BY <1>1, <2>1, <2>3, <2>4
<1> QED
  BY <1>2, <1>3

(***************************************************************************)
(* The other steps of a transaction at its commit: they write no row.       *)
(***************************************************************************)
LEMMA NextLands ==
    ASSUME IInv, [Next]_vars, NEW k \in Clients,
           pc[k] = "spread", pc'[k] = "idle", rows' # rows
    PROVE  \A t \in Tasks :
              (t = request[k].task \/ home[t] = Unborn) /\ home'[t] = request[k].col
                  => LandsNextTo(k, t)
<1>2. PICK m \in Clients : Arrival(m) \/ Statement(m) \/ LoseConnection(m)
  BY DEF Next, vars, rows
<1>3. ~(\/ Arrival(m) \/ LoseConnection(m) \/ EndDeadlock(m) \/ Abort(m)
        \/ LockColumn(m) \/ ReadSiblings(m) \/ WriteOwnRow(m) \/ SpreadRow(m)
        \/ CountTasks(m) \/ DeleteColumn(m) \/ CascadeRow(m))
  BY DEF Arrival, BeginCreate, BeginMove, BeginRemove, BeginDrop, Begin, LoseConnection,
         EndDeadlock, Abort, LockColumn, ReadSiblings, WriteOwnRow, SpreadRow, CountTasks,
         DeleteColumn, CascadeRow
<1>4. CommitMove(m) \/ CommitCreate(m) \/ DeleteTask(m) \/ CommitDrop(m)
  BY <1>2, <1>3 DEF Statement
<1>5. pc' = [pc EXCEPT ![m] = "idle"]
  BY <1>3, <1>4 DEF CommitMove, CommitCreate, DeleteTask, CommitDrop, End, Goto
<1>6. m = k
  BY <1>5 DEF IInv, TypeOK
<1>7. CommitMove(k) \/ (CommitCreate(k) /\ ~Abort(k))
  BY <1>3, <1>4, <1>6 DEF DeleteTask, CommitDrop
<1> QED
  BY <1>7, CommitsLand

(***************************************************************************)
(* A task is created or moved where its request said, although the rows were*)
(* read some statements before: whatever board, clients and gaps, it lands  *)
(* next to each named neighbour that is still in the column, and last when  *)
(* none was named.                                                          *)
(***************************************************************************)
THEOREM TasksLandBeside == Spec => NeighboursAreKept
<1>1. IInv /\ [Next]_vars =>
        [\A k \in Clients :
           pc[k] = "spread" /\ pc'[k] = "idle" /\ rows' # rows =>
             \A t \in Tasks :
                 (t = request[k].task \/ home[t] = Unborn) /\ home'[t] = request[k].col
                     => LandsNextTo(k, t)]_vars
  BY NextLands
<1> QED
  BY <1>1, InitInv, NextInv, PTL DEF Spec, NeighboursAreKept

=============================================================================
