----------------------------- MODULE BoardProofs -----------------------------
(***************************************************************************)
(* The rows of one board under concurrent requests: the checklists of a     *)
(* task, what else hangs on a task, and the columns, for every number of    *)
(* requests and every board they may start from; the board as a browser     *)
(* shows it; and a list of rows that requests are put in between, one at a  *)
(* time.                                                                    *)
(***************************************************************************)
EXTENDS MCBoards, PositionsProofs, FunctionTheorems, SequenceTheorems

-----------------------------------------------------------------------------
(* Checklists: the inductive invariant *)

ChangeRecords ==
    [op : {"none", "add", "edit", "remove", "move"},
     id : ListRows \cup {NoRow}, of : ListRows \cup {NoRow}, after : ListRows \cup {NoRow},
     at : {"idle", "lock", "last", "insert", "write", "read", "place", "announce"},
     list : UNION {[S -> Int] : S \in SUBSET ListRows}, holds : BOOLEAN]

ListsTyped ==
    /\ card \in BOOLEAN /\ stale \in BOOLEAN /\ changesBegun \in 0..MaxChecklistOps
    /\ \E S \in SUBSET ListRows : row \in [S -> RowRecords]
    /\ DOMAIN row \subseteq usedRows /\ shifted \subseteq usedRows /\ usedRows \subseteq ListRows
    /\ change \in [Writers -> ChangeRecords]

\* An append that has not inserted its row yet.
Appending(k) == change[k].at \in {"lock", "last", "insert"}

\* What a request may still rely on: an append that goes on holds its parent, or its parent is gone
\* for good; the list it read has the rows appended there, and a move's list its own row.
Relied(k) ==
    LET c == change[k]
    IN  /\ Appending(k) => c.of \in usedRows \cup {NoRow}
        /\ c.holds => Appending(k)
        /\ c.at \in {"last", "insert"} => c.holds \/ ~ParentThere(c.of)
        /\ c.at = "insert" /\ c.holds =>
              \A r \in Listed(c.of) \ shifted : r \in DOMAIN c.list /\ c.list[r] = row[r].pos
        /\ c.at \in {"read", "place"} => c.after # c.id
        /\ c.at = "place" => c.id \in DOMAIN c.list /\ c.after \in DOMAIN c.list \cup {NoRow}

OneHolder ==
    \A k, m \in Writers :
        change[k].holds /\ change[m].holds /\ change[k].of = change[m].of => k = m

\* The bound of AddRow: every append that has started finds an id.
IdsSuffice ==
    Cardinality({k \in Writers : Appending(k)}) =< Cardinality(ListRows \ usedRows)

\* What a watcher does not show yet is announced, or about to be.
Unannounced ==
    card /\ shown # row => stale \/ \E k \in Writers : change[k].at = "announce"

ListsInv ==
    /\ ListsTyped
    /\ AppendsDistinct
    /\ OneHolder
    /\ IdsSuffice
    /\ \A k \in Writers : Relied(k)
    /\ Unannounced

-----------------------------------------------------------------------------
(* Checklists: the invariant, action by action *)

LEMMA NoChangeTyped == NoChange \in ChangeRecords /\ NoRows \in UNION {[S -> Int] : S \in SUBSET ListRows}
<1>1. [r \in {} |-> 0] \in [{} -> Int] /\ {} \in SUBSET ListRows
  OBVIOUS
<1>2. NoRows \in UNION {[S -> Int] : S \in SUBSET ListRows}
  BY <1>1 DEF NoRows
<1> QED
  BY <1>2 DEF NoChange, ChangeRecords

LEMMA ListsInit == ChecklistInit => ListsInv
<1> SUFFICES ASSUME ChecklistInit PROVE ListsInv
  OBVIOUS
<1>1. \E S \in SUBSET ListRows : row \in [S -> RowRecords]
  BY StartListsAssumption DEF ChecklistInit
<1>2. ListsTyped
  <2>1. change \in [Writers -> ChangeRecords]
    BY NoChangeTyped DEF ChecklistInit
  <2>2. usedRows = DOMAIN row /\ usedRows \subseteq ListRows /\ shifted = {}
    BY <1>1 DEF ChecklistInit
  <2>3. changesBegun \in 0..MaxChecklistOps
    BY ChecklistAssumption DEF ChecklistInit
  <2> QED
    BY <1>1, <2>1, <2>2, <2>3 DEF ChecklistInit, ListsTyped
<1>3. AppendsDistinct
  BY StartListsAssumption DEF ChecklistInit, AppendsDistinct
<1>4. OneHolder
  BY DEF ChecklistInit, OneHolder, NoChange
<1>5. IdsSuffice
  <2>1. {k \in Writers : Appending(k)} = {}
    BY DEF ChecklistInit, Appending, NoChange
  <2>2. Cardinality(ListRows \ usedRows) \in Nat
    BY ChecklistAssumption, FS_Subset, FS_CardinalityType
  <2>3. Cardinality({k \in Writers : Appending(k)}) = 0
    BY <2>1, FS_EmptySet
  <2> QED
    BY <2>2, <2>3 DEF IdsSuffice
<1>6. \A k \in Writers : Relied(k)
  BY DEF ChecklistInit, Relied, NoChange
<1>7. Unannounced
  BY DEF ChecklistInit, Unannounced
<1> QED
  BY <1>2, <1>3, <1>4, <1>5, <1>6, <1>7 DEF ListsInv

\* What a step other than an insertion does to the rows: it moves rows, takes some, adds none.
RowsOnlyGo ==
    /\ card' => card
    /\ \A r \in DOMAIN row' : /\ r \in DOMAIN row
                              /\ row'[r].of = row[r].of
                              /\ r \in shifted' \/ row'[r].pos = row[r].pos
    /\ shifted \subseteq shifted'
    /\ UNCHANGED usedRows

\* Such a step leaves the other requests what they rely on.
LEMMA OthersRely ==
    ASSUME ListsInv, NEW k \in Writers, NEW e, change' = [change EXCEPT ![k] = e], RowsOnlyGo,
           e.holds => \A m \in Writers \ {k} : ~(change[m].holds /\ change[m].of = e.of)
    PROVE  /\ AppendsDistinct' /\ OneHolder'
           /\ \A m \in Writers \ {k} : Relied(m)'
<1>1. change'[k] = e /\ \A m \in Writers \ {k} : change'[m] = change[m]
  BY DEF ListsInv, ListsTyped
<1>2. AppendsDistinct'
  BY DEF ListsInv, AppendsDistinct, RowsOnlyGo
<1>3. OneHolder'
  BY <1>1 DEF ListsInv, OneHolder
<1>4. ASSUME NEW m \in Writers \ {k} PROVE Relied(m)'
  <2>1. \A p : ParentThere(p)' => ParentThere(p)
    BY DEF ParentThere, RowsOnlyGo
  <2>2. \A p : \A r \in Listed(p)' \ shifted' :
             r \in Listed(p) \ shifted /\ row'[r].pos = row[r].pos
    BY DEF Listed, RowsOnlyGo
  <2>3. Relied(m)
    BY DEF ListsInv
  <2>4. change'[m] = change[m] /\ usedRows' = usedRows
    BY <1>1 DEF RowsOnlyGo
  <2> QED
    BY <2>1, <2>2, <2>3, <2>4 DEF Relied, Appending
<1> QED
  BY <1>2, <1>3, <1>4

\* Appends that go on need no more ids than before.
LEMMA IdsStillSuffice ==
    ASSUME ListsInv, UNCHANGED usedRows,
           \A k \in Writers : Appending(k)' => Appending(k)
    PROVE  IdsSuffice'
<1> DEFINE A == {k \in Writers : Appending(k)}
           B == {k \in Writers : Appending(k)'}
<1>1. IsFiniteSet(A) /\ IsFiniteSet(B)
  BY ChecklistAssumption, FS_Subset
<1>2. B \in SUBSET A
  OBVIOUS
<1>3. Cardinality(B) =< Cardinality(A) /\ Cardinality(A) \in Nat /\ Cardinality(B) \in Nat
  <2> HIDE DEF A, B
  <2> QED
    BY <1>1, <1>2, FS_Subset, FS_CardinalityType
<1>4. Cardinality(ListRows \ usedRows) \in Nat
  BY ChecklistAssumption, FS_Subset, FS_CardinalityType
<1> QED
  BY <1>3, <1>4 DEF ListsInv, IdsSuffice

\* A request that ends without a change, or goes on after reading.
LEMMA StatementKeeps ==
    ASSUME ListsInv, NEW k \in Writers, NEW e \in ChangeRecords,
           change' = [change EXCEPT ![k] = e],
           UNCHANGED <<checklistRows, stale, shown, changesBegun>>,
           change[k].at # "announce",
           e.holds => \A m \in Writers \ {k} : ~(change[m].holds /\ change[m].of = e.of),
           e.at \in {"lock", "last", "insert"} => Appending(k),
           Relied(k)'
    PROVE  ListsInv'
<1>1. /\ UNCHANGED <<card, row, usedRows, shifted, stale, shown, changesBegun>>
      /\ change'[k] = e /\ \A m \in Writers \ {k} : change'[m] = change[m]
  BY DEF ListsInv, ListsTyped, checklistRows
<1>2. ListsTyped'
  BY <1>1 DEF ListsInv, ListsTyped
<1>3. RowsOnlyGo
  BY <1>1 DEF RowsOnlyGo
<1>4. /\ AppendsDistinct' /\ OneHolder'
      /\ \A m \in Writers \ {k} : Relied(m)'
  BY <1>3, OthersRely
<1>5. IdsSuffice'
  BY <1>1, IdsStillSuffice DEF Appending
<1>6. Unannounced'
  BY <1>1 DEF ListsInv, Unannounced
<1> QED
  BY <1>2, <1>4, <1>5, <1>6 DEF ListsInv

LEMMA RefuseKeeps ==
    ASSUME ListsInv, NEW k \in Writers, Refuse(k), change[k].at # "announce"
    PROVE  ListsInv'
<1>1. /\ change' = [change EXCEPT ![k] = NoChange]
      /\ UNCHANGED <<checklistRows, stale, shown, changesBegun>>
  BY DEF Refuse, Advance
<1>2. change'[k] = NoChange
  BY <1>1 DEF ListsInv, ListsTyped
<1>3. Relied(k)'
  BY <1>2 DEF Relied, NoChange
<1> QED
  BY <1>1, <1>3, NoChangeTyped, StatementKeeps DEF NoChange

\* A request arrives: the rows it names are rows of the task.
LEMMA AskKeeps ==
    ASSUME ListsInv, NEW k \in Writers,
           AddRow(k) \/ EditRow(k) \/ RemoveRow(k) \/ MoveRow(k)
    PROVE  ListsInv'
<1>1. PICK op \in {"add", "edit", "remove", "move"}, r \in ListRows \cup {NoRow},
           p \in ListRows \cup {NoRow}, after \in ListRows \cup {NoRow},
           step \in {"lock", "write", "read"} :
        /\ Ask(k, op, r, p, after, step)
        /\ step = "lock" => /\ p \in usedRows \cup {NoRow}
                            /\ Cardinality(ListRows \ usedRows) >= Cardinality(Writers)
        /\ step = "read" => after # r
  <2>1. \A r \in DOMAIN row : row[r].of \in ListRows \cup {NoRow}
    BY DEF ListsInv, ListsTyped, RowRecords
  <2>2. DOMAIN row \subseteq usedRows /\ usedRows \subseteq ListRows
        /\ \A p : Listed(p) \subseteq DOMAIN row
    BY DEF ListsInv, ListsTyped, Listed
  <2>3. CASE AddRow(k)
    BY <2>2, <2>3 DEF AddRow
  <2>4. CASE EditRow(k)
    BY <2>1, <2>2, <2>4 DEF EditRow
  <2>5. CASE RemoveRow(k)
    BY <2>1, <2>2, <2>5 DEF RemoveRow
  <2>6. CASE MoveRow(k)
    <3>1. PICK r \in DOMAIN row : \E after \in (Listed(row[r].of) \cup {NoRow}) \ {r} :
              Ask(k, "move", r, row[r].of, after, "read")
      BY <2>6 DEF MoveRow
    <3>2. PICK after \in (Listed(row[r].of) \cup {NoRow}) \ {r} :
              Ask(k, "move", r, row[r].of, after, "read")
      BY <3>1
    <3>3. after \in ListRows \cup {NoRow} /\ after # r
      BY <2>2
    <3>4. row[r].of \in ListRows \cup {NoRow} /\ r \in ListRows
      BY <2>1, <2>2
    <3> QED
      BY <3>2, <3>3, <3>4
  <2> QED
    BY <2>3, <2>4, <2>5, <2>6
<1> DEFINE e == [NoChange EXCEPT !.op = op, !.id = r, !.of = p, !.after = after, !.at = step]
<1>2. /\ change[k] = NoChange /\ change' = [change EXCEPT ![k] = e]
      /\ changesBegun < MaxChecklistOps /\ changesBegun' = changesBegun + 1
      /\ UNCHANGED <<card, row, usedRows, shifted, stale, shown>>
  BY <1>1 DEF Ask, checklistRows
<1>3. /\ e \in ChangeRecords /\ e.holds = FALSE /\ e.at = step /\ e.of = p /\ e.after = after
      /\ e.id = r
  <2>1. e \in ChangeRecords
    BY NoChangeTyped DEF ChangeRecords
  <2>2. e.holds = FALSE /\ e.at = step /\ e.of = p /\ e.after = after /\ e.id = r
    BY DEF NoChange
  <2> QED
    BY <2>1, <2>2
<1> HIDE DEF e
<1>4. change'[k] = e /\ \A m \in Writers \ {k} : change'[m] = change[m]
  BY <1>2 DEF ListsInv, ListsTyped
<1>5. ListsTyped'
  BY <1>2, <1>3, ChecklistAssumption DEF ListsInv, ListsTyped
<1>6. RowsOnlyGo
  BY <1>2 DEF RowsOnlyGo
<1>7. /\ AppendsDistinct' /\ OneHolder'
      /\ \A m \in Writers \ {k} : Relied(m)'
  BY <1>2, <1>3, <1>6, OthersRely
<1>8. IdsSuffice'
  <2>1. CASE step = "lock"
    <3> DEFINE B == {m \in Writers : Appending(m)'}
    <3>1. B \in SUBSET Writers /\ IsFiniteSet(Writers)
      BY ChecklistAssumption
    <3>2. IsFiniteSet(B) /\ Cardinality(B) =< Cardinality(Writers)
      <4> HIDE DEF B
      <4> QED
        BY <3>1, FS_Subset
    <3>3. Cardinality(B) \in Nat /\ Cardinality(Writers) \in Nat
      BY <3>1, <3>2, FS_CardinalityType
    <3>4. Cardinality(ListRows \ usedRows) \in Nat
      BY ChecklistAssumption, FS_Subset, FS_CardinalityType
    <3> QED
      BY <1>1, <1>2, <2>1, <3>2, <3>3, <3>4 DEF IdsSuffice
  <2>2. CASE step # "lock"
    BY <1>2, <1>3, <1>4, <2>2, IdsStillSuffice DEF Appending
  <2> QED
    BY <2>1, <2>2
<1>9. Relied(k)'
  BY <1>1, <1>2, <1>3, <1>4 DEF Relied, Appending
<1>10. Unannounced'
  BY <1>2, <1>4 DEF ListsInv, Unannounced, NoChange
<1> QED
  BY <1>5, <1>7, <1>8, <1>9, <1>10 DEF ListsInv

\* The parent is locked by one append at a time; one that is gone is never back.
LEMMA LockKeeps ==
    ASSUME ListsInv, NEW k \in Writers, LockParent(k) \/ ReadLast(k)
    PROVE  ListsInv'
<1> DEFINE c == change[k]
           e == IF c.at = "lock" THEN [c EXCEPT !.at = "last", !.holds = ParentThere(c.of)]
                ELSE [c EXCEPT !.at = "insert", !.list = PositionsIn(c.of)]
<1>1. /\ change' = [change EXCEPT ![k] = e]
      /\ UNCHANGED <<checklistRows, stale, shown, changesBegun>>
      /\ c.at \in {"lock", "last"} /\ Appending(k)
      /\ c.at = "lock" => ~Locked(k, c.of)
  BY DEF LockParent, ReadLast, Advance, Appending
<1>2. c \in ChangeRecords /\ Relied(k)
  BY DEF ListsInv, ListsTyped
<1>3. PositionsIn(c.of) \in UNION {[S -> Int] : S \in SUBSET ListRows}
  <2>1. Listed(c.of) \in SUBSET ListRows
    BY DEF Listed, ListsInv, ListsTyped
  <2>2. PositionsIn(c.of) \in [Listed(c.of) -> Int]
    BY DEF PositionsIn, Listed, ListsInv, ListsTyped, RowRecords
  <2> QED
    BY <2>1, <2>2
<1>4. /\ e \in ChangeRecords /\ e.of = c.of /\ e.after = c.after /\ e.id = c.id
      /\ c.at = "lock" => e.at = "last" /\ e.holds = ParentThere(c.of)
      /\ c.at = "last" => /\ e.at = "insert" /\ e.holds = c.holds
                          /\ e.list = PositionsIn(c.of)
  <2>1. ParentThere(c.of) \in BOOLEAN
    <3>1. card \in BOOLEAN
      BY DEF ListsInv, ListsTyped
    <3>2. CASE c.of = NoRow
      BY <3>1, <3>2 DEF ParentThere
    <3>3. CASE c.of # NoRow
      BY <3>3 DEF ParentThere
    <3> QED
      BY <3>2, <3>3
  <2>2. CASE c.at = "lock"
    BY <1>2, <2>1, <2>2 DEF ChangeRecords
  <2>3. CASE c.at = "last"
    BY <1>2, <1>3, <2>3 DEF ChangeRecords
  <2> QED
    BY <1>1, <2>2, <2>3
<1> HIDE DEF e
<1>5. change'[k] = e
  BY <1>1 DEF ListsInv, ListsTyped
<1>6. e.holds => \A m \in Writers \ {k} : ~(change[m].holds /\ change[m].of = e.of)
  BY <1>1, <1>4 DEF Locked, ListsInv, OneHolder
<1>7. UNCHANGED <<card, row, usedRows, shifted>>
  BY <1>1 DEF checklistRows
<1>8. Relied(k)'
  <2>1. \A p : /\ ParentThere(p)' = ParentThere(p) /\ Listed(p)' = Listed(p)
    BY <1>7 DEF ParentThere, Listed
  <2>2. \A r \in Listed(c.of) : r \in DOMAIN PositionsIn(c.of) /\ PositionsIn(c.of)[r] = row[r].pos
    BY DEF PositionsIn
  <2> QED
    BY <1>1, <1>2, <1>4, <1>5, <1>7, <2>1, <2>2 DEF Relied, Appending
<1> QED
  BY <1>1, <1>4, <1>6, <1>8, StatementKeeps

-----------------------------------------------------------------------------
\* The list a move read has its own row in it, and the row it is to be put behind.
LEMMA ReadSiblingsKeeps ==
    ASSUME ListsInv, NEW k \in Writers, ReadSiblings(k)
    PROVE  ListsInv'
<1> DEFINE c == change[k]
           siblings == PositionsIn(c.of)
           e == [c EXCEPT !.at = "place", !.list = siblings]
<1>1. c.at = "read" /\ c \in ChangeRecords /\ Relied(k)
  BY DEF ReadSiblings, ListsInv, ListsTyped
<1>2. CASE c.id \notin DOMAIN siblings \/ c.after \notin DOMAIN siblings \cup {NoRow}
  BY <1>1, <1>2, RefuseKeeps DEF ReadSiblings
<1>3. CASE ~(c.id \notin DOMAIN siblings \/ c.after \notin DOMAIN siblings \cup {NoRow})
  <2>1. /\ change' = [change EXCEPT ![k] = e]
        /\ UNCHANGED <<checklistRows, stale, shown, changesBegun>>
    BY <1>3 DEF ReadSiblings, Advance
  <2>2. siblings \in UNION {[S -> Int] : S \in SUBSET ListRows}
    <3>1. Listed(c.of) \in SUBSET ListRows
      BY DEF Listed, ListsInv, ListsTyped
    <3>2. siblings \in [Listed(c.of) -> Int]
      BY DEF PositionsIn, Listed, ListsInv, ListsTyped, RowRecords
    <3> QED
      BY <3>1, <3>2
  <2> HIDE DEF siblings
  <2>3. /\ e \in ChangeRecords /\ e.at = "place" /\ e.list = siblings
        /\ e.id = c.id /\ e.after = c.after /\ e.holds = c.holds /\ e.of = c.of
    BY <1>1, <2>2 DEF ChangeRecords
  <2> HIDE DEF e
  <2>4. change'[k] = e /\ ~c.holds
    BY <1>1, <2>1 DEF ListsInv, ListsTyped, Relied, Appending
  <2>5. Relied(k)'
    BY <1>1, <1>3, <2>3, <2>4 DEF Relied, Appending
  <2> QED
    BY <1>1, <2>1, <2>3, <2>4, <2>5, StatementKeeps
<1> QED
  BY <1>2, <1>3

\* A committed change of the rows, other than an insertion: it is announced next.
LEMMA RowsChange ==
    ASSUME ListsInv, NEW k \in Writers, Committed(k), RowsOnlyGo, UNCHANGED card,
           change[k].at # "announce",
           \E S \in SUBSET ListRows : row' \in [S -> RowRecords],
           shifted' \subseteq usedRows
    PROVE  ListsInv'
<1> DEFINE c == change[k]
           e == [c EXCEPT !.at = "announce", !.holds = FALSE]
<1>1. change' = [change EXCEPT ![k] = e] /\ UNCHANGED <<stale, shown, changesBegun>>
  BY DEF Committed, Advance
<1>2. c \in ChangeRecords /\ Relied(k)
  BY DEF ListsInv, ListsTyped
<1>3. /\ e \in ChangeRecords /\ e.at = "announce" /\ e.holds = FALSE
      /\ e.id = c.id /\ e.after = c.after /\ e.of = c.of
  BY <1>2 DEF ChangeRecords
<1> HIDE DEF e
<1>4. change'[k] = e /\ \A m \in Writers \ {k} : change'[m] = change[m]
  BY <1>1 DEF ListsInv, ListsTyped
<1>5. DOMAIN row' \subseteq DOMAIN row /\ usedRows' = usedRows
  BY DEF RowsOnlyGo
<1>6. ListsTyped'
  BY <1>1, <1>3, <1>5 DEF ListsInv, ListsTyped
<1>7. /\ AppendsDistinct' /\ OneHolder'
      /\ \A m \in Writers \ {k} : Relied(m)'
  BY <1>1, <1>3, OthersRely
<1>8. IdsSuffice'
  BY <1>3, <1>4, <1>5, IdsStillSuffice DEF Appending
<1>9. Relied(k)'
  BY <1>2, <1>3, <1>4, <1>5 DEF Relied, Appending
<1>10. Unannounced'
  BY <1>3, <1>4 DEF Unannounced
<1> QED
  BY <1>6, <1>7, <1>8, <1>9, <1>10 DEF ListsInv

\* The list a request read, and the rows a moved row may come to stand before.
LEMMA ListsRead ==
    ASSUME ListsInv, NEW k \in Writers
    PROVE  /\ IsList(change[k].list)
           /\ IsList(Others(change[k]))
           /\ DOMAIN Others(change[k]) = DOMAIN change[k].list \ {change[k].id}
           /\ \A r \in DOMAIN Others(change[k]) : Others(change[k])[r] = change[k].list[r]
<1> DEFINE c == change[k]
<1>1. c.list \in UNION {[S -> Int] : S \in SUBSET ListRows}
  BY DEF ListsInv, ListsTyped, ChangeRecords
<1>2. PICK S \in SUBSET ListRows : c.list \in [S -> Int]
  BY <1>1
<1>3. IsFiniteSet(S) /\ IsFiniteSet(S \ {c.id}) /\ S \subseteq Nat \ {NoRow}
  BY ChecklistAssumption, FS_Subset
<1>4. Others(c) \in [S \ {c.id} -> Int]
  BY <1>2 DEF Others
<1> QED
  BY <1>2, <1>3, <1>4 DEF IsList, Others

LEMMA BehindIsThere ==
    ASSUME ListsInv, NEW k \in Writers, NEW next \in Behind(change[k])
    PROVE  next \in DOMAIN Others(change[k]) \cup {NoRow}
<1> DEFINE c == change[k]
           others == Others(c)
           later == {r \in DOMAIN others : others[r] > others[c.after]}
<1>1. IsList(others)
  BY ListsRead
<1>2. FirstOf(others, DOMAIN others) \in DOMAIN others \cup {NoRow}
  BY <1>1, EndsExist DEF FirstOf
<1>3. FirstOf(others, later) \in DOMAIN others \cup {NoRow}
  <2>1. later \in SUBSET (DOMAIN others)
    OBVIOUS
  <2> HIDE DEF later, others
  <2> QED
    BY <1>1, <2>1, EndsExist DEF FirstOf
<1> HIDE DEF others
<1> QED
  BY <1>2, <1>3 DEF Behind, others

LEMMA WriteKeeps ==
    ASSUME ListsInv, NEW k \in Writers, WriteEdit(k) \/ DeleteRow(k) \/ PlaceRow(k)
    PROVE  ListsInv'
<1> DEFINE r == change[k].id
<1>1. change[k].at # "announce"
  BY DEF WriteEdit, DeleteRow, PlaceRow
<1>2. CASE Refuse(k)
  BY <1>1, <1>2, RefuseKeeps
<1>3. PICK S \in SUBSET ListRows : row \in [S -> RowRecords]
  BY DEF ListsInv, ListsTyped
<1>4. DOMAIN row = S
  BY <1>3
<1>5. CASE WriteEdit(k) /\ ~Refuse(k)
  <2>1. /\ r \in S /\ Committed(k) /\ UNCHANGED <<card, usedRows, shifted>>
        /\ row' = [row EXCEPT ![r].done = ~@]
    BY <1>4, <1>5 DEF WriteEdit
  <2>2. row' \in [S -> RowRecords]
    BY <1>3, <2>1 DEF RowRecords
  <2>3. RowsOnlyGo
    BY <1>3, <2>1 DEF RowsOnlyGo, RowRecords
  <2> QED
    BY <1>1, <2>1, <2>2, <2>3, RowsChange DEF ListsInv, ListsTyped
<1>6. CASE DeleteRow(k) /\ ~Refuse(k)
  <2> DEFINE T == {s \in DOMAIN row \ {r} : row[s].of # r}
  <2>1. /\ Committed(k) /\ UNCHANGED <<card, usedRows, shifted>>
        /\ row' = [s \in T |-> row[s]]
    BY <1>6 DEF DeleteRow
  <2>2. row' \in [T -> RowRecords] /\ T \in SUBSET ListRows
    BY <1>3, <2>1
  <2>3. RowsOnlyGo
    BY <1>3, <2>1 DEF RowsOnlyGo
  <2> HIDE DEF T
  <2> QED
    BY <1>1, <2>1, <2>2, <2>3, RowsChange DEF ListsInv, ListsTyped
<1>7. CASE PlaceRow(k) /\ ~Refuse(k)
  <2>1. PICK next \in Behind(change[k]) :
          /\ row' = [row EXCEPT ![r].pos = Midpoint(Others(change[k]), change[k].after, next)]
          /\ shifted' = shifted \cup {r}
          /\ Committed(k)
          /\ UNCHANGED <<card, usedRows>>
    BY <1>7 DEF PlaceRow
  <2>2. r \in S /\ change[k].at = "place"
    BY <1>4, <1>7 DEF PlaceRow
  <2> DEFINE mid == Midpoint(Others(change[k]), change[k].after, next)
  <2>3. mid \in Int
    <3>1. /\ IsList(Others(change[k]))
          /\ DOMAIN Others(change[k]) = DOMAIN change[k].list \ {r}
      BY ListsRead
    <3>2. next \in DOMAIN Others(change[k]) \cup {NoRow}
      BY BehindIsThere
    <3>3. change[k].after \in DOMAIN Others(change[k]) \cup {NoRow}
      BY <2>2, <3>1 DEF ListsInv, Relied
    <3> HIDE DEF r
    <3> QED
      BY <3>1, <3>2, <3>3, GapAssumption DEF IsList, Midpoint
  <2> HIDE DEF mid
  <2>4. row' \in [S -> RowRecords]
    BY <1>3, <2>1, <2>2, <2>3 DEF RowRecords, mid
  <2>5. RowsOnlyGo
    BY <1>3, <2>1, <2>2 DEF RowsOnlyGo, RowRecords
  <2>6. shifted' \subseteq usedRows
    BY <1>4, <2>1, <2>2 DEF ListsInv, ListsTyped
  <2> QED
    BY <1>1, <2>1, <2>4, <2>5, <2>6, RowsChange
<1> QED
  BY <1>2, <1>5, <1>6, <1>7

\* The events, the reading that answers them, and the end of the task.
LEMMA AnnounceKeeps ==
    ASSUME ListsInv, NEW k \in Writers, Announce(k)
    PROVE  ListsInv'
<1>1. /\ change' = [change EXCEPT ![k] = NoChange] /\ stale' = (stale \/ card)
      /\ UNCHANGED <<card, row, usedRows, shifted, shown, changesBegun>>
      /\ change[k].at = "announce"
  BY DEF Announce, checklistRows
<1>2. change'[k] = NoChange
  BY <1>1 DEF ListsInv, ListsTyped
<1>3. ListsTyped'
  BY <1>1, NoChangeTyped DEF ListsInv, ListsTyped
<1>4. RowsOnlyGo
  BY <1>1 DEF RowsOnlyGo
<1>5. /\ AppendsDistinct' /\ OneHolder'
      /\ \A m \in Writers \ {k} : Relied(m)'
  BY <1>1, <1>4, OthersRely DEF NoChange
<1>6. IdsSuffice'
  <2>1. \A m \in Writers : Appending(m)' => Appending(m)
    BY <1>1, <1>2 DEF Appending, NoChange, ListsInv, ListsTyped
  <2> QED
    BY <1>1, <2>1, IdsStillSuffice
<1>7. Relied(k)'
  BY <1>2 DEF Relied, Appending, NoChange
<1>8. Unannounced'
  BY <1>1 DEF Unannounced
<1> QED
  BY <1>3, <1>5, <1>6, <1>7, <1>8 DEF ListsInv

LEMMA AroundKeeps ==
    ASSUME ListsInv, Refetch \/ DeleteTask \/ UNCHANGED checklistVars
    PROVE  ListsInv'
<1>1. /\ UNCHANGED <<usedRows, shifted, change, changesBegun>>
      /\ card' => card
      /\ card' => (shown' = row' \/ UNCHANGED <<row, shown, stale>>)
      /\ row' = row \/ row' = NoRows
      /\ stale' \in {stale, FALSE} /\ card' \in {card, FALSE}
  <2>1. CASE Refetch
    BY <2>1 DEF Refetch, checklistRows
  <2>2. CASE DeleteTask
    BY <2>2 DEF DeleteTask
  <2>3. CASE UNCHANGED checklistVars
    BY <2>3 DEF checklistVars
  <2> QED
    BY <2>1, <2>2, <2>3
<1>2. DOMAIN NoRows = {} /\ \E S \in SUBSET ListRows : NoRows \in [S -> RowRecords]
  <2>1. NoRows \in [{} -> RowRecords] /\ DOMAIN NoRows = {}
    BY DEF NoRows
  <2> QED
    BY <2>1
<1>3. ListsTyped'
  BY <1>1, <1>2 DEF ListsInv, ListsTyped
<1>4. AppendsDistinct'
  BY <1>1, <1>2 DEF ListsInv, AppendsDistinct
<1>5. OneHolder'
  BY <1>1 DEF ListsInv, OneHolder
<1>6. IdsSuffice'
  BY <1>1, IdsStillSuffice DEF Appending
<1>7. ASSUME NEW m \in Writers PROVE Relied(m)'
  <2>1. /\ \A p : ParentThere(p)' => ParentThere(p)
        /\ \A p : \A r \in Listed(p)' : r \in Listed(p) /\ row'[r].pos = row[r].pos
    BY <1>1, <1>2 DEF ParentThere, Listed
  <2>2. Relied(m)
    BY DEF ListsInv
  <2> QED
    BY <1>1, <2>1, <2>2 DEF Relied, Appending
<1>8. Unannounced'
  BY <1>1 DEF ListsInv, Unannounced
<1> QED
  BY <1>3, <1>4, <1>5, <1>6, <1>7, <1>8 DEF ListsInv

\* The row of an append is behind those appended before it: its parent was held since it read them.
LEMMA InsertKeeps ==
    ASSUME ListsInv, NEW k \in Writers, InsertRow(k)
    PROVE  ListsInv'
<1> DEFINE c == change[k]
           new == CHOOSE r \in ListRows \ usedRows : \A s \in ListRows \ usedRows : r =< s
           end == (IF LastOf(c.list, DOMAIN c.list) = NoRow THEN 0
                   ELSE c.list[LastOf(c.list, DOMAIN c.list)]) + Gap
           e == [c EXCEPT !.at = "announce", !.holds = FALSE]
<1>1. c.at = "insert" /\ c \in ChangeRecords /\ Relied(k) /\ Appending(k)
  BY DEF InsertRow, ListsInv, ListsTyped, Appending
<1>2. CASE ~ParentThere(c.of)
  BY <1>1, <1>2, RefuseKeeps DEF InsertRow
<1>3. CASE ParentThere(c.of)
  <2> DEFINE fresh == [of |-> c.of, done |-> FALSE, pos |-> end]
  <2>1. /\ row' = [r \in DOMAIN row \cup {new} |-> IF r = new THEN fresh ELSE row[r]]
        /\ usedRows' = usedRows \cup {new}
        /\ change' = [change EXCEPT ![k] = e]
        /\ UNCHANGED <<card, shifted, stale, shown, changesBegun>>
    BY <1>3 DEF InsertRow, Committed, Advance
  <2>2. end \in Int /\ \A r \in DOMAIN c.list : c.list[r] < end
    BY ListsRead, AppendedLast
  <2>3. new \in ListRows \ usedRows
    <3> DEFINE A == {m \in Writers : Appending(m)}
    <3>1. IsFiniteSet(A) /\ A # {}
      BY <1>1, ChecklistAssumption, FS_Subset
    <3>2. Cardinality(A) \in Nat /\ Cardinality(A) # 0
      BY <3>1, FS_EmptySet, FS_CardinalityType
    <3>3. IsFiniteSet(ListRows \ usedRows)
      BY ChecklistAssumption, FS_Subset
    <3>4. Cardinality(ListRows \ usedRows) \in Nat
      BY <3>3, FS_CardinalityType
    <3>5. Cardinality(ListRows \ usedRows) # 0
      BY <3>2, <3>4 DEF ListsInv, IdsSuffice
    <3>6. ListRows \ usedRows # {}
      BY <3>5, FS_EmptySet
    <3>7. ListRows \ usedRows \subseteq Nat
      BY ChecklistAssumption
    <3> QED
      BY <3>6, <3>7, LeastOfNat
  <2> HIDE DEF new, end
  <2>4. /\ e \in ChangeRecords /\ e.at = "announce" /\ e.holds = FALSE
        /\ e.id = c.id /\ e.after = c.after /\ e.of = c.of
    BY <1>1 DEF ChangeRecords
  <2> HIDE DEF e
  <2>5. change'[k] = e /\ \A m \in Writers \ {k} : change'[m] = change[m]
    BY <2>1 DEF ListsInv, ListsTyped
  <2>6. c.holds /\ c.of \in ListRows \cup {NoRow} /\ c.of \in usedRows \cup {NoRow}
    BY <1>1, <1>3 DEF Relied, ChangeRecords
  <2>7. ListsTyped'
    <3>1. PICK S \in SUBSET ListRows : row \in [S -> RowRecords]
      BY DEF ListsInv, ListsTyped
    <3>2. fresh \in RowRecords
      BY <2>2, <2>6 DEF RowRecords
    <3> HIDE DEF fresh
    <3>3. row' \in [S \cup {new} -> RowRecords] /\ S \cup {new} \in SUBSET ListRows
      BY <2>1, <2>3, <3>1, <3>2
    <3>4. DOMAIN row' \subseteq usedRows'
      BY <2>1 DEF ListsInv, ListsTyped
    <3> QED
      BY <2>1, <2>3, <2>4, <3>3, <3>4 DEF ListsInv, ListsTyped
  <2>8. /\ new \notin DOMAIN row /\ DOMAIN row' = DOMAIN row \cup {new}
        /\ row'[new].of = c.of /\ row'[new].pos = end
        /\ \A r \in DOMAIN row : row'[r] = row[r]
    BY <2>1, <2>3 DEF ListsInv, ListsTyped
  <2>9. \A r \in DOMAIN row \ shifted : row[r].of = c.of => row[r].pos < end
    BY <1>1, <2>2, <2>6 DEF Relied, Listed
  <2>10. AppendsDistinct'
    <3>1. SUFFICES ASSUME NEW r \in DOMAIN row' \ shifted, NEW s \in DOMAIN row' \ shifted,
                          r # s, row'[r].of = row'[s].of
                   PROVE  row'[r].pos # row'[s].pos
      BY <2>1 DEF AppendsDistinct
    <3>2. \A t \in DOMAIN row : row[t].pos \in Int
      BY DEF ListsInv, ListsTyped, RowRecords
    <3>3. CASE r = new
      <4>1. s \in DOMAIN row \ shifted /\ row[s].of = c.of /\ row'[s].pos = row[s].pos
        BY <2>8, <3>1, <3>3
      <4> QED
        BY <2>2, <2>8, <2>9, <3>2, <3>3, <4>1
    <3>4. CASE s = new
      <4>1. r \in DOMAIN row \ shifted /\ row[r].of = c.of /\ row'[r].pos = row[r].pos
        BY <2>8, <3>1, <3>4
      <4> QED
        BY <2>2, <2>8, <2>9, <3>2, <3>4, <4>1
    <3>5. CASE r # new /\ s # new
      BY <2>8, <3>1, <3>5 DEF ListsInv, AppendsDistinct
    <3> QED
      BY <3>3, <3>4, <3>5
  <2>11. OneHolder'
    BY <2>4, <2>5 DEF ListsInv, OneHolder
  <2>12. IdsSuffice'
    <3> DEFINE A == {m \in Writers : Appending(m)}
               free == ListRows \ usedRows
    <3>1. /\ {m \in Writers : Appending(m)'} = A \ {k} /\ k \in A
          /\ ListRows \ usedRows' = free \ {new} /\ new \in free
      BY <1>1, <2>1, <2>3, <2>4, <2>5 DEF Appending
    <3>2. IsFiniteSet(A) /\ IsFiniteSet(free)
      BY ChecklistAssumption, FS_Subset
    <3>3. Cardinality(A) =< Cardinality(free)
      BY DEF ListsInv, IdsSuffice
    <3> HIDE DEF A, free
    <3>4. /\ Cardinality(A \ {k}) = Cardinality(A) - 1
          /\ Cardinality(free \ {new}) = Cardinality(free) - 1
          /\ Cardinality(A) \in Nat /\ Cardinality(free) \in Nat
      BY <3>1, <3>2, FS_RemoveElement, FS_CardinalityType
    <3>5. Cardinality(A \ {k}) =< Cardinality(free \ {new})
      BY <3>3, <3>4
    <3> QED
      BY <3>1, <3>5 DEF IdsSuffice
  <2>13. ASSUME NEW m \in Writers \ {k} PROVE Relied(m)'
    <3>1. Relied(m) /\ change'[m] = change[m]
      BY <2>5 DEF ListsInv
    <3>2. \A p : p = change[m].of /\ Appending(m) => (ParentThere(p)' => ParentThere(p))
      BY <2>1, <2>3, <2>8, <3>1, ChecklistAssumption DEF Relied, ParentThere
    <3>3. \A p : p = change[m].of /\ change[m].holds => Listed(p)' = Listed(p)
      <4>1. change[m].holds => change[m].of # c.of
        BY <2>6 DEF ListsInv, OneHolder
      <4> QED
        BY <2>8, <4>1 DEF Listed
    <3>4. \A r \in Listed(change[m].of) : row'[r].pos = row[r].pos
      BY <2>8 DEF Listed
    <3>5. UNCHANGED shifted /\ usedRows \subseteq usedRows'
      BY <2>1
    <3> QED
      BY <3>1, <3>2, <3>3, <3>4, <3>5 DEF Relied, Appending
  <2>14. Relied(k)'
    BY <2>4, <2>5 DEF Relied, Appending
  <2>15. Unannounced'
    BY <2>4, <2>5 DEF Unannounced
  <2> QED
    BY <2>7, <2>10, <2>11, <2>12, <2>13, <2>14, <2>15 DEF ListsInv
<1> QED
  BY <1>2, <1>3

LEMMA ListsNext == ListsInv /\ [ChecklistNext]_checklistVars => ListsInv'
<1> SUFFICES ASSUME ListsInv, [ChecklistNext]_checklistVars PROVE ListsInv'
  OBVIOUS
<1> QED
  BY AskKeeps, LockKeeps, InsertKeeps, WriteKeeps, ReadSiblingsKeeps, AnnounceKeeps, AroundKeeps
     DEF ChecklistNext

-----------------------------------------------------------------------------
(* Checklists: the theorems *)

(***************************************************************************)
(* Whatever appends, edits, moves and deletions meet, an append holds its   *)
(* parent from before it reads the end of the list until it has inserted:   *)
(* rows that were appended and never moved share no position, in a          *)
(* checklist or among the checklists of the task.                           *)
(***************************************************************************)
THEOREM AppendsStayDistinct == ChecklistSpec => []AppendsDistinct
<1>1. ListsInv => AppendsDistinct
  BY DEF ListsInv
<1> QED
  BY <1>1, ListsInit, ListsNext, PTL DEF ChecklistSpec

(***************************************************************************)
(* However many requests there are and however their commits and events     *)
(* interleave, a watcher who has answered the events there were, while no   *)
(* request is under way, shows the rows of the database.                    *)
(***************************************************************************)
THEOREM WatchersSeeEveryChange == ChecklistSpec => []WatchersCatchUp
<1>1. ListsInv => WatchersCatchUp
  BY DEF ListsInv, Unannounced, WatchersCatchUp, NoChange
<1> QED
  BY <1>1, ListsInit, ListsNext, PTL DEF ChecklistSpec

(***************************************************************************)
(* A move whose list is still as it read it puts its row where it was asked *)
(* to: behind the row it named and what is ahead of that one, in front of   *)
(* all the others.                                                          *)
(***************************************************************************)
LEMMA PlacedBehind ==
    ASSUME ListsInv, NEW k \in Writers, PlaceRow(k), ~Refuse(k),
           change[k].list = PositionsIn(change[k].of),
           change[k].after # NoRow =>
               \A r \in DOMAIN change[k].list \ {change[k].id, change[k].after} :
                   change[k].list[r] - change[k].list[change[k].after] \notin {0, 1}
    PROVE  LET c == change[k]
               others == {r \in DOMAIN c.list : r # c.id}
               front == {r \in others : c.after # NoRow /\ c.list[r] =< c.list[c.after]}
           IN  /\ \A r \in front : row'[r].pos < row'[c.id].pos
               /\ \A r \in others \ front : row'[c.id].pos < row'[r].pos
<1> DEFINE c == change[k]
           others == {r \in DOMAIN c.list : r # c.id}
           front == {r \in others : c.after # NoRow /\ c.list[r] =< c.list[c.after]}
           rest == Others(c)
           Lands == /\ \A r \in front : row'[r].pos < row'[c.id].pos
                    /\ \A r \in others \ front : row'[c.id].pos < row'[r].pos
<1>1. PICK next \in Behind(c) :
        row' = [row EXCEPT ![c.id].pos = Midpoint(rest, c.after, next)]
  BY DEF PlaceRow
<1>2. /\ c.at = "place" /\ c.id \in DOMAIN row
      /\ c.after # c.id /\ c.after \in DOMAIN c.list \cup {NoRow}
  BY DEF PlaceRow, ListsInv, Relied
<1>3. /\ IsList(rest) /\ DOMAIN rest = others
      /\ \A r \in others : rest[r] = c.list[r] /\ rest[r] \in Int
  BY ListsRead DEF IsList
<1>4. /\ row'[c.id].pos = Midpoint(rest, c.after, next)
      /\ \A r \in others : row'[r].pos = rest[r]
  <2>1. \A r \in others : r \in DOMAIN row /\ row[r].pos = rest[r]
    BY <1>3 DEF PositionsIn, Listed
  <2>2. \A r \in DOMAIN row : r # c.id => row'[r] = row[r]
    BY <1>1
  <2>3. row'[c.id].pos = Midpoint(rest, c.after, next)
    BY <1>1, <1>2 DEF ListsInv, ListsTyped, RowRecords
  <2> QED
    BY <2>1, <2>2, <2>3
<1>5. c.after # NoRow => c.after \in others
  BY <1>2
<1>6. NoRow \notin others
  BY <1>3 DEF IsList
<1> HIDE DEF rest, others
<1>7. ASSUME c.after = NoRow PROVE Lands
  <2>1. next = FirstOf(rest, others) /\ front = {}
    <3>1. Behind(c) = {FirstOf(rest, DOMAIN rest)}
      BY <1>7 DEF Behind, rest
    <3> QED
      BY <1>1, <1>3, <1>7, <3>1
  <2>2. CASE others = {}
    BY <2>1, <2>2
  <2>3. CASE others # {}
    <3>1. next \in others /\ \A r \in others : ~Before(rest, r, next)
      BY <1>3, <2>1, <2>3, EndsExist
    <3>2. \A r \in others : rest[next] =< rest[r]
      BY <1>3, <3>1 DEF Before
    <3>3. Midpoint(rest, c.after, next) = rest[next] - Gap
      BY <1>6, <1>7, <3>1 DEF Midpoint
    <3>4. \A r \in others : rest[next] - Gap < rest[r]
      BY <1>3, <3>1, <3>2, GapAssumption
    <3> HIDE DEF front
    <3> QED
      BY <1>4, <2>1, <3>3, <3>4
  <2> QED
    BY <2>2, <2>3
<1>8. ASSUME c.after # NoRow PROVE Lands
  <2> DEFINE later == {r \in others : rest[r] > rest[c.after]}
  <2>1. \A r \in others \ {c.after} : rest[r] - rest[c.after] \notin {0, 1}
    BY <1>3, <1>5, <1>8 DEF others
  <2>2. next = FirstOf(rest, later)
    <3>1. {r \in others \ {c.after} : rest[r] = rest[c.after]} = {}
      BY <1>3, <1>5, <1>8, <2>1
    <3> QED
      BY <1>1, <1>3, <1>8, <3>1 DEF Behind, rest
  <2>3. /\ front = {r \in others : rest[r] =< rest[c.after]} /\ others \ front = later
    BY <1>3, <1>5, <1>8
  <2>4. rest[c.after] \in Int
    BY <1>3, <1>5, <1>8
  <2>5. CASE later = {}
    <3>1. Midpoint(rest, c.after, next) = rest[c.after] + Gap
      BY <1>8, <2>2, <2>5 DEF FirstOf, Midpoint
    <3>2. \A r \in others : rest[r] =< rest[c.after] => rest[r] < rest[c.after] + Gap
      BY <1>3, <2>4, GapAssumption
    <3> HIDE DEF front, later
    <3> QED
      BY <1>4, <2>3, <2>5, <3>1, <3>2
  <2>6. CASE later # {}
    <3>1. next \in later /\ \A r \in later : ~Before(rest, r, next)
      <4>1. later \in SUBSET (DOMAIN rest)
        BY <1>3
      <4> HIDE DEF later
      <4> QED
        BY <1>3, <2>2, <2>6, <4>1, EndsExist
    <3>2. next # NoRow /\ rest[next] \in Int /\ rest[next] >= rest[c.after] + 2
      BY <1>3, <1>6, <2>1, <2>4, <3>1
    <3>3. \A r \in later : rest[next] =< rest[r]
      BY <1>3, <3>1 DEF Before
    <3>4. Midpoint(rest, c.after, next) = (rest[c.after] + rest[next]) \div 2
      BY <1>8, <3>2 DEF Midpoint
    <3>5. /\ rest[c.after] < (rest[c.after] + rest[next]) \div 2
          /\ (rest[c.after] + rest[next]) \div 2 < rest[next]
          /\ (rest[c.after] + rest[next]) \div 2 \in Int
      BY <2>4, <3>2
    <3> DEFINE mid == (rest[c.after] + rest[next]) \div 2
    <3> HIDE DEF mid
    <3>6. \A r \in others : rest[r] =< rest[c.after] => rest[r] < mid
      BY <1>3, <2>4, <3>5 DEF mid
    <3>7. \A r \in later : mid < rest[r] /\ r \in others
      BY <1>3, <3>2, <3>3, <3>5 DEF mid
    <3> HIDE DEF front, later
    <3> QED
      BY <1>4, <2>3, <3>4, <3>6, <3>7 DEF mid
  <2> QED
    BY <2>5, <2>6
<1> QED
  BY <1>7, <1>8 DEF others

(***************************************************************************)
(* A row is moved in two statements without a lock; if the list is then as  *)
(* it was read, and nothing ties or leaves no gap behind the row named, it  *)
(* comes to stand right behind that row, or first when none was named.      *)
(***************************************************************************)
THEOREM MovesLand == ChecklistSpec => MovesLandBehind
<1>1. ASSUME ListsInv, [ChecklistNext]_checklistVars, NEW k \in Writers,
             change[k].at = "place", change'[k].at = "announce"
      PROVE  PlaceRow(k) /\ ~Refuse(k)
  <2>1. PICK m \in Writers :
            \/ AddRow(m) \/ LockParent(m) \/ ReadLast(m) \/ InsertRow(m)
            \/ EditRow(m) \/ WriteEdit(m) \/ RemoveRow(m) \/ DeleteRow(m)
            \/ MoveRow(m) \/ ReadSiblings(m) \/ PlaceRow(m) \/ Announce(m)
    BY <1>1 DEF ChecklistNext, Refetch, DeleteTask, checklistVars
  <2>2. \E e : change' = [change EXCEPT ![m] = e]
    <3>1. AddRow(m) \/ EditRow(m) \/ RemoveRow(m) \/ MoveRow(m)
          => \E e : change' = [change EXCEPT ![m] = e]
      BY Zenon DEF AddRow, EditRow, RemoveRow, MoveRow, Ask
    <3>2. LockParent(m) \/ ReadLast(m) \/ InsertRow(m) => \E e : change' = [change EXCEPT ![m] = e]
      BY DEF LockParent, ReadLast, InsertRow, Refuse, Committed, Advance
    <3>3. WriteEdit(m) \/ DeleteRow(m) => \E e : change' = [change EXCEPT ![m] = e]
      BY DEF WriteEdit, DeleteRow, Refuse, Committed, Advance
    <3>4. ReadSiblings(m) \/ PlaceRow(m) \/ Announce(m) => \E e : change' = [change EXCEPT ![m] = e]
      BY DEF ReadSiblings, PlaceRow, Announce, Refuse, Committed, Advance
    <3> QED
      BY <2>1, <3>1, <3>2, <3>3, <3>4, Zenon
  <2>3. m = k
    BY <1>1, <2>2 DEF ListsInv, ListsTyped
  <2>4. PlaceRow(k)
    <3>1. ~(AddRow(k) \/ EditRow(k) \/ RemoveRow(k) \/ MoveRow(k))
      <4>1. NoChange.at = "idle"
        BY DEF NoChange
      <4>2. \A op, r, p, after, step : ~Ask(k, op, r, p, after, step)
        BY <1>1, <4>1 DEF Ask
      <4> QED
        BY <4>2 DEF AddRow, EditRow, RemoveRow, MoveRow
    <3>2. ~(LockParent(k) \/ ReadLast(k) \/ InsertRow(k))
      BY <1>1 DEF LockParent, ReadLast, InsertRow
    <3>3. ~(WriteEdit(k) \/ DeleteRow(k))
      BY <1>1 DEF WriteEdit, DeleteRow
    <3>4. ~(ReadSiblings(k) \/ Announce(k))
      BY <1>1 DEF ReadSiblings, Announce
    <3> QED
      BY <2>1, <2>3, <3>1, <3>2, <3>3, <3>4
  <2>5. ~Refuse(k)
    BY <1>1 DEF Refuse, Advance, NoChange, ListsInv, ListsTyped
  <2> QED
    BY <2>4, <2>5
<1>2. ListsInv /\ [ChecklistNext]_checklistVars =>
        [\A k \in Writers :
         LET c == change[k]
             others == {r \in DOMAIN c.list : r # c.id}
             front == {r \in others : c.after # NoRow /\ c.list[r] =< c.list[c.after]}
         IN  /\ c.at = "place" /\ change'[k].at = "announce"
             /\ c.list = PositionsIn(c.of)
             /\ c.after # NoRow =>
                   \A r \in others \ {c.after} : c.list[r] - c.list[c.after] \notin {0, 1}
             => /\ \A r \in front : row'[r].pos < row'[c.id].pos
                /\ \A r \in others \ front : row'[c.id].pos < row'[r].pos]_checklistVars
  BY <1>1, PlacedBehind
<1> QED
  BY <1>2, ListsInit, ListsNext, PTL DEF ChecklistSpec, MovesLandBehind

-----------------------------------------------------------------------------
(* What hangs on a task: the inductive invariant *)

NoteRecords == [id : NoteIds, user : People, type : {"assignment", "mention"}, read : BOOLEAN]
Subjects == People \cup Labels \cup [id : NoteIds, by : People] \cup NoteRecords \cup {"none"}
LabelErrands == {"wear", "strip", "create label", "update label", "delete label"}

ErrandRecords ==
    [op : LabelErrands \cup {"none", "assign", "unassign", "comment", "uncomment", "read", "read all"},
     by : People \cup {"none"}, on : Subjects, tell : SUBSET People,
     at : {"idle", "find", "write", "record", "signal", "announce"}]

LinksTyped ==
    /\ LinkTypeOK
    /\ errand \in [Agents -> ErrandRecords]
    /\ IsFiniteSet(notes)
    /\ \A k \in Agents : /\ errand[k].op # "none" => errand[k].by \in People
                         /\ errand[k].op = "assign" => errand[k].on \in People

\* A user whose count is not what the database has is told, or about to be.
CountsOwed ==
    task => \A u \in People :
        \/ badge[u] = Unread(u)
        \/ u \in signals \cup erased
        \/ \E k \in Agents : errand[k].at = "signal" /\ u \in errand[k].tell

\* A notification is one user's, and the one that is marked read is the reader's.
NotesOwned ==
    /\ \A n, o \in notes : n.id = o.id => n.user = o.user
    /\ \A k \in Agents, n \in notes :
          errand[k].op = "read" /\ n.id = errand[k].on.id => n.user = errand[k].by

\* What the assignments and the erasures say the activity has recorded of a user.
Assigned(u) == (IF u \in assigned THEN 1 ELSE 0) + (IF u \in struck THEN 1 ELSE 0)

\* The notifications of a step: those there were, and new ones that no request is about.
NotesFollow ==
    \A o \in notes' : \/ \E n \in notes : n.id = o.id /\ n.user = o.user
                      \/ \A k \in Agents : errand[k].op = "read" => errand[k].on.id # o.id

Deleted == {l \in Labels : <<"label deleted", l>> \in DOMAIN feed \cup DOMAIN forgotten}

\* A label on its way is new: nobody has seen it, and no other request is about it.
LabelsFresh ==
    /\ watched.labels \subseteq labels \cup Deleted
    /\ \A k \in Agents : Reached(k, "create label", "write") =>
          /\ errand[k].on \in Labels \ (labels \cup watched.labels \cup Deleted)
          /\ \A m \in Agents :
                errand[m].op \in LabelErrands /\ errand[m].on = errand[k].on => m = k

\* What a watcher does not show is announced, or about to be.
LinksOwed ==
    task => \/ event
            \/ \E k \in Agents : errand[k].at = "announce" \/ Reached(k, "assign", "signal")
            \/ /\ watched.people \ struck = assigned \ struck
               /\ watched.labels \cap labels = worn

LinksInv ==
    /\ LinksTyped
    /\ CountsOwed
    /\ NotesOwned
    /\ LabelsFresh
    /\ LinksOwed
    /\ FeedMatchesRows

-----------------------------------------------------------------------------
(* What hangs on a task: the feed and the notifications *)

\* A bag has a row a number of times.
LEMMA TimesAreNat ==
    ASSUME LinksInv PROVE \A r : Copies(r, feed) \in Nat /\ Copies(r, forgotten) \in Nat
<1>1. IsABag(feed) /\ IsABag(forgotten)
  BY DEF LinksInv, LinksTyped, LinkTypeOK
<1>2. ASSUME NEW B, IsABag(B), NEW r PROVE Copies(r, B) \in Nat
  BY <1>2 DEF IsABag, Copies, BagIn, BagToSet
<1> QED
  BY <1>1, <1>2

\* One more row of the feed is one more copy of what it records.
LEMMA FeedGrows ==
    ASSUME LinksInv, NEW type, NEW what, feed' = Recorded(type, what)
    PROVE  /\ IsABag(feed')
           /\ DOMAIN feed' = DOMAIN feed \cup {<<type, what>>}
           /\ \A r : /\ r = <<type, what>> => Copies(r, feed') = Copies(r, feed) + 1
                     /\ r # <<type, what>> => Copies(r, feed') = Copies(r, feed)
<1> DEFINE new == <<type, what>>
<1>1. feed \in [DOMAIN feed -> {n \in Nat : n > 0}]
  BY DEF LinksInv, LinksTyped, LinkTypeOK, IsABag
<1>2. feed' = [t \in DOMAIN feed \cup {new} |->
                  (IF t \in DOMAIN feed THEN feed[t] ELSE 0) + (IF t \in {new} THEN 1 ELSE 0)]
  <2>1. DOMAIN SetToBag({new}) = {new} /\ SetToBag({new})[new] = 1
    BY DEF SetToBag
  <2>2. \A t \in {new} : SetToBag({new})[t] = 1
    BY <2>1
  <2> HIDE DEF new
  <2> QED
    BY <2>1, <2>2 DEF Recorded, (+), new
<1>3. feed' \in [DOMAIN feed \cup {new} -> {n \in Nat : n > 0}]
  BY <1>1, <1>2
<1>4. \A r : Copies(r, feed) \in Nat
  BY <1>1 DEF Copies, BagIn, BagToSet
<1>5. \A r : /\ r = new => Copies(r, feed') = Copies(r, feed) + 1
             /\ r # new => Copies(r, feed') = Copies(r, feed)
  BY <1>1, <1>2 DEF Copies, BagIn, BagToSet
<1> HIDE DEF new
<1> QED
  BY <1>2, <1>3, <1>5 DEF IsABag, new

\* What a new row of the feed adds to what was recorded.
LEMMA RecordAdds ==
    ASSUME LinksInv, NEW type, NEW what, feed' = Recorded(type, what), forgotten' = forgotten
    PROVE  /\ TimesRecorded(type, what) \in Nat
           /\ TimesRecorded(type, what)' = TimesRecorded(type, what) + 1
<1> DEFINE r == <<type, what>>
           i == Copies(r, feed)
           j == Copies(r, forgotten)
           m == Copies(r, feed')
<1>1. i \in Nat /\ j \in Nat /\ m = i + 1
  BY FeedGrows, TimesAreNat
<1>2. TimesRecorded(type, what) = i + j
  BY DEF TimesRecorded
<1>3. TimesRecorded(type, what)' = m + j
  BY DEF TimesRecorded
<1> HIDE DEF i, j, m
<1>4. i + j \in Nat /\ m + j = (i + j) + 1
  BY <1>1
<1> QED
  BY <1>2, <1>3, <1>4

\* What the others were recorded stays.
LEMMA RecordLeaves ==
    ASSUME LinksInv, NEW type, NEW what, feed' = Recorded(type, what), forgotten' = forgotten,
           NEW t, NEW w, t # type \/ w # what
    PROVE  TimesRecorded(t, w)' = TimesRecorded(t, w)
<1>1. <<t, w>> # <<type, what>>
  OBVIOUS
<1>2. Copies(<<t, w>>, feed') = Copies(<<t, w>>, feed)
  BY <1>1, FeedGrows
<1> QED
  BY <1>2 DEF TimesRecorded

LEMMA TimesNat == ASSUME LinksInv, NEW t, NEW w PROVE TimesRecorded(t, w) \in Nat
<1> DEFINE i == Copies(<<t, w>>, feed)
           j == Copies(<<t, w>>, forgotten)
<1>1. i \in Nat /\ j \in Nat
  BY TimesAreNat
<1> HIDE DEF i, j
<1>2. i + j \in Nat
  BY <1>1
<1> QED
  BY <1>2 DEF TimesRecorded, i, j

\* The notifications of one transaction: one for each user told, with ids of their own.
LEMMA NotesMade ==
    ASSUME LinksInv, NEW S \in SUBSET People, NEW type \in {"assignment", "mention"},
           NEW ids \in IdsFor(S)
    PROVE  /\ NotesFor(ids, type) \subseteq NoteRecords
           /\ IsFiniteSet(NotesFor(ids, type))
           /\ \A n \in NotesFor(ids, type) : /\ n.user \in S
                                             /\ \A o \in notes \cup Named : o.id # n.id
           /\ \A n, o \in NotesFor(ids, type) : n.id = o.id => n.user = o.user
<1> DEFINE note(u) == [id |-> ids[u], user |-> u, type |-> type, read |-> FALSE]
           made == [u \in S |-> note(u)]
<1>1. /\ ids \in [S -> NextIds(Cardinality(S))]
      /\ \A u, v \in S : u # v => ids[u] # ids[v]
  BY DEF IdsFor
<1>2. \A i \in NextIds(Cardinality(S)) : i \in NoteIds /\ \A o \in notes \cup Named : o.id # i
  BY DEF NextIds
<1>3. DOMAIN ids = S /\ NotesFor(ids, type) = {note(u) : u \in S}
  BY <1>1 DEF NotesFor
<1>4. \A u \in S : note(u) \in NoteRecords /\ note(u).user = u /\ note(u).id = ids[u]
  BY <1>1, <1>2 DEF NoteRecords
<1> HIDE DEF note
<1>5. IsFiniteSet(NotesFor(ids, type))
  <2>1. made \in Surjection(S, NotesFor(ids, type))
    BY <1>3 DEF Surjection
  <2>2. IsFiniteSet(S)
    BY LinksAssumption, FS_Subset
  <2> HIDE DEF made
  <2> QED
    BY <2>1, <2>2, FS_Surjection
<1> QED
  BY <1>1, <1>2, <1>3, <1>4, <1>5

\* Notifications that are marked read stay the notifications they were.
LEMMA NotesRead ==
    ASSUME LinksInv, NEW S \in SUBSET notes
    PROVE  /\ ReadNotes(S) \subseteq NoteRecords
           /\ IsFiniteSet(ReadNotes(S))
           /\ \A n \in notes : \E o \in ReadNotes(S) : o.id = n.id /\ o.user = n.user
           /\ \A o \in ReadNotes(S) : \E n \in notes : o.id = n.id /\ o.user = n.user
           /\ \A u : (\A n \in S : n.user # u) =>
                 {n \in ReadNotes(S) : n.user = u /\ ~n.read} = {n \in notes : n.user = u /\ ~n.read}
           /\ \A u : (\A n \in notes : n.user = u => n \in S) =>
                 {n \in ReadNotes(S) : n.user = u /\ ~n.read} = {}
<1> DEFINE seen(n) == [n EXCEPT !.read = TRUE]
           made == [n \in S |-> seen(n)]
<1>1. notes \subseteq NoteRecords /\ IsFiniteSet(notes)
  BY DEF LinksInv, LinksTyped, LinkTypeOK, NoteRecords
<1>2. \A n \in NoteRecords : /\ seen(n) \in NoteRecords /\ seen(n).id = n.id
                             /\ seen(n).user = n.user /\ seen(n).read = TRUE
  BY DEF NoteRecords
<1>3. ReadNotes(S) = (notes \ S) \cup {seen(n) : n \in S}
  BY DEF ReadNotes
<1> HIDE DEF seen
<1>4. IsFiniteSet(ReadNotes(S))
  <2>1. made \in Surjection(S, {seen(n) : n \in S})
    BY DEF Surjection
  <2>2. IsFiniteSet(S) /\ IsFiniteSet(notes \ S)
    BY <1>1, FS_Subset
  <2>3. IsFiniteSet({seen(n) : n \in S})
    <3> HIDE DEF made
    <3> QED
      BY <2>1, <2>2, FS_Surjection
  <2> QED
    BY <1>3, <2>2, <2>3, FS_Union
<1>5. \A o \in ReadNotes(S) : \/ o \in notes /\ o \notin S
                              \/ \E n \in S : o = seen(n)
  BY <1>3
<1>6. \A n \in notes \ S : n \in ReadNotes(S)
  BY <1>3
<1>7. \A n \in S : seen(n) \in ReadNotes(S)
  BY <1>3
<1>8. ReadNotes(S) \subseteq NoteRecords
  BY <1>1, <1>2, <1>5
<1>9. \A n \in notes : \E o \in ReadNotes(S) : o.id = n.id /\ o.user = n.user
  BY <1>1, <1>2, <1>6, <1>7
<1>10. \A o \in ReadNotes(S) : \E n \in notes : o.id = n.id /\ o.user = n.user
  BY <1>1, <1>2, <1>5
<1>11. ASSUME NEW u, \A n \in S : n.user # u
       PROVE  {n \in ReadNotes(S) : n.user = u /\ ~n.read} = {n \in notes : n.user = u /\ ~n.read}
  BY <1>1, <1>2, <1>5, <1>6, <1>11
<1>12. ASSUME NEW u, \A n \in notes : n.user = u => n \in S
       PROVE  {n \in ReadNotes(S) : n.user = u /\ ~n.read} = {}
  BY <1>1, <1>2, <1>5, <1>12
<1> QED
  BY <1>4, <1>8, <1>9, <1>10, <1>11, <1>12

LEMMA UnreadIsNat == ASSUME LinksInv, NEW u PROVE Unread(u) \in Nat
<1> DEFINE S == {n \in notes : n.user = u /\ ~n.read}
<1>1. S \in SUBSET notes /\ IsFiniteSet(notes)
  BY DEF LinksInv, LinksTyped
<1> HIDE DEF S
<1>2. Cardinality(S) \in Nat
  BY <1>1, FS_Subset, FS_CardinalityType
<1> QED
  BY <1>2 DEF Unread, S

LEMMA LinksInit == LinkInit => LinksInv
<1> SUFFICES ASSUME LinkInit PROVE LinksInv
  OBVIOUS
<1>1. NoErrand \in ErrandRecords /\ NoErrand.op = "none" /\ NoErrand.at = "idle"
  BY DEF NoErrand, ErrandRecords, Subjects
<1>2. \A k \in Agents : errand[k] = NoErrand
  BY DEF LinkInit
<1>3. IsABag(feed) /\ DOMAIN feed = {} /\ IsABag(forgotten) /\ DOMAIN forgotten = {}
  BY DEF LinkInit, EmptyBag, SetToBag, IsABag
<1>4. labels \subseteq Labels
  BY DEF LinkInit
<1>5. LinksTyped
  <2>1. IsFiniteSet(notes)
    BY FS_EmptySet DEF LinkInit
  <2>2. badge \in [People -> Nat]
    BY DEF LinkInit
  <2>3. errand \in [Agents -> ErrandRecords]
    BY <1>1 DEF LinkInit
  <2>4. 0 \in 0..MaxLinkOps
    BY LinksAssumption
  <2>5. LinkTypeOK
    BY <1>1, <1>2, <1>3, <1>4, <2>2, <2>4 DEF LinkInit, LinkTypeOK
  <2> QED
    BY <1>1, <1>2, <2>1, <2>3, <2>5 DEF LinksTyped
<1>6. CountsOwed
  <2>1. \A u : {n \in notes : n.user = u /\ ~n.read} = {}
    BY DEF LinkInit
  <2>2. \A u : Unread(u) = 0
    BY <2>1, FS_EmptySet DEF Unread
  <2> QED
    BY <2>2 DEF CountsOwed, LinkInit
<1>7. NotesOwned /\ LabelsFresh
  <2>1. \A k \in Agents : errand[k].op = "none"
    BY <1>1, <1>2
  <2>2. NotesOwned
    BY <2>1 DEF NotesOwned, LinkInit
  <2>3. watched.labels = {}
    BY DEF LinkInit
  <2> QED
    BY <2>1, <2>2, <2>3 DEF LabelsFresh, Reached
<1>8. LinksOwed
  <2>1. watched.people = {} /\ assigned = {} /\ watched.labels \cap labels = worn
    BY DEF LinkInit
  <2> QED
    BY <2>1 DEF LinksOwed
<1>9. FeedMatchesRows
  <2>1. \A t, w : TimesRecorded(t, w) = 0
    BY <1>3 DEF TimesRecorded, Copies, BagIn, BagToSet
  <2>2. AssignmentsMatchFeed
    <3>1. \A u : u \notin assigned /\ u \notin struck
      BY DEF LinkInit
    <3> QED
      BY <2>1, <3>1 DEF AssignmentsMatchFeed
  <2>3. LabelDeletionsAuditedOnce
    <3>1. \A l \in Labels : 0 =< (IF l \in labels THEN 0 ELSE 1)
      OBVIOUS
    <3>2. \A l \in Labels : TimesRecorded("label deleted", l) = 0
      BY <2>1
    <3> QED
      BY <3>1, <3>2 DEF LabelDeletionsAuditedOnce
  <2> QED
    BY <2>2, <2>3 DEF FeedMatchesRows
<1> QED
  BY <1>5, <1>6, <1>7, <1>8, <1>9 DEF LinksInv

-----------------------------------------------------------------------------
(* What hangs on a task: how one request's step bears on each part of the invariant *)

\* A request takes a step to `e': it is over, or it goes on for whom and about what it was.
GoesOn(k, e) ==
    /\ e \in ErrandRecords
    /\ e.op = "none" \/ (e.op = errand[k].op /\ e.by = errand[k].by /\ e.on = errand[k].on)
    /\ errand' = [errand EXCEPT ![k] = e]

\* A step of one request leaves the others where they are.
LEMMA ErrandMoves ==
    ASSUME LinksInv, NEW k \in Agents, NEW e \in ErrandRecords,
           errand' = [errand EXCEPT ![k] = e]
    PROVE  /\ errand' \in [Agents -> ErrandRecords]
           /\ errand'[k] = e
           /\ \A m \in Agents : m # k => errand'[m] = errand[m]
  BY DEF LinksInv, LinksTyped

\* The request that is over, as a record.
LEMMA NoErrandTyped ==
    /\ NoErrand \in ErrandRecords
    /\ NoErrand.op = "none" /\ NoErrand.by = "none" /\ NoErrand.on = "none"
    /\ NoErrand.tell = {} /\ NoErrand.at = "idle"
  BY DEF NoErrand, ErrandRecords, Subjects

\* What a request's record says once it is over, or further on.
LEMMA StepsGoOn ==
    ASSUME LinksInv, NEW k \in Agents
    PROVE  /\ errand' = [errand EXCEPT ![k] = NoErrand] => GoesOn(k, NoErrand)
           /\ \A at \in {"find", "write", "record", "signal", "announce"}, tell \in SUBSET People :
                 LET e == [errand[k] EXCEPT !.at = at, !.tell = tell]
                 IN  /\ e.op = errand[k].op /\ e.by = errand[k].by /\ e.on = errand[k].on
                     /\ e.tell = tell /\ e.at = at
                     /\ errand' = [errand EXCEPT ![k] = e] => GoesOn(k, e)
<1>1. errand[k] \in ErrandRecords
  BY DEF LinksInv, LinksTyped
<1>2. errand' = [errand EXCEPT ![k] = NoErrand] => GoesOn(k, NoErrand)
  BY NoErrandTyped DEF GoesOn
<1>3. ASSUME NEW at \in {"find", "write", "record", "signal", "announce"},
             NEW tell \in SUBSET People
      PROVE  LET e == [errand[k] EXCEPT !.at = at, !.tell = tell]
             IN  /\ e.op = errand[k].op /\ e.by = errand[k].by /\ e.on = errand[k].on
                 /\ e.tell = tell /\ e.at = at
                 /\ errand' = [errand EXCEPT ![k] = e] => GoesOn(k, e)
  <2> DEFINE e == [errand[k] EXCEPT !.at = at, !.tell = tell]
  <2>1. e \in ErrandRecords
    BY <1>1 DEF ErrandRecords
  <2>2. /\ e.op = errand[k].op /\ e.by = errand[k].by /\ e.on = errand[k].on
        /\ e.tell = tell /\ e.at = at
    BY <1>1 DEF ErrandRecords
  <2> HIDE DEF e
  <2>3. errand' = [errand EXCEPT ![k] = e] => GoesOn(k, e)
    BY <2>1, <2>2 DEF GoesOn
  <2> QED
    BY <2>2, <2>3 DEF e
<1> QED
  BY <1>2, <1>3

\* What a request is at, with another step or other people to tell.
LEMMA ErrandOf == ASSUME LinksInv, NEW k \in Agents PROVE errand[k] \in ErrandRecords
  BY DEF LinksInv, LinksTyped

\* A request that goes on with `step', for `tell'.
LEMMA ProceedGoesOn ==
    ASSUME LinksInv, NEW k \in Agents, NEW tell \in SUBSET People,
           NEW step \in {"find", "write", "record", "signal", "announce"},
           Proceed(k, step, tell)
    PROVE  /\ \E e \in ErrandRecords :
                 /\ GoesOn(k, e) /\ errand' = [errand EXCEPT ![k] = e]
                 /\ e.op = errand[k].op /\ e.tell = tell /\ e.at = step
           /\ UNCHANGED <<browsers, past, linksBegun>>
<1> DEFINE e == [errand[k] EXCEPT !.at = step, !.tell = tell]
<1>1. errand' = [errand EXCEPT ![k] = e] /\ UNCHANGED <<browsers, past, linksBegun>>
  BY DEF Proceed, GoTo
<1>2. e \in ErrandRecords
  BY ErrandOf DEF ErrandRecords
<1>3. e.op = errand[k].op /\ e.by = errand[k].by /\ e.on = errand[k].on /\ e.tell = tell /\ e.at = step
  BY ErrandOf DEF ErrandRecords
<1> HIDE DEF e
<1>4. GoesOn(k, e)
  BY <1>1, <1>2, <1>3 DEF GoesOn
<1> QED
  BY <1>1, <1>2, <1>3, <1>4

\* The types, while requests go on.
LEMMA ErrandsTyped ==
    ASSUME LinksInv, NEW k \in Agents, NEW e, GoesOn(k, e)
    PROVE  /\ errand' \in [Agents -> ErrandRecords]
           /\ \A m \in Agents :
                 /\ errand'[m].at \in {"idle", "find", "write", "record", "signal", "announce"}
                 /\ errand'[m].op # "none" => errand'[m].by \in People
                 /\ errand'[m].op = "assign" => errand'[m].on \in People
<1>1. /\ errand' \in [Agents -> ErrandRecords]
      /\ errand'[k] = e
      /\ \A m \in Agents : m # k => errand'[m] = errand[m]
  BY ErrandMoves DEF GoesOn
<1>2. \A m \in Agents : /\ errand[m].op # "none" => errand[m].by \in People
                        /\ errand[m].op = "assign" => errand[m].on \in People
  BY DEF LinksInv, LinksTyped
<1>3. \A m \in Agents : errand'[m].at \in {"idle", "find", "write", "record", "signal", "announce"}
  BY <1>1 DEF ErrandRecords
<1> QED
  BY <1>1, <1>2, <1>3 DEF GoesOn

\* Nobody's count goes wrong unseen: those whose notifications change are about to be signalled.
LEMMA CountsKeep ==
    ASSUME LinksInv, NEW k \in Agents, NEW e \in ErrandRecords,
           errand' = [errand EXCEPT ![k] = e],
           task' => task, badge' = badge, signals \subseteq signals', erased \subseteq erased',
           errand[k].at = "signal" => errand[k].tell \subseteq signals',
           task' => \A u \in People : \/ Unread(u)' = Unread(u)
                                      \/ e.at = "signal" /\ u \in e.tell
    PROVE  CountsOwed'
<1> SUFFICES ASSUME task', NEW u \in People
             PROVE  \/ badge'[u] = Unread(u)'
                    \/ u \in signals' \cup erased'
                    \/ \E m \in Agents : errand'[m].at = "signal" /\ u \in errand'[m].tell
  BY DEF CountsOwed
<1>1. /\ errand'[k] = e
      /\ \A m \in Agents : m # k => errand'[m] = errand[m]
  BY ErrandMoves
<1>2. CASE badge[u] = Unread(u)
  BY <1>1, <1>2
<1>3. CASE u \in signals \cup erased
  BY <1>3
<1>4. CASE \E m \in Agents : errand[m].at = "signal" /\ u \in errand[m].tell
  BY <1>1, <1>4
<1> QED
  BY <1>2, <1>3, <1>4 DEF LinksInv, CountsOwed

\* Notifications keep their owners, and a request its notification.
LEMMA OwnersKeep ==
    ASSUME LinksInv, NEW k \in Agents, NEW e, GoesOn(k, e), task' => task,
           \A n, o \in notes' : n.id = o.id => n.user = o.user,
           NotesFollow
    PROVE  NotesOwned'
<1>1. /\ errand'[k] = e
      /\ \A m \in Agents : m # k => errand'[m] = errand[m]
  BY ErrandMoves DEF GoesOn
<1>2. ASSUME NEW m \in Agents, errand'[m].op = "read", NEW o \in notes', o.id = errand'[m].on.id
      PROVE  o.user = errand'[m].by
  <2>1. errand[m].op = "read" /\ errand[m].on = errand'[m].on /\ errand[m].by = errand'[m].by
    BY <1>1, <1>2 DEF GoesOn
  <2>2. PICK n \in notes : n.id = o.id /\ n.user = o.user
    BY <1>2, <2>1 DEF NotesFollow
  <2>3. n.user = errand[m].by
    BY <1>2, <2>1, <2>2 DEF LinksInv, NotesOwned
  <2> QED
    BY <2>1, <2>2, <2>3
<1> QED
  BY <1>2 DEF NotesOwned

\* A label on its way stays new: only its own request adds it, and none deletes what is not there.
LEMMA FreshKeep ==
    ASSUME LinksInv, NEW k \in Agents, NEW e, GoesOn(k, e),
           Reached(k, "create label", "write") => e.at # "write",
           e.op = "create label" => e.at # "write",
           watched'.labels \subseteq watched.labels \cup labels,
           labels' \subseteq labels \cup
               {l \in Labels : Reached(k, "create label", "write") /\ l = errand[k].on},
           Deleted' \subseteq Deleted \cup labels,
           labels \cup Deleted \subseteq labels' \cup Deleted'
    PROVE  LabelsFresh'
<1>1. /\ errand'[k] = e
      /\ \A m \in Agents : m # k => errand'[m] = errand[m]
  BY ErrandMoves DEF GoesOn
<1>2. watched'.labels \subseteq labels' \cup Deleted'
  BY DEF LinksInv, LabelsFresh
<1>3. ASSUME NEW m \in Agents, Reached(m, "create label", "write")'
      PROVE  /\ errand'[m].on \in Labels \ (labels' \cup watched'.labels \cup Deleted')
             /\ \A o \in Agents :
                   errand'[o].op \in LabelErrands /\ errand'[o].on = errand'[m].on => o = m
  <2>1. m # k
    BY <1>1, <1>3 DEF Reached
  <2>2. errand'[m] = errand[m] /\ Reached(m, "create label", "write")
    BY <1>1, <1>3, <2>1 DEF Reached
  <2>3. /\ errand[m].on \in Labels \ (labels \cup watched.labels \cup Deleted)
        /\ \A o \in Agents :
              errand[o].op \in LabelErrands /\ errand[o].on = errand[m].on => o = m
    BY <2>2 DEF LinksInv, LabelsFresh
  <2>4. Reached(k, "create label", "write") => errand[k].on # errand[m].on
    BY <2>1, <2>3 DEF Reached, LabelErrands
  <2>5. errand'[m].on \in Labels \ (labels' \cup watched'.labels \cup Deleted')
    BY <2>2, <2>3, <2>4
  <2>6. e.op \in LabelErrands => errand[k].op \in LabelErrands /\ errand[k].on = e.on
    BY DEF GoesOn, LabelErrands
  <2> QED
    BY <1>1, <2>1, <2>2, <2>3, <2>5, <2>6
<1> QED
  BY <1>2, <1>3 DEF LabelsFresh

\* What a watcher misses stays owed: a step that changes what the task has announces it.
LEMMA LinksStayOwed ==
    ASSUME LinksInv, NEW k \in Agents, NEW e \in ErrandRecords,
           errand' = [errand EXCEPT ![k] = e],
           task' => task, event => event', watched' = watched,
           errand[k].at = "announce" \/ Reached(k, "assign", "signal") =>
               ~task' \/ event' \/ e.at = "announce",
           UNCHANGED struck,
           \/ e.at = "announce" \/ (e.op = "assign" /\ e.at = "signal")
           \/ /\ assigned' = assigned
              /\ watched.labels \cap labels = worn => watched.labels \cap labels' = worn'
    PROVE  LinksOwed'
<1> SUFFICES ASSUME task'
             PROVE  \/ event'
                    \/ \E m \in Agents : \/ errand'[m].at = "announce"
                                         \/ errand'[m].op = "assign" /\ errand'[m].at = "signal"
                    \/ /\ watched'.people \ struck' = assigned' \ struck'
                       /\ watched'.labels \cap labels' = worn'
  BY DEF LinksOwed, Reached
<1>1. /\ errand'[k] = e
      /\ \A m \in Agents : m # k => errand'[m] = errand[m]
  BY ErrandMoves
<1>2. CASE event
  BY <1>2
<1>3. CASE \E m \in Agents : errand[m].at = "announce" \/ Reached(m, "assign", "signal")
  BY <1>1, <1>3 DEF Reached
<1>4. CASE watched.people \ struck = assigned \ struck /\ watched.labels \cap labels = worn
  BY <1>1, <1>4
<1> QED
  BY <1>2, <1>3, <1>4 DEF LinksInv, LinksOwed

-----------------------------------------------------------------------------
(* What hangs on a task: the steps *)

\* While the rows stay, so do the counts and what the feed says of them.
LEMMA RowsStay ==
    ASSUME LinksInv, UNCHANGED <<linkRows, past>>
    PROVE  /\ \A u : Unread(u)' = Unread(u)
           /\ Deleted' = Deleted
           /\ FeedMatchesRows'
<1>1. \A u : Unread(u)' = Unread(u)
  BY DEF Unread, linkRows
<1>2. \A t, w : TimesRecorded(t, w)' = TimesRecorded(t, w)
  BY DEF TimesRecorded, linkRows, past
<1>3. FeedMatchesRows'
  BY <1>2 DEF LinksInv, FeedMatchesRows, AssignmentsMatchFeed, LabelDeletionsAuditedOnce, linkRows, past
<1>4. Deleted' = Deleted
  BY DEF Deleted, linkRows, past
<1> QED
  BY <1>1, <1>3, <1>4

\* A request that is refused, or only looks something up.
LEMMA QuietKeeps ==
    ASSUME LinksInv, NEW k \in Agents, NEW e, GoesOn(k, e),
           UNCHANGED <<linkRows, browsers, past, linksBegun>>,
           errand[k].at \in {"find", "write"},
           e.op \in {"none", "create label"} => e.at # "write"
    PROVE  LinksInv'
<1>1. /\ \A u : Unread(u)' = Unread(u)
      /\ Deleted' = Deleted
      /\ FeedMatchesRows'
  BY RowsStay
<1>2. LinksTyped'
  BY ErrandsTyped DEF LinksInv, LinksTyped, LinkTypeOK, linkRows, browsers, past
<1>3. e \in ErrandRecords /\ errand' = [errand EXCEPT ![k] = e]
  BY DEF GoesOn
<1>4. CountsOwed'
  BY <1>1, <1>3, CountsKeep DEF linkRows, browsers, past
<1>5. NotesOwned'
  <2>1. /\ \A n, o \in notes' : n.id = o.id => n.user = o.user
        /\ NotesFollow
    BY DEF LinksInv, NotesOwned, NotesFollow, linkRows
  <2> QED
    BY <2>1, OwnersKeep DEF linkRows
<1>6. LabelsFresh'
  <2>1. Reached(k, "create label", "write") => e.at # "write"
    BY DEF Reached, GoesOn
  <2>2. labels' = labels /\ watched' = watched
    BY DEF linkRows, browsers, past
  <2>3. e.op = "create label" => e.at # "write"
    OBVIOUS
  <2> QED
    BY <1>1, <2>1, <2>2, <2>3, FreshKeep
<1>7. LinksOwed'
  BY <1>3, LinksStayOwed DEF linkRows, browsers, past, Reached
<1> QED
  BY <1>1, <1>2, <1>4, <1>5, <1>6, <1>7 DEF LinksInv

LEMMA RejectedKeeps ==
    ASSUME LinksInv, NEW k \in Agents, Rejected(k), errand[k].at \in {"find", "write"}
    PROVE  LinksInv'
<1>1. /\ errand' = [errand EXCEPT ![k] = NoErrand]
      /\ UNCHANGED <<linkRows, browsers, past, linksBegun>>
  BY DEF Rejected, GoTo
<1>2. GoesOn(k, NoErrand)
  BY <1>1, StepsGoOn
<1>3. NoErrand.op = "none" /\ NoErrand.at # "write"
  BY NoErrandTyped
<1> QED
  BY <1>1, <1>2, <1>3, QuietKeeps

\* A bounded count that has room for one more.
LEMMA OneMore == \A m \in Nat : \A n \in 0..m : n < m => n + 1 \in 0..m
  OBVIOUS

\* A new request: a label it makes is one that no row and no other request knows of.
LEMMA SentKeeps ==
    ASSUME LinksInv, NEW k \in Agents, NEW op, NEW by \in People, NEW on \in Subjects,
           NEW tell \in SUBSET People, NEW step \in {"find", "write"},
           Send(k, op, by, on, tell, step),
           op \in LabelErrands \cup {"assign", "unassign", "comment", "uncomment", "read", "read all"},
           op = "assign" => on \in People,
           op = "read" => on \in notes /\ by = on.user,
           op \in LabelErrands /\ op # "create label" => on \in labels,
           op = "create label" =>
               /\ on \in Labels \ (labels \cup Deleted)
               /\ \A m \in Agents : errand[m].on # on
    PROVE  LinksInv'
<1> DEFINE e == [op |-> op, by |-> by, on |-> on, tell |-> tell, at |-> step]
<1>1. /\ errand[k] = NoErrand
      /\ errand' = [errand EXCEPT ![k] = e]
      /\ UNCHANGED <<linkRows, browsers, past>>
      /\ linksBegun' = linksBegun + 1 /\ linksBegun < MaxLinkOps
  BY DEF Send
<1>2. e \in ErrandRecords
  BY DEF ErrandRecords
<1>3. e.op = op /\ e.by = by /\ e.on = on /\ e.at = step
  OBVIOUS
<1> HIDE DEF e
<1>4. /\ errand' \in [Agents -> ErrandRecords]
      /\ errand'[k] = e
      /\ \A m \in Agents : m # k => errand'[m] = errand[m]
  BY <1>1, <1>2, ErrandMoves
<1>5. /\ \A u : Unread(u)' = Unread(u)
      /\ Deleted' = Deleted
      /\ FeedMatchesRows'
  BY <1>1, RowsStay
<1>6. errand[k].at = "idle" /\ errand[k].op = "none"
  BY <1>1, NoErrandTyped
<1>7. LinksTyped'
  <2>1. linksBegun' \in 0..MaxLinkOps
    <3>1. linksBegun \in 0..MaxLinkOps
      BY DEF LinksInv, LinksTyped, LinkTypeOK
    <3>2. linksBegun' = linksBegun + 1 /\ linksBegun < MaxLinkOps
      BY <1>1
    <3>3. MaxLinkOps \in Nat
      BY LinksAssumption
    <3> QED
      BY <3>1, <3>2, <3>3, OneMore
  <2>2. \A m \in Agents :
           /\ errand'[m].at \in {"idle", "find", "write", "record", "signal", "announce"}
           /\ errand'[m].op # "none" => errand'[m].by \in People
           /\ errand'[m].op = "assign" => errand'[m].on \in People
    BY <1>3, <1>4 DEF LinksInv, LinksTyped, LinkTypeOK
  <2> QED
    BY <1>1, <1>4, <2>1, <2>2 DEF LinksInv, LinksTyped, LinkTypeOK, linkRows, browsers, past
<1>8. CountsOwed'
  BY <1>1, <1>2, <1>5, <1>6, CountsKeep DEF linkRows, browsers, past
<1>9. NotesOwned'
  <2>1. ASSUME NEW m \in Agents, errand'[m].op = "read", NEW n \in notes', n.id = errand'[m].on.id
        PROVE  n.user = errand'[m].by
    <3>1. notes' = notes
      BY <1>1 DEF linkRows
    <3>2. CASE m = k
      <4>1. on \in notes /\ on.user = by
        BY <1>3, <1>4, <2>1, <3>2
      <4>2. errand'[m].on = on /\ errand'[m].by = by
        BY <1>3, <1>4, <3>2
      <4>3. n \in notes /\ n.id = on.id
        BY <2>1, <3>1, <4>2
      <4> QED
        BY <4>1, <4>2, <4>3 DEF LinksInv, NotesOwned
    <3>3. CASE m # k
      <4>1. errand'[m] = errand[m] /\ n \in notes
        BY <1>4, <2>1, <3>1, <3>3
      <4> QED
        BY <2>1, <4>1 DEF LinksInv, NotesOwned
    <3> QED
      BY <3>2, <3>3
  <2> QED
    BY <1>1, <2>1 DEF LinksInv, NotesOwned, linkRows
<1>10. LabelsFresh'
  <2>1. labels' = labels /\ watched' = watched
    BY <1>1 DEF linkRows, browsers, past
  <2>2. ASSUME NEW m \in Agents, Reached(m, "create label", "write")'
        PROVE  /\ errand'[m].on \in Labels \ (labels' \cup watched'.labels \cup Deleted')
               /\ \A o \in Agents :
                     errand'[o].op \in LabelErrands /\ errand'[o].on = errand'[m].on => o = m
    <3>1. CASE m = k
      <4>1. op = "create label"
        BY <1>3, <1>4, <2>2, <3>1 DEF Reached
      <4>2. on \notin watched.labels
        BY <4>1 DEF LinksInv, LabelsFresh
      <4> QED
        BY <1>3, <1>4, <1>5, <2>1, <3>1, <4>1, <4>2
    <3>2. CASE m # k
      <4>1. Reached(m, "create label", "write") /\ errand'[m] = errand[m]
        BY <1>4, <2>2, <3>2 DEF Reached
      <4>2. /\ errand[m].on \in Labels \ (labels \cup watched.labels \cup Deleted)
            /\ \A o \in Agents :
                  errand[o].op \in LabelErrands /\ errand[o].on = errand[m].on => o = m
        BY <4>1 DEF LinksInv, LabelsFresh
      <4>3. op \in LabelErrands => on # errand[m].on
        BY <4>2
      <4> QED
        BY <1>3, <1>4, <1>5, <2>1, <3>2, <4>1, <4>2, <4>3
    <3> QED
      BY <3>1, <3>2
  <2> QED
    BY <1>5, <2>1, <2>2 DEF LinksInv, LabelsFresh
<1>11. LinksOwed'
  BY <1>1, <1>2, <1>6, LinksStayOwed DEF linkRows, browsers, past, Reached
<1> QED
  BY <1>5, <1>7, <1>8, <1>9, <1>10, <1>11 DEF LinksInv

\* A request for a label that no row and no other request knows of.
LEMMA SentNewKeeps ==
    ASSUME LinksInv, NEW k \in Agents, NEW by \in People, NEW l \in Labels \ (labels \cup Deleted),
           Send(k, "create label", by, l, {}, "write"),
           \A m \in Agents : errand[m].on # l
    PROVE  LinksInv'
<1> DEFINE op == "create label"
<1>1. op \in LabelErrands
  BY DEF LabelErrands
<1>2. op # "assign" /\ op # "read" /\ op = "create label"
  OBVIOUS
<1>3. Send(k, op, by, l, {}, "write")
  OBVIOUS
<1> HIDE DEF op
<1>4. {} \in SUBSET People /\ l \in Subjects /\ "write" \in {"find", "write"}
  BY DEF Subjects
<1> QED
  BY <1>1, <1>2, <1>3, <1>4, SentKeeps

\* A request about a label that is there.
LEMMA SentLabelKeeps ==
    ASSUME LinksInv, NEW k \in Agents, NEW by \in People, NEW l \in labels,
           NEW op \in {"wear", "strip", "update label", "delete label"},
           NEW step \in {"find", "write"}, Send(k, op, by, l, {}, step)
    PROVE  LinksInv'
<1>1. /\ op \in LabelErrands
      /\ op # "create label" /\ op # "read" /\ op # "assign"
  BY DEF LabelErrands
<1>2. l \in Subjects
  BY DEF LinksInv, LinksTyped, LinkTypeOK, Subjects
<1>3. {} \in SUBSET People
  OBVIOUS
<1> QED
  BY <1>1, <1>2, <1>3, SentKeeps

\* A request that is not about a label.
LEMMA SentElseKeeps ==
    ASSUME LinksInv, NEW k \in Agents, NEW by \in People, NEW on \in Subjects,
           NEW op \in {"assign", "unassign", "comment", "uncomment", "read", "read all"},
           NEW tell \in SUBSET People,
           NEW step \in {"find", "write"}, Send(k, op, by, on, tell, step),
           op = "assign" => on \in People,
           op = "read" => on \in notes /\ by = on.user
    PROVE  LinksInv'
<1>1. /\ op \notin LabelErrands /\ op # "create label"
      /\ op \in LabelErrands \cup {"assign", "unassign", "comment", "uncomment", "read", "read all"}
  BY DEF LabelErrands
<1> QED
  BY <1>1, SentKeeps DEF Send

\* Requests, as members make them.
LEMMA RequestsKeep == ASSUME LinksInv, NEW k \in Agents, LinkRequest(k) PROVE LinksInv'
<1>1. People \subseteq Subjects /\ Labels \subseteq Subjects /\ "none" \in Subjects
  BY DEF Subjects
<1>2. /\ crew \subseteq People /\ labels \subseteq Labels
      /\ comments \subseteq Subjects /\ notes \subseteq NoteRecords /\ notes \subseteq Subjects
  BY DEF LinksInv, LinksTyped, LinkTypeOK, Subjects, NoteRecords
<1>3. CASE AddAssignee(k)
  BY <1>1, <1>2, <1>3, SentElseKeeps DEF AddAssignee
<1>4. CASE RemoveAssignee(k)
  BY <1>1, <1>2, <1>4, SentElseKeeps DEF RemoveAssignee
<1>5. CASE AddLabel(k)
  BY <1>1, <1>2, <1>5, SentLabelKeeps DEF AddLabel
<1>6. CASE RemoveLabel(k)
  BY <1>1, <1>2, <1>6, SentLabelKeeps DEF RemoveLabel
<1>7. CASE CreateLabel(k)
  <2>1. PICK by \in People, l \in Labels \ labels :
              /\ \A t \in BagToSet(feed) \cup BagToSet(forgotten) : t[2] # l
              /\ \A m \in Agents : errand[m].on # l
              /\ Send(k, "create label", by, l, {}, "write")
    BY <1>7 DEF CreateLabel
  <2>2. l \notin Deleted
    <3>1. ASSUME <<"label deleted", l>> \in DOMAIN feed \cup DOMAIN forgotten PROVE FALSE
      <4>1. <<"label deleted", l>>[2] # l
        BY <2>1, <3>1 DEF BagToSet
      <4> QED
        BY <4>1
    <3> QED
      BY <3>1 DEF Deleted
  <2> QED
    <3>1. l \in Labels \ (labels \cup Deleted)
      BY <2>2
    <3>2. Send(k, "create label", by, l, {}, "write") /\ \A m \in Agents : errand[m].on # l
      BY <2>1
    <3> QED
      BY <3>1, <3>2, SentNewKeeps
<1>8. CASE EditLabel(k)
  BY <1>1, <1>2, <1>8, SentLabelKeeps DEF EditLabel
<1>9. CASE CreateComment(k)
  <2>1. PICK by \in People, mentioned \in SUBSET People :
              Send(k, "comment", by, "none", mentioned, "write")
    BY <1>9 DEF CreateComment
  <2> QED
    BY <1>1, <2>1, SentElseKeeps
<1>10. CASE RemoveComment(k)
  BY <1>1, <1>2, <1>10, SentElseKeeps DEF RemoveComment
<1>11. CASE MarkRead(k)
  <2>1. PICK n \in notes : Send(k, "read", n.user, n, {}, "find")
    BY <1>11 DEF MarkRead
  <2>2. n.user \in People
    BY <1>2 DEF NoteRecords
  <2> QED
    BY <1>2, <2>1, <2>2, SentElseKeeps
<1>12. CASE MarkAllRead(k)
  BY <1>1, <1>2, <1>12, SentElseKeeps DEF MarkAllRead
<1> QED
  BY <1>3, <1>4, <1>5, <1>6, <1>7, <1>8, <1>9, <1>10, <1>11, <1>12 DEF LinkRequest

-----------------------------------------------------------------------------
(* What hangs on a task: the statements that write *)

\* While the notifications stay, so do the counts and the owners.
LEMMA NotesStay ==
    ASSUME LinksInv, notes' = notes
    PROVE  /\ \A u : Unread(u)' = Unread(u)
           /\ \A n, o \in notes' : n.id = o.id => n.user = o.user
           /\ NotesFollow
  BY DEF LinksInv, NotesOwned, NotesFollow, Unread

\* What a new row of the feed says of deleted labels.
LEMMA FeedTells ==
    ASSUME LinksInv, NEW type, NEW what, feed' = Recorded(type, what), forgotten' = forgotten
    PROVE  /\ type # "label deleted" => Deleted' = Deleted
           /\ type = "label deleted" /\ what \in Labels => Deleted' = Deleted \cup {what}
<1>1. DOMAIN feed' = DOMAIN feed \cup {<<type, what>>}
  BY FeedGrows
<1>2. \A l : <<"label deleted", l>> = <<type, what>> <=> type = "label deleted" /\ l = what
  OBVIOUS
<1> QED
  BY <1>1, <1>2 DEF Deleted

\* A label is recorded as deleted if the feed has a row that says so.
LEMMA DeletedCounted ==
    ASSUME LinksInv, NEW l \in Labels, l \notin Deleted
    PROVE  TimesRecorded("label deleted", l) = 0
<1>1. <<"label deleted", l>> \notin DOMAIN feed /\ <<"label deleted", l>> \notin DOMAIN forgotten
  BY DEF Deleted
<1>2. Copies(<<"label deleted", l>>, feed) = 0 /\ Copies(<<"label deleted", l>>, forgotten) = 0
  BY <1>1 DEF Copies, BagIn, BagToSet
<1>3. 0 + 0 = 0
  OBVIOUS
<1> QED
  BY <1>2, <1>3 DEF TimesRecorded

\* What is recorded of assignments stays right if neither it nor they change.
LEMMA AssignmentsTold ==
    ASSUME LinksInv, task' => task,
           \A u : TimesRecorded("assigned", u)' = TimesRecorded("assigned", u),
           \A u : TimesRecorded("unassigned", u)' = TimesRecorded("unassigned", u),
           \A u : Assigned(u)' = Assigned(u)
    PROVE  AssignmentsMatchFeed'
<1> SUFFICES ASSUME task', NEW u \in People
             PROVE  TimesRecorded("assigned", u)' - TimesRecorded("unassigned", u)' = Assigned(u)'
  BY DEF AssignmentsMatchFeed, Assigned
<1>1. TimesRecorded("assigned", u) - TimesRecorded("unassigned", u) = Assigned(u)
  BY DEF LinksInv, FeedMatchesRows, AssignmentsMatchFeed, Assigned
<1> QED
  BY <1>1

\* Rows of the feed that are of another kind leave what it says of the task's rows.
LEMMA FeedAside ==
    ASSUME LinksInv, NEW type, NEW what, feed' = feed \/ feed' = Recorded(type, what),
           type # "assigned", type # "unassigned", type # "label deleted",
           UNCHANGED past, assigned' = assigned, labels' = labels, task' => task
    PROVE  FeedMatchesRows'
<1>1. \A t, w : t # type => TimesRecorded(t, w)' = TimesRecorded(t, w)
  <2>1. CASE feed' = feed
    BY <2>1 DEF TimesRecorded, past
  <2>2. CASE feed' = Recorded(type, what)
    BY <2>2, RecordLeaves DEF past
  <2> QED
    BY <2>1, <2>2
<1>4. struck' = struck
  BY DEF past
<1>2. AssignmentsMatchFeed'
  <2>1. /\ \A u : TimesRecorded("assigned", u)' = TimesRecorded("assigned", u)
        /\ \A u : TimesRecorded("unassigned", u)' = TimesRecorded("unassigned", u)
    BY <1>1
  <2>2. \A u : Assigned(u)' = Assigned(u)
    BY <1>4 DEF Assigned
  <2> QED
    BY <2>1, <2>2, AssignmentsTold
<1>3. LabelDeletionsAuditedOnce'
  BY <1>1 DEF LinksInv, FeedMatchesRows, LabelDeletionsAuditedOnce
<1> QED
  BY <1>2, <1>3 DEF FeedMatchesRows

\* The step of a request that writes labels of the task: all but the labels stays.
LEMMA WornKeeps ==
    ASSUME LinksInv, NEW k \in Agents, errand[k].op \in {"wear", "strip"},
           errand[k].at = "write", Proceed(k, "announce", {}),
           worn' \subseteq labels,
           UNCHANGED <<task, crew, assigned, labels, comments, notes, feed>>
    PROVE  LinksInv'
<1> DEFINE e == [errand[k] EXCEPT !.at = "announce", !.tell = {}]
<1>1. errand' = [errand EXCEPT ![k] = e] /\ UNCHANGED <<browsers, past, linksBegun>>
  BY DEF Proceed, GoTo
<1>2. "announce" \in {"find", "write", "record", "signal", "announce"} /\ {} \in SUBSET People
  OBVIOUS
<1>13. e \in ErrandRecords
  BY <1>2, ErrandOf DEF ErrandRecords
<1>14. e.op = errand[k].op /\ e.by = errand[k].by /\ e.on = errand[k].on /\ e.at = "announce"
  BY ErrandOf DEF ErrandRecords
<1> HIDE DEF e
<1>3. GoesOn(k, e) /\ e.op = errand[k].op /\ e.at = "announce"
  BY <1>1, <1>13, <1>14 DEF GoesOn
<1>4. e \in ErrandRecords
  BY <1>3 DEF GoesOn
<1>5. /\ \A u : Unread(u)' = Unread(u)
      /\ \A n, o \in notes' : n.id = o.id => n.user = o.user
      /\ NotesFollow
  BY NotesStay
<1>6. LinksTyped'
  BY <1>1, <1>3, ErrandsTyped DEF LinksInv, LinksTyped, LinkTypeOK, browsers, past
<1>7. CountsOwed'
  BY <1>1, <1>4, <1>5, CountsKeep DEF browsers, past
<1>8. NotesOwned'
  BY <1>3, <1>5, OwnersKeep
<1>9. LabelsFresh'
  <2>1. Deleted' = Deleted
    BY <1>1 DEF Deleted, past
  <2> QED
    BY <1>1, <1>3, <2>1, FreshKeep DEF browsers, past, Reached
<1>10. LinksOwed'
  BY <1>1, <1>3, <1>4, LinksStayOwed DEF browsers, past
<1>11. FeedMatchesRows'
  <2>1. /\ feed' = feed \/ feed' = Recorded("other", "task")
        /\ UNCHANGED past
    BY <1>1
  <2> QED
    BY <2>1, FeedAside
<1> QED
  BY <1>6, <1>7, <1>8, <1>9, <1>10, <1>11 DEF LinksInv

LEMMA WriteLabelKeeps == ASSUME LinksInv, NEW k \in Agents, WriteLabel(k) PROVE LinksInv'
<1>1. Reached(k, "wear", "write")
  BY DEF WriteLabel
<1>2. CASE ~task \/ errand[k].on \notin labels \/ errand[k].on \in worn
  BY <1>1, <1>2, RejectedKeeps DEF WriteLabel, Reached
<1>3. CASE ~(~task \/ errand[k].on \notin labels \/ errand[k].on \in worn)
  <2>1. /\ worn' = worn \cup {errand[k].on} /\ Proceed(k, "announce", {})
        /\ UNCHANGED <<task, crew, assigned, labels, comments, notes, feed>>
    BY <1>3 DEF WriteLabel
  <2>2. worn' \subseteq labels
    BY <1>3, <2>1 DEF LinksInv, LinksTyped, LinkTypeOK
  <2> QED
    BY <1>1, <2>1, <2>2, WornKeeps DEF Reached
<1> QED
  BY <1>2, <1>3

LEMMA DropLabelKeeps == ASSUME LinksInv, NEW k \in Agents, DropLabel(k) PROVE LinksInv'
<1>1. Reached(k, "strip", "write")
  BY DEF DropLabel
<1>2. CASE errand[k].on \notin worn
  BY <1>1, <1>2, RejectedKeeps DEF DropLabel, Reached
<1>3. CASE errand[k].on \in worn
  <2>1. /\ worn' = worn \ {errand[k].on} /\ Proceed(k, "announce", {})
        /\ UNCHANGED <<task, crew, assigned, labels, comments, notes, feed>>
    BY <1>3 DEF DropLabel
  <2>2. worn' \subseteq labels
    BY <2>1 DEF LinksInv, LinksTyped, LinkTypeOK
  <2> QED
    BY <1>1, <2>1, <2>2, WornKeeps DEF Reached
<1> QED
  BY <1>2, <1>3

LEMMA DropAssigneeKeeps == ASSUME LinksInv, NEW k \in Agents, DropAssignee(k) PROVE LinksInv'
<1>1. Reached(k, "unassign", "write")
  BY DEF DropAssignee
<1>2. CASE errand[k].on \notin assigned
  BY <1>1, <1>2, RejectedKeeps DEF DropAssignee, Reached
<1>3. CASE errand[k].on \in assigned
  <2> DEFINE who == errand[k].on
             e == [errand[k] EXCEPT !.at = "announce", !.tell = {}]
  <2>1. /\ assigned' = assigned \ {who}
        /\ feed' = Recorded("unassigned", who)
        /\ Proceed(k, "announce", {})
        /\ UNCHANGED <<task, crew, labels, worn, comments, notes>>
    BY <1>3 DEF DropAssignee
  <2>2. errand' = [errand EXCEPT ![k] = e] /\ UNCHANGED <<browsers, past, linksBegun>>
    BY <2>1 DEF Proceed, GoTo
  <2>3. "announce" \in {"find", "write", "record", "signal", "announce"} /\ {} \in SUBSET People
    OBVIOUS
  <2>24. e \in ErrandRecords
    BY <2>3, ErrandOf DEF ErrandRecords
  <2>25. e.op = errand[k].op /\ e.by = errand[k].by /\ e.on = errand[k].on /\ e.at = "announce"
    BY ErrandOf DEF ErrandRecords
  <2> HIDE DEF e, who
  <2>4. GoesOn(k, e) /\ e.op = errand[k].op /\ e.at = "announce"
    BY <2>2, <2>24, <2>25 DEF GoesOn
  <2>5. e \in ErrandRecords
    BY <2>4 DEF GoesOn
  <2>6. /\ IsABag(feed')
        /\ forgotten' = forgotten
        /\ \A t, w : t # "unassigned" \/ w # who => TimesRecorded(t, w)' = TimesRecorded(t, w)
    <3>1. feed' = Recorded("unassigned", who) /\ forgotten' = forgotten
      BY <2>1, <2>2 DEF past
    <3> QED
      BY <3>1, FeedGrows, RecordLeaves
  <2>7. Deleted' = Deleted
    <3>1. \A type, what : feed' = Recorded(type, what) /\ type # "label deleted" => Deleted' = Deleted
      BY <2>2, FeedTells DEF past
    <3> QED
      BY <2>1, <3>1
  <2>8. /\ \A u : Unread(u)' = Unread(u)
        /\ \A n, o \in notes' : n.id = o.id => n.user = o.user
        /\ NotesFollow
    BY <2>1, NotesStay
  <2>9. LinksTyped'
    BY <2>1, <2>2, <2>4, <2>6, ErrandsTyped DEF LinksInv, LinksTyped, LinkTypeOK, browsers, past
  <2>10. CountsOwed'
    BY <1>1, <2>1, <2>2, <2>5, <2>8, CountsKeep DEF browsers, past, Reached
  <2>11. NotesOwned'
    BY <2>1, <2>4, <2>8, OwnersKeep
  <2>12. LabelsFresh'
    BY <2>1, <2>2, <2>4, <2>7, FreshKeep DEF browsers, past
  <2>13. LinksOwed'
    BY <2>1, <2>2, <2>4, <2>5, LinksStayOwed DEF browsers, past
  <2>14. AssignmentsMatchFeed'
    <3>1. ASSUME task, NEW u \in People
          PROVE  TimesRecorded("assigned", u)' - TimesRecorded("unassigned", u)' = Assigned(u)'
      <4>1. TimesRecorded("assigned", u) - TimesRecorded("unassigned", u)
               = Assigned(u)
        BY <3>1 DEF LinksInv, FeedMatchesRows, AssignmentsMatchFeed, Assigned
      <4>2. TimesRecorded("assigned", u)' = TimesRecorded("assigned", u)
        BY <2>6
      <4>3. CASE u = who
        <5>1. TimesRecorded("unassigned", u)' = TimesRecorded("unassigned", u) + 1
          BY <2>1, <2>6, <4>3, RecordAdds
        <5>2. u \in assigned /\ u \notin assigned'
          BY <1>3, <2>1, <4>3 DEF who
        <5>3. Assigned(u) = Assigned(u)' + 1 /\ Assigned(u)' \in Nat
          BY <2>2, <5>2 DEF Assigned, past
        <5>4. TimesRecorded("assigned", u) \in Nat /\ TimesRecorded("unassigned", u) \in Nat
          BY TimesNat
        <5> QED
          BY <4>1, <4>2, <5>1, <5>3, <5>4
      <4>4. CASE u # who
        <5>1. TimesRecorded("unassigned", u)' = TimesRecorded("unassigned", u)
          BY <2>6, <4>4
        <5>2. u \in assigned <=> u \in assigned'
          BY <2>1, <4>4
        <5>3. Assigned(u)' = Assigned(u)
          BY <2>2, <5>2 DEF Assigned, past
        <5> QED
          BY <4>1, <4>2, <5>1, <5>3
      <4> QED
        BY <4>3, <4>4
    <3> QED
      BY <2>1, <3>1 DEF AssignmentsMatchFeed, Assigned
  <2>15. LabelDeletionsAuditedOnce'
    <3>1. \A l \in Labels : TimesRecorded("label deleted", l)' = TimesRecorded("label deleted", l)
      BY <2>6
    <3> QED
      BY <2>1, <3>1 DEF LinksInv, FeedMatchesRows, LabelDeletionsAuditedOnce
  <2> QED
    BY <2>9, <2>10, <2>11, <2>12, <2>13, <2>14, <2>15 DEF LinksInv, FeedMatchesRows
<1> QED
  BY <1>2, <1>3

-----------------------------------------------------------------------------
(* What hangs on a task: the labels of the board *)

LEMMA InsertLabelKeeps == ASSUME LinksInv, NEW k \in Agents, InsertLabel(k) PROVE LinksInv'
<1> DEFINE new == errand[k].on
<1>1. /\ Reached(k, "create label", "write")
      /\ labels' = labels \cup {new}
      /\ Proceed(k, "record", {})
      /\ UNCHANGED <<task, crew, assigned, worn, comments, notes, feed>>
  BY DEF InsertLabel
<1> HIDE DEF new
<1>2. "record" \in {"find", "write", "record", "signal", "announce"} /\ {} \in SUBSET People
  OBVIOUS
<1>3. PICK e \in ErrandRecords : /\ GoesOn(k, e) /\ errand' = [errand EXCEPT ![k] = e]
                                 /\ e.op = errand[k].op /\ e.tell = {} /\ e.at = "record"
  <2>1. Proceed(k, "record", {})
    BY <1>1
  <2> QED
    BY <1>2, <2>1, ProceedGoesOn
<1>4. UNCHANGED <<browsers, past, linksBegun>>
  BY <1>1 DEF Proceed, GoTo
<1>5. new \in Labels \ (labels \cup watched.labels \cup Deleted)
  BY <1>1 DEF LinksInv, LabelsFresh, new
<1>6. errand[k].at = "write"
  BY <1>1 DEF Reached
<1>7. /\ \A u : Unread(u)' = Unread(u)
      /\ \A n, o \in notes' : n.id = o.id => n.user = o.user
      /\ NotesFollow
  BY <1>1, NotesStay
<1>8. LinksTyped'
  BY <1>1, <1>3, <1>4, <1>5, ErrandsTyped DEF LinksInv, LinksTyped, LinkTypeOK, browsers, past
<1>9. CountsOwed'
  BY <1>1, <1>3, <1>4, <1>6, <1>7, CountsKeep DEF browsers, past
<1>10. NotesOwned'
  BY <1>1, <1>3, <1>7, OwnersKeep
<1>11. LabelsFresh'
  <2>1. Deleted' = Deleted
    BY <1>1, <1>4 DEF Deleted, past
  <2>2. watched'.labels \subseteq watched.labels \cup labels
    BY <1>4 DEF browsers, past
  <2>3. labels' \subseteq labels \cup
           {l \in Labels : Reached(k, "create label", "write") /\ l = errand[k].on}
    BY <1>1, <1>5 DEF new
  <2>4. labels \cup Deleted \subseteq labels' \cup Deleted'
    BY <1>1, <2>1
  <2> QED
    BY <1>3, <2>1, <2>2, <2>3, <2>4, FreshKeep
<1>12. LinksOwed'
  <2>1. watched.labels \cap labels = worn => watched.labels \cap labels' = worn'
    BY <1>1, <1>5
  <2> QED
    BY <1>1, <1>3, <1>4, <1>6, <2>1, LinksStayOwed DEF browsers, past, Reached
<1>13. AssignmentsMatchFeed'
  BY <1>1, <1>4 DEF LinksInv, FeedMatchesRows, AssignmentsMatchFeed, TimesRecorded, past
<1>14. LabelDeletionsAuditedOnce'
  <2>1. \A l \in Labels : TimesRecorded("label deleted", l)' = TimesRecorded("label deleted", l)
    BY <1>1, <1>4 DEF TimesRecorded, past
  <2>2. TimesRecorded("label deleted", new) = 0
    BY <1>5, DeletedCounted
  <2>3. \A l \in Labels : l # new => (l \in labels <=> l \in labels')
    BY <1>1
  <2>4. new \in labels'
    BY <1>1
  <2>5. 0 =< 0
    OBVIOUS
  <2> QED
    BY <2>1, <2>2, <2>3, <2>4, <2>5 DEF LinksInv, FeedMatchesRows, LabelDeletionsAuditedOnce
<1> QED
  BY <1>8, <1>9, <1>10, <1>11, <1>12, <1>13, <1>14 DEF LinksInv, FeedMatchesRows

\* A step that only may leave a row in the feed, and answers.
LEMMA RecordKeeps ==
    ASSUME LinksInv, NEW k \in Agents, errand[k].at \in {"write", "record"}, Answered(k),
           NEW type, NEW what, feed' = feed \/ feed' = Recorded(type, what),
           type # "assigned", type # "unassigned", type # "label deleted",
           UNCHANGED <<task, crew, assigned, labels, worn, comments, notes>>
    PROVE  LinksInv'
<1>1. errand' = [errand EXCEPT ![k] = NoErrand] /\ UNCHANGED <<browsers, past, linksBegun>>
  BY DEF Answered, GoTo
<1>2. GoesOn(k, NoErrand) /\ NoErrand.at = "idle" /\ NoErrand \in ErrandRecords
  BY <1>1, StepsGoOn, NoErrandTyped
<1>3. /\ \A u : Unread(u)' = Unread(u)
      /\ \A n, o \in notes' : n.id = o.id => n.user = o.user
      /\ NotesFollow
  BY NotesStay
<1>4. IsABag(feed') /\ Deleted' = Deleted
  <2>1. CASE feed' = feed
    BY <1>1, <2>1 DEF Deleted, LinksInv, LinksTyped, LinkTypeOK, past
  <2>2. CASE feed' = Recorded(type, what)
    BY <1>1, <2>2, FeedGrows, FeedTells DEF past
  <2> QED
    BY <2>1, <2>2
<1>5. LinksTyped'
  BY <1>1, <1>2, <1>4, ErrandsTyped DEF LinksInv, LinksTyped, LinkTypeOK, browsers, past
<1>6. CountsOwed'
  BY <1>1, <1>2, <1>3, CountsKeep DEF browsers, past
<1>7. NotesOwned'
  BY <1>2, <1>3, OwnersKeep
<1>8. LabelsFresh'
  BY <1>1, <1>2, <1>4, FreshKeep DEF browsers, past
<1>9. LinksOwed'
  BY <1>1, <1>2, LinksStayOwed DEF browsers, past, Reached
<1>10. FeedMatchesRows'
  <2>1. assigned' = assigned /\ labels' = labels /\ (task' => task) /\ UNCHANGED past
    BY <1>1
  <2> QED
    BY <2>1, FeedAside
<1> QED
  BY <1>5, <1>6, <1>7, <1>8, <1>9, <1>10 DEF LinksInv

LEMMA RecordLabelKeeps == ASSUME LinksInv, NEW k \in Agents, RecordLabel(k) PROVE LinksInv'
<1>1. /\ errand[k].at = "record" /\ Answered(k)
      /\ UNCHANGED <<task, crew, assigned, labels, worn, comments, notes>>
  BY DEF RecordLabel, Reached
<1>2. PICK what : feed' = feed \/ feed' = Recorded("label created", what)
  BY DEF RecordLabel
<1>3. /\ "label created" # "assigned" /\ "label created" # "unassigned"
      /\ "label created" # "label deleted"
  OBVIOUS
<1> QED
  BY <1>1, <1>2, <1>3, RecordKeeps

LEMMA WriteLabelNameKeeps == ASSUME LinksInv, NEW k \in Agents, WriteLabelName(k) PROVE LinksInv'
<1>1. Reached(k, "update label", "write")
  BY DEF WriteLabelName
<1>2. CASE errand[k].on \notin labels
  BY <1>1, <1>2, RejectedKeeps DEF WriteLabelName, Reached
<1>3. CASE errand[k].on \in labels
  <2>1. /\ Answered(k)
        /\ UNCHANGED <<task, crew, assigned, labels, worn, comments, notes>>
    BY <1>3 DEF WriteLabelName
  <2>2. PICK what : feed' = feed \/ feed' = Recorded("label updated", what)
    BY <1>3 DEF WriteLabelName
  <2>3. /\ "label updated" # "assigned" /\ "label updated" # "unassigned"
      /\ "label updated" # "label deleted"
    OBVIOUS
  <2> QED
    BY <1>1, <2>1, <2>2, <2>3, RecordKeeps DEF Reached
<1> QED
  BY <1>2, <1>3

LEMMA DeleteLabelKeeps == ASSUME LinksInv, NEW k \in Agents, DeleteLabel(k) PROVE LinksInv'
<1>1. Reached(k, "delete label", "write")
  BY DEF DeleteLabel
<1>2. CASE errand[k].on \notin labels
  BY <1>1, <1>2, RejectedKeeps DEF DeleteLabel, Reached
<1>3. CASE errand[k].on \in labels
  <2> DEFINE gone == errand[k].on
  <2>1. /\ feed' = Recorded("label deleted", gone)
        /\ labels' = labels \ {gone} /\ worn' = worn \ {gone}
        /\ Answered(k)
        /\ UNCHANGED <<task, crew, assigned, comments, notes>>
    BY <1>3 DEF DeleteLabel
  <2>2. errand' = [errand EXCEPT ![k] = NoErrand] /\ UNCHANGED <<browsers, past, linksBegun>>
    BY <2>1 DEF Answered, GoTo
  <2>3. GoesOn(k, NoErrand) /\ NoErrand.at = "idle" /\ NoErrand \in ErrandRecords
    BY <2>2, StepsGoOn, NoErrandTyped
  <2>4. gone \in labels /\ gone \in Labels
    BY <1>3 DEF LinksInv, LinksTyped, LinkTypeOK
  <2> HIDE DEF gone
  <2>5. /\ IsABag(feed')
        /\ forgotten' = forgotten
        /\ \A t, w : t # "label deleted" \/ w # gone => TimesRecorded(t, w)' = TimesRecorded(t, w)
    <3>1. feed' = Recorded("label deleted", gone) /\ forgotten' = forgotten
      BY <2>1, <2>2 DEF past
    <3> QED
      BY <3>1, FeedGrows, RecordLeaves
  <2>6. Deleted' = Deleted \cup {gone}
    <3>1. \A what \in Labels : feed' = Recorded("label deleted", what) => Deleted' = Deleted \cup {what}
      BY <2>2, FeedTells DEF past
    <3> QED
      BY <2>1, <2>4, <3>1
  <2>7. /\ \A u : Unread(u)' = Unread(u)
        /\ \A n, o \in notes' : n.id = o.id => n.user = o.user
        /\ NotesFollow
    BY <2>1, NotesStay
  <2>8. LinksTyped'
    BY <2>1, <2>2, <2>3, <2>5, ErrandsTyped DEF LinksInv, LinksTyped, LinkTypeOK, browsers, past
  <2>9. CountsOwed'
    BY <1>1, <2>1, <2>2, <2>3, <2>7, CountsKeep DEF browsers, past, Reached
  <2>10. NotesOwned'
    BY <2>1, <2>3, <2>7, OwnersKeep
  <2>11. LabelsFresh'
    <3>1. watched' = watched
      BY <2>2 DEF browsers, past
    <3> QED
      BY <2>1, <2>3, <2>4, <2>6, <3>1, FreshKeep
  <2>12. LinksOwed'
    <3>1. watched.labels \cap labels = worn => watched.labels \cap labels' = worn'
      BY <2>1
    <3> QED
      BY <1>1, <2>1, <2>2, <2>3, <3>1, LinksStayOwed DEF browsers, past, Reached
  <2>13. AssignmentsMatchFeed'
    <3>1. /\ \A u : TimesRecorded("assigned", u)' = TimesRecorded("assigned", u)
          /\ \A u : TimesRecorded("unassigned", u)' = TimesRecorded("unassigned", u)
      BY <2>5
    <3>2. \A u : Assigned(u)' = Assigned(u)
      BY <2>1, <2>2 DEF Assigned, past
    <3> QED
      BY <2>1, <3>1, <3>2, AssignmentsTold
  <2>14. LabelDeletionsAuditedOnce'
    <3>1. ASSUME NEW l \in Labels
          PROVE  TimesRecorded("label deleted", l)' =< (IF l \in labels' THEN 0 ELSE 1)
      <4>1. TimesRecorded("label deleted", l) =< (IF l \in labels THEN 0 ELSE 1)
        BY DEF LinksInv, FeedMatchesRows, LabelDeletionsAuditedOnce
      <4>2. CASE l = gone
        <5>1. TimesRecorded("label deleted", l) =< 0 /\ l \notin labels'
          BY <2>1, <2>4, <4>1, <4>2
        <5>2. TimesRecorded("label deleted", l)' = TimesRecorded("label deleted", l) + 1
          BY <2>1, <2>5, <4>2, RecordAdds
        <5>3. TimesRecorded("label deleted", l) \in Nat
          BY TimesNat
        <5>4. TimesRecorded("label deleted", l)' =< 1
          <6> DEFINE n == TimesRecorded("label deleted", l)
                     m == TimesRecorded("label deleted", l)'
          <6>1. n \in Nat /\ n =< 0 /\ m = n + 1
            BY <5>1, <5>2, <5>3
          <6> HIDE DEF n, m
          <6>2. m =< 1
            BY <6>1
          <6> QED
            BY <6>2 DEF m
        <5> QED
          BY <5>1, <5>4
      <4>3. CASE l # gone
        <5>1. TimesRecorded("label deleted", l)' = TimesRecorded("label deleted", l)
          BY <2>5, <4>3
        <5>2. l \in labels <=> l \in labels'
          BY <2>1, <4>3
        <5> QED
          BY <4>1, <5>1, <5>2
      <4> QED
        BY <4>2, <4>3
    <3> QED
      BY <3>1 DEF LabelDeletionsAuditedOnce
  <2> QED
    BY <2>8, <2>9, <2>10, <2>11, <2>12, <2>13, <2>14 DEF LinksInv, FeedMatchesRows
<1> QED
  BY <1>2, <1>3

-----------------------------------------------------------------------------
(* What hangs on a task: assignments, comments and their notifications *)

\* The notifications of a transaction are new, and change the counts of those they are for.
LEMMA NotesAdded ==
    ASSUME LinksInv, NEW S \in SUBSET People, NEW type \in {"assignment", "mention"},
           NEW ids \in IdsFor(S), notes' = notes \cup NotesFor(ids, type)
    PROVE  /\ notes' \subseteq NoteRecords /\ IsFiniteSet(notes')
           /\ \A n, o \in notes' : n.id = o.id => n.user = o.user
           /\ NotesFollow
           /\ \A u : u \notin S => Unread(u)' = Unread(u)
<1> DEFINE made == NotesFor(ids, type)
<1>1. /\ made \subseteq NoteRecords /\ IsFiniteSet(made)
      /\ \A n \in made : n.user \in S /\ \A o \in notes \cup Named : o.id # n.id
      /\ \A n, o \in made : n.id = o.id => n.user = o.user
  BY NotesMade
<1>2. notes' = notes \cup made
  OBVIOUS
<1> HIDE DEF made
<1>3. /\ notes \subseteq NoteRecords /\ IsFiniteSet(notes)
      /\ \A n, o \in notes : n.id = o.id => n.user = o.user
  BY DEF LinksInv, LinksTyped, LinkTypeOK, NoteRecords, NotesOwned
<1>4. IsFiniteSet(notes')
  <2>1. IsFiniteSet(notes) /\ IsFiniteSet(made)
    BY <1>1, <1>3
  <2>2. IsFiniteSet(notes \cup made)
    BY <2>1, FS_Union
  <2> QED
    BY <1>2, <2>2
<1>5. \A n, o \in notes' : n.id = o.id => n.user = o.user
  BY <1>1, <1>2, <1>3
<1>6. ASSUME NEW u, u \notin S PROVE Unread(u)' = Unread(u)
  <2>1. {n \in notes' : n.user = u /\ ~n.read} = {n \in notes : n.user = u /\ ~n.read}
    BY <1>1, <1>2, <1>6
  <2> QED
    BY <2>1 DEF Unread
<1>7. NotesFollow
  <2>1. \A k \in Agents : errand[k].op = "read" => errand[k].on \in Named
    BY DEF Named
  <2> QED
    BY <1>1, <1>2, <2>1 DEF NotesFollow
<1> QED
  BY <1>1, <1>2, <1>3, <1>4, <1>5, <1>6, <1>7

LEMMA WriteAssigneeKeeps == ASSUME LinksInv, NEW k \in Agents, WriteAssignee(k) PROVE LinksInv'
<1> DEFINE who == errand[k].on
           told == {who} \ {errand[k].by}
<1>1. Reached(k, "assign", "write")
  BY DEF WriteAssignee
<1>2. CASE ~task \/ who \in assigned
  BY <1>1, <1>2, RejectedKeeps DEF WriteAssignee, Reached
<1>3. CASE ~(~task \/ who \in assigned)
  <2>1. /\ assigned' = assigned \cup {who}
        /\ feed' = Recorded("assigned", who)
        /\ \E ids \in IdsFor(told) : notes' = notes \cup NotesFor(ids, "assignment")
        /\ Proceed(k, "signal", told)
        /\ UNCHANGED <<task, crew, labels, worn, comments>>
    BY <1>3 DEF WriteAssignee
  <2>2. who \in People
    BY <1>1 DEF LinksInv, LinksTyped, Reached
  <2>3. told \in SUBSET People
    BY <2>2
  <2>4. task /\ who \notin assigned
    BY <1>3
  <2> HIDE DEF who, told
  <2>5. PICK e \in ErrandRecords : /\ GoesOn(k, e) /\ errand' = [errand EXCEPT ![k] = e]
                                   /\ e.op = errand[k].op /\ e.tell = told /\ e.at = "signal"
    <3>1. "signal" \in {"find", "write", "record", "signal", "announce"}
      OBVIOUS
    <3>2. Proceed(k, "signal", told)
      BY <2>1
    <3> QED
      BY <2>3, <3>1, <3>2, ProceedGoesOn
  <2>6. UNCHANGED <<browsers, past, linksBegun>>
    BY <2>1 DEF Proceed, GoTo
  <2>7. /\ notes' \subseteq NoteRecords /\ IsFiniteSet(notes')
        /\ \A n, o \in notes' : n.id = o.id => n.user = o.user
        /\ NotesFollow
        /\ \A u : u \notin told => Unread(u)' = Unread(u)
    <3>1. PICK ids \in IdsFor(told) : notes' = notes \cup NotesFor(ids, "assignment")
      BY <2>1
    <3>2. "assignment" \in {"assignment", "mention"}
      OBVIOUS
    <3> QED
      BY <2>3, <3>1, <3>2, NotesAdded
  <2>8. /\ IsABag(feed')
        /\ forgotten' = forgotten
        /\ \A t, w : t # "assigned" \/ w # who => TimesRecorded(t, w)' = TimesRecorded(t, w)
    <3>1. feed' = Recorded("assigned", who) /\ forgotten' = forgotten
      BY <2>1, <2>6 DEF past
    <3> QED
      BY <3>1, FeedGrows, RecordLeaves
  <2>9. Deleted' = Deleted
    <3>1. \A type, what : feed' = Recorded(type, what) /\ type # "label deleted" => Deleted' = Deleted
      BY <2>6, FeedTells DEF past
    <3> QED
      BY <2>1, <3>1
  <2>10. LinksTyped'
    <3>1. assigned' \subseteq People
      BY <2>1, <2>2 DEF LinksInv, LinksTyped, LinkTypeOK
    <3>2. notes' \subseteq [id : NoteIds, user : People, type : {"assignment", "mention"}, read : BOOLEAN]
      BY <2>7 DEF NoteRecords
    <3> QED
      BY <2>1, <2>5, <2>6, <2>7, <2>8, <3>1, <3>2, ErrandsTyped
      DEF LinksInv, LinksTyped, LinkTypeOK, browsers, past
  <2>11. CountsOwed'
    BY <1>1, <2>1, <2>5, <2>6, <2>7, CountsKeep DEF browsers, past, Reached
  <2>12. NotesOwned'
    BY <2>1, <2>5, <2>7, OwnersKeep
  <2>13. LabelsFresh'
    BY <2>1, <2>5, <2>6, <2>9, FreshKeep DEF browsers, past
  <2>14. LinksOwed'
    BY <1>1, <2>1, <2>5, <2>6, LinksStayOwed DEF browsers, past, Reached
  <2>15. AssignmentsMatchFeed'
    <3>1. ASSUME NEW u \in People
          PROVE  TimesRecorded("assigned", u)' - TimesRecorded("unassigned", u)' = Assigned(u)'
      <4>1. TimesRecorded("assigned", u) - TimesRecorded("unassigned", u)
               = Assigned(u)
        BY <2>4 DEF LinksInv, FeedMatchesRows, AssignmentsMatchFeed, Assigned
      <4>2. TimesRecorded("unassigned", u)' = TimesRecorded("unassigned", u)
        BY <2>8
      <4>3. CASE u = who
        <5>1. TimesRecorded("assigned", u)' = TimesRecorded("assigned", u) + 1
          BY <2>1, <2>8, <4>3, RecordAdds
        <5>2. u \notin assigned /\ u \in assigned'
          BY <2>1, <2>4, <4>3
        <5>3. Assigned(u)' = Assigned(u) + 1 /\ Assigned(u) \in Nat
          BY <2>6, <5>2 DEF Assigned, past
        <5>4. TimesRecorded("assigned", u) \in Nat /\ TimesRecorded("unassigned", u) \in Nat
          BY TimesNat
        <5> QED
          BY <4>1, <4>2, <5>1, <5>3, <5>4
      <4>4. CASE u # who
        <5>1. TimesRecorded("assigned", u)' = TimesRecorded("assigned", u)
          BY <2>8, <4>4
        <5>2. u \in assigned <=> u \in assigned'
          BY <2>1, <4>4
        <5>3. Assigned(u)' = Assigned(u)
          BY <2>6, <5>2 DEF Assigned, past
        <5> QED
          BY <4>1, <4>2, <5>1, <5>3
      <4> QED
        BY <4>3, <4>4
    <3> QED
      BY <3>1 DEF AssignmentsMatchFeed, Assigned
  <2>16. LabelDeletionsAuditedOnce'
    <3>1. \A l \in Labels : TimesRecorded("label deleted", l)' = TimesRecorded("label deleted", l)
      BY <2>8
    <3> QED
      BY <2>1, <3>1 DEF LinksInv, FeedMatchesRows, LabelDeletionsAuditedOnce
  <2> QED
    BY <2>10, <2>11, <2>12, <2>13, <2>14, <2>15, <2>16 DEF LinksInv, FeedMatchesRows
<1> QED
  BY <1>2, <1>3

\* A step that changes notifications of the users it is about to signal, and comments.
LEMMA SignalledKeeps ==
    ASSUME LinksInv, NEW k \in Agents, errand[k].at = "write", errand[k].op # "create label",
           NEW tell \in SUBSET People, Proceed(k, "signal", tell) \/ Answered(k),
           notes' \subseteq NoteRecords, IsFiniteSet(notes'),
           \A n, o \in notes' : n.id = o.id => n.user = o.user,
           NotesFollow,
           task' => \A u \in People : \/ Unread(u)' = Unread(u)
                                      \/ Proceed(k, "signal", tell) /\ u \in tell,
           comments' \subseteq [id : NoteIds, by : People],
           feed' = feed \/ \E what : feed' = Recorded("commented", what),
           UNCHANGED <<task, crew, assigned, labels, worn>>
    PROVE  LinksInv'
<1>1. PICK e \in ErrandRecords : /\ GoesOn(k, e) /\ errand' = [errand EXCEPT ![k] = e]
                                 /\ e.at # "write"
                                 /\ Proceed(k, "signal", tell) => e.at = "signal" /\ e.tell = tell
  <2>1. CASE Proceed(k, "signal", tell)
    <3>1. "signal" \in {"find", "write", "record", "signal", "announce"}
      OBVIOUS
    <3>2. \E e \in ErrandRecords : /\ GoesOn(k, e) /\ errand' = [errand EXCEPT ![k] = e]
                                   /\ e.op = errand[k].op /\ e.tell = tell /\ e.at = "signal"
      <4> DEFINE e == [errand[k] EXCEPT !.at = "signal", !.tell = tell]
      <4>1. errand' = [errand EXCEPT ![k] = e]
        BY <2>1 DEF Proceed, GoTo
      <4>2. e \in ErrandRecords
        BY <3>1, ErrandOf DEF ErrandRecords
      <4>4. /\ e.op = errand[k].op /\ e.by = errand[k].by /\ e.on = errand[k].on
            /\ e.tell = tell /\ e.at = "signal"
        BY ErrandOf DEF ErrandRecords
      <4> HIDE DEF e
      <4>3. GoesOn(k, e) /\ e \in ErrandRecords /\ e.op = errand[k].op /\ e.tell = tell /\ e.at = "signal"
        BY <4>1, <4>2, <4>4 DEF GoesOn
      <4> QED
        BY <4>1, <4>3
    <3>3. "signal" # "write"
      OBVIOUS
    <3> QED
      BY <2>1, <3>2, <3>3
  <2>2. CASE ~Proceed(k, "signal", tell)
    <3>1. errand' = [errand EXCEPT ![k] = NoErrand]
      BY <2>2 DEF Answered, GoTo
    <3>2. NoErrand \in ErrandRecords /\ NoErrand.at # "write"
      BY NoErrandTyped
    <3>3. GoesOn(k, NoErrand)
      BY <3>1, StepsGoOn
    <3> QED
      BY <2>2, <3>1, <3>2, <3>3
  <2> QED
    BY <2>1, <2>2
<1>2. UNCHANGED <<browsers, past, linksBegun>>
  BY DEF Proceed, Answered, GoTo
<1>3. IsABag(feed') /\ Deleted' = Deleted
  <2>1. CASE feed' = feed
    BY <1>2, <2>1 DEF Deleted, LinksInv, LinksTyped, LinkTypeOK, past
  <2>2. CASE \E what : feed' = Recorded("commented", what)
    <3>1. PICK what : feed' = Recorded("commented", what)
      BY <2>2
    <3>2. "commented" # "label deleted"
      OBVIOUS
    <3> QED
      BY <1>2, <3>1, <3>2, FeedGrows, FeedTells DEF past
  <2> QED
    BY <2>1, <2>2
<1>4. LinksTyped'
  <2>1. notes' \subseteq [id : NoteIds, user : People, type : {"assignment", "mention"}, read : BOOLEAN]
    BY DEF NoteRecords
  <2> QED
    BY <1>1, <1>2, <1>3, <2>1, ErrandsTyped DEF LinksInv, LinksTyped, LinkTypeOK, browsers, past
<1>5. CountsOwed'
  BY <1>1, <1>2, CountsKeep DEF browsers, past
<1>6. NotesOwned'
  BY <1>1, OwnersKeep
<1>7. LabelsFresh'
  BY <1>1, <1>2, <1>3, FreshKeep DEF browsers, past, Reached
<1>8. LinksOwed'
  BY <1>1, <1>2, LinksStayOwed DEF browsers, past, Reached
<1>9. FeedMatchesRows'
  <2>1. PICK what : feed' = feed \/ feed' = Recorded("commented", what)
    OBVIOUS
  <2>2. /\ "commented" # "assigned" /\ "commented" # "unassigned"
        /\ "commented" # "label deleted"
    OBVIOUS
  <2>3. assigned' = assigned /\ labels' = labels /\ (task' => task) /\ UNCHANGED past
    BY <1>2
  <2> QED
    BY <2>1, <2>2, <2>3, FeedAside
<1> QED
  BY <1>4, <1>5, <1>6, <1>7, <1>8, <1>9 DEF LinksInv

LEMMA WriteCommentKeeps == ASSUME LinksInv, NEW k \in Agents, WriteComment(k) PROVE LinksInv'
<1> DEFINE told == errand[k].tell \cap crew
<1>1. Reached(k, "comment", "write")
  BY DEF WriteComment
<1>2. CASE ~task
  BY <1>1, <1>2, RejectedKeeps DEF WriteComment, Reached
<1>3. CASE task
  <2>1. PICK ids \in IdsFor(told), i \in NextIds(Cardinality(told) + 1) :
              /\ comments' = comments \cup {[id |-> i, by |-> errand[k].by]}
              /\ notes' = notes \cup NotesFor(ids, "mention")
    BY <1>3 DEF WriteComment
  <2>2. /\ feed' = Recorded("commented", "task")
        /\ Proceed(k, "signal", told)
        /\ UNCHANGED <<task, crew, assigned, labels, worn>>
    BY <1>3 DEF WriteComment
  <2>3. told \in SUBSET People
    BY DEF LinksInv, LinksTyped, LinkTypeOK
  <2> HIDE DEF told
  <2>4. /\ notes' \subseteq NoteRecords /\ IsFiniteSet(notes')
        /\ \A n, o \in notes' : n.id = o.id => n.user = o.user
        /\ NotesFollow
        /\ \A u : u \notin told => Unread(u)' = Unread(u)
    <3>1. "mention" \in {"assignment", "mention"}
      OBVIOUS
    <3> QED
      BY <2>1, <2>3, <3>1, NotesAdded
  <2>5. comments' \subseteq [id : NoteIds, by : People]
    <3>1. i \in NoteIds
      BY <2>1 DEF NextIds
    <3>2. errand[k].by \in People
      BY <1>1 DEF LinksInv, LinksTyped, Reached
    <3>3. comments \subseteq [id : NoteIds, by : People]
      BY DEF LinksInv, LinksTyped, LinkTypeOK
    <3> QED
      BY <2>1, <3>1, <3>2, <3>3
  <2>6. errand[k].at = "write" /\ errand[k].op # "create label"
    BY <1>1 DEF Reached
  <2>7. task' => \A u \in People : \/ Unread(u)' = Unread(u)
                                   \/ Proceed(k, "signal", told) /\ u \in told
    BY <2>2, <2>4
  <2> QED
    BY <2>2, <2>3, <2>4, <2>5, <2>6, <2>7, SignalledKeeps
<1> QED
  BY <1>2, <1>3

LEMMA DeleteCommentKeeps == ASSUME LinksInv, NEW k \in Agents, DeleteComment(k) PROVE LinksInv'
<1>1. /\ comments' = comments \ {errand[k].on}
      /\ Answered(k)
      /\ UNCHANGED <<task, crew, assigned, labels, worn, notes, feed>>
  BY DEF DeleteComment
<1>2. /\ \A u : Unread(u)' = Unread(u)
      /\ \A n, o \in notes' : n.id = o.id => n.user = o.user
      /\ NotesFollow
  BY <1>1, NotesStay
<1>3. notes' \subseteq NoteRecords /\ IsFiniteSet(notes')
  BY <1>1 DEF LinksInv, LinksTyped, LinkTypeOK, NoteRecords
<1>4. comments' \subseteq [id : NoteIds, by : People]
  BY <1>1 DEF LinksInv, LinksTyped, LinkTypeOK
<1>5. errand[k].at = "write" /\ errand[k].op # "create label"
  BY DEF DeleteComment, Reached
<1>6. {} \in SUBSET People
  OBVIOUS
<1> QED
  BY <1>1, <1>2, <1>3, <1>4, <1>5, <1>6, SignalledKeeps

\* Notifications that are marked read change the count of none but their owner.
LEMMA ReadsCount ==
    ASSUME LinksInv, NEW S \in SUBSET notes, notes' = ReadNotes(S)
    PROVE  /\ notes' \subseteq NoteRecords /\ IsFiniteSet(notes')
           /\ \A n, o \in notes' : n.id = o.id => n.user = o.user
           /\ NotesFollow
           /\ \A u : (\A n \in S : n.user # u) => Unread(u)' = Unread(u)
           /\ \A u : (\A n \in notes : n.user = u => n \in S) => Unread(u)' = 0
<1> DEFINE read == ReadNotes(S)
           left(u) == {n \in notes : n.user = u /\ ~n.read}
           yet(u) == {n \in read : n.user = u /\ ~n.read}
<1>1. /\ read \subseteq NoteRecords /\ IsFiniteSet(read)
      /\ \A n \in notes : \E o \in read : o.id = n.id /\ o.user = n.user
      /\ \A o \in read : \E n \in notes : o.id = n.id /\ o.user = n.user
      /\ \A u : (\A n \in S : n.user # u) => yet(u) = left(u)
      /\ \A u : (\A n \in notes : n.user = u => n \in S) => yet(u) = {}
  BY NotesRead
<1>2. notes' = read
  OBVIOUS
<1>3. \A u : Unread(u) = Cardinality(left(u)) /\ Unread(u)' = Cardinality(yet(u))
  BY <1>2 DEF Unread
<1> HIDE DEF read, left, yet
<1>4. \A n, o \in notes' : n.id = o.id => n.user = o.user
  BY <1>1, <1>2 DEF LinksInv, NotesOwned
<1>5. ASSUME NEW u, \A n \in S : n.user # u PROVE Unread(u)' = Unread(u)
  BY <1>1, <1>3, <1>5
<1>6. ASSUME NEW u, \A n \in notes : n.user = u => n \in S PROVE Unread(u)' = 0
  BY <1>1, <1>3, <1>6, FS_EmptySet
<1>7. NotesFollow
  BY <1>1, <1>2 DEF NotesFollow
<1> QED
  BY <1>1, <1>2, <1>4, <1>5, <1>6, <1>7

LEMMA WriteReadKeeps == ASSUME LinksInv, NEW k \in Agents, WriteRead(k) PROVE LinksInv'
<1> DEFINE S == {n \in notes : n.id = errand[k].on.id}
           by == errand[k].by
<1>1. Reached(k, "read", "write")
  BY DEF WriteRead
<1>2. CASE S = {}
  BY <1>1, <1>2, RejectedKeeps DEF WriteRead, Reached
<1>3. CASE S # {}
  <2>1. /\ notes' = ReadNotes(S)
        /\ Proceed(k, "signal", {by})
        /\ UNCHANGED <<task, crew, assigned, labels, worn, comments, feed>>
    BY <1>3 DEF WriteRead
  <2>2. by \in People /\ {by} \in SUBSET People
    BY <1>1 DEF LinksInv, LinksTyped, Reached
  <2>3. task => \A n \in S : n.user = by
    <3>1. ASSUME task, NEW n \in S PROVE n.user = by
      <4>1. PICK o \in notes : o.id = errand[k].on.id /\ o.user = by
        BY <1>1, <3>1 DEF LinksInv, NotesOwned, Reached
      <4> QED
        BY <4>1 DEF LinksInv, NotesOwned
    <3> QED
      BY <3>1
  <2>4. S \in SUBSET notes
    OBVIOUS
  <2> HIDE DEF S, by
  <2>5. /\ notes' \subseteq NoteRecords /\ IsFiniteSet(notes')
        /\ \A n, o \in notes' : n.id = o.id => n.user = o.user
        /\ NotesFollow
        /\ \A u : (\A n \in S : n.user # u) => Unread(u)' = Unread(u)
    BY <2>1, <2>4, ReadsCount
  <2>6. task' => \A u \in People : \/ Unread(u)' = Unread(u)
                                   \/ Proceed(k, "signal", {by}) /\ u \in {by}
    <3>1. ASSUME task, NEW u \in People, u # by PROVE Unread(u)' = Unread(u)
      BY <2>3, <2>5, <3>1
    <3> QED
      BY <2>1, <3>1
  <2>7. comments' \subseteq [id : NoteIds, by : People]
    BY <2>1 DEF LinksInv, LinksTyped, LinkTypeOK
  <2>8. errand[k].at = "write" /\ errand[k].op # "create label"
    BY <1>1 DEF Reached
  <2> QED
    BY <2>1, <2>2, <2>5, <2>6, <2>7, <2>8, SignalledKeeps
<1> QED
  BY <1>2, <1>3

LEMMA WriteAllReadKeeps == ASSUME LinksInv, NEW k \in Agents, WriteAllRead(k) PROVE LinksInv'
<1> DEFINE by == errand[k].by
           S == {n \in notes : n.user = by}
<1>1. /\ Reached(k, "read all", "write")
      /\ notes' = ReadNotes(S)
      /\ IF Unread(by) > 0 THEN Proceed(k, "signal", {by}) ELSE Answered(k)
      /\ UNCHANGED <<task, crew, assigned, labels, worn, comments, feed>>
  BY DEF WriteAllRead
<1>2. by \in People /\ {by} \in SUBSET People
  BY <1>1 DEF LinksInv, LinksTyped, Reached
<1>3. S \in SUBSET notes /\ (\A u : u # by => \A n \in S : n.user # u)
      /\ \A n \in notes : n.user = by => n \in S
  OBVIOUS
<1> HIDE DEF S, by
<1>4. /\ notes' \subseteq NoteRecords /\ IsFiniteSet(notes')
      /\ \A n, o \in notes' : n.id = o.id => n.user = o.user
      /\ NotesFollow
      /\ \A u : (\A n \in S : n.user # u) => Unread(u)' = Unread(u)
      /\ \A u : (\A n \in notes : n.user = u => n \in S) => Unread(u)' = 0
  BY <1>1, <1>3, ReadsCount
<1>5. \A u \in People : \/ Unread(u)' = Unread(u)
                        \/ Proceed(k, "signal", {by}) /\ u \in {by}
  <2>1. ASSUME NEW u \in People, u # by PROVE Unread(u)' = Unread(u)
    BY <1>3, <1>4, <2>1
  <2>2. CASE Unread(by) > 0
    BY <1>1, <2>1, <2>2
  <2>3. CASE ~(Unread(by) > 0)
    <3>1. ASSUME NEW u \in People, u = by PROVE Unread(u)' = Unread(u)
      <4>1. Unread(u) \in Nat
        BY UnreadIsNat
      <4>2. Unread(u) = 0
        BY <2>3, <3>1, <4>1
      <4>3. Unread(u)' = 0
        BY <1>3, <1>4, <3>1
      <4> QED
        BY <4>2, <4>3
    <3> QED
      BY <2>1, <3>1
  <2> QED
    BY <2>2, <2>3
<1>6. comments' \subseteq [id : NoteIds, by : People]
  BY <1>1 DEF LinksInv, LinksTyped, LinkTypeOK
<1>7. errand[k].at = "write" /\ errand[k].op # "create label"
  BY <1>1 DEF Reached
<1>8. Proceed(k, "signal", {by}) \/ Answered(k)
  BY <1>1
<1> QED
  BY <1>1, <1>2, <1>4, <1>5, <1>6, <1>7, <1>8, SignalledKeeps

-----------------------------------------------------------------------------
(* What hangs on a task: signals, browsers, past and other services *)

LEMMA FindLabelKeeps == ASSUME LinksInv, NEW k \in Agents, FindLabel(k) PROVE LinksInv'
<1>1. errand[k].op \in {"update label", "delete label"} /\ errand[k].at = "find"
  BY DEF FindLabel
<1>2. CASE errand[k].on \notin labels
  BY <1>1, <1>2, RejectedKeeps DEF FindLabel
<1>3. CASE errand[k].on \in labels
  <2>1. Proceed(k, "write", {}) /\ UNCHANGED linkRows
    BY <1>3 DEF FindLabel
  <2>2. PICK e \in ErrandRecords : /\ GoesOn(k, e) /\ errand' = [errand EXCEPT ![k] = e]
                                   /\ e.op = errand[k].op /\ e.tell = {} /\ e.at = "write"
    <3>1. "write" \in {"find", "write", "record", "signal", "announce"} /\ {} \in SUBSET People
      OBVIOUS
    <3>2. Proceed(k, "write", {})
      BY <2>1
    <3> QED
      BY <3>1, <3>2, ProceedGoesOn
  <2>3. UNCHANGED <<linkRows, browsers, past, linksBegun>>
    BY <2>1 DEF Proceed, GoTo
  <2>4. e.op # "none" /\ e.op # "create label"
    BY <1>1, <2>2
  <2> QED
    BY <1>1, <2>2, <2>3, <2>4, QuietKeeps
<1> QED
  BY <1>2, <1>3

LEMMA FindNoteKeeps == ASSUME LinksInv, NEW k \in Agents, FindNote(k) PROVE LinksInv'
<1>1. errand[k].op = "read" /\ errand[k].at = "find"
  BY DEF FindNote, Reached
<1>2. \/ Rejected(k)
      \/ Proceed(k, "write", {}) /\ UNCHANGED linkRows
  BY DEF FindNote
<1>3. CASE Rejected(k)
  BY <1>1, <1>3, RejectedKeeps
<1>4. CASE Proceed(k, "write", {}) /\ UNCHANGED linkRows
  <2>1. PICK e \in ErrandRecords : /\ GoesOn(k, e) /\ errand' = [errand EXCEPT ![k] = e]
                                   /\ e.op = errand[k].op /\ e.tell = {} /\ e.at = "write"
    <3>1. "write" \in {"find", "write", "record", "signal", "announce"} /\ {} \in SUBSET People
      OBVIOUS
    <3>2. Proceed(k, "write", {})
      BY <1>4
    <3> QED
      BY <3>1, <3>2, ProceedGoesOn
  <2>2. UNCHANGED <<linkRows, browsers, past, linksBegun>>
    BY <1>4 DEF Proceed, GoTo
  <2>3. e.op # "none" /\ e.op # "create label"
    BY <1>1, <2>1
  <2> QED
    BY <1>1, <2>1, <2>2, <2>3, QuietKeeps
<1> QED
  BY <1>2, <1>3, <1>4

LEMMA SignalUsersKeeps == ASSUME LinksInv, NEW k \in Agents, SignalUsers(k) PROVE LinksInv'
<1> DEFINE e == IF errand[k].op = "assign" THEN [errand[k] EXCEPT !.at = "announce"] ELSE NoErrand
<1>1. /\ errand[k].at = "signal"
      /\ signals' = signals \cup errand[k].tell
      /\ errand' = [errand EXCEPT ![k] = e]
      /\ UNCHANGED <<linkRows, badge, event, watched, past, linksBegun>>
  BY DEF SignalUsers
<1>2. errand[k] \in ErrandRecords
  BY DEF LinksInv, LinksTyped
<1>3. /\ e \in ErrandRecords /\ GoesOn(k, e) /\ e.at \in {"idle", "announce"}
      /\ errand[k].op = "assign" => e.at = "announce"
  <2>1. CASE errand[k].op = "assign"
    <3> DEFINE f == [errand[k] EXCEPT !.at = "announce"]
    <3>1. f \in ErrandRecords
      BY <1>2 DEF ErrandRecords
    <3>2. f.op = errand[k].op /\ f.by = errand[k].by /\ f.on = errand[k].on /\ f.at = "announce"
      BY <1>2 DEF ErrandRecords
    <3>3. e = f
      BY <2>1
    <3> HIDE DEF e, f
    <3> QED
      BY <1>1, <3>1, <3>2, <3>3 DEF GoesOn
  <2>2. CASE errand[k].op # "assign"
    <3>1. e = NoErrand
      BY <2>2
    <3> HIDE DEF e
    <3> QED
      BY <1>1, <2>2, <3>1, NoErrandTyped DEF GoesOn
  <2> QED
    BY <2>1, <2>2
<1> HIDE DEF e
<1>4. /\ \A u : Unread(u)' = Unread(u)
      /\ Deleted' = Deleted
      /\ FeedMatchesRows'
  BY <1>1, RowsStay
<1>5. /\ \A n, o \in notes' : n.id = o.id => n.user = o.user
      /\ NotesFollow
  BY <1>1, NotesStay DEF linkRows, past
<1>6. LinksTyped'
  <2>1. errand[k].tell \subseteq People
    BY <1>2 DEF ErrandRecords
  <2> QED
    BY <1>1, <1>3, <2>1, ErrandsTyped DEF LinksInv, LinksTyped, LinkTypeOK, linkRows, past
<1>7. CountsOwed'
  BY <1>1, <1>3, <1>4, CountsKeep DEF linkRows, past
<1>8. NotesOwned'
  BY <1>1, <1>3, <1>5, OwnersKeep DEF linkRows, past
<1>9. LabelsFresh'
  <2>1. watched' = watched /\ labels' = labels /\ e.at # "write"
    BY <1>1, <1>3 DEF linkRows, past
  <2> QED
    BY <1>3, <1>4, <2>1, FreshKeep
<1>10. LinksOwed'
  BY <1>1, <1>3, LinksStayOwed DEF linkRows, past, Reached
<1> QED
  BY <1>4, <1>6, <1>7, <1>8, <1>9, <1>10 DEF LinksInv

LEMMA AnnounceTaskKeeps == ASSUME LinksInv, NEW k \in Agents, AnnounceTask(k) PROVE LinksInv'
<1>1. /\ errand[k].at = "announce"
      /\ errand' = [errand EXCEPT ![k] = NoErrand]
      /\ event' = (event \/ task)
      /\ UNCHANGED <<linkRows, signals, badge, watched, past, linksBegun>>
  BY DEF AnnounceTask
<1>2. GoesOn(k, NoErrand) /\ NoErrand \in ErrandRecords /\ NoErrand.at = "idle"
  BY <1>1, StepsGoOn, NoErrandTyped
<1>3. /\ \A u : Unread(u)' = Unread(u)
      /\ Deleted' = Deleted
      /\ FeedMatchesRows'
  BY <1>1, RowsStay
<1>4. /\ \A n, o \in notes' : n.id = o.id => n.user = o.user
      /\ NotesFollow
  BY <1>1, NotesStay DEF linkRows, past
<1>5. LinksTyped'
  <2>1. event' \in BOOLEAN
    BY <1>1 DEF LinksInv, LinksTyped, LinkTypeOK
  <2> QED
    BY <1>1, <1>2, <2>1, ErrandsTyped DEF LinksInv, LinksTyped, LinkTypeOK, linkRows, past
<1>6. CountsOwed'
  BY <1>1, <1>2, <1>3, CountsKeep DEF linkRows, past
<1>7. NotesOwned'
  BY <1>1, <1>2, <1>4, OwnersKeep DEF linkRows, past
<1>8. LabelsFresh'
  BY <1>1, <1>2, <1>3, FreshKeep DEF linkRows, past
<1>9. LinksOwed'
  <2>1. task' = task /\ assigned' = assigned /\ labels' = labels /\ worn' = worn /\ struck' = struck
    BY <1>1 DEF linkRows, past
  <2> QED
    BY <1>1, <1>2, <2>1, LinksStayOwed
<1> QED
  BY <1>3, <1>5, <1>6, <1>7, <1>8, <1>9 DEF LinksInv

LEMMA RecountKeeps == ASSUME LinksInv, NEW u \in People, Recount(u) PROVE LinksInv'
<1>1. /\ signals' = signals \ {u}
      /\ badge' = [badge EXCEPT ![u] = Unread(u)]
      /\ UNCHANGED <<linkRows, errand, event, watched, past, linksBegun>>
  BY DEF Recount
<1>2. /\ \A v : Unread(v)' = Unread(v)
      /\ Deleted' = Deleted
      /\ FeedMatchesRows'
  BY <1>1, RowsStay
<1>3. badge' \in [People -> Nat]
  BY <1>1, UnreadIsNat DEF LinksInv, LinksTyped, LinkTypeOK
<1>4. LinksTyped'
  <2>1. signals' \subseteq People
    BY <1>1 DEF LinksInv, LinksTyped, LinkTypeOK
  <2> QED
    BY <1>1, <1>3, <2>1 DEF LinksInv, LinksTyped, LinkTypeOK, linkRows, past
<1>5. CountsOwed'
  <2>1. badge'[u] = Unread(u) /\ \A v \in People : v # u => badge'[v] = badge[v]
    BY <1>1 DEF LinksInv, LinksTyped, LinkTypeOK
  <2>2. \A v \in People : v # u /\ v \in signals => v \in signals'
    BY <1>1
  <2> QED
    BY <1>1, <1>2, <2>1, <2>2 DEF LinksInv, CountsOwed, linkRows, past
<1>6. NotesOwned'
  BY <1>1 DEF LinksInv, NotesOwned, linkRows, past
<1>7. LabelsFresh'
  BY <1>1, <1>2 DEF LinksInv, LabelsFresh, linkRows, past, Reached
<1>8. LinksOwed'
  BY <1>1 DEF LinksInv, LinksOwed, linkRows, past, Reached
<1> QED
  BY <1>2, <1>4, <1>5, <1>6, <1>7, <1>8 DEF LinksInv

LEMMA ReadAgainKeeps == ASSUME LinksInv, ReadAgain PROVE LinksInv'
<1>1. /\ event' = FALSE
      /\ watched' = [people |-> assigned, labels |-> worn]
      /\ UNCHANGED <<linkRows, errand, signals, badge, past, linksBegun>>
  BY DEF ReadAgain
<1>2. /\ \A v : Unread(v)' = Unread(v)
      /\ Deleted' = Deleted
      /\ FeedMatchesRows'
  BY <1>1, RowsStay
<1>3. watched'.people = assigned /\ watched'.labels = worn /\ worn \subseteq labels
  BY <1>1 DEF LinksInv, LinksTyped, LinkTypeOK
<1>4. LinksTyped'
  BY <1>1 DEF LinksInv, LinksTyped, LinkTypeOK, linkRows, past
<1>5. CountsOwed'
  BY <1>1, <1>2 DEF LinksInv, CountsOwed, linkRows, past
<1>6. NotesOwned'
  BY <1>1 DEF LinksInv, NotesOwned, linkRows, past
<1>7. LabelsFresh'
  BY <1>1, <1>2, <1>3 DEF LinksInv, LabelsFresh, linkRows, past, Reached
<1>8. LinksOwed'
  BY <1>1, <1>3 DEF LinksOwed, linkRows, past
<1> QED
  BY <1>2, <1>4, <1>5, <1>6, <1>7, <1>8 DEF LinksInv

LEMMA LeaveWorkspaceKeeps == ASSUME LinksInv, NEW u \in People, LeaveWorkspace(u) PROVE LinksInv'
<1>1. /\ crew' = crew \ {u}
      /\ UNCHANGED <<task, assigned, labels, worn, comments, notes, feed, errand,
                     signals, badge, event, watched, erased, struck, forgotten, linksBegun>>
  BY DEF LeaveWorkspace, browsers, past
<1>2. /\ \A v : Unread(v)' = Unread(v)
      /\ Deleted' = Deleted
  BY <1>1 DEF Unread, Deleted
<1>3. LinksTyped'
  <2>1. crew' \subseteq People
    BY <1>1 DEF LinksInv, LinksTyped, LinkTypeOK
  <2> QED
    BY <1>1, <2>1 DEF LinksInv, LinksTyped, LinkTypeOK
<1>4. CountsOwed'
  BY <1>1, <1>2 DEF LinksInv, CountsOwed
<1>5. NotesOwned'
  BY <1>1 DEF LinksInv, NotesOwned
<1>6. LabelsFresh'
  BY <1>1, <1>2 DEF LinksInv, LabelsFresh, Reached
<1>7. LinksOwed'
  BY <1>1 DEF LinksInv, LinksOwed, Reached
<1>8. FeedMatchesRows'
  BY <1>1 DEF LinksInv, FeedMatchesRows, AssignmentsMatchFeed, LabelDeletionsAuditedOnce, TimesRecorded
<1> QED
  BY <1>3, <1>4, <1>5, <1>6, <1>7, <1>8 DEF LinksInv

LEMMA RemoveTaskKeeps == ASSUME LinksInv, RemoveTask PROVE LinksInv'
<1>1. /\ task' = FALSE
      /\ assigned' = {} /\ worn' = {} /\ comments' = {} /\ notes' = {}
      /\ UNCHANGED <<crew, labels, feed, errand, signals, badge, event, watched, erased, struck,
                     forgotten, linksBegun>>
  BY DEF RemoveTask, browsers, past
<1>2. Deleted' = Deleted
  BY <1>1 DEF Deleted
<1>3. LinksTyped'
  BY <1>1, FS_EmptySet DEF LinksInv, LinksTyped, LinkTypeOK
<1>4. CountsOwed'
  BY <1>1 DEF CountsOwed
<1>5. NotesOwned'
  BY <1>1 DEF NotesOwned
<1>6. LabelsFresh'
  BY <1>1, <1>2 DEF LinksInv, LabelsFresh, Reached
<1>7. LinksOwed'
  BY <1>1 DEF LinksOwed
<1>8. FeedMatchesRows'
  <2>1. AssignmentsMatchFeed'
    BY <1>1 DEF AssignmentsMatchFeed
  <2>2. LabelDeletionsAuditedOnce'
    BY <1>1 DEF LinksInv, FeedMatchesRows, LabelDeletionsAuditedOnce, TimesRecorded
  <2> QED
    BY <2>1, <2>2 DEF FeedMatchesRows
<1> QED
  BY <1>3, <1>4, <1>5, <1>6, <1>7, <1>8 DEF LinksInv

LEMMA EraseAccountKeeps == ASSUME LinksInv, NEW u \in People, EraseAccount(u) PROVE LinksInv'
<1>1. /\ erased' = erased \cup {u} /\ struck' = struck \cup ({u} \cap assigned)
      /\ assigned' = assigned \ {u} /\ notes' = {n \in notes : n.user # u} /\ crew' = crew \ {u}
      /\ feed' = feed \/ feed' = Recorded("account deleted", u)
      /\ UNCHANGED <<task, labels, worn, comments, errand, signals, badge, event, watched,
                     forgotten, linksBegun>>
  BY DEF EraseAccount, browsers
<1>2. u \notin erased /\ u \notin struck
  BY DEF EraseAccount, LinksInv, LinksTyped, LinkTypeOK
<1>3. /\ IsABag(feed') /\ Deleted' = Deleted
      /\ \A t, w : t # "account deleted" => TimesRecorded(t, w)' = TimesRecorded(t, w)
  <2>1. CASE feed' = feed
    BY <1>1, <2>1 DEF Deleted, LinksInv, LinksTyped, LinkTypeOK, TimesRecorded
  <2>2. CASE feed' = Recorded("account deleted", u)
    <3>1. forgotten' = forgotten
      BY <1>1
    <3>2. IsABag(feed') /\ \A t, w : t # "account deleted" => TimesRecorded(t, w)' = TimesRecorded(t, w)
      BY <2>2, <3>1, FeedGrows, RecordLeaves
    <3>3. Deleted' = Deleted
      <4>1. "account deleted" # "label deleted"
        OBVIOUS
      <4> QED
        BY <2>2, <3>1, <4>1, FeedTells
    <3> QED
      BY <3>2, <3>3
  <2> QED
    BY <1>1, <2>1, <2>2
<1>4. LinksTyped'
  <2>1. IsFiniteSet(notes')
    <3>1. notes' \subseteq notes /\ IsFiniteSet(notes)
      BY <1>1 DEF LinksInv, LinksTyped
    <3> QED
      BY <3>1, FS_Subset
  <2>2. /\ crew' \subseteq People /\ assigned' \subseteq People
        /\ notes' \subseteq [id : NoteIds, user : People, type : {"assignment", "mention"}, read : BOOLEAN]
    BY <1>1 DEF LinksInv, LinksTyped, LinkTypeOK
  <2>3. struck' \subseteq erased' /\ erased' \subseteq People
    BY <1>1 DEF LinksInv, LinksTyped, LinkTypeOK
  <2> QED
    BY <1>1, <1>3, <2>1, <2>2, <2>3 DEF LinksInv, LinksTyped, LinkTypeOK
<1>5. CountsOwed'
  <2>1. ASSUME NEW v, v # u PROVE Unread(v)' = Unread(v)
    <3>1. {n \in notes' : n.user = v /\ ~n.read} = {n \in notes : n.user = v /\ ~n.read}
      BY <1>1, <2>1
    <3> QED
      BY <3>1 DEF Unread
  <2> QED
    BY <1>1, <2>1 DEF LinksInv, CountsOwed
<1>6. NotesOwned'
  BY <1>1 DEF LinksInv, NotesOwned
<1>7. LabelsFresh'
  BY <1>1, <1>3 DEF LinksInv, LabelsFresh, Reached
<1>8. LinksOwed'
  <2>1. watched.people \ struck = assigned \ struck => watched.people \ struck' = assigned' \ struck'
    BY <1>1
  <2> QED
    BY <1>1, <2>1 DEF LinksInv, LinksOwed, Reached
<1>9. AssignmentsMatchFeed'
  <2>1. ASSUME NEW v PROVE Assigned(v)' = Assigned(v)
    <3>1. CASE v # u
      <4>1. /\ v \in assigned' <=> v \in assigned
            /\ v \in struck' <=> v \in struck
        BY <1>1, <3>1
      <4> QED
        BY <4>1 DEF Assigned
    <3>2. CASE v = u
      <4>1. v \notin assigned' /\ v \notin struck /\ (v \in struck' <=> v \in assigned)
        BY <1>1, <1>2, <3>2
      <4> QED
        BY <4>1 DEF Assigned
    <3> QED
      BY <3>1, <3>2
  <2>2. \A v : /\ TimesRecorded("assigned", v)' = TimesRecorded("assigned", v)
              /\ TimesRecorded("unassigned", v)' = TimesRecorded("unassigned", v)
    BY <1>3
  <2> QED
    BY <1>1, <2>1, <2>2, AssignmentsTold
<1>10. LabelDeletionsAuditedOnce'
  BY <1>1, <1>3 DEF LinksInv, FeedMatchesRows, LabelDeletionsAuditedOnce
<1> QED
  BY <1>4, <1>5, <1>6, <1>7, <1>8, <1>9, <1>10 DEF LinksInv, FeedMatchesRows

\* A row that retention deletes is one the feed has less, and one more that it had.
LEMMA RowForgotten ==
    ASSUME LinksInv, NEW r \in BagToSet(feed),
           feed' = feed (-) SetToBag({r}), forgotten' = forgotten (+) SetToBag({r})
    PROVE  /\ IsABag(feed') /\ IsABag(forgotten') /\ Deleted' = Deleted
           /\ \A t, w : TimesRecorded(t, w)' = TimesRecorded(t, w)
<1>1. /\ feed \in [DOMAIN feed -> {n \in Nat : n > 0}] /\ r \in DOMAIN feed
      /\ forgotten \in [DOMAIN forgotten -> {n \in Nat : n > 0}]
  BY DEF LinksInv, LinksTyped, LinkTypeOK, IsABag, BagToSet
<1>2. DOMAIN SetToBag({r}) = {r} /\ \A t \in {r} : SetToBag({r})[t] = 1
  BY DEF SetToBag
<1> DEFINE left == {t \in DOMAIN feed : t # r \/ feed[t] > 1}
<1>3. feed' = [t \in left |-> feed[t] - (IF t \in {r} THEN 1 ELSE 0)]
  BY <1>1, <1>2 DEF (-)
<1>4. forgotten' = [t \in DOMAIN forgotten \cup {r} |->
                      (IF t \in DOMAIN forgotten THEN forgotten[t] ELSE 0)
                         + (IF t \in {r} THEN 1 ELSE 0)]
  BY <1>1, <1>2 DEF (+)
<1>5. IsABag(feed')
  <2>2. ASSUME NEW t \in left PROVE feed[t] - (IF t \in {r} THEN 1 ELSE 0) \in {n \in Nat : n > 0}
    <3>1. feed[t] \in Nat /\ feed[t] > 0 /\ (t = r => feed[t] > 1)
      BY <1>1
    <3> QED
      BY <3>1
  <2>1. feed' \in [left -> {n \in Nat : n > 0}] /\ DOMAIN feed' = left
    BY <1>3, <2>2
  <2> QED
    BY <2>1 DEF IsABag
<1>6. IsABag(forgotten')
  <2>1. /\ forgotten' \in [DOMAIN forgotten \cup {r} -> {n \in Nat : n > 0}]
        /\ DOMAIN forgotten' = DOMAIN forgotten \cup {r}
    BY <1>1, <1>4
  <2> QED
    BY <2>1 DEF IsABag
<1>7. DOMAIN feed' \cup DOMAIN forgotten' = DOMAIN feed \cup DOMAIN forgotten
  BY <1>1, <1>3, <1>4
<1>8. ASSUME NEW t
      PROVE  Copies(t, feed') + Copies(t, forgotten') = Copies(t, feed) + Copies(t, forgotten)
  <2> DEFINE n == IF t \in DOMAIN feed THEN feed[t] ELSE 0
             m == IF t \in DOMAIN forgotten THEN forgotten[t] ELSE 0
  <2>3. Copies(t, feed) = n /\ Copies(t, forgotten) = m /\ n \in Nat /\ m \in Nat
    BY <1>1 DEF Copies, BagIn, BagToSet
  <2>1. CASE t = r
    <3>1. n > 0 /\ (t \in left <=> n > 1)
      BY <1>1, <2>1
    <3>2. Copies(t, feed') = n - 1
      <4>1. CASE n > 1
        <5>1. t \in DOMAIN feed' /\ feed'[t] = feed[t] - 1
          BY <1>3, <2>1, <3>1, <4>1
        <5> QED
          BY <1>1, <2>1, <5>1 DEF Copies, BagIn, BagToSet
      <4>2. CASE n = 1
        <5>1. t \notin DOMAIN feed'
          BY <1>3, <3>1, <4>2
        <5> QED
          BY <4>2, <5>1 DEF Copies, BagIn, BagToSet
      <4> QED
        BY <2>3, <3>1, <4>1, <4>2
    <3>3. Copies(t, forgotten') = m + 1
      <4>1. t \in DOMAIN forgotten' /\ forgotten'[t] = m + 1
        BY <1>4, <2>1
      <4> QED
        BY <4>1 DEF Copies, BagIn, BagToSet
    <3> HIDE DEF n, m
    <3> QED
      BY <2>3, <3>2, <3>3
  <2>2. CASE t # r
    <3>1. Copies(t, feed') = n
      <4>1. /\ t \in DOMAIN feed' <=> t \in DOMAIN feed
            /\ t \in DOMAIN feed => feed'[t] = feed[t] - 0
        BY <1>3, <2>2
      <4> QED
        BY <1>1, <4>1 DEF Copies, BagIn, BagToSet
    <3>2. Copies(t, forgotten') = m
      <4>1. /\ t \in DOMAIN forgotten' <=> t \in DOMAIN forgotten
            /\ t \in DOMAIN forgotten => forgotten'[t] = forgotten[t] + 0
        BY <1>4, <2>2
      <4> QED
        BY <1>1, <4>1 DEF Copies, BagIn, BagToSet
    <3> HIDE DEF n, m
    <3> QED
      BY <2>3, <3>1, <3>2
  <2> QED
    BY <2>1, <2>2
<1> QED
  BY <1>5, <1>6, <1>7, <1>8 DEF Deleted, TimesRecorded

LEMMA ForgetActivityKeeps == ASSUME LinksInv, ForgetActivity PROVE LinksInv'
<1>1. PICK r \in BagToSet(feed) : /\ feed' = feed (-) SetToBag({r})
                                  /\ forgotten' = forgotten (+) SetToBag({r})
  BY DEF ForgetActivity
<1>2. /\ linksBegun' = linksBegun + 1 /\ linksBegun < MaxLinkOps
      /\ UNCHANGED <<task, crew, assigned, labels, worn, comments, notes, errand, signals, badge,
                     event, watched, erased, struck>>
  BY DEF ForgetActivity, browsers
<1>3. /\ IsABag(feed') /\ IsABag(forgotten') /\ Deleted' = Deleted
      /\ \A t, w : TimesRecorded(t, w)' = TimesRecorded(t, w)
  BY <1>1, RowForgotten
<1>4. linksBegun' \in 0..MaxLinkOps
  BY <1>2, LinksAssumption, OneMore DEF LinksInv, LinksTyped, LinkTypeOK
<1>5. LinksTyped'
  BY <1>2, <1>3, <1>4 DEF LinksInv, LinksTyped, LinkTypeOK
<1>6. CountsOwed' /\ NotesOwned'
  BY <1>2 DEF LinksInv, CountsOwed, NotesOwned, Unread
<1>7. LabelsFresh' /\ LinksOwed'
  BY <1>2, <1>3 DEF LinksInv, LabelsFresh, LinksOwed, Reached
<1>8. FeedMatchesRows'
  BY <1>2, <1>3 DEF LinksInv, FeedMatchesRows, AssignmentsMatchFeed, LabelDeletionsAuditedOnce
<1> QED
  BY <1>5, <1>6, <1>7, <1>8 DEF LinksInv

\* A stutter of this component.
LEMMA LinksStutter == ASSUME LinksInv, UNCHANGED linkVars PROVE LinksInv'
<1>1. UNCHANGED <<linkRows, browsers, past, errand, linksBegun>>
  BY DEF linkVars, linkRows, browsers, past
<1>2. /\ \A v : Unread(v)' = Unread(v)
      /\ Deleted' = Deleted
      /\ FeedMatchesRows'
  BY <1>1, RowsStay
<1>3. LinksTyped'
  BY <1>1 DEF LinksInv, LinksTyped, LinkTypeOK, linkRows, browsers, past
<1>4. CountsOwed'
  BY <1>1, <1>2 DEF LinksInv, CountsOwed, linkRows, browsers, past
<1>5. NotesOwned'
  BY <1>1 DEF LinksInv, NotesOwned, linkRows
<1>6. LabelsFresh'
  BY <1>1, <1>2 DEF LinksInv, LabelsFresh, linkRows, browsers, past, Reached
<1>7. LinksOwed'
  BY <1>1 DEF LinksInv, LinksOwed, linkRows, browsers, past, Reached
<1> QED
  BY <1>2, <1>3, <1>4, <1>5, <1>6, <1>7 DEF LinksInv

LEMMA LinksNext == ASSUME LinksInv, [LinkNext]_linkVars PROVE LinksInv'
<1>1. CASE UNCHANGED linkVars
  BY <1>1, LinksStutter
<1>2. CASE LinkNext
  <2>1. ASSUME NEW k \in Agents, LinkRequest(k) PROVE LinksInv'
    BY <2>1, RequestsKeep
  <2>2. ASSUME NEW k \in Agents, LinkStep(k) PROVE LinksInv'
    BY <2>2, WriteAssigneeKeeps, DropAssigneeKeeps, WriteLabelKeeps, DropLabelKeeps,
       InsertLabelKeeps, RecordLabelKeeps, FindLabelKeeps, WriteLabelNameKeeps, DeleteLabelKeeps,
       WriteCommentKeeps, DeleteCommentKeeps, FindNoteKeeps, WriteReadKeeps, WriteAllReadKeeps,
       SignalUsersKeeps, AnnounceTaskKeeps
    DEF LinkStep
  <2>3. ASSUME NEW u \in People, Recount(u) \/ LeaveWorkspace(u) \/ EraseAccount(u)
        PROVE  LinksInv'
    BY <2>3, RecountKeeps, LeaveWorkspaceKeeps, EraseAccountKeeps
  <2> QED
    BY <1>2, <2>1, <2>2, <2>3, ReadAgainKeeps, RemoveTaskKeeps, ForgetActivityKeeps DEF LinkNext
<1> QED
  BY <1>1, <1>2

\* The inductive invariant of what hangs on a task holds throughout.
LEMMA LinksInvariant == LinkSpec => []LinksInv
<1>1. LinkInit => LinksInv
  BY LinksInit
<1>2. LinksInv /\ [LinkNext]_linkVars => LinksInv'
  BY LinksNext
<1> QED
  BY <1>1, <1>2, PTL DEF LinkSpec

\* With nothing in flight, whatever the invariant says is owed has been paid.
LEMMA SettledLinks ==
    ASSUME LinksInv PROVE BadgesCatchUp /\ LinksCatchUp /\ FeedMatchesRows /\ LinkTypeOK
<1>1. NothingInFlight =>
         \A k \in Agents : errand[k].at = "idle" /\ errand[k].op = "none"
  BY NoErrandTyped DEF NothingInFlight
<1>2. BadgesCatchUp
  BY <1>1 DEF LinksInv, CountsOwed, BadgesCatchUp
<1>3. LinksCatchUp
  BY <1>1 DEF LinksInv, LinksOwed, LinksCatchUp, Reached
<1> QED
  BY <1>2, <1>3 DEF LinksInv, LinksTyped

\* Every change of a task's assignees and labels is announced to the watchers after its commit.
THEOREM LinksAreAnnounced == LinkSpec => []LinksCatchUp
<1>1. LinksInv => LinksCatchUp
  BY SettledLinks
<1> QED
  BY <1>1, LinksInvariant, PTL

\* Every transaction that inserts or reads notifications signals the users whose count it changed.
THEOREM CountsAreSignalled == LinkSpec => []BadgesCatchUp
<1>1. LinksInv => BadgesCatchUp
  BY SettledLinks
<1> QED
  BY <1>1, LinksInvariant, PTL

(***************************************************************************)
(* TaskAssigneeService and LabelService: what was ever recorded of a user's *)
(* assignments accounts for the row, but for those that the erasure of an   *)
(* account deletes without recording it; and a label is deleted once, for   *)
(* any number of requests and whatever retention has deleted since.         *)
(***************************************************************************)
THEOREM FeedStaysTrue == LinkSpec => []FeedMatchesRows
<1>1. LinksInv => FeedMatchesRows
  BY SettledLinks
<1> QED
  BY <1>1, LinksInvariant, PTL

-----------------------------------------------------------------------------
(* Columns: the inductive invariant *)

EditRecords ==
    [op : ColumnOpNames \cup {"none"}, col : ColumnIds \cup {NoRow}, prev : ColumnIds \cup {NoRow},
     next : ColumnIds \cup {NoRow}, at : ColumnSteps,
     list : UNION {[S -> Int] : S \in SUBSET ColumnIds}]

ColumnsTyped ==
    /\ ColumnTypeOK
    /\ place \in [DOMAIN place -> Int]
    /\ edit \in [Editors -> EditRecords]
    /\ held \in [Editors -> SUBSET (ColumnIds \cup {BoardRow})]
    /\ want \in [Editors -> SUBSET (ColumnIds \cup {BoardRow})]

\* The requests that place columns, or take all of them.
Spacers == {"create", "move", "defaults", "drop"}

\* Which requests are at which statement, and the columns they are about.
StepOf(k) ==
    LET e == edit[k]
    IN  /\ e.at = "read" => e.op \in {"create", "move"}
        /\ e.at = "own" => e.op = "move"
        /\ e.at = "seed" => e.op = "defaults"
        /\ e.at = "insert" => e.op = "task"
        /\ e.at = "record" => e.op = "create" /\ e.col \in ColumnIds
        /\ e.op = "create" /\ e.at # "record" => e.col = NoRow
        /\ e.op \in {"move", "update", "remove", "task"} => e.col \in spent
        /\ e.op = "none" => held[k] = {} /\ want[k] = {}

\* While a board is being founded there is nothing else.
Founding ==
    \A k \in Editors : edit[k].op = "found" =>
        ~board /\ spent = {} /\ \A m \in Editors \ {k} : edit[m] = NoEdit

\* What is locked is there, and nobody else's; only tasks share the board, with each other and
\* with an update of its name.
LocksHeld ==
    /\ \A k \in Editors : held[k] \subseteq DOMAIN place \cup {BoardRow}
    /\ \A k \in Editors : BoardRow \in held[k] => board
    /\ \A k, m \in Editors : \A r \in held[k] \cap held[m] :
          k # m => r = BoardRow /\ {edit[k].op, edit[m].op} \subseteq {"task", "rename"}

\* The list a request read: the other columns there still are, as they are.
ListRead(k) ==
    LET e == edit[k]
    IN  /\ DOMAIN e.list \subseteq spent \ {e.col} /\ Strict(e.list)
        /\ ~NeighborNotFound(e.list, e.prev, e.next)
        /\ \A c \in DOMAIN place \ {e.col} : c \in DOMAIN e.list /\ e.list[c] = place[c]

\* A request that read the list holds the board, and will hold every column it moves aside.
BoardHeld(k) ==
    LET e == edit[k]
    IN  /\ e.op \in Spacers /\ e.at \in {"read", "seed", "count"} =>
              ~board \/ BoardRow \in held[k] \cup want[k]
        /\ e.op \in {"create", "move"} /\ e.at \in {"own", "write"} =>
              (~board \/ BoardRow \in held[k]) /\ ListRead(k)
        /\ e.op \in {"create", "move"} /\ e.at = "write" =>
              Respread(e, e.list) \cap DOMAIN place \subseteq held[k] \cup want[k]
        /\ e.op = "move" /\ e.at = "write" => e.col \in held[k]
        /\ e.op = "remove" /\ e.at = "delete" /\ e.col \in DOMAIN place => e.col \in held[k] \cup want[k]
        /\ e.op = "drop" /\ e.at = "delete" =>
              BoardRow \in held[k] /\ DOMAIN place \subseteq held[k] \cup want[k]

ColumnsInv ==
    /\ ColumnsTyped
    /\ \A k \in Editors : StepOf(k)
    /\ Founding
    /\ LocksHeld
    /\ \A k \in Editors : BoardHeld(k)
    /\ ColumnsDistinct

-----------------------------------------------------------------------------
(* Columns: what a step of one request leaves of the others' *)

LockableRows == ColumnIds \cup {BoardRow}

\* Client k's request goes on as `e', with the rows h locked and the rows w to lock.
EditMoves(k, e, h, w) ==
    /\ e \in EditRecords /\ h \subseteq LockableRows /\ w \subseteq LockableRows
    /\ edit' = [edit EXCEPT ![k] = e]
    /\ held' = [held EXCEPT ![k] = h]
    /\ want' = [want EXCEPT ![k] = w]

RowsTyped ==
    /\ board \in BOOLEAN
    /\ place \in [DOMAIN place -> Int] /\ DOMAIN place \subseteq spent
    /\ ~board => place = EmptyList
    /\ spent \subseteq ColumnIds /\ occupied \subseteq DOMAIN place
    /\ trail \subseteq {"created", "updated", "deleted"} \X LockableRows
    /\ editsBegun \in 0..MaxColumnOps

\* The Board row is none of the columns, and no column has the id that is left out.
LEMMA BoardIsNoColumn == BoardRow \notin ColumnIds /\ NoRow \notin ColumnIds /\ NoRow # BoardRow
  BY ColumnAssumption DEF BoardRow, NoRow

LEMMA NoEditTyped ==
    /\ NoEdit \in EditRecords
    /\ NoEdit.op = "none" /\ NoEdit.at = "idle" /\ NoEdit.col = NoRow
<1>1. EmptyList \in [{} -> Int] /\ {} \in SUBSET ColumnIds
  BY DEF EmptyList
<1> QED
  BY <1>1 DEF NoEdit, EditRecords, ColumnSteps

\* A step of one request leaves the other requests where they are.
LEMMA OthersStay ==
    ASSUME ColumnsInv, NEW k \in Editors, NEW e, NEW h, NEW w, EditMoves(k, e, h, w)
    PROVE  /\ edit' \in [Editors -> EditRecords]
           /\ held' \in [Editors -> SUBSET LockableRows]
           /\ want' \in [Editors -> SUBSET LockableRows]
           /\ edit'[k] = e /\ held'[k] = h /\ want'[k] = w
           /\ \A m \in Editors \ {k} :
                 edit'[m] = edit[m] /\ held'[m] = held[m] /\ want'[m] = want[m]
  BY DEF ColumnsInv, ColumnsTyped, EditMoves, LockableRows

LEMMA RowsAreTyped == ASSUME ColumnsInv PROVE RowsTyped
  BY DEF ColumnsInv, ColumnsTyped, ColumnTypeOK, RowsTyped, LockableRows

LEMMA ColumnTypes ==
    ASSUME ColumnsInv, NEW k \in Editors, NEW e, NEW h, NEW w, EditMoves(k, e, h, w), RowsTyped'
    PROVE  ColumnsTyped'
<1>1. /\ edit' \in [Editors -> EditRecords]
      /\ held' \in [Editors -> SUBSET LockableRows]
      /\ want' \in [Editors -> SUBSET LockableRows]
  BY OthersStay
<1>2. \A m \in Editors : /\ edit'[m].op \in ColumnOpNames \cup {"none"}
                         /\ edit'[m].at \in ColumnSteps
                         /\ {edit'[m].col, edit'[m].prev, edit'[m].next} \subseteq ColumnIds \cup {NoRow}
                         /\ DOMAIN edit'[m].list \subseteq ColumnIds
  BY <1>1 DEF EditRecords
<1>3. place' \in [DOMAIN place' -> Int] /\ \A c \in DOMAIN place' : place'[c] \in Int
  BY DEF RowsTyped
<1>4. ColumnTypeOK'
  BY <1>1, <1>2, <1>3 DEF ColumnTypeOK, RowsTyped, LockableRows
<1> QED
  BY <1>1, <1>3, <1>4 DEF ColumnsTyped, LockableRows

\* Columns go or stay, but none of those another request has locked.
ColumnsOnlyGo(k) ==
    /\ board' => board
    /\ DOMAIN place' \subseteq DOMAIN place /\ \A c \in DOMAIN place' : place'[c] = place[c]
    /\ spent' = spent
    /\ \A m \in Editors \ {k} : /\ held[m] \subseteq DOMAIN place' \cup {BoardRow}
                                /\ BoardRow \in held[m] => board'

\* Columns come or change their positions, in a transaction that has locked the board.
ColumnsPlaced(k) ==
    /\ board /\ board' /\ BoardRow \in held[k] /\ edit[k].op \in {"create", "move", "defaults"}
    /\ DOMAIN place \subseteq DOMAIN place' /\ DOMAIN place' \cap spent \subseteq DOMAIN place
    /\ spent \subseteq spent'

LEMMA OthersKeepTheirs ==
    ASSUME ColumnsInv, NEW k \in Editors, NEW e, NEW h, NEW w, EditMoves(k, e, h, w),
           ColumnsOnlyGo(k) \/ ColumnsPlaced(k), NEW m \in Editors \ {k}
    PROVE  /\ StepOf(m)' /\ BoardHeld(m)'
           /\ held'[m] \subseteq DOMAIN place' \cup {BoardRow}
           /\ BoardRow \in held'[m] => board'
<1>1. edit'[m] = edit[m] /\ held'[m] = held[m] /\ want'[m] = want[m]
  BY OthersStay
<1>2. /\ StepOf(m) /\ BoardHeld(m)
      /\ held[m] \subseteq DOMAIN place \cup {BoardRow}
      /\ BoardRow \in held[m] => board
  BY DEF ColumnsInv, LocksHeld
<1>3. CASE ColumnsOnlyGo(k)
  <2>1. StepOf(m)'
    BY <1>1, <1>2, <1>3 DEF StepOf, ColumnsOnlyGo
  <2>2. ListRead(m) => ListRead(m)'
    BY <1>1, <1>3 DEF ListRead, ColumnsOnlyGo
  <2>3. BoardHeld(m)'
    BY <1>1, <1>2, <1>3, <2>2 DEF BoardHeld, ColumnsOnlyGo
  <2> QED
    BY <1>1, <1>3, <2>1, <2>3 DEF ColumnsOnlyGo
<1>4. CASE ColumnsPlaced(k)
  <2>1. StepOf(m)'
    BY <1>1, <1>2, <1>4 DEF StepOf, ColumnsPlaced
  <2>2. BoardRow \notin held[m]
    BY <1>4 DEF ColumnsPlaced, ColumnsInv, LocksHeld
  <2>3. /\ ~(edit[m].op \in {"create", "move"} /\ edit[m].at \in {"own", "write"})
        /\ ~(edit[m].op = "drop" /\ edit[m].at = "delete")
    BY <1>2, <1>4, <2>2 DEF BoardHeld, ColumnsPlaced
  <2>4. edit[m].op = "remove" /\ edit[m].col \in DOMAIN place' => edit[m].col \in DOMAIN place
    BY <1>2, <1>4 DEF StepOf, ColumnsPlaced
  <2>5. BoardHeld(m)'
    BY <1>1, <1>2, <1>4, <2>3, <2>4 DEF BoardHeld, ColumnsPlaced
  <2> QED
    BY <1>1, <1>2, <1>4, <2>1, <2>5 DEF ColumnsPlaced
<1> QED
  BY <1>3, <1>4

\* Once a request goes on, nothing else can be founding the board.
LEMMA FoundingKeeps ==
    ASSUME ColumnsInv, NEW k \in Editors, NEW e, NEW h, NEW w, EditMoves(k, e, h, w),
           edit[k] # NoEdit,
           e.op = "found" => edit[k].op = "found" /\ UNCHANGED <<board, spent>>
    PROVE  Founding'
<1>1. /\ edit'[k] = e
      /\ \A m \in Editors \ {k} : edit'[m] = edit[m]
  BY OthersStay
<1>2. \A m \in Editors \ {k} : edit[m].op # "found"
  BY DEF ColumnsInv, Founding
<1> QED
  BY <1>1, <1>2 DEF ColumnsInv, Founding

\* The step of a request that goes on: what is left to show is the request's own part.
LEMMA RequestKeeps ==
    ASSUME ColumnsInv, NEW k \in Editors, NEW e, NEW h, NEW w, EditMoves(k, e, h, w),
           ColumnsOnlyGo(k) \/ ColumnsPlaced(k), RowsTyped', Founding', ColumnsDistinct',
           h = {} \/ e.op = edit[k].op,
           h \subseteq DOMAIN place' \cup {BoardRow}, BoardRow \in h => board',
           \A m \in Editors \ {k} : \A r \in h \cap held[m] :
               r = BoardRow /\ {edit[k].op, edit[m].op} \subseteq {"task", "rename"},
           StepOf(k)', BoardHeld(k)'
    PROVE  ColumnsInv'
<1>1. ColumnsTyped'
  BY ColumnTypes
<1>2. /\ edit'[k] = e /\ held'[k] = h
      /\ \A m \in Editors \ {k} : edit'[m] = edit[m] /\ held'[m] = held[m]
  BY OthersStay
<1>3. \A m \in Editors \ {k} : /\ StepOf(m)' /\ BoardHeld(m)'
                               /\ held'[m] \subseteq DOMAIN place' \cup {BoardRow}
                               /\ BoardRow \in held'[m] => board'
  BY OthersKeepTheirs
<1>4. LocksHeld'
  <2>1. \A m \in Editors : held'[m] \subseteq DOMAIN place' \cup {BoardRow}
    BY <1>2, <1>3
  <2>2. \A m \in Editors : BoardRow \in held'[m] => board'
    BY <1>2, <1>3
  <2>3. ASSUME NEW m \in Editors, NEW n \in Editors, NEW r \in held'[m] \cap held'[n], m # n
        PROVE  r = BoardRow /\ {edit'[m].op, edit'[n].op} \subseteq {"task", "rename"}
    <3>1. CASE m = k
      BY <1>2, <2>3, <3>1
    <3>2. CASE n = k
      BY <1>2, <2>3, <3>2
    <3>3. CASE m # k /\ n # k
      BY <1>2, <2>3, <3>3 DEF ColumnsInv, LocksHeld
    <3> QED
      BY <3>1, <3>2, <3>3
  <2> QED
    BY <2>1, <2>2, <2>3 DEF LocksHeld
<1>5. \A m \in Editors : StepOf(m)'
  BY <1>3
<1>6. \A m \in Editors : BoardHeld(m)'
  BY <1>3
<1> QED
  BY <1>1, <1>4, <1>5, <1>6 DEF ColumnsInv

-----------------------------------------------------------------------------
(* Columns: requests that arrive, lock, go on and are over *)

\* A step that leaves the rows as they are.
LEMMA RowsAsTheyAre ==
    ASSUME ColumnsInv, NEW k \in Editors, UNCHANGED <<board, place, spent>>
    PROVE  ColumnsOnlyGo(k) /\ ColumnsDistinct'
  BY DEF ColumnsInv, ColumnsOnlyGo, ColumnsDistinct, LocksHeld

LEMMA OverKeeps ==
    ASSUME ColumnsInv, NEW k \in Editors, edit[k] # NoEdit, Finish(k, NoEdit),
           ColumnsOnlyGo(k) \/ ColumnsPlaced(k), ColumnsDistinct',
           RowsTyped'
    PROVE  ColumnsInv'
<1>1. EditMoves(k, NoEdit, {}, {})
  BY NoEditTyped DEF Finish, EditMoves
<1>3. edit'[k] = NoEdit /\ held'[k] = {} /\ want'[k] = {}
  BY <1>1, OthersStay
<1>4. Founding'
  BY <1>1, NoEditTyped, FoundingKeeps
<1>5. StepOf(k)'
  BY <1>3, NoEditTyped DEF StepOf
<1>6. BoardHeld(k)'
  BY <1>3, NoEditTyped DEF BoardHeld, Spacers
<1> QED
  BY <1>1, <1>4, <1>5, <1>6, RequestKeeps

LEMMA RollBackKeeps == ASSUME ColumnsInv, NEW k \in Editors, RollBack(k) PROVE ColumnsInv'
<1>1. Finish(k, NoEdit) /\ UNCHANGED <<board, place, spent, occupied, trail>>
  BY DEF RollBack, columnRows
<1>2. RowsTyped'
  BY <1>1, RowsAreTyped DEF RowsTyped, Finish
<1>3. ColumnsOnlyGo(k) /\ ColumnsDistinct'
  BY <1>1, RowsAsTheyAre
<1>4. CASE edit[k] # NoEdit
  BY <1>1, <1>2, <1>3, <1>4, OverKeeps
<1>5. CASE edit[k] = NoEdit
  <2>1. EditMoves(k, NoEdit, {}, {}) /\ editsBegun' = editsBegun
    BY <1>1, NoEditTyped DEF Finish, EditMoves
  <2>2. /\ edit'[k] = NoEdit /\ held'[k] = {} /\ want'[k] = {}
        /\ \A m \in Editors \ {k} : edit'[m] = edit[m]
    BY <2>1, OthersStay
  <2>3. Founding'
    BY <1>1, <2>2, NoEditTyped DEF ColumnsInv, Founding
  <2>4. StepOf(k)'
    BY <2>2, NoEditTyped DEF StepOf
  <2>5. BoardHeld(k)'
    BY <2>2, NoEditTyped DEF BoardHeld, Spacers
  <2> QED
    BY <1>2, <1>3, <2>1, <2>3, <2>4, <2>5, RequestKeeps
<1> QED
  BY <1>4, <1>5

\* A transaction that goes on with another statement.
LEMMA GoOnKeeps ==
    ASSUME ColumnsInv, NEW k \in Editors, edit[k] # NoEdit, NEW step \in ColumnSteps,
           NEW siblings \in UNION {[S -> Int] : S \in SUBSET ColumnIds},
           NEW R \in SUBSET LockableRows, GoOn(k, step, siblings, R),
           LET e == [op |-> edit[k].op, col |-> edit[k].col, prev |-> edit[k].prev,
                     next |-> edit[k].next, at |-> step, list |-> siblings]
           IN  edit'[k] = e /\ held'[k] = held[k] /\ want'[k] = R
                  /\ UNCHANGED <<board, place, spent>> => StepOf(k)' /\ BoardHeld(k)'
    PROVE  ColumnsInv'
<1> DEFINE e == [op |-> edit[k].op, col |-> edit[k].col, prev |-> edit[k].prev,
                 next |-> edit[k].next, at |-> step, list |-> siblings]
<1>1. edit[k] \in EditRecords /\ edit \in [Editors -> EditRecords]
  BY DEF ColumnsInv, ColumnsTyped
<1>2. e \in EditRecords
  BY <1>1 DEF EditRecords
<1>3. [edit[k] EXCEPT !.at = step, !.list = siblings] = e
  <2> DEFINE f == [edit[k] EXCEPT !.at = step, !.list = siblings]
  <2>1. f \in EditRecords
    BY <1>1 DEF EditRecords
  <2>2. /\ f.op = edit[k].op /\ f.col = edit[k].col /\ f.prev = edit[k].prev
        /\ f.next = edit[k].next /\ f.at = step /\ f.list = siblings
    BY <1>1 DEF EditRecords
  <2>3. /\ e.op = edit[k].op /\ e.col = edit[k].col /\ e.prev = edit[k].prev
        /\ e.next = edit[k].next /\ e.at = step /\ e.list = siblings
    OBVIOUS
  <2>4. \A a, b \in EditRecords :
           /\ a.op = b.op /\ a.col = b.col /\ a.prev = b.prev
           /\ a.next = b.next /\ a.at = b.at /\ a.list = b.list
           => a = b
    BY DEF EditRecords
  <2> HIDE DEF e, f
  <2>5. f = e
    BY <1>2, <2>1, <2>2, <2>3, <2>4
  <2> QED
    BY <2>5 DEF f
<1>4. edit' = [edit EXCEPT ![k] = [edit[k] EXCEPT !.at = step, !.list = siblings]]
  BY <1>1 DEF GoOn, EditRecords
<1>5. held[k] \subseteq LockableRows /\ held' = [held EXCEPT ![k] = held[k]]
  BY DEF GoOn, ColumnsInv, ColumnsTyped, LockableRows
<1>6. /\ want' = [want EXCEPT ![k] = R]
      /\ UNCHANGED <<board, place, spent, occupied, trail, editsBegun>>
  BY DEF GoOn, columnRows
<1>7. EditMoves(k, e, held[k], R)
  <2> HIDE DEF e
  <2> QED
    BY <1>2, <1>3, <1>4, <1>5, <1>6 DEF EditMoves
<1>8. edit'[k] = e /\ held'[k] = held[k] /\ want'[k] = R
  <2> HIDE DEF e
  <2> QED
    BY <1>7, OthersStay
<1>9. StepOf(k)' /\ BoardHeld(k)'
  BY <1>6, <1>8
<1>10. e.op = edit[k].op
  OBVIOUS
<1> HIDE DEF e
<1>11. Founding'
  BY <1>6, <1>7, <1>10, FoundingKeeps
<1>12. RowsTyped'
  BY <1>6, RowsAreTyped DEF RowsTyped
<1>13. /\ held[k] \subseteq DOMAIN place' \cup {BoardRow}
       /\ BoardRow \in held[k] => board'
       /\ \A m \in Editors \ {k} : \A r \in held[k] \cap held[m] :
             r = BoardRow /\ {edit[k].op, edit[m].op} \subseteq {"task", "rename"}
  BY <1>6 DEF ColumnsInv, LocksHeld
<1> QED
  BY <1>6, <1>7, <1>9, <1>10, <1>11, <1>12, <1>13, RowsAsTheyAre, RequestKeeps

LEMMA LockRowKeeps == ASSUME ColumnsInv, NEW k \in Editors, LockRow(k) PROVE ColumnsInv'
<1>1. PICK r \in want[k] :
        /\ There(r) => LockedBy(k, r) = {}
        /\ want' = [want EXCEPT ![k] = want[k] \ {r}]
        /\ held' = [held EXCEPT ![k] = IF There(r) THEN held[k] \cup {r} ELSE held[k]]
        /\ UNCHANGED <<board, place, spent, occupied, trail, edit, editsBegun>>
  BY DEF LockRow, columnRows
<1> DEFINE h == IF There(r) THEN held[k] \cup {r} ELSE held[k]
           w == want[k] \ {r}
<1>2. /\ edit[k] \in EditRecords /\ edit' = [edit EXCEPT ![k] = edit[k]]
      /\ held[k] \subseteq LockableRows /\ want[k] \subseteq LockableRows
  BY <1>1 DEF ColumnsInv, ColumnsTyped, LockableRows
<1>3. EditMoves(k, edit[k], h, w)
  BY <1>1, <1>2 DEF EditMoves
<1>4. /\ held[k] \subseteq h /\ h \subseteq held[k] \cup {r}
      /\ r \in h \ held[k] => There(r)
      /\ There(r) => want[k] \subseteq h \cup w
      /\ want[k] \ {r} \subseteq w
  OBVIOUS
<1> HIDE DEF h, w
<1>5. edit'[k] = edit[k] /\ held'[k] = h /\ want'[k] = w
  BY <1>3, OthersStay
<1>6. ColumnsOnlyGo(k) /\ ColumnsDistinct'
  BY <1>1, RowsAsTheyAre
<1>7. RowsTyped'
  BY <1>1, RowsAreTyped DEF RowsTyped
<1>8. edit[k].op # "none"
  BY DEF ColumnsInv, StepOf
<1>9. Founding'
  <2>1. edit[k] # NoEdit
    BY <1>8, NoEditTyped
  <2> QED
    BY <1>1, <1>3, <2>1, FoundingKeeps
<1>10. There(r) => (r = BoardRow /\ board) \/ r \in DOMAIN place
  BY DEF There
<1>11. r \in DOMAIN place => There(r)
  BY BoardIsNoColumn DEF There, ColumnsInv, ColumnsTyped, ColumnTypeOK
<1>12. h \subseteq DOMAIN place' \cup {BoardRow} /\ (BoardRow \in h => board')
  <2>1. BoardRow \notin DOMAIN place
    BY BoardIsNoColumn DEF ColumnsInv, ColumnsTyped, ColumnTypeOK
  <2> QED
    BY <1>1, <1>4, <1>10, <2>1 DEF ColumnsInv, LocksHeld
<1>13. ASSUME NEW m \in Editors \ {k}, NEW s \in h \cap held[m]
       PROVE  s = BoardRow /\ {edit[k].op, edit[m].op} \subseteq {"task", "rename"}
  <2>1. CASE s \in held[k]
    BY <1>13, <2>1 DEF ColumnsInv, LocksHeld
  <2>2. CASE s \notin held[k]
    <3>1. s = r /\ There(r)
      BY <1>4, <1>13, <2>2
    <3>2. m \notin LockedBy(k, r)
      BY <1>1, <3>1
    <3> QED
      BY <1>13, <3>1, <3>2 DEF LockedBy
  <2> QED
    BY <2>1, <2>2
<1>14. StepOf(k)'
  BY <1>1, <1>5, <1>8 DEF ColumnsInv, StepOf
<1>15. BoardHeld(k)'
  <2>1. board => There(BoardRow)
    BY DEF There
  <2>2. ListRead(k) => ListRead(k)'
    BY <1>1, <1>5 DEF ListRead
  <2>3. board /\ BoardRow \in held[k] \cup want[k] => BoardRow \in h \cup w
    BY <1>4, <2>1
  <2>4. \A S : S \cap DOMAIN place \subseteq held[k] \cup want[k] => S \cap DOMAIN place \subseteq h \cup w
    BY <1>4, <1>11
  <2>5. DOMAIN place \subseteq held[k] \cup want[k] => DOMAIN place \subseteq h \cup w
    BY <1>4, <1>11
  <2>6. edit[k].col \in DOMAIN place /\ edit[k].col \in held[k] \cup want[k] => edit[k].col \in h \cup w
    BY <1>4, <1>11
  <2>7. BoardHeld(k)
    BY DEF ColumnsInv
  <2>8. /\ edit[k].op \in Spacers /\ edit[k].at \in {"read", "seed", "count"} =>
              ~board \/ BoardRow \in h \cup w
        /\ edit[k].op \in {"create", "move"} /\ edit[k].at \in {"own", "write"} =>
              (~board \/ BoardRow \in h) /\ ListRead(k)'
    BY <1>4, <2>2, <2>3, <2>7 DEF BoardHeld
  <2>9. /\ edit[k].op \in {"create", "move"} /\ edit[k].at = "write" =>
              Respread(edit[k], edit[k].list) \cap DOMAIN place \subseteq h \cup w
        /\ edit[k].op = "move" /\ edit[k].at = "write" => edit[k].col \in h
    BY <1>4, <2>4, <2>7 DEF BoardHeld
  <2>10. /\ edit[k].op = "remove" /\ edit[k].at = "delete" /\ edit[k].col \in DOMAIN place =>
               edit[k].col \in h \cup w
         /\ edit[k].op = "drop" /\ edit[k].at = "delete" =>
               BoardRow \in h /\ DOMAIN place \subseteq h \cup w
    BY <1>4, <2>5, <2>6, <2>7 DEF BoardHeld
  <2> QED
    BY <1>1, <1>5, <2>8, <2>9, <2>10 DEF BoardHeld
<1> QED
  BY <1>3, <1>6, <1>7, <1>9, <1>12, <1>13, <1>14, <1>15, RequestKeeps

-----------------------------------------------------------------------------
(* Columns: positions that are given out *)

\* The row a request names in front is ahead of its slot, the one it names behind is not.
LEMMA NamedNeighbours ==
    ASSUME NEW siblings, IsList(siblings), NEW p, NEW n, ~NeighborNotFound(siblings, p, n)
    PROVE  /\ p # NoRow => p \in AheadOf(siblings, p, n)
           /\ n # NoRow => n \in DOMAIN siblings \ AheadOf(siblings, p, n)
<1> DEFINE later == {a \in DOMAIN siblings : Before(siblings, p, a)}
<1>1. ASSUME p # NoRow PROVE p \in AheadOf(siblings, p, n)
  <2>1. p \in DOMAIN siblings
    BY <1>1 DEF NeighborNotFound
  <2> QED
    BY <1>1, <2>1, BeforeIsTotal DEF AheadOf
<1>2. ASSUME n # NoRow PROVE n \in DOMAIN siblings \ AheadOf(siblings, p, n)
  <2>1. n \in DOMAIN siblings
    BY <1>2 DEF NeighborNotFound
  <2>2. CASE p = NoRow
    BY <1>2, <2>1, <2>2, BeforeIsTotal DEF AheadOf
  <2>3. CASE p # NoRow
    <3>1. n = FirstOf(siblings, later)
      BY <1>2, <2>3 DEF NeighborNotFound
    <3>2. later # {} /\ later \in SUBSET (DOMAIN siblings)
      BY <1>2, <3>1 DEF FirstOf
    <3>3. n \in later
      <4> HIDE DEF later
      <4> QED
        BY <3>1, <3>2, EndsExist
    <3> QED
      BY <2>1, <2>3, <3>3 DEF AheadOf
  <2> QED
    BY <2>2, <2>3
<1> QED
  BY <1>1, <1>2

\* Columns that are seeded stand a gap apart, in the order of their ids.
LEMMA SeededApart ==
    ASSUME ColumnsInv
    PROVE  /\ DOMAIN Seeded = Fresh(Stages) /\ Fresh(Stages) \subseteq ColumnIds \ spent
           /\ Seeded \in [DOMAIN Seeded -> Int]
           /\ \A c, d \in DOMAIN Seeded : c # d => Seeded[c] # Seeded[d]
<1> DEFINE F == Fresh(Stages)
           upTo(c) == {d \in F : d =< c}
<1>1. F \subseteq ColumnIds \ spent
  BY DEF Fresh
<1>2. IsFiniteSet(F) /\ F \subseteq Nat
  BY <1>1, ColumnAssumption, FS_Subset
<1>3. Seeded = [c \in F |-> Gap * Cardinality(upTo(c))]
  BY DEF Seeded
<1> HIDE DEF F
<1>4. \A c \in F : IsFiniteSet(upTo(c)) /\ Cardinality(upTo(c)) \in Nat
  <2>1. ASSUME NEW c \in F PROVE IsFiniteSet(upTo(c)) /\ Cardinality(upTo(c)) \in Nat
    <3>1. upTo(c) \in SUBSET F
      OBVIOUS
    <3> HIDE DEF upTo
    <3> QED
      BY <1>2, <3>1, FS_Subset, FS_CardinalityType
  <2> QED
    BY <2>1
<1>5. ASSUME NEW c \in F, NEW d \in F, c < d
      PROVE  Cardinality(upTo(c)) < Cardinality(upTo(d))
  <2>0. c \in Nat /\ d \in Nat /\ \A x \in F : x \in Nat /\ (x =< c => x =< d)
    BY <1>2, <1>5
  <2>1. upTo(c) \in SUBSET upTo(d)
    BY <2>0
  <2>2. d \in upTo(d) /\ d \notin upTo(c)
    BY <1>2, <1>5
  <2> HIDE DEF upTo
  <2>3. Cardinality(upTo(c)) <= Cardinality(upTo(d)) /\ Cardinality(upTo(c)) # Cardinality(upTo(d))
    BY <1>4, <2>1, <2>2, FS_Subset
  <2> QED
    BY <1>4, <2>3
<1> DEFINE n(c) == Cardinality(upTo(c))
<1>6. \A c \in F : n(c) \in Nat
  BY <1>4
<1>7. \A c, d \in F : c < d => n(c) < n(d)
  BY <1>5
<1>8. Seeded = [c \in F |-> Gap * n(c)]
  BY <1>3
<1> HIDE DEF n, upTo
<1>9. \A x, y \in Nat : x < y => Gap * x < Gap * y
  BY GapAssumption
<1>10. \A c \in F : Gap * n(c) \in Int
  BY <1>6, GapAssumption
<1>11. \A c, d \in F : c < d => Gap * n(c) < Gap * n(d)
  BY <1>6, <1>7, <1>9
<1>12. \A c, d \in F : c # d => c < d \/ d < c
  BY <1>2
<1>13. \A c, d \in F : c # d => Seeded[c] # Seeded[d]
  BY <1>8, <1>10, <1>11, <1>12
<1> QED
  BY <1>1, <1>8, <1>10, <1>13 DEF F

\* The step that gives column c the slot its request names.
Lands(k, c) ==
    /\ edit[k].prev \in DOMAIN place => place'[edit[k].prev] < place'[c]
    /\ edit[k].next \in DOMAIN place => place'[c] < place'[edit[k].next]

\* A slot is taken: no position is given out twice, and the column lands where it was to.
LEMMA SlotGiven ==
    ASSUME ColumnsInv, NEW k \in Editors, edit[k].op \in {"create", "move"}, Ready(k, "write"),
           NEW c, edit[k].col = c \/ (edit[k].col = NoRow /\ c \notin spent), c \in ColumnIds,
           place' = Inserted(k, c)
    PROVE  /\ DOMAIN place' = DOMAIN place \cup {c} /\ place' \in [DOMAIN place' -> Int]
           /\ ColumnsDistinct'
           /\ Lands(k, c)
<1> DEFINE siblings == edit[k].list
           p == edit[k].prev
           n == edit[k].next
           ahead == AheadOf(siblings, p, n)
           others == DOMAIN place \ {c}
           own == OwnPosition(siblings, ahead)
           at(d) == OtherPosition(siblings, ahead, d)
<1>1. edit[k] \in EditRecords /\ edit[k].at = "write" /\ want[k] = {} /\ BoardHeld(k)
  BY DEF Ready, ColumnsInv, ColumnsTyped
<1>2. ListRead(k) /\ Respread(edit[k], siblings) \cap DOMAIN place \subseteq held[k]
  BY <1>1 DEF BoardHeld
<1>3. IsList(siblings) /\ Strict(siblings) /\ ~NeighborNotFound(siblings, p, n)
  <2>1. siblings \in [DOMAIN siblings -> Int] /\ DOMAIN siblings \in SUBSET ColumnIds
    BY <1>1 DEF EditRecords
  <2>2. IsFiniteSet(DOMAIN siblings)
    BY <2>1, ColumnAssumption, FS_Subset
  <2> QED
    BY <1>2, <2>1, <2>2, ColumnAssumption DEF IsList, ListRead
<1>4. NoRow \notin DOMAIN place /\ DOMAIN place \subseteq spent /\ c # NoRow
  BY BoardIsNoColumn DEF ColumnsInv, ColumnsTyped, ColumnTypeOK
<1>5. \A d \in others : d \in DOMAIN siblings /\ siblings[d] = place[d]
  BY <1>2, <1>4 DEF ListRead
<1>6. c \notin DOMAIN siblings
  BY <1>2 DEF ListRead
<1>7. /\ own \in Int
      /\ \A a \in DOMAIN siblings : at(a) \in Int
      /\ \A a, b \in DOMAIN siblings : siblings[a] < siblings[b] => at(a) < at(b)
      /\ \A a \in ahead : at(a) < own
      /\ \A a \in DOMAIN siblings \ ahead : own < at(a)
  <2>1. IsSlot(siblings, ahead)
    BY <1>3, RequestedSlot
  <2> HIDE DEF siblings, ahead
  <2> QED
    BY <1>3, <2>1, SlotTaken
<1>8. place' = [d \in DOMAIN place \cup {c} |->
                   IF d = c THEN own ELSE IF d \in held[k] THEN at(d) ELSE place[d]]
  BY DEF Inserted, Slot
<1>9. \A d \in others : d \notin held[k] => at(d) = place[d]
  <2>1. ASSUME NEW d \in others, d \notin held[k] PROVE at(d) = place[d]
    <3>1. d \in DOMAIN siblings /\ siblings[d] = place[d] /\ d \in DOMAIN place
      BY <1>5, <2>1
    <3>2. Respread(edit[k], siblings) # DOMAIN siblings
      BY <1>2, <2>1, <3>1
    <3>3. ~MustSpread(siblings, ahead)
      BY <3>2 DEF Respread
    <3> QED
      BY <3>1, <3>3 DEF OtherPosition
  <2> QED
    BY <2>1
<1> HIDE DEF siblings, p, n, ahead, own, at
<1>10. /\ DOMAIN place' = DOMAIN place \cup {c}
       /\ place'[c] = own /\ \A d \in others : place'[d] = at(d)
  BY <1>8, <1>9
<1>11. place' \in [DOMAIN place' -> Int]
  <2>1. \A d \in DOMAIN place \cup {c} : d = c \/ d \in others
    OBVIOUS
  <2>2. \A d \in DOMAIN place' : place'[d] \in Int
    BY <1>5, <1>7, <1>10, <2>1
  <2>3. place' = [d \in DOMAIN place' |-> place'[d]]
    BY <1>8
  <2> QED
    BY <2>2, <2>3
<1>12. ASSUME NEW d \in others PROVE place'[d] # place'[c]
  <2>1. d \in DOMAIN siblings /\ place'[d] = at(d) /\ at(d) \in Int
    BY <1>5, <1>7, <1>10
  <2> QED
    BY <1>7, <1>10, <2>1
<1>13. ASSUME NEW d \in others, NEW b \in others, d # b PROVE place'[d] # place'[b]
  <2>1. d \in DOMAIN siblings /\ b \in DOMAIN siblings /\ siblings[d] # siblings[b]
    BY <1>3, <1>5, <1>13 DEF Strict
  <2>2. siblings[d] \in Int /\ siblings[b] \in Int
    BY <1>3, <2>1 DEF IsList
  <2>3. at(d) \in Int /\ at(b) \in Int /\ (siblings[d] < siblings[b] \/ siblings[b] < siblings[d])
    BY <1>7, <2>1, <2>2
  <2> QED
    BY <1>7, <1>10, <2>1, <2>3
<1>14. ColumnsDistinct'
  <2>1. \A d \in DOMAIN place' : d = c \/ d \in others
    BY <1>10
  <2> QED
    BY <1>12, <1>13, <2>1 DEF ColumnsDistinct
<1>15. /\ p # NoRow => p \in ahead /\ p \in DOMAIN siblings
       /\ n # NoRow => n \in DOMAIN siblings \ ahead
  <2>1. p # NoRow => p \in DOMAIN siblings
    BY <1>3 DEF NeighborNotFound
  <2>2. /\ p # NoRow => p \in ahead
        /\ n # NoRow => n \in DOMAIN siblings \ ahead
    BY <1>3, NamedNeighbours DEF ahead
  <2> QED
    BY <2>1, <2>2
<1>16. Lands(k, c)
  <2>1. ASSUME p \in DOMAIN place PROVE place'[p] < place'[c]
    <3>1. p \in others /\ p \in ahead
      BY <1>4, <1>6, <1>15, <2>1
    <3> QED
      BY <1>7, <1>10, <3>1
  <2>2. ASSUME n \in DOMAIN place PROVE place'[c] < place'[n]
    <3>1. n \in others /\ n \in DOMAIN siblings \ ahead
      BY <1>4, <1>6, <1>15, <2>2
    <3> QED
      BY <1>7, <1>10, <3>1
  <2> QED
    BY <2>1, <2>2 DEF Lands, p, n
<1> QED
  BY <1>10, <1>11, <1>14, <1>16

-----------------------------------------------------------------------------
(* Columns: requests that arrive *)

\* The record and the locks of a request that arrives.
LEMMA ArriveKeeps ==
    ASSUME ColumnsInv, NEW k \in Editors, NEW op \in ColumnOpNames,
           NEW col \in ColumnIds \cup {NoRow}, NEW prev \in ColumnIds \cup {NoRow},
           NEW next \in ColumnIds \cup {NoRow}, NEW step \in ColumnSteps,
           NEW R \in SUBSET LockableRows, Arrive(k, op, col, prev, next, step, R),
           step \notin {"own", "record", "delete"},
           step = "read" => op = "create" \/ op = "move",
           step = "seed" => op = "defaults",
           step = "insert" => op = "task",
           step = "write" => op = "update" \/ op = "found" \/ op = "rename",
           op = "create" => col = NoRow,
           op \in {"move", "update", "remove", "task"} => col \in spent,
           op \in Spacers => BoardRow \in R,
           IF op = "found" THEN ~board /\ spent = {} /\ \A m \in Editors : edit[m] = NoEdit
           ELSE board
    PROVE  ColumnsInv'
<1> DEFINE e == [op |-> op, col |-> col, prev |-> prev, next |-> next, at |-> step,
                 list |-> EmptyList]
<1>1. e \in EditRecords
  <2>1. EmptyList \in [{} -> Int] /\ {} \in SUBSET ColumnIds
    BY DEF EmptyList
  <2> QED
    BY <2>1 DEF EditRecords
<1>2. e.op = op /\ e.col = col /\ e.at = step
  OBVIOUS
<1>3. /\ edit[k] = NoEdit /\ edit' = [edit EXCEPT ![k] = e]
      /\ want' = [want EXCEPT ![k] = R] /\ held' = held
      /\ UNCHANGED <<board, place, spent, occupied, trail>>
      /\ editsBegun < MaxColumnOps /\ editsBegun' = editsBegun + 1
  BY DEF Arrive, columnRows
<1> HIDE DEF e
<1>4. held[k] = {} /\ held' = [held EXCEPT ![k] = {}]
  <2>1. held[k] = {}
    BY <1>3, NoEditTyped DEF ColumnsInv, StepOf
  <2> QED
    BY <1>3, <2>1 DEF ColumnsInv, ColumnsTyped
<1>5. EditMoves(k, e, {}, R)
  BY <1>1, <1>3, <1>4 DEF EditMoves
<1>6. /\ edit'[k] = e /\ held'[k] = {} /\ want'[k] = R
      /\ \A m \in Editors \ {k} : edit'[m] = edit[m]
  BY <1>5, OthersStay
<1>7. RowsTyped'
  <2>1. editsBegun' \in 0..MaxColumnOps
    BY <1>3, ColumnAssumption DEF ColumnsInv, ColumnsTyped, ColumnTypeOK
  <2> QED
    BY <1>3, <2>1, RowsAreTyped DEF RowsTyped
<1>8. ColumnsOnlyGo(k) /\ ColumnsDistinct'
  BY <1>3, RowsAsTheyAre
<1>9. Founding'
  <2>1. CASE op = "found"
    <3>1. \A m \in Editors \ {k} : edit'[m] = NoEdit /\ edit'[m].op # "found"
      BY <1>6, <2>1, NoEditTyped
    <3> QED
      BY <1>3, <2>1, <3>1 DEF Founding
  <2>2. CASE op # "found"
    <3>1. board /\ \A m \in Editors : edit[m].op # "found"
      BY <2>2 DEF ColumnsInv, Founding
    <3> QED
      BY <1>2, <1>6, <2>2, <3>1 DEF Founding
  <2> QED
    BY <2>1, <2>2
<1>10. StepOf(k)'
  <2>1. op # "none"
    BY DEF ColumnOpNames
  <2> QED
    BY <1>2, <1>3, <1>6, <2>1 DEF StepOf
<1>11. BoardHeld(k)'
  BY <1>2, <1>6 DEF BoardHeld
<1> QED
  BY <1>5, <1>7, <1>8, <1>9, <1>10, <1>11, RequestKeeps

\* A column that is there can be named, and the board is there with it.
LEMMA ColumnsThere ==
    ASSUME ColumnsInv
    PROVE  /\ DOMAIN place \subseteq ColumnIds \cap spent
           /\ DOMAIN place # {} => board
           /\ NoRow \in ColumnIds \cup {NoRow}
           /\ {} \in SUBSET LockableRows /\ {BoardRow} \in SUBSET LockableRows
           /\ \A c \in ColumnIds : {c} \in SUBSET LockableRows
  BY DEF ColumnsInv, ColumnsTyped, ColumnTypeOK, EmptyList, LockableRows

LEMMA ColumnRequestKeeps == ASSUME ColumnsInv, NEW k \in Editors, ColumnRequest(k) PROVE ColumnsInv'
<1>1. CASE CreateColumn(k)
  <2>1. PICK prev \in DOMAIN place \cup {NoRow} :
          board /\ Arrive(k, "create", NoRow, prev, NoRow, "read", {BoardRow})
    BY <1>1 DEF CreateColumn
  <2>2. prev \in ColumnIds \cup {NoRow} /\ "create" \in ColumnOpNames /\ "read" \in ColumnSteps
    BY ColumnsThere DEF ColumnOpNames, ColumnSteps
  <2> QED
    BY <2>1, <2>2, ColumnsThere, ArriveKeeps
<1>2. CASE MoveColumn(k)
  <2>1. PICK c \in DOMAIN place, prev \in DOMAIN place \cup {NoRow}, next \in DOMAIN place \cup {NoRow} :
          Arrive(k, "move", c, prev, next, "read", {BoardRow})
    BY <1>2 DEF MoveColumn
  <2>2. /\ prev \in ColumnIds \cup {NoRow} /\ next \in ColumnIds \cup {NoRow}
        /\ c \in ColumnIds \cup {NoRow} /\ c \in spent /\ board
        /\ {BoardRow} \in SUBSET LockableRows
        /\ "move" \in ColumnOpNames /\ "read" \in ColumnSteps
    BY ColumnsThere DEF ColumnOpNames, ColumnSteps
  <2>3. BoardRow \in {BoardRow} /\ "move" # "found"
    OBVIOUS
  <2> QED
    BY <2>1, <2>2, <2>3, ArriveKeeps, SMTT(60)
<1>3. CASE SeedColumns(k)
  <2>1. board /\ Arrive(k, "defaults", NoRow, NoRow, NoRow, "seed", {BoardRow})
    BY <1>3 DEF SeedColumns
  <2>2. "defaults" \in ColumnOpNames /\ "seed" \in ColumnSteps
    BY DEF ColumnOpNames, ColumnSteps
  <2> QED
    BY <2>1, <2>2, ColumnsThere, ArriveKeeps
<1>4. CASE UpdateColumn(k)
  <2>1. PICK c \in DOMAIN place : Arrive(k, "update", c, NoRow, NoRow, "write", {c})
    BY <1>4 DEF UpdateColumn
  <2>2. /\ c \in ColumnIds \cup {NoRow} /\ c \in spent /\ board /\ {c} \in SUBSET LockableRows
        /\ "update" \in ColumnOpNames /\ "write" \in ColumnSteps /\ "update" \notin Spacers
    BY ColumnsThere DEF ColumnOpNames, ColumnSteps, Spacers
  <2> QED
    BY <2>1, <2>2, ColumnsThere, ArriveKeeps
<1>5. CASE RemoveColumn(k)
  <2>1. PICK c \in DOMAIN place : Arrive(k, "remove", c, NoRow, NoRow, "count", {})
    BY <1>5 DEF RemoveColumn
  <2>2. /\ c \in ColumnIds \cup {NoRow} /\ c \in spent /\ board
        /\ "remove" \in ColumnOpNames /\ "count" \in ColumnSteps /\ "remove" \notin Spacers
    BY ColumnsThere DEF ColumnOpNames, ColumnSteps, Spacers
  <2> QED
    BY <2>1, <2>2, ColumnsThere, ArriveKeeps
<1>6. CASE FoundBoard(k)
  <2>1. /\ ~board /\ spent = {} /\ \A m \in Editors : edit[m] = NoEdit
        /\ Arrive(k, "found", NoRow, NoRow, NoRow, "write", {})
    BY <1>6 DEF FoundBoard
  <2>2. "found" \in ColumnOpNames /\ "write" \in ColumnSteps /\ "found" \notin Spacers
    BY DEF ColumnOpNames, ColumnSteps, Spacers
  <2> QED
    BY <2>1, <2>2, ColumnsThere, ArriveKeeps
<1>7. CASE RenameBoard(k)
  <2>1. board /\ Arrive(k, "rename", NoRow, NoRow, NoRow, "write", {BoardRow})
    BY <1>7 DEF RenameBoard
  <2>2. "rename" \in ColumnOpNames /\ "write" \in ColumnSteps
    BY DEF ColumnOpNames, ColumnSteps
  <2> QED
    BY <2>1, <2>2, ColumnsThere, ArriveKeeps
<1>8. CASE DropBoard(k)
  <2>1. board /\ Arrive(k, "drop", NoRow, NoRow, NoRow, "count", {BoardRow})
    BY <1>8 DEF DropBoard
  <2>2. "drop" \in ColumnOpNames /\ "count" \in ColumnSteps
    BY DEF ColumnOpNames, ColumnSteps
  <2> QED
    BY <2>1, <2>2, ColumnsThere, ArriveKeeps
<1>9. CASE CreateTask(k)
  <2>1. PICK c \in DOMAIN place : Arrive(k, "task", c, NoRow, NoRow, "insert", {c})
    BY <1>9 DEF CreateTask
  <2>2. /\ c \in ColumnIds \cup {NoRow} /\ c \in spent /\ board /\ {c} \in SUBSET LockableRows
        /\ "task" \in ColumnOpNames /\ "insert" \in ColumnSteps /\ "task" \notin Spacers
    BY ColumnsThere DEF ColumnOpNames, ColumnSteps, Spacers
  <2> QED
    BY <2>1, <2>2, ColumnsThere, ArriveKeeps
<1> QED
  BY <1>1, <1>2, <1>3, <1>4, <1>5, <1>6, <1>7, <1>8, <1>9 DEF ColumnRequest

-----------------------------------------------------------------------------
(* Columns: the statements of creations and moves *)

\* What a request is once its transaction has gone on.
GoneOn(k, step, siblings, R) ==
    /\ edit'[k].op = edit[k].op /\ edit'[k].col = edit[k].col
    /\ edit'[k].prev = edit[k].prev /\ edit'[k].next = edit[k].next
    /\ edit'[k].at = step /\ edit'[k].list = siblings
    /\ held'[k] = held[k] /\ want'[k] = R
    /\ UNCHANGED <<board, place, spent>>

\* A transaction goes on: what is left to show is what its next statement counts on.
LEMMA CarriesOn ==
    ASSUME ColumnsInv, NEW k \in Editors, edit[k].op # "none", NEW step \in ColumnSteps,
           NEW siblings \in UNION {[S -> Int] : S \in SUBSET ColumnIds},
           NEW R \in SUBSET LockableRows, GoOn(k, step, siblings, R),
           GoneOn(k, step, siblings, R) => StepOf(k)' /\ BoardHeld(k)'
    PROVE  ColumnsInv'
<1> DEFINE e == [op |-> edit[k].op, col |-> edit[k].col, prev |-> edit[k].prev,
                 next |-> edit[k].next, at |-> step, list |-> siblings]
<1>1. edit'[k] = e /\ held'[k] = held[k] /\ want'[k] = R /\ UNCHANGED <<board, place, spent>>
      => StepOf(k)' /\ BoardHeld(k)'
  BY DEF GoneOn
<1>2. edit[k] # NoEdit
  BY NoEditTyped
<1> QED
  BY <1>1, <1>2, GoOnKeeps

\* The columns a request finds besides its own.
LEMMA SiblingsRead ==
    ASSUME ColumnsInv, NEW k \in Editors
    PROVE  /\ Siblings(edit[k]) \in UNION {[S -> Int] : S \in SUBSET ColumnIds}
           /\ DOMAIN Siblings(edit[k]) \subseteq spent \ {edit[k].col}
           /\ Strict(Siblings(edit[k]))
           /\ \A c \in DOMAIN place \ {edit[k].col} :
                 c \in DOMAIN Siblings(edit[k]) /\ Siblings(edit[k])[c] = place[c]
<1> DEFINE siblings == Siblings(edit[k])
           S == DOMAIN place \ {edit[k].col}
<1>1. S \in SUBSET ColumnIds /\ S \subseteq spent \ {edit[k].col} /\ \A c \in S : place[c] \in Int
  BY DEF ColumnsInv, ColumnsTyped, ColumnTypeOK
<1>2. siblings = [c \in S |-> place[c]]
  BY DEF Siblings
<1>3. Strict(siblings)
  BY <1>2 DEF Strict, ColumnsInv, ColumnsDistinct
<1> HIDE DEF siblings, S
<1>4. DOMAIN siblings = S /\ siblings \in [S -> Int] /\ \A c \in S : siblings[c] = place[c]
  BY <1>1, <1>2
<1>5. siblings \in UNION {[X -> Int] : X \in SUBSET ColumnIds}
  BY <1>1, <1>4
<1> QED
  BY <1>1, <1>3, <1>4, <1>5 DEF siblings, S

LEMMA ReadColumnsKeeps == ASSUME ColumnsInv, NEW k \in Editors, ReadColumns(k) PROVE ColumnsInv'
<1> DEFINE siblings == Siblings(edit[k])
<1>1. /\ edit[k].at = "read" /\ want[k] = {} /\ edit[k].op \in {"create", "move"}
      /\ ~board \/ BoardRow \in held[k]
      /\ edit[k] \in EditRecords
      /\ edit[k].op = "create" => edit[k].col = NoRow
      /\ edit[k].op = "move" => edit[k].col \in ColumnIds /\ edit[k].col \in spent
  <2>1. edit[k].at = "read" /\ want[k] = {}
    BY DEF ReadColumns, Ready
  <2>2. StepOf(k) /\ BoardHeld(k) /\ spent \subseteq ColumnIds /\ edit[k] \in EditRecords
    BY DEF ColumnsInv, ColumnsTyped, ColumnTypeOK
  <2>3. edit[k].op \in {"create", "move"}
    BY <2>1, <2>2 DEF StepOf
  <2> QED
    BY <2>1, <2>2, <2>3 DEF StepOf, BoardHeld, Spacers
<1>2. /\ siblings \in UNION {[S -> Int] : S \in SUBSET ColumnIds}
      /\ DOMAIN siblings \subseteq spent \ {edit[k].col}
      /\ Strict(siblings)
      /\ \A c \in DOMAIN place \ {edit[k].col} : c \in DOMAIN siblings /\ siblings[c] = place[c]
  BY SiblingsRead
<1>3. \/ RollBack(k)
      \/ /\ edit[k].op = "move" /\ ~NeighborNotFound(siblings, edit[k].prev, edit[k].next)
         /\ GoOn(k, "own", siblings, {edit[k].col})
      \/ /\ edit[k].op # "move" /\ ~NeighborNotFound(siblings, edit[k].prev, edit[k].next)
         /\ GoOn(k, "write", siblings, Respread(edit[k], siblings))
  BY DEF ReadColumns
<1> HIDE DEF siblings
<1>4. Respread(edit[k], siblings) \in SUBSET LockableRows
  BY <1>2 DEF Respread, LockableRows
<1>5. ASSUME NEW step, NEW R, GoneOn(k, step, siblings, R), ~NeighborNotFound(siblings, edit[k].prev, edit[k].next)
      PROVE  ListRead(k)'
  BY <1>2, <1>5 DEF ListRead, GoneOn
<1>6. CASE RollBack(k)
  BY <1>6, RollBackKeeps
<1>7. CASE /\ edit[k].op = "move" /\ ~NeighborNotFound(siblings, edit[k].prev, edit[k].next)
           /\ GoOn(k, "own", siblings, {edit[k].col})
  <2>1. ASSUME GoneOn(k, "own", siblings, {edit[k].col}) PROVE StepOf(k)' /\ BoardHeld(k)'
    <3>1. StepOf(k)'
      BY <1>1, <1>7, <2>1 DEF GoneOn, StepOf
    <3>2. ListRead(k)'
      BY <1>5, <1>7, <2>1
    <3>3. BoardHeld(k)'
      BY <1>1, <1>7, <2>1, <3>2 DEF GoneOn, BoardHeld
    <3> QED
      BY <3>1, <3>3
  <2>2. "own" \in ColumnSteps /\ {edit[k].col} \in SUBSET LockableRows /\ edit[k].op # "none"
    BY <1>1, <1>7 DEF ColumnSteps, LockableRows
  <2> QED
    BY <1>2, <1>7, <2>1, <2>2, CarriesOn
<1>8. CASE /\ edit[k].op # "move" /\ ~NeighborNotFound(siblings, edit[k].prev, edit[k].next)
           /\ GoOn(k, "write", siblings, Respread(edit[k], siblings))
  <2>1. ASSUME GoneOn(k, "write", siblings, Respread(edit[k], siblings)) PROVE StepOf(k)' /\ BoardHeld(k)'
    <3>1. StepOf(k)'
      BY <1>1, <1>8, <2>1 DEF GoneOn, StepOf
    <3>2. ListRead(k)'
      BY <1>5, <1>8, <2>1
    <3>3. Respread(edit'[k], edit'[k].list) = Respread(edit[k], siblings)
      BY <2>1 DEF GoneOn, Respread
    <3>4. BoardHeld(k)'
      BY <1>1, <1>8, <2>1, <3>2, <3>3 DEF GoneOn, BoardHeld
    <3> QED
      BY <3>1, <3>4
  <2>2. "write" \in ColumnSteps /\ edit[k].op # "none"
    BY <1>1 DEF ColumnSteps
  <2> QED
    BY <1>2, <1>4, <1>8, <2>1, <2>2, CarriesOn
<1> QED
  BY <1>3, <1>6, <1>7, <1>8

LEMMA WriteOwnKeeps == ASSUME ColumnsInv, NEW k \in Editors, WriteOwnColumn(k) PROVE ColumnsInv'
<1> DEFINE siblings == edit[k].list
           R == Respread(edit[k], siblings)
<1>1. /\ edit[k].at = "own" /\ want[k] = {}
      /\ StepOf(k) /\ BoardHeld(k) /\ edit[k] \in EditRecords
  BY DEF WriteOwnColumn, Ready, ColumnsInv, ColumnsTyped
<1>2. edit[k].op = "move" /\ (~board \/ BoardRow \in held[k]) /\ ListRead(k)
  BY <1>1 DEF StepOf, BoardHeld
<1>3. CASE RollBack(k)
  BY <1>3, RollBackKeeps
<1>4. CASE edit[k].col \in held[k] /\ GoOn(k, "write", siblings, R)
  <2>1. siblings \in UNION {[S -> Int] : S \in SUBSET ColumnIds}
    BY <1>1 DEF EditRecords
  <2>2. R \in SUBSET LockableRows
    BY <2>1 DEF Respread, LockableRows
  <2>3. ASSUME GoneOn(k, "write", siblings, R) PROVE StepOf(k)' /\ BoardHeld(k)'
    <3>1. StepOf(k)'
      BY <1>1, <1>2, <2>3 DEF GoneOn, StepOf
    <3>2. ListRead(k)'
      BY <1>2, <2>3 DEF GoneOn, ListRead
    <3>3. Respread(edit'[k], edit'[k].list) = R
      BY <2>3 DEF GoneOn, Respread
    <3>4. BoardHeld(k)'
      BY <1>2, <1>4, <2>3, <3>2, <3>3 DEF GoneOn, BoardHeld
    <3> QED
      BY <3>1, <3>4
  <2>4. "write" \in ColumnSteps /\ edit[k].op # "none"
    BY <1>2 DEF ColumnSteps
  <2> HIDE DEF siblings, R
  <2> QED
    BY <1>4, <2>1, <2>2, <2>3, <2>4, CarriesOn
<1> QED
  BY <1>3, <1>4 DEF WriteOwnColumn

-----------------------------------------------------------------------------
(* Columns: the commits that place columns *)

\* What a request that is at a statement with all its rows counts on.
LEMMA AtStatement ==
    ASSUME ColumnsInv, NEW k \in Editors, NEW step, Ready(k, step)
    PROVE  /\ edit[k].at = step /\ want[k] = {} /\ edit[k] \in EditRecords
           /\ StepOf(k) /\ BoardHeld(k)
           /\ spent \subseteq ColumnIds /\ DOMAIN place \subseteq spent
           /\ held[k] \subseteq DOMAIN place \cup {BoardRow}
           /\ edit[k].op # "none" => edit[k] # NoEdit
  BY NoEditTyped DEF Ready, ColumnsInv, ColumnsTyped, ColumnTypeOK, LocksHeld

LEMMA CommitColumnKeeps == ASSUME ColumnsInv, NEW k \in Editors, CommitColumn(k) PROVE ColumnsInv'
<1>1. CASE RollBack(k)
  BY <1>1, RollBackKeeps
<1>2. CASE board /\ ~RollBack(k)
  <2>1. PICK c \in Fresh(1) :
          /\ place' = Inserted(k, c)
          /\ spent' = spent \cup {c}
          /\ Finish(k, [edit[k] EXCEPT !.col = c, !.at = "record"])
          /\ UNCHANGED <<board, occupied, trail>>
    BY <1>2 DEF CommitColumn
  <2>2. c \in ColumnIds /\ c \notin spent
    BY DEF Fresh
  <2>3. /\ Ready(k, "write") /\ edit[k].op = "create" /\ edit[k] \in EditRecords
        /\ edit[k].col = NoRow /\ BoardRow \in held[k] /\ edit[k] # NoEdit
    <3>1. Ready(k, "write") /\ edit[k].op = "create"
      BY DEF CommitColumn
    <3> QED
      BY <1>2, <3>1, AtStatement DEF StepOf, BoardHeld
  <2>4. /\ DOMAIN place' = DOMAIN place \cup {c} /\ place' \in [DOMAIN place' -> Int]
        /\ ColumnsDistinct'
    BY <2>1, <2>2, <2>3, SlotGiven
  <2> DEFINE e == [edit[k] EXCEPT !.col = c, !.at = "record"]
  <2>5. e \in EditRecords /\ e.op = "create" /\ e.col = c /\ e.at = "record"
    BY <2>2, <2>3 DEF EditRecords, ColumnSteps
  <2>6. editsBegun' = editsBegun /\ edit' = [edit EXCEPT ![k] = e]
        /\ held' = [held EXCEPT ![k] = {}] /\ want' = [want EXCEPT ![k] = {}]
    BY <2>1 DEF Finish
  <2> HIDE DEF e
  <2>7. EditMoves(k, e, {}, {})
    BY <2>5, <2>6 DEF EditMoves
  <2>8. edit'[k] = e /\ held'[k] = {} /\ want'[k] = {}
    BY <2>7, OthersStay
  <2>9. RowsTyped'
    BY <1>2, <2>1, <2>2, <2>4, <2>6, RowsAreTyped DEF RowsTyped
  <2>10. ColumnsPlaced(k)
    BY <1>2, <2>1, <2>2, <2>3, <2>4 DEF ColumnsPlaced
  <2>11. Founding'
    BY <2>3, <2>5, <2>7, FoundingKeeps
  <2>12. StepOf(k)'
    BY <2>2, <2>5, <2>8 DEF StepOf
  <2>13. BoardHeld(k)'
    BY <2>5, <2>8 DEF BoardHeld
  <2> QED
    BY <2>4, <2>7, <2>9, <2>10, <2>11, <2>12, <2>13, RequestKeeps
<1> QED
  BY <1>1, <1>2 DEF CommitColumn

\* A move that is committed still has its column, and with it the board.
LEMMA MovedColumnIsThere ==
    ASSUME ColumnsInv, NEW k \in Editors, Ready(k, "write"), edit[k].op = "move"
    PROVE  edit[k].col \in DOMAIN place /\ edit[k].col \in ColumnIds /\ board /\ BoardRow \in held[k]
<1>1. edit[k].col \in held[k] /\ edit[k].col \in spent
  BY AtStatement DEF StepOf, BoardHeld
<1>2. edit[k].col \in DOMAIN place /\ edit[k].col \in ColumnIds
  BY <1>1, AtStatement, BoardIsNoColumn
<1>3. board
  BY <1>2, ColumnsThere
<1> QED
  BY <1>2, <1>3, AtStatement DEF BoardHeld

LEMMA CommitMoveKeeps == ASSUME ColumnsInv, NEW k \in Editors, CommitMove(k) PROVE ColumnsInv'
<1>1. /\ Ready(k, "write") /\ edit[k].op = "move"
      /\ place' = Inserted(k, edit[k].col) /\ Finish(k, NoEdit)
      /\ UNCHANGED <<board, spent, occupied, trail>>
  BY DEF CommitMove
<1>2. edit[k].col \in DOMAIN place /\ edit[k].col \in ColumnIds /\ board /\ BoardRow \in held[k]
  BY <1>1, MovedColumnIsThere
<1>3. /\ DOMAIN place' = DOMAIN place \cup {edit[k].col} /\ place' \in [DOMAIN place' -> Int]
      /\ ColumnsDistinct'
  BY <1>1, <1>2, SlotGiven
<1>4. DOMAIN place' = DOMAIN place
  BY <1>2, <1>3
<1>5. RowsTyped'
  BY <1>1, <1>2, <1>3, <1>4, RowsAreTyped DEF RowsTyped, Finish
<1>6. ColumnsPlaced(k)
  BY <1>1, <1>2, <1>4 DEF ColumnsPlaced
<1>7. edit[k] # NoEdit
  BY <1>1, AtStatement
<1> QED
  BY <1>1, <1>3, <1>5, <1>6, <1>7, OverKeeps

LEMMA CommitDefaultsKeeps == ASSUME ColumnsInv, NEW k \in Editors, CommitDefaults(k) PROVE ColumnsInv'
<1>1. CASE RollBack(k)
  BY <1>1, RollBackKeeps
<1>2. CASE ~RollBack(k)
  <2>1. /\ board /\ DOMAIN place = {} /\ Ready(k, "seed")
        /\ place' = Seeded
        /\ spent' = spent \cup DOMAIN Seeded
        /\ trail' = trail \cup ({"created"} \X DOMAIN Seeded)
        /\ Finish(k, NoEdit)
        /\ UNCHANGED <<board, occupied>>
    BY <1>2 DEF CommitDefaults
  <2>2. edit[k].op = "defaults" /\ BoardRow \in held[k] /\ edit[k] # NoEdit
    BY <2>1, AtStatement DEF StepOf, BoardHeld, Spacers
  <2>3. /\ DOMAIN Seeded \subseteq ColumnIds \ spent
        /\ Seeded \in [DOMAIN Seeded -> Int]
        /\ \A c, d \in DOMAIN Seeded : c # d => Seeded[c] # Seeded[d]
    BY SeededApart
  <2>4. /\ place' \in [DOMAIN place' -> Int] /\ DOMAIN place' = DOMAIN Seeded
        /\ ColumnsDistinct'
    BY <2>1, <2>3 DEF ColumnsDistinct
  <2>5. trail' \subseteq {"created", "updated", "deleted"} \X LockableRows
    BY <2>1, <2>3, RowsAreTyped DEF RowsTyped, LockableRows
  <2>6. occupied' \subseteq DOMAIN place' /\ spent' \subseteq ColumnIds /\ DOMAIN place' \subseteq spent'
    BY <2>1, <2>3, <2>4, RowsAreTyped DEF RowsTyped
  <2>7. RowsTyped'
    BY <2>1, <2>4, <2>5, <2>6, RowsAreTyped DEF RowsTyped, Finish
  <2>8. ColumnsPlaced(k)
    BY <2>1, <2>2, <2>3, <2>4 DEF ColumnsPlaced
  <2> QED
    BY <2>1, <2>2, <2>4, <2>7, <2>8, OverKeeps
<1> QED
  BY <1>1, <1>2

\* A board that is founded: there is no other request.
LEMMA CommitBoardKeeps == ASSUME ColumnsInv, NEW k \in Editors, CommitBoard(k) PROVE ColumnsInv'
<1>1. /\ Ready(k, "write") /\ edit[k].op = "found"
      /\ board' = TRUE /\ place' = Seeded /\ spent' = spent \cup DOMAIN Seeded
      /\ trail' = trail \cup {<<"created", BoardRow>>}
      /\ Finish(k, NoEdit) /\ occupied' = occupied
  BY DEF CommitBoard
<1>2. ~board /\ spent = {} /\ \A m \in Editors \ {k} : edit[m] = NoEdit
  BY <1>1 DEF ColumnsInv, Founding
<1>3. EditMoves(k, NoEdit, {}, {}) /\ editsBegun' = editsBegun
  BY <1>1, NoEditTyped DEF Finish, EditMoves
<1>4. \A m \in Editors : edit'[m] = NoEdit /\ held'[m] = {} /\ want'[m] = {}
  <2>1. \A m \in Editors \ {k} : held[m] = {} /\ want[m] = {}
    BY <1>2, NoEditTyped DEF ColumnsInv, StepOf
  <2> QED
    BY <1>2, <1>3, <2>1, OthersStay
<1>5. /\ DOMAIN Seeded \subseteq ColumnIds \ spent
      /\ Seeded \in [DOMAIN Seeded -> Int]
      /\ \A c, d \in DOMAIN Seeded : c # d => Seeded[c] # Seeded[d]
  BY SeededApart
<1>6. /\ place' \in [DOMAIN place' -> Int] /\ DOMAIN place' = DOMAIN Seeded
      /\ ColumnsDistinct'
  BY <1>1, <1>5 DEF ColumnsDistinct
<1>7. trail' \subseteq {"created", "updated", "deleted"} \X LockableRows
  BY <1>1, RowsAreTyped DEF RowsTyped, LockableRows
<1>8. occupied' \subseteq DOMAIN place' /\ spent' \subseteq ColumnIds /\ DOMAIN place' \subseteq spent'
  BY <1>1, <1>2, <1>5, <1>6, RowsAreTyped DEF RowsTyped
<1>9. RowsTyped'
  BY <1>1, <1>3, <1>6, <1>7, <1>8, RowsAreTyped DEF RowsTyped
<1>10. ColumnsTyped'
  BY <1>3, <1>9, ColumnTypes
<1>11. ASSUME NEW m \in Editors PROVE StepOf(m)' /\ BoardHeld(m)'
  BY <1>4, NoEditTyped DEF StepOf, BoardHeld, Spacers
<1>12. Founding' /\ LocksHeld'
  BY <1>4, NoEditTyped DEF Founding, LocksHeld
<1> QED
  BY <1>6, <1>10, <1>11, <1>12 DEF ColumnsInv

-----------------------------------------------------------------------------
(* Columns: the other statements *)

\* A request that is over and has changed no row but the audit's and the tasks'.
LEMMA OverUnplaced ==
    ASSUME ColumnsInv, NEW k \in Editors, edit[k].op # "none", Finish(k, NoEdit),
           UNCHANGED <<board, place, spent>>,
           occupied' \subseteq DOMAIN place,
           trail' \subseteq {"created", "updated", "deleted"} \X LockableRows
    PROVE  ColumnsInv'
<1>1. edit[k] # NoEdit
  BY NoEditTyped
<1>2. RowsTyped'
  BY RowsAreTyped DEF RowsTyped, Finish
<1>3. ColumnsOnlyGo(k) /\ ColumnsDistinct'
  BY RowsAsTheyAre
<1> QED
  BY <1>1, <1>2, <1>3, OverKeeps

LEMMA RecordCreationKeeps ==
    ASSUME ColumnsInv, NEW k \in Editors, RecordCreation(k) PROVE ColumnsInv'
<1>1. /\ Ready(k, "record") /\ trail' \in {trail, trail \cup {<<"created", edit[k].col>>}}
      /\ Finish(k, NoEdit) /\ UNCHANGED <<board, place, spent, occupied>>
  BY DEF RecordCreation
<1>2. edit[k].op = "create" /\ edit[k].col \in ColumnIds
  BY <1>1, AtStatement DEF StepOf
<1>3. /\ occupied' \subseteq DOMAIN place
      /\ trail' \subseteq {"created", "updated", "deleted"} \X LockableRows
  BY <1>1, <1>2, RowsAreTyped DEF RowsTyped, LockableRows
<1> QED
  BY <1>1, <1>2, <1>3, OverUnplaced

LEMMA CommitUpdateKeeps == ASSUME ColumnsInv, NEW k \in Editors, CommitUpdate(k) PROVE ColumnsInv'
<1>1. CASE RollBack(k)
  BY <1>1, RollBackKeeps
<1>2. CASE ~RollBack(k)
  <2>1. /\ edit[k].op = "update" /\ edit[k].col \in DOMAIN place
        /\ trail' = trail \cup {<<"updated", edit[k].col>>}
        /\ Finish(k, NoEdit) /\ UNCHANGED <<board, place, spent, occupied>>
    BY <1>2 DEF CommitUpdate
  <2>2. /\ occupied' \subseteq DOMAIN place
        /\ trail' \subseteq {"created", "updated", "deleted"} \X LockableRows
    BY <2>1, RowsAreTyped DEF RowsTyped, LockableRows
  <2> QED
    BY <2>1, <2>2, OverUnplaced
<1> QED
  BY <1>1, <1>2

LEMMA CommitRenameKeeps == ASSUME ColumnsInv, NEW k \in Editors, CommitRename(k) PROVE ColumnsInv'
<1>1. CASE RollBack(k)
  BY <1>1, RollBackKeeps
<1>2. CASE ~RollBack(k)
  <2>1. /\ edit[k].op = "rename"
        /\ trail' = trail \cup {<<"updated", BoardRow>>}
        /\ Finish(k, NoEdit) /\ UNCHANGED <<board, place, spent, occupied>>
    BY <1>2 DEF CommitRename
  <2>2. /\ occupied' \subseteq DOMAIN place
        /\ trail' \subseteq {"created", "updated", "deleted"} \X LockableRows
    BY <2>1, RowsAreTyped DEF RowsTyped, LockableRows
  <2> QED
    BY <2>1, <2>2, OverUnplaced
<1> QED
  BY <1>1, <1>2

LEMMA InsertTaskKeeps == ASSUME ColumnsInv, NEW k \in Editors, InsertTask(k) PROVE ColumnsInv'
<1>1. CASE RollBack(k)
  BY <1>1, RollBackKeeps
<1>2. CASE ~RollBack(k)
  <2>1. /\ edit[k].op = "task" /\ edit[k].col \in DOMAIN place
        /\ occupied' = occupied \cup {edit[k].col}
        /\ Finish(k, NoEdit) /\ UNCHANGED <<board, place, spent, trail>>
    BY <1>2 DEF InsertTask
  <2>2. /\ occupied' \subseteq DOMAIN place
        /\ trail' \subseteq {"created", "updated", "deleted"} \X LockableRows
    BY <2>1, RowsAreTyped DEF RowsTyped
  <2> QED
    BY <2>1, <2>2, OverUnplaced
<1> QED
  BY <1>1, <1>2

\* The empty list and the steps, as GoOn takes them.
LEMMA EmptyListTyped ==
    /\ EmptyList \in UNION {[S -> Int] : S \in SUBSET ColumnIds}
    /\ "delete" \in ColumnSteps /\ "write" \in ColumnSteps
<1>1. EmptyList \in [{} -> Int] /\ {} \in SUBSET ColumnIds
  BY DEF EmptyList
<1> QED
  BY <1>1 DEF ColumnSteps

LEMMA CountColumnTasksKeeps ==
    ASSUME ColumnsInv, NEW k \in Editors, CountColumnTasks(k) PROVE ColumnsInv'
<1>1. CASE RollBack(k)
  BY <1>1, RollBackKeeps
<1>2. CASE GoOn(k, "delete", EmptyList, {edit[k].col})
  <2>1. edit[k].op = "remove" /\ edit[k].op # "none" /\ Ready(k, "count")
    BY DEF CountColumnTasks
  <2>2. edit[k].col \in spent /\ {edit[k].col} \in SUBSET LockableRows
    BY <2>1, AtStatement DEF StepOf, LockableRows
  <2>3. GoneOn(k, "delete", EmptyList, {edit[k].col}) => StepOf(k)' /\ BoardHeld(k)'
    BY <2>1, <2>2 DEF GoneOn, StepOf, BoardHeld, Spacers
  <2> QED
    BY <1>2, <2>1, <2>2, <2>3, EmptyListTyped, CarriesOn
<1> QED
  BY <1>1, <1>2 DEF CountColumnTasks

LEMMA CascadeBoardKeeps == ASSUME ColumnsInv, NEW k \in Editors, CascadeBoard(k) PROVE ColumnsInv'
<1>1. CASE RollBack(k)
  BY <1>1, RollBackKeeps
<1>2. CASE BoardRow \in held[k] /\ GoOn(k, "delete", EmptyList, DOMAIN place)
  <2>1. edit[k].op = "drop" /\ edit[k].op # "none" /\ Ready(k, "count")
    BY DEF CascadeBoard
  <2>2. DOMAIN place \in SUBSET LockableRows
    BY <2>1, AtStatement DEF LockableRows
  <2>3. GoneOn(k, "delete", EmptyList, DOMAIN place) => StepOf(k)' /\ BoardHeld(k)'
    BY <1>2, <2>1 DEF GoneOn, StepOf, BoardHeld, Spacers
  <2> QED
    BY <1>2, <2>1, <2>2, <2>3, EmptyListTyped, CarriesOn
<1> QED
  BY <1>1, <1>2 DEF CascadeBoard

LEMMA ShareBoardKeeps == ASSUME ColumnsInv, NEW k \in Editors, ShareBoard(k) PROVE ColumnsInv'
<1>1. Ready(k, "insert") /\ GoOn(k, "write", EmptyList, {BoardRow})
  BY DEF ShareBoard
<1>2. edit[k].op = "task" /\ edit[k].op # "none" /\ edit[k].col \in spent
  BY <1>1, AtStatement DEF StepOf
<1>3. {BoardRow} \in SUBSET LockableRows
  BY DEF LockableRows
<1>4. GoneOn(k, "write", EmptyList, {BoardRow}) => StepOf(k)' /\ BoardHeld(k)'
  BY <1>2 DEF GoneOn, StepOf, BoardHeld, Spacers
<1> QED
  BY <1>1, <1>2, <1>3, <1>4, EmptyListTyped, CarriesOn

LEMMA DeleteColumnKeeps == ASSUME ColumnsInv, NEW k \in Editors, DeleteColumn(k) PROVE ColumnsInv'
<1>1. CASE RollBack(k)
  BY <1>1, RollBackKeeps
<1>2. CASE ~RollBack(k)
  <2> DEFINE c == edit[k].col
  <2>1. /\ Ready(k, "delete") /\ edit[k].op = "remove" /\ c \in DOMAIN place
        /\ place' = [d \in DOMAIN place \ {c} |-> place[d]]
        /\ occupied' = occupied \ {c}
        /\ trail' = trail \cup {<<"deleted", c>>}
        /\ Finish(k, NoEdit)
        /\ UNCHANGED <<board, spent>>
    BY <1>2 DEF DeleteColumn
  <2>2. c \in held[k] /\ c \in ColumnIds /\ c # BoardRow /\ edit[k] # NoEdit
    BY <2>1, AtStatement, BoardIsNoColumn DEF BoardHeld
  <2> HIDE DEF c
  <2>3. \A m \in Editors \ {k} : c \notin held[m]
    BY <2>2 DEF ColumnsInv, LocksHeld
  <2>4. /\ DOMAIN place' = DOMAIN place \ {c}
        /\ \A d \in DOMAIN place' : place'[d] = place[d]
        /\ place' \in [DOMAIN place' -> Int]
    BY <2>1 DEF ColumnsInv, ColumnsTyped
  <2>5. ColumnsOnlyGo(k)
    BY <2>1, <2>3, <2>4 DEF ColumnsOnlyGo, ColumnsInv, LocksHeld
  <2>6. ColumnsDistinct'
    BY <2>4 DEF ColumnsInv, ColumnsDistinct
  <2>7. /\ trail' \subseteq {"created", "updated", "deleted"} \X LockableRows
        /\ occupied' \subseteq DOMAIN place'
    BY <2>1, <2>2, <2>4, RowsAreTyped DEF RowsTyped, LockableRows
  <2>8. board
    BY <2>1, ColumnsThere
  <2>9. RowsTyped'
    BY <2>1, <2>4, <2>7, <2>8, RowsAreTyped DEF RowsTyped, Finish
  <2> QED
    BY <2>1, <2>2, <2>5, <2>6, <2>9, OverKeeps
<1> QED
  BY <1>1, <1>2

LEMMA CommitDropKeeps == ASSUME ColumnsInv, NEW k \in Editors, CommitDrop(k) PROVE ColumnsInv'
<1>1. /\ Ready(k, "delete") /\ edit[k].op = "drop" /\ board' = FALSE /\ place' = EmptyList
      /\ occupied' = {} /\ trail' = trail \cup {<<"deleted", BoardRow>>}
      /\ Finish(k, NoEdit) /\ spent' = spent
  BY DEF CommitDrop
<1>2. BoardRow \in held[k] /\ DOMAIN place \subseteq held[k] /\ edit[k] # NoEdit
  BY <1>1, AtStatement DEF BoardHeld
<1>3. \A m \in Editors \ {k} : held[m] = {}
  BY <1>1, <1>2 DEF ColumnsInv, LocksHeld
<1>4. DOMAIN place' = {} /\ place' \in [DOMAIN place' -> Int]
  BY <1>1 DEF EmptyList
<1>5. ColumnsOnlyGo(k) /\ ColumnsDistinct'
  BY <1>1, <1>3, <1>4 DEF ColumnsOnlyGo, ColumnsDistinct
<1>6. trail' \subseteq {"created", "updated", "deleted"} \X LockableRows
  BY <1>1, RowsAreTyped DEF RowsTyped, LockableRows
<1>7. RowsTyped'
  BY <1>1, <1>4, <1>6, RowsAreTyped DEF RowsTyped, Finish
<1> QED
  BY <1>1, <1>2, <1>5, <1>7, OverKeeps

-----------------------------------------------------------------------------
(* Columns: the invariant and the theorems *)

LEMMA ColumnsInit == ASSUME ColumnInit PROVE ColumnsInv
<1>1. /\ board \in BOOLEAN /\ spent = DOMAIN place /\ occupied = {} /\ trail = {}
      /\ edit = [k \in Editors |-> NoEdit]
      /\ held = [k \in Editors |-> {}] /\ want = [k \in Editors |-> {}] /\ editsBegun = 0
  BY DEF ColumnInit
<1>2. /\ place \in [DOMAIN place -> Int] /\ DOMAIN place \subseteq ColumnIds
      /\ ~board => place = EmptyList
      /\ ColumnsDistinct
  <2>1. CASE board
    <3>1. place \in StartColumns
      BY <2>1 DEF ColumnInit
    <3>2. /\ DOMAIN place \subseteq ColumnIds
          /\ \A a \in DOMAIN place : place[a] \in Int
          /\ \A a, b \in DOMAIN place : a # b => place[a] # place[b]
      BY <3>1, ColumnAssumption
    <3>3. place = [a \in DOMAIN place |-> place[a]]
      BY <3>1, ColumnAssumption
    <3> QED
      BY <2>1, <3>2, <3>3 DEF ColumnsDistinct
  <2>2. CASE ~board
    BY <2>2 DEF ColumnInit, ColumnsDistinct, EmptyList
  <2> QED
    BY <2>1, <2>2
<1>3. \A k \in Editors : edit[k] = NoEdit /\ held[k] = {} /\ want[k] = {}
  BY <1>1
<1>4. edit \in [Editors -> EditRecords]
  BY <1>1, NoEditTyped
<1>5. /\ held \in [Editors -> SUBSET (ColumnIds \cup {BoardRow})]
      /\ want \in [Editors -> SUBSET (ColumnIds \cup {BoardRow})]
  BY <1>1
<1>6. ColumnTypeOK
  <2>1. \A k \in Editors : /\ edit[k].op \in ColumnOpNames \cup {"none"}
                           /\ edit[k].at \in ColumnSteps
                           /\ {edit[k].col, edit[k].prev, edit[k].next} \subseteq ColumnIds \cup {NoRow}
                           /\ DOMAIN edit[k].list \subseteq ColumnIds
    BY <1>4 DEF EditRecords
  <2>2. editsBegun \in 0..MaxColumnOps
    BY <1>1, ColumnAssumption
  <2>3. \A a \in DOMAIN place : place[a] \in Int
    BY <1>2
  <2> QED
    BY <1>1, <1>2, <1>3, <2>1, <2>2, <2>3 DEF ColumnTypeOK
<1>7. ASSUME NEW k \in Editors PROVE StepOf(k) /\ BoardHeld(k)
  BY <1>3, NoEditTyped DEF StepOf, BoardHeld, Spacers
<1>8. Founding /\ LocksHeld
  BY <1>3, NoEditTyped DEF Founding, LocksHeld
<1> QED
  BY <1>2, <1>4, <1>5, <1>6, <1>7, <1>8 DEF ColumnsInv, ColumnsTyped

\* A stutter of this component.
LEMMA ColumnsStutter == ASSUME ColumnsInv, UNCHANGED columnVars PROVE ColumnsInv'
<1>1. UNCHANGED <<board, place, spent, occupied, trail, edit, held, want, editsBegun>>
  BY DEF columnVars
<1>2. ColumnsTyped'
  BY <1>1 DEF ColumnsInv, ColumnsTyped, ColumnTypeOK
<1>3. ASSUME NEW k \in Editors PROVE StepOf(k)' /\ BoardHeld(k)'
  <2>1. StepOf(k) /\ BoardHeld(k)
    BY DEF ColumnsInv
  <2>2. StepOf(k)'
    BY <1>1, <2>1 DEF StepOf
  <2>3. ListRead(k) => ListRead(k)'
    BY <1>1 DEF ListRead
  <2>4. BoardHeld(k)'
    BY <1>1, <2>1, <2>3 DEF BoardHeld
  <2> QED
    BY <2>2, <2>4
<1>4. Founding' /\ LocksHeld' /\ ColumnsDistinct'
  BY <1>1 DEF ColumnsInv, Founding, LocksHeld, ColumnsDistinct
<1> QED
  BY <1>2, <1>3, <1>4 DEF ColumnsInv

LEMMA ColumnsNext == ASSUME ColumnsInv, [ColumnNext]_columnVars PROVE ColumnsInv'
<1>1. CASE UNCHANGED columnVars
  BY <1>1, ColumnsStutter
<1>2. CASE ColumnNext
  <2>1. PICK k \in Editors : ColumnRequest(k) \/ ColumnStep(k) \/ BreakDeadlock(k)
    BY <1>2 DEF ColumnNext
  <2>2. CASE ColumnRequest(k)
    BY <2>2, ColumnRequestKeeps
  <2>3. CASE ColumnStep(k)
    BY <2>3, LockRowKeeps, ReadColumnsKeeps, WriteOwnKeeps, CommitColumnKeeps, CommitMoveKeeps,
       RecordCreationKeeps, CommitDefaultsKeeps, CommitUpdateKeeps, CountColumnTasksKeeps,
       DeleteColumnKeeps, CommitBoardKeeps, CommitRenameKeeps, CascadeBoardKeeps, CommitDropKeeps,
       ShareBoardKeeps, InsertTaskKeeps
    DEF ColumnStep
  <2>4. CASE BreakDeadlock(k)
    BY <2>4, RollBackKeeps DEF BreakDeadlock
  <2> QED
    BY <2>1, <2>2, <2>3, <2>4
<1> QED
  BY <1>1, <1>2

\* The inductive invariant of the columns holds throughout.
LEMMA ColumnsInvariant == ColumnSpec => []ColumnsInv
<1>1. ColumnInit => ColumnsInv
  BY ColumnsInit
<1>2. ColumnsInv /\ [ColumnNext]_columnVars => ColumnsInv'
  BY ColumnsNext
<1> QED
  BY <1>1, <1>2, PTL DEF ColumnSpec

\* The steps that place or take columns end their transaction.
LEMMA PlacingSteps ==
    ASSUME [ColumnNext]_columnVars, place' # place
    PROVE  \E k \in Editors :
              /\ \E e : edit' = [edit EXCEPT ![k] = e]
              /\ \/ CommitColumn(k) \/ CommitMove(k) \/ CommitDefaults(k) \/ DeleteColumn(k)
                 \/ CommitBoard(k) \/ CommitDrop(k)
<1>1. PICK k \in Editors : ColumnRequest(k) \/ ColumnStep(k) \/ BreakDeadlock(k)
  BY DEF ColumnNext, columnVars
<1>2. ~RollBack(k)
  BY DEF RollBack, columnRows
<1>3. ~ColumnRequest(k)
  <2>1. \A op, col, prev, next, step, R : ~Arrive(k, op, col, prev, next, step, R)
    BY DEF Arrive, columnRows
  <2> QED
    BY <2>1 DEF ColumnRequest, CreateColumn, MoveColumn, SeedColumns, UpdateColumn, RemoveColumn,
                FoundBoard, RenameBoard, DropBoard, CreateTask
<1>4. \A step, siblings, R : ~GoOn(k, step, siblings, R)
  BY DEF GoOn, columnRows
<1>5. ~LockRow(k)
  BY DEF LockRow, columnRows
<1>6. ~ReadColumns(k) /\ ~WriteOwnColumn(k) /\ ~ShareBoard(k) /\ ~CountColumnTasks(k) /\ ~CascadeBoard(k)
  <2>1. ~ReadColumns(k)
    BY <1>2, <1>4 DEF ReadColumns
  <2> QED
    BY <1>2, <1>4, <2>1 DEF WriteOwnColumn, ShareBoard, CountColumnTasks, CascadeBoard
<1>7. ~RecordCreation(k) /\ ~CommitUpdate(k) /\ ~CommitRename(k) /\ ~InsertTask(k)
  BY <1>2 DEF RecordCreation, CommitUpdate, CommitRename, InsertTask
<1>8. \/ CommitColumn(k) \/ CommitMove(k) \/ CommitDefaults(k) \/ DeleteColumn(k)
      \/ CommitBoard(k) \/ CommitDrop(k)
  BY <1>1, <1>2, <1>3, <1>5, <1>6, <1>7 DEF ColumnStep, BreakDeadlock
<1>9. \E e : Finish(k, e)
  BY <1>2, <1>8 DEF CommitColumn, CommitMove, CommitDefaults, DeleteColumn, CommitBoard, CommitDrop
<1>10. \E e : edit' = [edit EXCEPT ![k] = e]
  BY <1>9 DEF Finish
<1> QED
  BY <1>8, <1>10

(***************************************************************************)
(* A creation or a move that commits puts its column between the            *)
(* neighbours its request named, those of them that are still there: from   *)
(* before it reads the list until it commits, the lock on the board keeps   *)
(* every other creation, move and seeding away.                             *)
(***************************************************************************)
THEOREM ColumnsLand == ColumnSpec => ColumnsLandBeside
<1> DEFINE Landing(k, c) ==
             /\ edit[k].at = "write"
             /\ \/ edit[k].op = "create" /\ c \in DOMAIN place' \ DOMAIN place
                \/ edit[k].op = "move" /\ c = edit[k].col
             /\ edit'[k].at # "write"
             /\ place' # place
<1>1. ASSUME ColumnsInv, [ColumnNext]_columnVars, NEW k \in Editors, NEW c \in ColumnIds, Landing(k, c)
      PROVE  Lands(k, c)
  <2>1. PICK m \in Editors :
              /\ \E e : edit' = [edit EXCEPT ![m] = e]
              /\ \/ CommitColumn(m) \/ CommitMove(m) \/ CommitDefaults(m) \/ DeleteColumn(m)
                 \/ CommitBoard(m) \/ CommitDrop(m)
    BY <1>1, PlacingSteps
  <2>2. m = k
    BY <1>1, <2>1 DEF ColumnsInv, ColumnsTyped
  <2>3. (edit[k].op = "create" /\ CommitColumn(k)) \/ (edit[k].op = "move" /\ CommitMove(k))
    BY <1>1, <2>1, <2>2 DEF CommitColumn, CommitMove, CommitDefaults, DeleteColumn, CommitBoard,
                            CommitDrop, Ready
  <2>4. CASE edit[k].op = "create" /\ CommitColumn(k)
    <3>1. ~RollBack(k)
      BY <1>1 DEF RollBack, columnRows
    <3>2. PICK d \in Fresh(1) : place' = Inserted(k, d)
      BY <2>4, <3>1 DEF CommitColumn
    <3>3. d \in ColumnIds /\ d \notin spent /\ Ready(k, "write") /\ edit[k].col = NoRow
      BY <1>1, <2>4 DEF Fresh, CommitColumn, Ready, ColumnsInv, StepOf
    <3>4. edit[k].op \in {"create", "move"}
      BY <2>4
    <3>5. DOMAIN place' = DOMAIN place \cup {d} /\ Lands(k, d)
      BY <1>1, <3>2, <3>3, <3>4, SlotGiven
    <3>6. c = d
      BY <1>1, <2>4, <3>5
    <3> QED
      BY <3>5, <3>6
  <2>5. CASE edit[k].op = "move" /\ CommitMove(k)
    <3>1. Ready(k, "write") /\ place' = Inserted(k, c) /\ edit[k].col = c
      BY <1>1, <2>5 DEF CommitMove
    <3>2. edit[k].op \in {"create", "move"}
      BY <2>5
    <3> QED
      BY <1>1, <3>1, <3>2, SlotGiven
  <2> QED
    BY <2>3, <2>4, <2>5
<1>2. ColumnsInv /\ [ColumnNext]_columnVars =>
         [\A k \in Editors, c \in ColumnIds :
             /\ edit[k].at = "write"
             /\ \/ edit[k].op = "create" /\ c \in DOMAIN place' \ DOMAIN place
                \/ edit[k].op = "move" /\ c = edit[k].col
             /\ edit'[k].at # "write"
             /\ place' # place
             => /\ edit[k].prev \in DOMAIN place => place'[edit[k].prev] < place'[c]
                /\ edit[k].next \in DOMAIN place => place'[c] < place'[edit[k].next]]_columnVars
  BY <1>1 DEF Lands
<1> QED
  BY <1>2, ColumnsInvariant, PTL DEF ColumnSpec, ColumnsLandBeside

-----------------------------------------------------------------------------
(* One list, one writer *)

\* The sequence names each row of the list, in the order of the list.
InOrder(l, s) ==
    /\ s \in Seq(DOMAIN l)
    /\ \A a \in DOMAIN l : \E i \in 1..Len(s) : s[i] = a
    /\ \A i, j \in 1..Len(s) : i < j => Before(l, s[i], s[j])

OrderInv == IsList(list) /\ Strict(list) /\ InOrder(list, order)

\* In order, the index of a row is its rank: a query returns the very sequence.
LEMMA InOrderReadsBack ==
    ASSUME NEW l, IsList(l), NEW s, InOrder(l, s)
    PROVE  ReadBack(l) = s
<1> DEFINE D == DOMAIN l
           n == Len(s)
<1>1. /\ n \in Nat
      /\ \A i \in 1..n : s[i] \in D
      /\ s = [i \in 1..n |-> s[i]]
  BY DEF InOrder
<1>2. \A a \in D : \E i \in 1..n : s[i] = a
  BY DEF InOrder
<1>3. \A i, j \in 1..n : i < j => Before(l, s[i], s[j])
  BY DEF InOrder
<1>4. /\ \A a \in D : ~Before(l, a, a)
      /\ \A a, b \in D : ~(Before(l, a, b) /\ Before(l, b, a))
  BY BeforeIsTotal
<1> HIDE DEF n, D
<1>5. \A i, j \in 1..n : s[i] = s[j] => i = j
  <2> SUFFICES ASSUME NEW i \in 1..n, NEW j \in 1..n, s[i] = s[j], i < j PROVE FALSE
    BY <1>1
  <2> QED
    BY <1>1, <1>3, <1>4
<1>6. ASSUME NEW m \in 0..n
      PROVE  Cardinality({s[j] : j \in 1..m}) = m
  <2> DEFINE S == {s[j] : j \in 1..m}
             F == [j \in 1..m |-> s[j]]
  <2>1. \A j \in 1..m : j \in 1..n
    BY <1>1
  <2>2. F \in [1..m -> S]
    OBVIOUS
  <2>3. \A a, b \in 1..m : F[a] = F[b] => a = b
    BY <1>5, <2>1
  <2>4. \A t \in S : \E j \in 1..m : F[j] = t
    OBVIOUS
  <2> HIDE DEF S, F
  <2>5. F \in Bijection(1..m, S)
    BY <2>2, <2>3, <2>4, Fun_IsBij
  <2>6. ExistsBijection(1..m, S)
    BY <2>5, Fun_ExistsBij
  <2>7. Cardinality(S) = m
    BY <1>1, <2>6, FS_CountingElements
  <2> QED
    BY <2>7 DEF S
<1>7. Cardinality(D) = n
  <2>1. D = {s[j] : j \in 1..n}
    BY <1>1, <1>2
  <2>2. n \in 0..n
    BY <1>1
  <2>3. Cardinality({s[j] : j \in 1..n}) = n
    BY <1>6, <2>2, Zenon
  <2> QED
    BY <2>1, <2>3
<1>8. ASSUME NEW i \in 1..n
      PROVE  Rank(l, s[i]) = i - 1
  <2>1. {b \in D : Before(l, b, s[i])} = {s[j] : j \in 1..(i - 1)}
    <3>1. ASSUME NEW b \in D, Before(l, b, s[i])
          PROVE  \E j \in 1..(i - 1) : b = s[j]
      <4>1. PICK j \in 1..n : s[j] = b
        BY <1>2
      <4>2. ~(i < j) /\ i # j
        BY <1>1, <1>3, <1>4, <3>1, <4>1
      <4>3. j \in 1..(i - 1)
        BY <1>1, <4>2
      <4> QED
        BY <4>1, <4>3
    <3>2. ASSUME NEW j \in 1..(i - 1)
          PROVE  s[j] \in D /\ Before(l, s[j], s[i])
      <4>1. j \in 1..n /\ j < i
        BY <1>1
      <4> QED
        BY <1>1, <1>3, <4>1
    <3> QED
      BY <3>1, <3>2
  <2>2. i - 1 \in 0..n
    BY <1>1
  <2> QED
    BY <1>6, <2>1, <2>2 DEF Rank, D
<1>9. ASSUME NEW i \in 1..n
      PROVE  (CHOOSE a \in D : Rank(l, a) = i - 1) = s[i]
  <2>1. \A a \in D : Rank(l, a) = i - 1 => a = s[i]
    <3> TAKE a \in D
    <3> HAVE Rank(l, a) = i - 1
    <3>1. PICK j \in 1..n : s[j] = a
      BY <1>2
    <3>2. j - 1 = i - 1
      BY <1>8, <3>1
    <3> QED
      BY <1>1, <3>1, <3>2
  <2>2. s[i] \in D /\ Rank(l, s[i]) = i - 1
    BY <1>1, <1>8
  <2> QED
    BY <2>1, <2>2
<1>10. ReadBack(l) = [i \in 1..n |-> CHOOSE a \in D : Rank(l, a) = i - 1]
  BY <1>7 DEF ReadBack, D
<1>11. ReadBack(l) = [i \in 1..n |-> s[i]]
  BY <1>9, <1>10
<1> QED
  BY <1>1, <1>11

\* The place of a row of the list in the sequence.
LEMMA PlaceOfRow ==
    ASSUME NEW l, NEW s, InOrder(l, s), NEW a \in DOMAIN l
    PROVE  IndexIn(s, a) \in 1..Len(s) /\ s[IndexIn(s, a)] = a
<1>1. DOMAIN s = 1..Len(s)
  BY DEF InOrder
<1> QED
  BY <1>1 DEF InOrder, IndexIn

\* Without a row, the others are in the order they were in.
LEMMA RowTaken ==
    ASSUME NEW l, IsList(l), Strict(l), NEW s, InOrder(l, s), NEW id
    PROVE  /\ IsList(Without(l, id)) /\ Strict(Without(l, id))
           /\ InOrder(Without(l, id), RemoveFirst(s, id))
<1> DEFINE w == Without(l, id)
           r == RemoveFirst(s, id)
           n == Len(s)
<1>1. /\ DOMAIN w = DOMAIN l \ {id}
      /\ \A a \in DOMAIN w : w[a] = l[a]
      /\ w \in [DOMAIN l \ {id} -> Int]
  BY DEF Without, IsList
<1>2. IsFiniteSet(DOMAIN l \ {id})
  BY FS_RemoveElement DEF IsList
<1>3. IsList(w) /\ Strict(w)
  BY <1>1, <1>2 DEF IsList, Strict
<1>4. \A a, b \in DOMAIN w : Before(l, a, b) => Before(w, a, b)
  BY <1>1 DEF Before
<1>5. /\ n \in Nat /\ s \in Seq(DOMAIN l)
      /\ \A i \in 1..n : s[i] \in DOMAIN l
      /\ \A a \in DOMAIN l : \E i \in 1..n : s[i] = a
      /\ \A i, j \in 1..n : i < j => Before(l, s[i], s[j])
  BY DEF InOrder
<1>6. \A i, j \in 1..n : s[i] = s[j] => i = j
  <2> SUFFICES ASSUME NEW i \in 1..n, NEW j \in 1..n, s[i] = s[j], i < j PROVE FALSE
    BY <1>5
  <2> QED
    BY <1>5, BeforeIsTotal
<1>7. CASE \A i \in 1..n : s[i] # id
  <2>1. r = s
    BY <1>7 DEF RemoveFirst
  <2>2. id \notin DOMAIN l
    BY <1>5, <1>7
  <2>3. DOMAIN w = DOMAIN l
    BY <1>1, <2>2
  <2> QED
    BY <1>3, <1>4, <1>5, <2>1, <2>3 DEF InOrder
<1>8. CASE \E i \in 1..n : s[i] = id
  <2>1. PICK k \in 1..n : s[k] = id
    BY <1>8
  <2>2. {i \in 1..n : s[i] = id} = {k}
    BY <1>6, <2>1
  <2>3. Min({k}) = k
    BY <1>5 DEF Min
  <2>4. SelectInSeq(s, LAMBDA v : v = id) = k
    BY <2>2, <2>3 DEF SelectInSeq
  <2>5. r = RemoveAt(s, k)
    BY <1>8, <2>4 DEF RemoveFirst
  <2>6. r = SubSeq(s, 1, k - 1) \o SubSeq(s, k + 1, n)
    BY <2>5 DEF RemoveAt
  <2> HIDE DEF r, w
  <2>7. /\ Len(r) = n - 1
        /\ DOMAIN r = 1..(n - 1)
        /\ \A i \in 1..(n - 1) : r[i] = IF i < k THEN s[i] ELSE s[i + 1]
        /\ r \in Seq(DOMAIN l)
    <3> DEFINE S == DOMAIN l
               h == SubSeq(s, 1, k - 1)
               t == SubSeq(s, k + 1, n)
    <3>1. s \in Seq(S) /\ k \in 1..Len(s)
      BY <1>5, <2>1
    <3>2. n = Len(s) /\ n \in Nat
      BY <1>5
    <3>3. \A i \in 1..n : s[i] \in S
      BY <1>5
    <3> HIDE DEF S, n
    <3>4. /\ h \in Seq(S) /\ Len(h) = k - 1
          /\ \A i \in 1..(k - 1) : h[i] = s[i]
      BY <3>1
    <3>5. /\ t \in Seq(S) /\ Len(t) = n - k
          /\ \A i \in 1..(n - k) : t[i] = s[k + i]
      <4>1. k + 1 \in Int /\ \A i \in (k + 1)..n : s[i] \in S
        BY <3>1, <3>3, <3>2
      <4>2. /\ t \in Seq(S)
            /\ Len(t) = IF k + 1 <= n THEN n - (k + 1) + 1 ELSE 0
            /\ \A i \in 1..(n - (k + 1) + 1) : t[i] = s[(k + 1) + i - 1]
        BY <3>2, <4>1, SubSeqProperties
      <4>3. n - (k + 1) + 1 = n - k /\ \A i \in 1..(n - k) : (k + 1) + i - 1 = k + i
        BY <3>1, <3>2
      <4> HIDE DEF t
      <4> QED
        BY <3>1, <3>2, <4>2, <4>3
    <3>6. r = h \o t
      BY <2>6
    <3> HIDE DEF h, t
    <3>7. /\ r \in Seq(S)
          /\ Len(r) = Len(h) + Len(t)
          /\ \A i \in 1..(Len(h) + Len(t)) : r[i] = IF i <= Len(h) THEN h[i] ELSE t[i - Len(h)]
      BY <3>4, <3>5, <3>6, ConcatProperties
    <3>8. Len(h) + Len(t) = n - 1
      BY <1>5, <3>4, <3>5
    <3>9. \A i \in 1..(n - 1) : r[i] = IF i < k THEN s[i] ELSE s[i + 1]
      <4> TAKE i \in 1..(n - 1)
      <4>1. CASE i < k
        <5>1. i \in 1..(k - 1) /\ i <= k - 1
          BY <1>5, <4>1
        <5> QED
          BY <3>4, <3>7, <3>8, <4>1, <5>1
      <4>2. CASE ~(i < k)
        <5>1. i - (k - 1) \in 1..(n - k) /\ k + (i - (k - 1)) = i + 1 /\ ~(i <= k - 1)
          BY <1>5, <4>2
        <5>2. r[i] = t[i - (k - 1)]
          BY <3>4, <3>7, <3>8, <5>1
        <5> QED
          BY <3>5, <4>2, <5>1, <5>2
      <4> QED
        BY <4>1, <4>2
    <3> QED
      BY <1>5, <3>7, <3>8, <3>9 DEF S, n
  <2>8. \A i \in 1..(n - 1) : i \in 1..n /\ i + 1 \in 1..n
    BY <1>5
  <2>9. \A i \in 1..(n - 1) : r[i] \in DOMAIN w
    <3> TAKE i \in 1..(n - 1)
    <3>1. CASE i < k
      <4>1. s[i] # id
        <5>1. i \in 1..n /\ k \in Int
          BY <1>5, <2>8
        <5>2. i # k
          BY <3>1, <5>1
        <5> QED
          BY <1>6, <2>1, <5>1, <5>2
      <4> QED
        BY <1>1, <1>5, <2>7, <2>8, <3>1, <4>1
    <3>2. CASE ~(i < k)
      <4>1. s[i + 1] # id
        <5>1. i + 1 \in 1..n /\ i + 1 # k
          BY <1>5, <2>8, <3>2
        <5> QED
          BY <1>6, <2>1, <5>1
      <4> QED
        BY <1>1, <1>5, <2>7, <2>8, <3>2, <4>1
    <3> QED
      BY <3>1, <3>2
  <2>10. r \in Seq(DOMAIN w)
    <3>1. n - 1 \in Nat
      BY <1>5, <2>1
    <3>2. r = [i \in 1..(n - 1) |-> r[i]]
      BY <2>7
    <3>3. r \in [1..(n - 1) -> DOMAIN w]
      BY <2>9, <3>2
    <3> QED
      BY <3>1, <3>3, SeqDef
  <2>11. ASSUME NEW a \in DOMAIN w
         PROVE  \E i \in 1..(n - 1) : r[i] = a
    <3>1. PICK j \in 1..n : s[j] = a
      BY <1>1, <1>5
    <3>2. j # k
      BY <1>1, <2>1, <3>1
    <3>3. CASE j < k
      <4>1. j \in 1..(n - 1)
        BY <1>5, <2>1, <3>3
      <4> QED
        BY <2>7, <3>1, <3>3, <4>1
    <3>4. CASE k < j
      <4>1. j - 1 \in 1..(n - 1) /\ ~(j - 1 < k) /\ (j - 1) + 1 = j
        BY <1>5, <2>1, <3>4
      <4> QED
        BY <2>7, <3>1, <4>1
    <3> QED
      BY <1>5, <3>2, <3>3, <3>4
  <2>12. ASSUME NEW i \in 1..(n - 1), NEW j \in 1..(n - 1), i < j
         PROVE  Before(w, r[i], r[j])
    <3>1. \E x, y \in 1..n : x < y /\ r[i] = s[x] /\ r[j] = s[y]
      <4>1. CASE j < k
        <5>1. i < k /\ i \in 1..n /\ j \in 1..n
          <6>1. n \in Int /\ k \in Int
            BY <1>5, <2>1
          <6> HIDE DEF n
          <6>2. i < k
            BY <2>12, <4>1, <6>1
          <6> QED
            BY <2>8, <2>12, <6>2
        <5>2. r[i] = s[i] /\ r[j] = s[j]
          BY <2>7, <2>12, <4>1, <5>1
        <5>3. i < j
          BY <2>12
        <5> HIDE DEF r, n
        <5> QED
          BY <5>1, <5>2, <5>3, Zenon
      <4>2. CASE i < k /\ ~(j < k)
        <5>1. i < j + 1 /\ j + 1 \in 1..n /\ i \in 1..n
          BY <1>5, <2>8, <2>12
        <5> QED
          BY <2>7, <4>2, <5>1
      <4>3. CASE ~(i < k)
        <5>1. i + 1 < j + 1 /\ j + 1 \in 1..n /\ i + 1 \in 1..n /\ ~(j < k)
          BY <1>5, <2>8, <2>12, <4>3
        <5> QED
          BY <2>7, <4>3, <5>1
      <4> QED
        BY <1>5, <2>12, <4>1, <4>2, <4>3
    <3>2. Before(l, r[i], r[j])
      BY <1>5, <3>1
    <3> QED
      BY <1>4, <2>9, <3>2
  <2> QED
    BY <1>3, <2>7, <2>10, <2>11, <2>12 DEF InOrder, w, r
<1> QED
  BY <1>3, <1>7, <1>8

\* The rows ahead of the slot a request names are the first ones of the sequence.
LEMMA RowsAheadFirst ==
    ASSUME NEW l, IsList(l), NEW s, InOrder(l, s), NEW prevId, NEW nextId,
           ~NeighborNotFound(l, prevId, nextId)
    PROVE  /\ RefIndex(s, prevId, nextId) \in 0..Len(s)
           /\ \A i \in 1..Len(s) :
                 s[i] \in AheadOf(l, prevId, nextId) <=> i =< RefIndex(s, prevId, nextId)
<1> DEFINE n == Len(s)
<1>1. /\ prevId # NoRow => prevId \in DOMAIN l
      /\ nextId # NoRow => nextId \in DOMAIN l
  BY DEF NeighborNotFound
<1>2. /\ n \in Nat
      /\ \A i \in 1..n : s[i] \in DOMAIN l
      /\ \A i, j \in 1..n : i < j => Before(l, s[i], s[j])
  BY DEF InOrder
<1>3. /\ \A a \in DOMAIN l : ~Before(l, a, a)
      /\ \A a, b \in DOMAIN l : ~(Before(l, a, b) /\ Before(l, b, a))
  BY BeforeIsTotal
<1>4. \A i, j \in 1..n : Before(l, s[i], s[j]) => i < j
  BY <1>2, <1>3
<1>5. CASE prevId # NoRow
  <2> DEFINE k == IndexIn(s, prevId)
  <2>1. k \in 1..n /\ s[k] = prevId
    BY <1>1, <1>5, PlaceOfRow
  <2>2. RefIndex(s, prevId, nextId) = k
    BY <1>5 DEF RefIndex
  <2> HIDE DEF k
  <2>3. \A i \in 1..n : s[i] \in AheadOf(l, prevId, nextId) <=> ~Before(l, s[k], s[i])
    BY <1>2, <1>5, <2>1 DEF AheadOf
  <2>4. \A i \in 1..n : Before(l, s[k], s[i]) <=> k < i
    BY <1>2, <1>4, <2>1
  <2> QED
    BY <1>2, <2>1, <2>2, <2>3, <2>4
<1>6. CASE prevId = NoRow /\ nextId # NoRow
  <2> DEFINE k == IndexIn(s, nextId)
  <2>1. k \in 1..n /\ s[k] = nextId
    BY <1>1, <1>6, PlaceOfRow
  <2>2. RefIndex(s, prevId, nextId) = k - 1
    BY <1>6 DEF RefIndex
  <2> HIDE DEF k
  <2>3. \A i \in 1..n : s[i] \in AheadOf(l, prevId, nextId) <=> Before(l, s[i], s[k])
    BY <1>2, <1>6, <2>1 DEF AheadOf
  <2>4. \A i \in 1..n : Before(l, s[i], s[k]) <=> i < k
    BY <1>2, <1>4, <2>1
  <2> QED
    BY <1>2, <2>1, <2>2, <2>3, <2>4
<1>7. CASE prevId = NoRow /\ nextId = NoRow
  BY <1>2, <1>7 DEF RefIndex, AheadOf
<1> QED
  BY <1>5, <1>6, <1>7

\* A sequence with an element put in behind the first k.
PutIn(s, k, e, i) == IF i =< k THEN s[i] ELSE IF i = k + 1 THEN e ELSE s[i - 1]

LEMMA PutInSequence ==
    ASSUME NEW S, NEW s \in Seq(S), NEW k \in 0..Len(s), NEW e \in S
    PROVE  /\ InsertAt(s, k + 1, e) \in Seq(S)
           /\ Len(InsertAt(s, k + 1, e)) = Len(s) + 1
           /\ \A i \in 1..(Len(s) + 1) : InsertAt(s, k + 1, e)[i] = PutIn(s, k, e, i)
<1> DEFINE h == SubSeq(s, 1, k)
           t == SubSeq(s, k + 1, Len(s))
           n == Len(s)
<1>1. n \in Nat /\ k \in Nat /\ k =< n
  OBVIOUS
<1>2. h \in Seq(S) /\ Len(h) = k /\ \A i \in 1..k : h[i] = s[i]
  OBVIOUS
<1>3. t \in Seq(S) /\ Len(t) = n - k /\ \A i \in 1..(n - k) : t[i] = s[k + i]
  OBVIOUS
<1>4. InsertAt(s, k + 1, e) = h \o <<e>> \o t
  <2>1. (k + 1) - 1 = k
    BY <1>1
  <2> QED
    BY <2>1, Zenon DEF InsertAt
<1> HIDE DEF h, t, n
<1> DEFINE g == h \o <<e>>
           c == g \o t
<1>5. g \in Seq(S) /\ Len(g) = k + 1 /\ (\A i \in 1..k : g[i] = h[i]) /\ g[k + 1] = e
  <2> DEFINE f == <<e>>
  <2>1. f \in Seq(S) /\ Len(f) = 1 /\ f[1] = e
    OBVIOUS
  <2> HIDE DEF f
  <2>2. /\ h \o f \in Seq(S)
        /\ Len(h \o f) = k + 1
        /\ \A i \in 1..(k + 1) : (h \o f)[i] = IF i <= k THEN h[i] ELSE f[i - k]
    <3>1. /\ h \o f \in Seq(S)
          /\ Len(h \o f) = Len(h) + Len(f)
          /\ \A i \in 1..(Len(h) + Len(f)) : (h \o f)[i] = IF i <= Len(h) THEN h[i] ELSE f[i - Len(h)]
      BY <1>2, <2>1, ConcatProperties
    <3> QED
      BY <1>2, <2>1, <3>1
  <2>3. g = h \o f
    BY DEF f
  <2> HIDE DEF g
  <2> QED
    BY <1>1, <2>1, <2>2, <2>3
<1> HIDE DEF g
<1>6. /\ g \o t \in Seq(S)
      /\ Len(g \o t) = Len(g) + Len(t)
      /\ \A i \in 1..(Len(g) + Len(t)) : (g \o t)[i] = IF i <= Len(g) THEN g[i] ELSE t[i - Len(g)]
  BY <1>3, <1>5, ConcatProperties
<1> HIDE DEF c
<1>7. /\ c \in Seq(S) /\ Len(c) = n + 1
      /\ \A i \in 1..(n + 1) : c[i] = IF i =< k + 1 THEN g[i] ELSE t[i - (k + 1)]
  <2>1. Len(g) + Len(t) = n + 1
    BY <1>1, <1>3, <1>5
  <2> QED
    BY <1>5, <1>6, <2>1 DEF c
<1>8. \A i \in 1..(n + 1) : c[i] = PutIn(s, k, e, i)
  <2> SUFFICES \A i \in 1..(n + 1) :
                 c[i] = IF i =< k THEN s[i] ELSE IF i = k + 1 THEN e ELSE s[i - 1]
    BY DEF PutIn
  <2> TAKE i \in 1..(n + 1)
  <2>1. CASE i =< k
    <3>1. i \in 1..k /\ i =< k + 1
      BY <1>1, <2>1
    <3> QED
      BY <1>2, <1>5, <1>7, <2>1, <3>1
  <2>2. CASE i = k + 1
    BY <1>1, <1>5, <1>7, <2>2
  <2>3. CASE k + 1 < i
    <3>1. i - (k + 1) \in 1..(n - k) /\ k + (i - (k + 1)) = i - 1 /\ ~(i =< k + 1)
      BY <1>1, <2>3
    <3>2. c[i] = t[i - (k + 1)]
      BY <1>7, <3>1
    <3>3. t[i - (k + 1)] = s[k + (i - (k + 1))]
      BY <1>3, <3>1
    <3> QED
      BY <1>1, <2>3, <3>1, <3>2, <3>3
  <2> QED
    BY <1>1, <2>1, <2>2, <2>3
<1> QED
  <2>1. InsertAt(s, k + 1, e) = c
    BY <1>4 DEF c, g
  <2> QED
    BY <1>7, <1>8, <2>1 DEF n

\* With a row put into a slot, the sequence that puts it at the slot's index is in order.
LEMMA InSlotInOrder ==
    ASSUME NEW l, IsList(l), NEW s, InOrder(l, s), NEW ahead, NEW k \in 0..Len(s),
           \A i \in 1..Len(s) : s[i] \in ahead <=> i =< k,
           NEW id, NEW w, DOMAIN w = DOMAIN l \cup {id},
           \A a, b \in DOMAIN l : Before(l, a, b) => Before(w, a, b),
           \A a \in ahead : Before(w, a, id),
           \A a \in DOMAIN l \ ahead : Before(w, id, a)
    PROVE  InOrder(w, InsertAt(s, k + 1, id))
<1> DEFINE n == Len(s)
           t == InsertAt(s, k + 1, id)
           D == DOMAIN l
<1>1. /\ n \in Nat /\ k \in Nat /\ k =< n
      /\ \A i \in 1..n : s[i] \in D
      /\ \A a \in D : \E i \in 1..n : s[i] = a
      /\ \A i, j \in 1..n : i < j => Before(w, s[i], s[j])
      /\ \A i \in 1..n : i =< k => Before(w, s[i], id)
      /\ \A i \in 1..n : k < i => Before(w, id, s[i])
  <2>1. /\ n \in Nat /\ k \in Nat /\ k =< n
        /\ \A i \in 1..n : s[i] \in D
        /\ \A a \in D : \E i \in 1..n : s[i] = a
        /\ \A i, j \in 1..n : i < j => Before(l, s[i], s[j])
    BY DEF InOrder
  <2>2. \A i \in 1..n : k < i => s[i] \in D \ ahead
    BY <2>1
  <2> QED
    BY <2>1, <2>2
<1>2. s \in Seq(D \cup {id}) /\ id \in D \cup {id}
  <2>1. s = [i \in 1..n |-> s[i]]
    BY DEF InOrder
  <2>2. s \in [1..n -> D \cup {id}]
    BY <1>1, <2>1
  <2> QED
    BY <1>1, <2>2, SeqDef
<1> HIDE DEF D
<1> DEFINE S == D \cup {id}
<1> HIDE DEF S
<1>3. /\ t \in Seq(S) /\ Len(t) = n + 1
      /\ \A i \in 1..(n + 1) : t[i] = PutIn(s, k, id, i)
  <2>1. s \in Seq(S) /\ id \in S
    BY <1>2 DEF S
  <2> QED
    BY <2>1, PutInSequence, ZenonT(60)
<1> HIDE DEF n, t
<1>4. /\ \A i \in 1..n : i =< k => t[i] = s[i]
      /\ t[k + 1] = id
      /\ \A i \in 1..n : k < i => t[i + 1] = s[i]
  <2>1. ASSUME NEW i \in 1..n, i =< k
        PROVE  t[i] = s[i]
    <3>1. i \in 1..(n + 1)
      BY <1>1
    <3> QED
      BY <1>3, <2>1, <3>1 DEF PutIn
  <2>2. t[k + 1] = id
    <3>1. k + 1 \in 1..(n + 1) /\ ~(k + 1 =< k)
      BY <1>1
    <3> QED
      BY <1>3, <3>1 DEF PutIn
  <2>3. ASSUME NEW i \in 1..n, k < i
        PROVE  t[i + 1] = s[i]
    <3>1. i + 1 \in 1..(n + 1) /\ ~(i + 1 =< k) /\ i + 1 # k + 1 /\ (i + 1) - 1 = i
      BY <1>1, <2>3
    <3>2. t[i + 1] = s[(i + 1) - 1]
      BY <1>3, <3>1 DEF PutIn
    <3> QED
      BY <3>1, <3>2
  <2> QED
    BY <2>1, <2>2, <2>3
<1>5. \A a \in S : \E i \in 1..(n + 1) : t[i] = a
  <2> TAKE a \in S
  <2>1. CASE a = id
    BY <1>1, <1>4, <2>1
  <2>2. CASE a \in D
    <3>1. PICK i \in 1..n : s[i] = a
      BY <1>1, <2>2
    <3>2. i \in 1..(n + 1) /\ i + 1 \in 1..(n + 1) /\ (i =< k \/ k < i)
      BY <1>1
    <3> QED
      BY <1>4, <3>1, <3>2
  <2> QED
    BY <2>1, <2>2 DEF S
<1>6. ASSUME NEW i \in 1..(n + 1), NEW j \in 1..(n + 1), i < j
      PROVE  Before(w, t[i], t[j])
  <2>1. CASE j =< k
    <3>1. i \in 1..n /\ j \in 1..n /\ i =< k
      BY <1>1, <1>6, <2>1
    <3> QED
      BY <1>1, <1>4, <1>6, <2>1, <3>1
  <2>2. CASE j = k + 1
    <3>1. i \in 1..n /\ i =< k
      BY <1>1, <1>6, <2>2
    <3> QED
      BY <1>1, <1>4, <2>2, <3>1
  <2>3. CASE k + 1 < j
    <3>1. j - 1 \in 1..n /\ k < j - 1 /\ (j - 1) + 1 = j
      BY <1>1, <2>3
    <3>2. t[j] = s[j - 1]
      BY <1>4, <3>1
    <3>3. CASE i =< k
      <4>1. i \in 1..n /\ i < j - 1
        BY <1>1, <2>3, <3>3
      <4> QED
        BY <1>1, <1>4, <3>1, <3>2, <3>3, <4>1
    <3>4. CASE i = k + 1
      BY <1>1, <1>4, <3>1, <3>2, <3>4
    <3>5. CASE k + 1 < i
      <4>1. i - 1 \in 1..n /\ k < i - 1 /\ (i - 1) + 1 = i /\ i - 1 < j - 1
        BY <1>1, <1>6, <3>5
      <4>2. t[i] = s[i - 1]
        BY <1>4, <4>1
      <4> QED
        BY <1>1, <3>1, <3>2, <4>1, <4>2
    <3> QED
      BY <1>1, <3>3, <3>4, <3>5
  <2> QED
    BY <1>1, <2>1, <2>2, <2>3
<1> QED
  <2>1. DOMAIN w = S
    BY DEF S, D
  <2> QED
    BY <1>3, <1>5, <1>6, <2>1 DEF InOrder, t

LEMMA OrderStarts == Init => OrderInv
<1> SUFFICES ASSUME Init PROVE OrderInv
  OBVIOUS
<1>1. DOMAIN list = {} /\ order = <<>> /\ list \in [{} -> Int]
  BY DEF Init
<1>2. IsFiniteSet({})
  BY FS_EmptySet
<1> QED
  BY <1>1, <1>2 DEF OrderInv, IsList, Strict, InOrder

LEMMA OrderStays == OrderInv /\ [Next]_vars => OrderInv'
<1> SUFFICES ASSUME OrderInv, [Next]_vars PROVE OrderInv'
  OBVIOUS
<1>1. IsList(list) /\ Strict(list) /\ InOrder(list, order)
  BY DEF OrderInv
<1>2. ASSUME NEW id \in Ids, NEW prevId, NEW nextId, Place(id, prevId, nextId)
      PROVE  OrderInv'
  <2> DEFINE others == Without(list, id)
             rest == RemoveFirst(order, id)
             ahead == AheadOf(others, prevId, nextId)
             k == RefIndex(rest, prevId, nextId)
  <2>1. IsList(others) /\ Strict(others) /\ InOrder(others, rest)
    BY <1>1, RowTaken
  <2>2. /\ ~NeighborNotFound(others, prevId, nextId)
        /\ list' = [a \in DOMAIN others \cup {id} |->
                      IF a = id THEN OwnPosition(others, ahead)
                                ELSE OtherPosition(others, ahead, a)]
        /\ order' = InsertAt(rest, k + 1, id)
    BY <1>2 DEF Place
  <2>3. id \in Nat \ {NoRow} /\ id \notin DOMAIN others
    BY RowsAssumption DEF Without
  <2> HIDE DEF others, rest
  <2>4. IsSlot(others, ahead)
    BY <2>1, <2>2, RequestedSlot
  <2>5. k \in 0..Len(rest) /\ \A i \in 1..Len(rest) : rest[i] \in ahead <=> i =< k
    BY <2>1, <2>2, RowsAheadFirst
  <2> HIDE DEF ahead, k
  <2>6. /\ IsList(list') /\ Strict(list') /\ DOMAIN list' = DOMAIN others \cup {id}
        /\ \A a, b \in DOMAIN others : Before(others, a, b) => Before(list', a, b)
        /\ \A a \in ahead : Before(list', a, id)
        /\ \A a \in DOMAIN others \ ahead : Before(list', id, a)
    BY <2>1, <2>2, <2>3, <2>4, RowInSlot
  <2>7. InOrder(list', order')
    BY <2>1, <2>2, <2>5, <2>6, InSlotInOrder
  <2> QED
    BY <2>6, <2>7 DEF OrderInv, IsList, Strict, InOrder, Before
<1>3. ASSUME NEW id \in Ids, Delete(id)
      PROVE  OrderInv'
  <2>1. list' = Without(list, id) /\ order' = RemoveFirst(order, id)
    BY <1>3 DEF Delete
  <2>2. IsList(list') /\ Strict(list') /\ InOrder(list', order')
    BY <1>1, <2>1, RowTaken
  <2> QED
    BY <2>2 DEF OrderInv, IsList, Strict, InOrder, Before
<1>4. CASE UNCHANGED vars
  BY <1>1, <1>4 DEF OrderInv, IsList, Strict, InOrder, Before, vars
<1> QED
  BY <1>2, <1>3, <1>4 DEF Next

LEMMA OrderInvariant == Spec => []OrderInv
BY OrderStarts, OrderStays, PTL DEF Spec

LEMMA OrderedReadsBack == OrderInv => ReadsBackAsAsked
BY InOrderReadsBack DEF OrderInv, ReadsBackAsAsked

-----------------------------------------------------------------------------
(* The board in a browser: what the requests, answers and events are *)

\* What the server and the browser can hold of the board, ask, answer and send.
Boards == UNION {[S -> CardRows] : S \in SUBSET TaskIds}

Counts == [TaskIds -> Nat]

MoveRequests ==
    [kind : {"move"}, task : TaskIds, lane : BoardLanes, generation : Nat, previous : Boards]

Requests ==
    [kind : {"page"}, by : Drains, after : TaskIds \cup {0}]
      \cup [kind : {"meta"}, by : Drains]
      \cup [kind : {"columns"}]
      \cup [kind : {"task"}, task : TaskIds]
      \cup MoveRequests
      \cup [kind : {"columnMove", "seed"}, basis : SUBSET Nat, change : Nat]

Replies ==
    [kind : {"page"}, by : Drains, first : BOOLEAN, at : Counts, tasks : Boards,
     next : TaskIds \cup {0}]
      \cup [kind : {"meta"}, by : Drains, columns : SUBSET Nat]
      \cup [kind : {"columnList"}, columns : SUBSET Nat]
      \cup [kind : {"task", "accepted"}, task : TaskIds, row : CardRows, at : Nat]
      \cup [kind : {"refused"}, move : MoveRequests]
      \cup [kind : {"conflict"}]

Events ==
    [kind : {"ack", "columns"}]
      \cup [kind : {"created", "updated", "deleted"}, task : TaskIds, at : Nat]
      \cup [kind : {"moved"}, task : TaskIds, lane : BoardLanes, own : BOOLEAN, at : Nat]

Resyncs == [timer : BOOLEAN, running : BOOLEAN, queued : BOOLEAN, fresh : BOOLEAN]

ClientTyped ==
    /\ rows \in Boards /\ drawn \in Boards
    /\ stamp \in Counts /\ placed \in Counts /\ latest \in Counts
    /\ columnSet \in SUBSET Nat /\ drawnCols \in SUBSET Nat /\ latestCols \in SUBSET Nat
    /\ asked \in SUBSET Requests /\ answers \in SUBSET Replies
    /\ wire \in Seq(Events)
    /\ room \in BOOLEAN /\ loading \in BOOLEAN
    /\ link \in {"down", "open", "joined"}
    /\ armed \in SUBSET TaskIds
    /\ resync \in Resyncs
    /\ drains \in [Drains -> SUBSET {"meta", "pages"}]
    /\ drag \in TaskIds \cup {0} /\ moves \in Nat /\ acts \in Nat
    /\ owed \in BOOLEAN /\ skipped \in BOOLEAN /\ restored \in BOOLEAN /\ overtaken \in BOOLEAN

LEMMA TaskIdsAre ==
    TaskIds \subseteq Nat /\ 0 \notin TaskIds /\ IsFiniteSet(TaskIds) /\ TaskPage \in Nat \ {0}
BY BoardClientAssumption

LEMMA BoardsAre ==
    ASSUME NEW b
    PROVE  b \in Boards <=> IsBoard(b)
BY DEF Boards, IsBoard

LEMMA BoardFacts ==
    ASSUME NEW b \in Boards
    PROVE  /\ DOMAIN b \subseteq TaskIds
           /\ b \in [DOMAIN b -> CardRows]
           /\ \A t \in DOMAIN b : b[t] \in CardRows /\ b[t].lane \in BoardLanes /\ b[t].text \in Nat
BY DEF Boards, CardRows

LEMMA ReplyFields ==
    ASSUME NEW m \in Replies
    PROVE  /\ m.kind \in {"page", "meta", "columnList", "task", "accepted", "refused", "conflict"}
           /\ m.kind = "page" => /\ m.by \in Drains /\ m.first \in BOOLEAN /\ m.at \in Counts
                                 /\ m.tasks \in Boards /\ m.next \in TaskIds \cup {0}
           /\ m.kind = "meta" => m.by \in Drains
           /\ m.kind \in {"meta", "columnList"} => m.columns \in SUBSET Nat
           /\ m.kind \in {"task", "accepted"} => m.task \in TaskIds /\ m.row \in CardRows /\ m.at \in Nat
           /\ m.kind = "refused" => m.move \in MoveRequests
BY DEF Replies

LEMMA EventFields ==
    ASSUME NEW m \in Events
    PROVE  /\ m.kind \in {"ack", "columns", "created", "updated", "deleted", "moved"}
           /\ m.kind \in {"created", "updated", "deleted", "moved"} => m.task \in TaskIds /\ m.at \in Nat
           /\ m.kind = "moved" => m.lane \in BoardLanes /\ m.own \in BOOLEAN
BY DEF Events

LEMMA RequestFields ==
    ASSUME NEW r \in Requests
    PROVE  /\ r.kind \in {"page", "meta", "columns", "task", "move", "columnMove", "seed"}
           /\ r.kind = "page" => r.by \in Drains /\ r.after \in TaskIds \cup {0}
           /\ r.kind = "meta" => r.by \in Drains
           /\ r.kind = "task" => r.task \in TaskIds
           /\ r.kind = "move" => /\ r \in MoveRequests /\ r.task \in TaskIds
                                 /\ r.lane \in BoardLanes /\ r.previous \in Boards
           /\ r.kind \in {"columnMove", "seed"} => r.basis \in SUBSET Nat /\ r.change \in Nat
BY DEF Requests, MoveRequests

\* The next page leaves out only tasks above the cursor it names, and has none above it.
LEMMA PageReads ==
    ASSUME rows \in Boards, NEW cursor \in TaskIds \cup {0}
    PROVE  /\ PageAfter(cursor).tasks \in Boards
           /\ PageAfter(cursor).next \in TaskIds \cup {0}
           /\ \A t \in DOMAIN PageAfter(cursor).tasks :
                 t \in DOMAIN rows /\ PageAfter(cursor).tasks[t] = rows[t]
           /\ \A t \in DOMAIN rows : cursor < t =>
                 \/ t \in DOMAIN PageAfter(cursor).tasks
                 \/ PageAfter(cursor).next # 0 /\ PageAfter(cursor).next < t
           /\ PageAfter(cursor).next # 0 =>
                 \A t \in DOMAIN PageAfter(cursor).tasks : t =< PageAfter(cursor).next
<1> DEFINE rest == {t \in DOMAIN rows : t > cursor}
           page == {t \in rest : Cardinality({s \in rest : s =< t}) =< TaskPage}
           last == CHOOSE t \in page : \A s \in page : s =< t
           tasks == [t \in page |-> rows[t]]
           next == IF page = rest THEN 0 ELSE last
<1>1. PageAfter(cursor) = [tasks |-> tasks, next |-> next]
  BY DEF PageAfter
<1>2. PageAfter(cursor).tasks = tasks /\ PageAfter(cursor).next = next
  BY <1>1
<1>3. page \subseteq rest /\ rest \subseteq DOMAIN rows /\ DOMAIN rows \subseteq TaskIds
  BY BoardFacts
<1>4. tasks \in Boards
  <2>1. \A t \in page : rows[t] \in CardRows
    BY <1>3, BoardFacts
  <2> HIDE DEF page
  <2>2. tasks \in [page -> CardRows]
    BY <2>1
  <2> QED
    BY <1>3, <2>2 DEF Boards
<1>5. rest \in SUBSET Nat /\ IsFiniteSet(rest) /\ 0 \notin rest
  BY <1>3, FS_Subset, BoardClientAssumption
<1>6. \A t \in rest : UpTo(rest, t) = Cardinality({s \in rest : s =< t})
  BY DEF UpTo
<1>7. page = {t \in rest : UpTo(rest, t) =< TaskPage}
  BY <1>6
<1> HIDE DEF page
<1>8. ASSUME page # rest
      PROVE  last \in page /\ \A s \in page : s =< last
  <2>1. PICK m \in rest : \A s \in rest : m =< s
    BY <1>3, <1>5, <1>8, LeastOfNat
  <2>2. m \in page
    BY <1>5, <1>7, <2>1, UpToLeast, BoardClientAssumption
  <2>3. page \in SUBSET Nat /\ page # {} /\ IsFiniteSet(page)
    BY <1>3, <1>5, <2>2, FS_Subset
  <2>4. \E c \in page : \A d \in page : d =< c
    BY <2>3, GreatestOfNat
  <2> QED
    BY <2>4
<1>9. next \in TaskIds \cup {0}
  BY <1>3, <1>8
<1>10. ASSUME NEW t \in DOMAIN rows, cursor < t, t \notin page
       PROVE  next # 0 /\ next < t
  <2>1. t \in rest /\ cursor \in Nat /\ t \in Nat
    <3>1. cursor \in Nat
      BY TaskIdsAre
    <3>2. t \in TaskIds
      BY <1>3
    <3>3. t \in Nat
      BY <3>2, TaskIdsAre
    <3> QED
      BY <1>10, <3>1, <3>3
  <2>2. page # rest
    BY <1>10, <2>1
  <2>3. last \in page /\ next = last
    BY <1>8, <2>2
  <2> HIDE DEF next, last
  <2>4. last \in rest /\ last \in Nat /\ last # 0
    BY <1>3, <1>5, <2>3
  <2>5. UpTo(rest, last) =< TaskPage /\ ~(UpTo(rest, t) =< TaskPage)
    BY <1>7, <1>10, <2>1, <2>3
  <2>6. last # t /\ ~(t < last)
    <3> SUFFICES ASSUME t < last PROVE FALSE
      BY <2>3, <1>10
    <3> HIDE DEF rest
    <3>1. UpTo(rest, t) < UpTo(rest, last)
      BY <1>5, <2>1, <2>4, UpToGrows
    <3>2. UpTo(rest, t) \in Nat /\ UpTo(rest, last) \in Nat
      BY <1>5, UpToIs
    <3> QED
      BY <2>5, <3>1, <3>2, BoardClientAssumption
  <2> QED
    BY <2>1, <2>3, <2>4, <2>6
<1>12. next # 0 => \A t \in page : t =< next
  BY <1>8
<1> HIDE DEF next, rest
<1>11. DOMAIN tasks = page /\ \A t \in page : tasks[t] = rows[t]
  OBVIOUS
<1> HIDE DEF tasks
<1> QED
  BY <1>2, <1>3, <1>4, <1>9, <1>10, <1>11, <1>12

\* The board with a row put, without a task, with a task moved.
Rowed(b, t, r) == [s \in DOMAIN b \cup {t} |-> IF s = t THEN r ELSE b[s]]
WithLane(b, t, lane) == [b EXCEPT ![t].lane = lane]
WithText(b, t, text) == [b EXCEPT ![t].text = text]

LEMMA RowPut ==
    ASSUME NEW b \in Boards, NEW t \in TaskIds, NEW r \in CardRows
    PROVE  /\ Rowed(b, t, r) \in Boards /\ DOMAIN Rowed(b, t, r) = DOMAIN b \cup {t}
           /\ Rowed(b, t, r)[t] = r
           /\ \A s \in DOMAIN b \ {t} : Rowed(b, t, r)[s] = b[s]
<1> DEFINE c == Rowed(b, t, r)
<1>1. /\ c \in [DOMAIN b \cup {t} -> CardRows] /\ DOMAIN b \cup {t} \subseteq TaskIds
      /\ c = [s \in DOMAIN b \cup {t} |-> IF s = t THEN r ELSE b[s]]
  BY BoardFacts DEF Rowed
<1> HIDE DEF c
<1>2. c \in Boards /\ DOMAIN c = DOMAIN b \cup {t} /\ c[t] = r /\ \A s \in DOMAIN b \ {t} : c[s] = b[s]
  BY <1>1 DEF Boards
<1> QED
  BY <1>2 DEF c

LEMMA RowDropped ==
    ASSUME NEW b \in Boards, NEW t \in TaskIds
    PROVE  /\ Without(b, t) \in Boards /\ DOMAIN Without(b, t) = DOMAIN b \ {t}
           /\ \A s \in DOMAIN b \ {t} : Without(b, t)[s] = b[s]
<1> DEFINE c == Without(b, t)
<1>1. /\ c \in [DOMAIN b \ {t} -> CardRows] /\ DOMAIN b \ {t} \subseteq TaskIds
      /\ c = [s \in DOMAIN b \ {t} |-> b[s]]
  BY BoardFacts DEF Without
<1> HIDE DEF c
<1>2. c \in Boards /\ DOMAIN c = DOMAIN b \ {t} /\ \A s \in DOMAIN b \ {t} : c[s] = b[s]
  BY <1>1 DEF Boards
<1> QED
  BY <1>2 DEF c

LEMMA RowRelaned ==
    ASSUME NEW b \in Boards, NEW t \in DOMAIN b, NEW lane \in BoardLanes
    PROVE  /\ WithLane(b, t, lane) \in Boards /\ DOMAIN WithLane(b, t, lane) = DOMAIN b
           /\ WithLane(b, t, lane)[t].lane = lane /\ WithLane(b, t, lane)[t].text = b[t].text
           /\ \A s \in DOMAIN b \ {t} : WithLane(b, t, lane)[s] = b[s]
<1> DEFINE c == WithLane(b, t, lane)
<1>1. [b[t] EXCEPT !.lane = lane] \in CardRows /\ [b[t] EXCEPT !.lane = lane].lane = lane
      /\ [b[t] EXCEPT !.lane = lane].text = b[t].text
  BY BoardFacts DEF CardRows
<1>2. c = [b EXCEPT ![t] = [b[t] EXCEPT !.lane = lane]]
  BY DEF WithLane
<1> HIDE DEF c
<1>3. c \in [DOMAIN b -> CardRows] /\ DOMAIN b \subseteq TaskIds
  BY <1>1, <1>2, BoardFacts
<1>4. DOMAIN c = DOMAIN b /\ c[t] = [b[t] EXCEPT !.lane = lane] /\ \A s \in DOMAIN b \ {t} : c[s] = b[s]
  BY <1>2
<1> QED
  BY <1>1, <1>3, <1>4 DEF Boards, c

LEMMA RowEdited ==
    ASSUME NEW b \in Boards, NEW t \in DOMAIN b, NEW text \in Nat
    PROVE  /\ WithText(b, t, text) \in Boards /\ DOMAIN WithText(b, t, text) = DOMAIN b
           /\ WithText(b, t, text)[t].text = text /\ WithText(b, t, text)[t].lane = b[t].lane
           /\ \A s \in DOMAIN b \ {t} : WithText(b, t, text)[s] = b[s]
<1> DEFINE c == WithText(b, t, text)
<1>1. [b[t] EXCEPT !.text = text] \in CardRows /\ [b[t] EXCEPT !.text = text].text = text
      /\ [b[t] EXCEPT !.text = text].lane = b[t].lane
  BY BoardFacts DEF CardRows
<1>2. c = [b EXCEPT ![t] = [b[t] EXCEPT !.text = text]]
  BY DEF WithText
<1> HIDE DEF c
<1>3. c \in [DOMAIN b -> CardRows] /\ DOMAIN b \subseteq TaskIds
  BY <1>1, <1>2, BoardFacts
<1>4. DOMAIN c = DOMAIN b /\ c[t] = [b[t] EXCEPT !.text = text] /\ \A s \in DOMAIN b \ {t} : c[s] = b[s]
  BY <1>2
<1> QED
  BY <1>1, <1>3, <1>4 DEF Boards, c

\* A page merged: the first is the board, a later one adds what is not shown.
LEMMA MergedShows ==
    ASSUME drawn \in Boards, NEW m \in Replies, m.kind = "page"
    PROVE  /\ Merged(m) \in Boards
           /\ m.first => Merged(m) = m.tasks
           /\ ~m.first => /\ DOMAIN Merged(m) = DOMAIN drawn \cup DOMAIN m.tasks
                          /\ \A t \in DOMAIN drawn : Merged(m)[t] = drawn[t]
                          /\ \A t \in DOMAIN m.tasks \ DOMAIN drawn : Merged(m)[t] = m.tasks[t]
<1>1. m.tasks \in Boards /\ DOMAIN m.tasks \subseteq TaskIds /\ DOMAIN drawn \subseteq TaskIds
  BY ReplyFields, BoardFacts
<1>2. CASE m.first
  BY <1>1, <1>2 DEF Merged
<1>3. CASE ~m.first
  <2> DEFINE b == m.tasks
             c == [t \in DOMAIN drawn \cup DOMAIN b |-> IF t \in DOMAIN drawn THEN drawn[t] ELSE b[t]]
  <2>1. Merged(m) = c
    BY <1>3 DEF Merged
  <2>2. \A t \in DOMAIN drawn : drawn[t] \in CardRows
    BY BoardFacts
  <2>3. \A t \in DOMAIN b : b[t] \in CardRows
    BY <1>1, BoardFacts
  <2>4. b \in Boards /\ DOMAIN b \subseteq TaskIds
    BY <1>1
  <2> HIDE DEF b
  <2>5. c \in [DOMAIN drawn \cup DOMAIN b -> CardRows]
    BY <2>2, <2>3
  <2>6. c \in Boards
    BY <1>1, <2>4, <2>5 DEF Boards
  <2>7. /\ DOMAIN c = DOMAIN drawn \cup DOMAIN b
        /\ \A t \in DOMAIN drawn : c[t] = drawn[t]
        /\ \A t \in DOMAIN b \ DOMAIN drawn : c[t] = b[t]
    OBVIOUS
  <2> QED
    BY <1>3, <2>1, <2>6, <2>7 DEF b
<1> QED
  BY <1>2, <1>3

\* An event that reaches the browser, and one that it has received.
LEMMA EmittedTyped ==
    ASSUME wire \in Seq(Events), NEW e \in Events
    PROVE  /\ Emitted(e) \in Seq(Events) /\ Len(wire) \in Nat
           /\ \A i \in 1..Len(wire) : i \in 1..Len(Emitted(e)) /\ Emitted(e)[i] = wire[i] /\ wire[i] \in Events
           /\ room => Len(Emitted(e)) = Len(wire) + 1 /\ Emitted(e)[Len(wire) + 1] = e
           /\ ~room => Emitted(e) = wire
BY DEF Emitted

LEMMA ResyncFields ==
    ASSUME NEW r \in Resyncs
    PROVE  /\ r.timer \in BOOLEAN /\ r.running \in BOOLEAN /\ r.queued \in BOOLEAN /\ r.fresh \in BOOLEAN
           /\ r = [timer |-> r.timer, running |-> r.running, queued |-> r.queued, fresh |-> r.fresh]
BY DEF Resyncs

LEMMA AgedIs ==
    ASSUME NEW r \in Resyncs, NEW a \in Aged(r)
    PROVE  /\ a \in Resyncs /\ a.timer = r.timer /\ a.running = r.running /\ a.queued = r.queued
           /\ (~r.fresh => ~a.fresh)
<1>1. CASE a = r
  BY <1>1
<1>2. CASE a = [r EXCEPT !.fresh = FALSE]
  <2>1. a = [timer |-> r.timer, running |-> r.running, queued |-> r.queued, fresh |-> FALSE]
    <3>1. r = [timer |-> r.timer, running |-> r.running, queued |-> r.queued, fresh |-> r.fresh]
      BY ResyncFields
    <3> QED
      BY <1>2, <3>1
  <2> QED
    BY <2>1, ResyncFields DEF Resyncs
<1> QED
  BY <1>1, <1>2 DEF Aged

\* What becomes of a resync asked for: dropped, queued or debounced.
LEMMA RequestedIs ==
    ASSUME NEW r \in Resyncs, NEW q, q = Requested(r)
    PROVE  /\ q \in Resyncs /\ q.running = r.running /\ q.fresh = r.fresh
           /\ (r.timer => q.timer) /\ (r.queued => q.queued)
           /\ r.fresh => q = r
           /\ ~r.fresh => IF r.running THEN q.queued ELSE q.timer
           /\ q.queued => r.queued \/ (r.running /\ ~r.fresh)
<1>1. CASE r.fresh
  <2>1. q = r
    BY <1>1 DEF Requested
  <2> QED
    BY <1>1, <2>1, ResyncFields
<1>2. CASE ~r.fresh /\ r.running
  <2>1. q = [r EXCEPT !.queued = TRUE]
    BY <1>2 DEF Requested
  <2>2. q = [timer |-> r.timer, running |-> r.running, queued |-> TRUE, fresh |-> r.fresh]
    BY <2>1, ResyncFields
  <2>3. q \in Resyncs
    BY <2>2, ResyncFields DEF Resyncs
  <2> QED
    BY <1>2, <2>2, <2>3, ResyncFields
<1>3. CASE ~r.fresh /\ ~r.running
  <2>1. q = [r EXCEPT !.timer = TRUE]
    BY <1>3 DEF Requested
  <2>2. q = [timer |-> TRUE, running |-> r.running, queued |-> r.queued, fresh |-> r.fresh]
    BY <2>1, ResyncFields
  <2>3. q \in Resyncs
    BY <2>2, ResyncFields DEF Resyncs
  <2> QED
    BY <1>3, <2>2, <2>3, ResyncFields
<1> QED
  BY <1>1, <1>2, <1>3, ResyncFields

\* The end of a drain: what was queued behind it is debounced, unless the drain is recent.
LEMMA EndedIs ==
    ASSUME NEW r \in Resyncs, NEW q, q = Ended(r)
    PROVE  /\ q \in Resyncs /\ ~q.running /\ ~q.queued
           /\ (r.timer => q.timer)
           /\ (r.queued /\ ~r.fresh => q.timer)
<1> DEFINE over == [r EXCEPT !.running = FALSE, !.queued = FALSE]
<1>1. over = [timer |-> r.timer, running |-> FALSE, queued |-> FALSE, fresh |-> r.fresh]
  <2>1. r = [timer |-> r.timer, running |-> r.running, queued |-> r.queued, fresh |-> r.fresh]
    BY ResyncFields
  <2>2. ASSUME NEW x, x = [r EXCEPT !.running = FALSE, !.queued = FALSE]
        PROVE  x = [timer |-> r.timer, running |-> FALSE, queued |-> FALSE, fresh |-> r.fresh]
    BY <2>1, <2>2
  <2> QED
    BY <2>2
<1>2. q = IF r.queued THEN Requested(over) ELSE over
  BY DEF Ended
<1> HIDE DEF over
<1>3. over \in Resyncs
  BY <1>1, ResyncFields DEF Resyncs
<1>4. /\ ~over.running /\ ~over.queued /\ over.timer = r.timer /\ over.fresh = r.fresh
  BY <1>1
<1>5. CASE r.queued
  <2>1. q = Requested(over)
    BY <1>2, <1>5
  <2> QED
    BY <1>3, <1>4, <1>5, <2>1, RequestedIs, ResyncFields
<1>6. CASE ~r.queued
  BY <1>2, <1>3, <1>4, <1>6
<1> QED
  BY <1>5, <1>6, ResyncFields

LEMMA PaintedIs ==
    ASSUME resync \in Resyncs, NEW q, q = Painted(resync)
    PROVE  /\ q \in Resyncs /\ q.timer = resync.timer /\ q.running = resync.running
           /\ q.queued = resync.queued
           /\ ~loading => q.fresh = resync.fresh
<1>1. q = resync \/ (loading /\ q = [resync EXCEPT !.fresh = TRUE])
  BY DEF Painted
<1>2. CASE q = resync
  BY <1>2
<1>3. CASE loading /\ q = [resync EXCEPT !.fresh = TRUE]
  <2>1. q = [timer |-> resync.timer, running |-> resync.running, queued |-> resync.queued, fresh |-> TRUE]
    BY <1>3, ResyncFields
  <2> QED
    BY <1>3, <2>1, ResyncFields DEF Resyncs
<1> QED
  BY <1>1, <1>2, <1>3

\* What the end of a part of a drain does to the resync.
LEMMA SettleIs ==
    ASSUME ClientTyped, NEW by \in Drains, NEW p \in {"meta", "pages"}, Settle(by, p)
    PROVE  /\ drains' = [drains EXCEPT ![by] = @ \ {p}]
           /\ drains' \in [Drains -> SUBSET {"meta", "pages"}]
           /\ drains'[by] = drains[by] \ {p} /\ \A d \in Drains \ {by} : drains'[d] = drains[d]
           /\ resync' \in Resyncs
           /\ resync.timer => resync'.timer
           /\ IF by = "resync" /\ drains[by] = {p}
              THEN ~resync'.running /\ ~resync'.queued /\ (resync.queued /\ ~resync.fresh => resync'.timer)
              ELSE /\ resync'.running = resync.running /\ resync'.queued = resync.queued
                   /\ ~loading => resync'.fresh = resync.fresh
<1>1. drains \in [Drains -> SUBSET {"meta", "pages"}] /\ resync \in Resyncs
  BY DEF ClientTyped
<1>2. drains' = [drains EXCEPT ![by] = @ \ {p}]
  BY DEF Settle
<1>3. /\ drains' \in [Drains -> SUBSET {"meta", "pages"}]
      /\ drains'[by] = drains[by] \ {p} /\ \A d \in Drains \ {by} : drains'[d] = drains[d]
  BY <1>1, <1>2
<1>4. CASE by = "resync" /\ drains[by] = {p}
  <2>1. PICK r \in Aged(resync) : resync' = Ended(r)
    BY <1>4 DEF Settle
  <2>2. r \in Resyncs /\ r.timer = resync.timer /\ r.queued = resync.queued /\ (~resync.fresh => ~r.fresh)
    BY <1>1, <2>1, AgedIs
  <2>3. /\ resync' \in Resyncs /\ ~resync'.running /\ ~resync'.queued
        /\ r.timer => resync'.timer
        /\ r.queued /\ ~r.fresh => resync'.timer
    BY <2>1, <2>2, EndedIs
  <2> QED
    BY <1>2, <1>3, <1>4, <2>2, <2>3
<1>5. CASE ~(by = "resync" /\ drains[by] = {p})
  <2>1. resync' = Painted(resync)
    BY <1>5 DEF Settle
  <2> QED
    BY <1>1, <1>2, <1>3, <1>5, <2>1, PaintedIs
<1> QED
  BY <1>4, <1>5

LEMMA StartDrainIs ==
    ASSUME ClientTyped, NEW by \in Drains, StartDrain(by)
    PROVE  /\ asked' \in SUBSET Requests /\ asked \subseteq asked'
           /\ \E r \in asked' : r.kind = "page" /\ r.after = 0 /\ r.by = by
           /\ \E r \in asked' : r.kind = "meta" /\ r.by = by
           /\ drains' = [drains EXCEPT ![by] = {"meta", "pages"}]
           /\ drains' \in [Drains -> SUBSET {"meta", "pages"}]
           /\ skipped' = FALSE /\ restored' = FALSE /\ overtaken' = FALSE
           /\ latest' = latest /\ latestCols' = latestCols
<1> DEFINE page == [kind |-> "page", by |-> by, after |-> 0]
           meta == [kind |-> "meta", by |-> by]
<1>1. asked' = asked \cup {meta, page}
  BY DEF StartDrain, DrainCalls
<1>2. page \in Requests /\ meta \in Requests
  BY DEF Requests
<1>3. page.kind = "page" /\ page.after = 0 /\ page.by = by /\ meta.kind = "meta" /\ meta.by = by
  OBVIOUS
<1>4. page \in asked' /\ meta \in asked'
  BY <1>1
<1> HIDE DEF page, meta
<1>5. asked' \in SUBSET Requests /\ asked \subseteq asked'
  BY <1>1, <1>2 DEF ClientTyped
<1>6. drains' \in [Drains -> SUBSET {"meta", "pages"}] /\ drains' = [drains EXCEPT ![by] = {"meta", "pages"}]
      /\ skipped' = FALSE /\ restored' = FALSE /\ overtaken' = FALSE
      /\ latest' = latest /\ latestCols' = latestCols
  BY DEF StartDrain, ClientTyped
<1> QED
  BY <1>3, <1>4, <1>5, <1>6

-----------------------------------------------------------------------------
(* The board in a browser: what each step does *)

LEMMA ClientStartsTyped == ClientInit => ClientTyped
<1> SUFFICES ASSUME ClientInit PROVE ClientTyped
  OBVIOUS
<1>1. rows \in Boards
  <2>1. IsBoard(rows)
    BY BoardClientAssumption DEF ClientInit
  <2> QED
    BY <2>1, BoardsAre
<1>2. drawn \in Boards
  <2>1. drawn = [t \in {} |-> 0] /\ {} \in SUBSET TaskIds
    BY DEF ClientInit, NoTasks
  <2>2. drawn \in [{} -> CardRows]
    BY <2>1
  <2> QED
    BY <2>1, <2>2 DEF Boards
<1>3. asked \in SUBSET Requests
  <2>1. DrainCalls("load") \in SUBSET Requests
    BY DEF DrainCalls, Requests, Drains
  <2> QED
    BY <2>1 DEF ClientInit
<1>4. wire \in Seq(Events) /\ answers \in SUBSET Replies
  BY DEF ClientInit
<1>5. columnSet \in SUBSET Nat /\ drawnCols \in SUBSET Nat /\ latestCols \in SUBSET Nat
  BY DEF ClientInit
<1>6. drains \in [Drains -> SUBSET {"meta", "pages"}]
  BY DEF ClientInit
<1>7. resync \in Resyncs
  BY DEF ClientInit, Resyncs
<1>8. /\ room \in BOOLEAN /\ loading \in BOOLEAN /\ link \in {"down", "open", "joined"}
      /\ armed \in SUBSET TaskIds /\ drag \in TaskIds \cup {0} /\ moves \in Nat /\ acts \in Nat
      /\ owed \in BOOLEAN /\ skipped \in BOOLEAN /\ restored \in BOOLEAN /\ overtaken \in BOOLEAN
  BY DEF ClientInit
<1>9. stamp \in Counts /\ placed \in Counts /\ latest \in Counts
  BY DEF ClientInit, Counts
<1> QED
  BY <1>1, <1>2, <1>3, <1>4, <1>5, <1>6, <1>7, <1>8, <1>9 DEF ClientTyped

\* What a step of the server leaves alone.
LEMMA ServerAloneIs ==
    ASSUME ServerAlone
    PROVE  /\ room' = room /\ link' = link /\ drawn' = drawn /\ drawnCols' = drawnCols
           /\ loading' = loading /\ armed' = armed /\ resync' = resync /\ drains' = drains
           /\ drag' = drag /\ moves' = moves /\ owed' = owed /\ skipped' = skipped
           /\ restored' = restored /\ overtaken' = overtaken /\ latest' = latest
           /\ latestCols' = latestCols
BY DEF ServerAlone, screen, lapses

\* The row and the counts of a task.
SameCard(s) ==
    /\ s \in DOMAIN rows' <=> s \in DOMAIN rows
    /\ s \in DOMAIN rows => rows'[s] = rows[s]
    /\ stamp'[s] = stamp[s] /\ placed'[s] = placed[s]

\* One task changes, and e says so.
Changed(t, e) ==
    /\ rows' \in Boards /\ stamp' \in Counts /\ placed' \in Counts
    /\ stamp'[t] = stamp[t] + 1
    /\ \A s \in TaskIds \ {t} : SameCard(s)
    /\ e \in Events /\ e.task = t /\ e.at = stamp'[t] /\ wire' = Emitted(e)
    /\ \/ /\ e.kind = "created" /\ t \notin DOMAIN rows /\ stamp[t] = 0 /\ t \in DOMAIN rows'
          /\ rows'[t].text = stamp'[t] /\ placed'[t] = stamp'[t]
       \/ /\ e.kind = "updated" /\ t \in DOMAIN rows /\ t \in DOMAIN rows'
          /\ rows'[t].text = stamp'[t] /\ rows'[t].lane = rows[t].lane /\ placed'[t] = placed[t]
       \/ /\ e.kind = "moved" /\ t \in DOMAIN rows /\ t \in DOMAIN rows'
          /\ rows'[t].text = rows[t].text /\ rows'[t].lane = e.lane /\ placed'[t] = stamp'[t]
       \/ /\ e.kind = "deleted" /\ t \in DOMAIN rows /\ t \notin DOMAIN rows'
          /\ placed'[t] = placed[t]

LEMMA StampedIs ==
    ASSUME stamp \in Counts, NEW t \in TaskIds
    PROVE  /\ Stamped(t) \in Counts /\ Stamped(t)[t] = stamp[t] + 1
           /\ \A s \in TaskIds \ {t} : Stamped(t)[s] = stamp[s]
BY DEF Stamped, Counts

LEMMA PlacedIs ==
    ASSUME placed \in Counts, NEW t \in TaskIds, NEW n \in Nat, placed' = [placed EXCEPT ![t] = n]
    PROVE  /\ placed' \in Counts /\ placed'[t] = n
           /\ \A s \in TaskIds \ {t} : placed'[s] = placed[s]
BY DEF Counts

\* A move on the server, by another member or of this browser.
LEMMA MovedChanges ==
    ASSUME ClientTyped, NEW t \in DOMAIN rows, NEW lane \in BoardLanes, NEW own \in BOOLEAN,
           rows' = [rows EXCEPT ![t].lane = lane], stamp' = Stamped(t),
           placed' = [placed EXCEPT ![t] = stamp'[t]],
           wire' = Emitted([kind |-> "moved", task |-> t, lane |-> lane, own |-> own,
                            at |-> stamp'[t]])
    PROVE  Changed(t, [kind |-> "moved", task |-> t, lane |-> lane, own |-> own, at |-> stamp'[t]])
<1>1. t \in TaskIds /\ rows \in Boards /\ stamp \in Counts /\ placed \in Counts
  BY BoardFacts DEF ClientTyped
<1>2. stamp' \in Counts /\ stamp'[t] = stamp[t] + 1 /\ \A s \in TaskIds \ {t} : stamp'[s] = stamp[s]
  BY <1>1, StampedIs
<1>3. stamp'[t] \in Nat
  BY <1>1, <1>2 DEF Counts
<1>4. placed' \in Counts /\ placed'[t] = stamp'[t] /\ \A s \in TaskIds \ {t} : placed'[s] = placed[s]
  BY <1>1, <1>3, PlacedIs
<1>5. /\ rows' \in Boards /\ DOMAIN rows' = DOMAIN rows /\ rows'[t].lane = lane
      /\ rows'[t].text = rows[t].text /\ \A s \in DOMAIN rows \ {t} : rows'[s] = rows[s]
  <2>1. rows' = WithLane(rows, t, lane)
    BY DEF WithLane
  <2> DEFINE c == WithLane(rows, t, lane)
  <2>2. /\ c \in Boards /\ DOMAIN c = DOMAIN rows /\ c[t].lane = lane
        /\ c[t].text = rows[t].text /\ \A s \in DOMAIN rows \ {t} : c[s] = rows[s]
    BY <1>1, RowRelaned
  <2> HIDE DEF c
  <2> QED
    BY <2>1, <2>2 DEF c
<1> DEFINE e == [kind |-> "moved", task |-> t, lane |-> lane, own |-> own, at |-> stamp'[t]]
<1>6. e \in Events /\ e.task = t /\ e.at = stamp'[t] /\ e.kind = "moved" /\ e.lane = lane
  BY <1>1, <1>3 DEF Events
<1>7. wire' = Emitted(e)
  OBVIOUS
<1> HIDE DEF e
<1>8. \A s \in TaskIds \ {t} : SameCard(s)
  BY <1>2, <1>4, <1>5 DEF SameCard
<1>9. Changed(t, e)
  BY <1>2, <1>4, <1>5, <1>6, <1>7, <1>8 DEF Changed
<1> QED
  BY <1>9 DEF e

LEMMA RemoteTaskIs ==
    ASSUME ClientTyped, RemoteTask
    PROVE  /\ \E t \in TaskIds, e \in Events : Changed(t, e)
           /\ ServerAlone /\ asked' = asked /\ answers' = answers /\ columnSet' = columnSet
           /\ acts' \in Nat
<1>1. PICK t \in TaskIds, lane \in BoardLanes :
        /\ Acts /\ stamp' = Stamped(t)
        /\ \/ /\ t \notin DOMAIN rows /\ stamp[t] = 0
              /\ rows' = [s \in DOMAIN rows \cup {t} |->
                            IF s = t THEN [lane |-> lane, text |-> stamp'[t]] ELSE rows[s]]
              /\ placed' = [placed EXCEPT ![t] = stamp'[t]]
              /\ wire' = Emitted([kind |-> "created", task |-> t, at |-> stamp'[t]])
           \/ /\ t \in DOMAIN rows
              /\ rows' = [rows EXCEPT ![t].text = stamp'[t]] /\ UNCHANGED placed
              /\ wire' = Emitted([kind |-> "updated", task |-> t, at |-> stamp'[t]])
           \/ /\ t \in DOMAIN rows
              /\ rows' = [rows EXCEPT ![t].lane = lane]
              /\ placed' = [placed EXCEPT ![t] = stamp'[t]]
              /\ wire' = Emitted([kind |-> "moved", task |-> t, lane |-> lane, own |-> FALSE,
                                   at |-> stamp'[t]])
           \/ /\ t \in DOMAIN rows
              /\ rows' = [s \in DOMAIN rows \ {t} |-> rows[s]] /\ UNCHANGED placed
              /\ wire' = Emitted([kind |-> "deleted", task |-> t, at |-> stamp'[t]])
        /\ ServerAlone /\ UNCHANGED <<columnSet, asked, answers>>
  BY DEF RemoteTask
<1>2. rows \in Boards /\ stamp \in Counts /\ placed \in Counts /\ acts' \in Nat
  BY <1>1 DEF ClientTyped, Acts
<1>3. stamp' \in Counts /\ stamp'[t] = stamp[t] + 1 /\ \A s \in TaskIds \ {t} : stamp'[s] = stamp[s]
  BY <1>1, <1>2, StampedIs
<1>4. stamp'[t] \in Nat
  BY <1>3 DEF Counts
<1>5. CASE /\ t \notin DOMAIN rows /\ stamp[t] = 0
           /\ rows' = [s \in DOMAIN rows \cup {t} |->
                         IF s = t THEN [lane |-> lane, text |-> stamp'[t]] ELSE rows[s]]
           /\ placed' = [placed EXCEPT ![t] = stamp'[t]]
           /\ wire' = Emitted([kind |-> "created", task |-> t, at |-> stamp'[t]])
  <2> DEFINE r == [lane |-> lane, text |-> stamp'[t]]
             e == [kind |-> "created", task |-> t, at |-> stamp'[t]]
  <2>1. r \in CardRows /\ r.text = stamp'[t]
    BY <1>4 DEF CardRows
  <2>2. rows' = Rowed(rows, t, r) /\ wire' = Emitted(e)
    BY <1>5 DEF Rowed
  <2>3. e \in Events /\ e.task = t /\ e.at = stamp'[t] /\ e.kind = "created"
    BY <1>4 DEF Events
  <2> HIDE DEF r, e
  <2>4. /\ rows' \in Boards /\ DOMAIN rows' = DOMAIN rows \cup {t} /\ rows'[t] = r
        /\ \A s \in DOMAIN rows \ {t} : rows'[s] = rows[s]
    BY <1>2, <2>1, <2>2, RowPut
  <2>5. placed' \in Counts /\ placed'[t] = stamp'[t] /\ \A s \in TaskIds \ {t} : placed'[s] = placed[s]
    BY <1>2, <1>4, <1>5, PlacedIs
  <2>6. \A s \in TaskIds \ {t} : SameCard(s)
    BY <1>3, <2>4, <2>5 DEF SameCard
  <2>7. Changed(t, e)
    BY <1>3, <1>5, <2>1, <2>2, <2>3, <2>4, <2>5, <2>6 DEF Changed
  <2> QED
    BY <1>1, <1>2, <2>3, <2>7
<1>6. CASE /\ t \in DOMAIN rows
           /\ rows' = [rows EXCEPT ![t].text = stamp'[t]] /\ UNCHANGED placed
           /\ wire' = Emitted([kind |-> "updated", task |-> t, at |-> stamp'[t]])
  <2> DEFINE e == [kind |-> "updated", task |-> t, at |-> stamp'[t]]
  <2>1. e \in Events /\ e.task = t /\ e.at = stamp'[t] /\ e.kind = "updated" /\ wire' = Emitted(e)
    BY <1>4, <1>6 DEF Events
  <2> HIDE DEF e
  <2>2. /\ rows' \in Boards /\ DOMAIN rows' = DOMAIN rows /\ rows'[t].text = stamp'[t]
        /\ rows'[t].lane = rows[t].lane /\ \A s \in DOMAIN rows \ {t} : rows'[s] = rows[s]
    <3>1. rows' = WithText(rows, t, stamp'[t])
      BY <1>6 DEF WithText
    <3> DEFINE c == WithText(rows, t, stamp'[t])
    <3>2. /\ c \in Boards /\ DOMAIN c = DOMAIN rows /\ c[t].text = stamp'[t]
          /\ c[t].lane = rows[t].lane /\ \A s \in DOMAIN rows \ {t} : c[s] = rows[s]
      BY <1>2, <1>4, <1>6, RowEdited
    <3> HIDE DEF c
    <3> QED
      BY <3>1, <3>2 DEF c
  <2>3. \A s \in TaskIds \ {t} : SameCard(s)
    BY <1>3, <1>6, <2>2 DEF SameCard
  <2>4. Changed(t, e)
    BY <1>2, <1>3, <1>6, <2>1, <2>2, <2>3 DEF Changed
  <2> QED
    BY <1>1, <1>2, <2>1, <2>4
<1>7. CASE /\ t \in DOMAIN rows
           /\ rows' = [rows EXCEPT ![t].lane = lane]
           /\ placed' = [placed EXCEPT ![t] = stamp'[t]]
           /\ wire' = Emitted([kind |-> "moved", task |-> t, lane |-> lane, own |-> FALSE,
                                at |-> stamp'[t]])
  <2> DEFINE e == [kind |-> "moved", task |-> t, lane |-> lane, own |-> FALSE, at |-> stamp'[t]]
  <2>1. Changed(t, e)
    BY <1>1, <1>7, MovedChanges
  <2> HIDE DEF e
  <2>2. e \in Events
    BY <2>1 DEF Changed
  <2> QED
    BY <1>1, <1>2, <2>1, <2>2
<1>8. CASE /\ t \in DOMAIN rows
           /\ rows' = [s \in DOMAIN rows \ {t} |-> rows[s]] /\ UNCHANGED placed
           /\ wire' = Emitted([kind |-> "deleted", task |-> t, at |-> stamp'[t]])
  <2> DEFINE e == [kind |-> "deleted", task |-> t, at |-> stamp'[t]]
  <2>1. e \in Events /\ e.task = t /\ e.at = stamp'[t] /\ e.kind = "deleted" /\ wire' = Emitted(e)
    BY <1>4, <1>8 DEF Events
  <2> HIDE DEF e
  <2>2. /\ rows' \in Boards /\ DOMAIN rows' = DOMAIN rows \ {t}
        /\ \A s \in DOMAIN rows \ {t} : rows'[s] = rows[s]
    <3>1. rows' = Without(rows, t)
      BY <1>8 DEF Without
    <3> QED
      BY <1>2, <3>1, RowDropped
  <2>3. \A s \in TaskIds \ {t} : SameCard(s)
    BY <1>3, <1>8, <2>2 DEF SameCard
  <2>4. Changed(t, e)
    BY <1>2, <1>3, <1>8, <2>1, <2>2, <2>3 DEF Changed
  <2> QED
    BY <1>1, <1>2, <2>1, <2>4
<1> QED
  BY <1>1, <1>5, <1>6, <1>7, <1>8

\* What a page says that is read now.
PageRead(m, r) ==
    /\ m.kind = "page" /\ m.by = r.by /\ m.first = (r.after = 0) /\ m.at = stamp
    /\ \A t \in DOMAIN m.tasks : t \in DOMAIN rows /\ m.tasks[t] = rows[t]
    /\ \A t \in DOMAIN rows : r.after < t => t \in DOMAIN m.tasks \/ (m.next # 0 /\ m.next < t)
    /\ m.next # 0 => \A t \in DOMAIN m.tasks : t =< m.next

LEMMA AnswerReadIs ==
    ASSUME ClientTyped, AnswerRead
    PROVE  /\ ServerAlone
           /\ rows' = rows /\ stamp' = stamp /\ placed' = placed /\ columnSet' = columnSet
           /\ wire' = wire /\ acts' = acts
           /\ \E r \in asked :
                /\ asked' = asked \ {r}
                /\ \/ /\ r.kind = "task" /\ r.task \notin DOMAIN rows /\ answers' = answers
                   \/ \E m \in Replies :
                        /\ answers' = answers \cup {m}
                        /\ \/ r.kind = "page" /\ PageRead(m, r)
                           \/ /\ r.kind = "meta" /\ m.kind = "meta" /\ m.by = r.by
                              /\ m.columns = columnSet
                           \/ r.kind = "columns" /\ m.kind = "columnList" /\ m.columns = columnSet
                           \/ /\ r.kind = "task" /\ m.kind = "task" /\ m.task = r.task
                              /\ r.task \in DOMAIN rows /\ m.row = rows[r.task]
                              /\ m.at = stamp[r.task]
<1>1. PICK r \in asked :
    /\ \/ /\ r.kind = "page"
          /\ Replied(r, [kind |-> "page", by |-> r.by, first |-> r.after = 0, at |-> stamp,
                          tasks |-> PageAfter(r.after).tasks, next |-> PageAfter(r.after).next])
       \/ /\ r.kind = "meta"
          /\ Replied(r, [kind |-> "meta", by |-> r.by, columns |-> columnSet])
       \/ /\ r.kind = "columns"
          /\ Replied(r, [kind |-> "columnList", columns |-> columnSet])
       \/ /\ r.kind = "task" /\ r.task \in DOMAIN rows
          /\ Replied(r, [kind |-> "task", task |-> r.task, row |-> rows[r.task], at |-> stamp[r.task]])
       \/ /\ r.kind = "task" /\ r.task \notin DOMAIN rows
          /\ asked' = asked \ {r} /\ UNCHANGED answers
    /\ ServerAlone /\ UNCHANGED <<cards, columnSet, wire, acts>>
  BY DEF AnswerRead
<1>2. r \in Requests /\ rows \in Boards /\ stamp \in Counts /\ columnSet \in SUBSET Nat
  BY DEF ClientTyped
<1>3. /\ rows' = rows /\ stamp' = stamp /\ placed' = placed /\ columnSet' = columnSet
      /\ wire' = wire /\ acts' = acts /\ ServerAlone
  BY <1>1 DEF cards
<1>4. ASSUME NEW m \in Replies, Replied(r, m) PROVE asked' = asked \ {r} /\ answers' = answers \cup {m}
  BY <1>4 DEF Replied
<1>5. CASE r.kind = "page"
  <2> DEFINE tasks == PageAfter(r.after).tasks
             next == PageAfter(r.after).next
             m == [kind |-> "page", by |-> r.by, first |-> r.after = 0, at |-> stamp,
                   tasks |-> tasks, next |-> next]
  <2>1. r.by \in Drains /\ r.after \in TaskIds \cup {0}
    BY <1>2, <1>5, RequestFields
  <2>2. /\ tasks \in Boards /\ next \in TaskIds \cup {0}
        /\ \A t \in DOMAIN tasks : t \in DOMAIN rows /\ tasks[t] = rows[t]
        /\ \A t \in DOMAIN rows : r.after < t => t \in DOMAIN tasks \/ (next # 0 /\ next < t)
        /\ next # 0 => \A t \in DOMAIN tasks : t =< next
    BY <1>2, <2>1, PageReads
  <2>3. Replied(r, m)
    BY <1>1, <1>5
  <2> HIDE DEF tasks, next
  <2>4. m \in Replies
    BY <1>2, <2>1, <2>2 DEF Replies
  <2>5. /\ m.kind = "page" /\ m.by = r.by /\ m.first = (r.after = 0) /\ m.at = stamp
        /\ m.tasks = tasks /\ m.next = next
    OBVIOUS
  <2> HIDE DEF m
  <2>6. PageRead(m, r)
    BY <2>2, <2>5 DEF PageRead
  <2> QED
    BY <1>3, <1>4, <1>5, <2>3, <2>4, <2>6
<1>6. CASE r.kind = "meta"
  <2> DEFINE m == [kind |-> "meta", by |-> r.by, columns |-> columnSet]
  <2>1. Replied(r, m)
    BY <1>1, <1>6
  <2>2. m \in Replies /\ m.kind = "meta" /\ m.by = r.by /\ m.columns = columnSet
    BY <1>2, <1>6, RequestFields DEF Replies
  <2> HIDE DEF m
  <2> QED
    BY <1>3, <1>4, <1>6, <2>1, <2>2
<1>7. CASE r.kind = "columns"
  <2> DEFINE m == [kind |-> "columnList", columns |-> columnSet]
  <2>1. Replied(r, m)
    BY <1>1, <1>7
  <2>2. m \in Replies /\ m.kind = "columnList" /\ m.columns = columnSet
    BY <1>2 DEF Replies
  <2> HIDE DEF m
  <2> QED
    BY <1>3, <1>4, <1>7, <2>1, <2>2
<1>8. CASE r.kind = "task" /\ r.task \in DOMAIN rows
  <2> DEFINE m == [kind |-> "task", task |-> r.task, row |-> rows[r.task], at |-> stamp[r.task]]
  <2>1. Replied(r, m)
    BY <1>1, <1>8
  <2>2. r.task \in TaskIds /\ rows[r.task] \in CardRows /\ stamp[r.task] \in Nat
    BY <1>2, <1>8, BoardFacts DEF Counts
  <2>3. /\ m \in Replies /\ m.kind = "task" /\ m.task = r.task /\ m.row = rows[r.task]
        /\ m.at = stamp[r.task]
    BY <2>2 DEF Replies
  <2> HIDE DEF m
  <2> QED
    BY <1>3, <1>4, <1>8, <2>1, <2>3
<1>9. CASE r.kind = "task" /\ r.task \notin DOMAIN rows
  BY <1>1, <1>3, <1>9
<1> QED
  BY <1>1, <1>5, <1>6, <1>7, <1>8, <1>9

LEMMA AnswerMoveIs ==
    ASSUME ClientTyped, AnswerMove
    PROVE  /\ ServerAlone /\ columnSet' = columnSet /\ acts' = acts
           /\ \E r \in asked, m \in Replies :
                /\ r.kind = "move" /\ asked' = asked \ {r} /\ answers' = answers \cup {m}
                /\ \/ /\ m.kind = "accepted" /\ m.task = r.task /\ r.task \in DOMAIN rows
                      /\ m.row = rows'[r.task] /\ m.at = stamp'[r.task]
                      /\ \E e \in Events : e.kind = "moved" /\ Changed(r.task, e)
                   \/ /\ m.kind = "refused" /\ m.move = r
                      /\ rows' = rows /\ stamp' = stamp /\ placed' = placed /\ wire' = wire
<1>1. PICK r \in asked :
    /\ r.kind = "move"
    /\ \/ /\ r.task \in DOMAIN rows
          /\ rows' = [rows EXCEPT ![r.task].lane = r.lane]
          /\ stamp' = Stamped(r.task)
          /\ placed' = [placed EXCEPT ![r.task] = stamp'[r.task]]
          /\ wire' = Emitted([kind |-> "moved", task |-> r.task, lane |-> r.lane, own |-> TRUE,
                               at |-> stamp'[r.task]])
          /\ Replied(r, [kind |-> "accepted", task |-> r.task, row |-> rows'[r.task],
                          at |-> stamp'[r.task]])
       \/ /\ Replied(r, [kind |-> "refused", move |-> r])
          /\ UNCHANGED <<cards, wire>>
    /\ ServerAlone /\ UNCHANGED <<columnSet, acts>>
  BY DEF AnswerMove
<1>2. r \in Requests /\ r \in MoveRequests /\ r.task \in TaskIds /\ r.lane \in BoardLanes
  BY <1>1, RequestFields DEF ClientTyped
<1>3. ASSUME NEW m \in Replies, Replied(r, m) PROVE asked' = asked \ {r} /\ answers' = answers \cup {m}
  BY <1>3 DEF Replied
<1>4. CASE /\ r.task \in DOMAIN rows
           /\ rows' = [rows EXCEPT ![r.task].lane = r.lane]
           /\ stamp' = Stamped(r.task)
           /\ placed' = [placed EXCEPT ![r.task] = stamp'[r.task]]
           /\ wire' = Emitted([kind |-> "moved", task |-> r.task, lane |-> r.lane, own |-> TRUE,
                                at |-> stamp'[r.task]])
           /\ Replied(r, [kind |-> "accepted", task |-> r.task, row |-> rows'[r.task],
                           at |-> stamp'[r.task]])
  <2> DEFINE m == [kind |-> "accepted", task |-> r.task, row |-> rows'[r.task], at |-> stamp'[r.task]]
             e == [kind |-> "moved", task |-> r.task, lane |-> r.lane, own |-> TRUE,
                   at |-> stamp'[r.task]]
  <2>1. Changed(r.task, e) /\ e.kind = "moved"
    <3>1. TRUE \in BOOLEAN
      OBVIOUS
    <3> QED
      BY <1>2, <1>4, <3>1, MovedChanges
  <2> HIDE DEF e
  <2>2. e \in Events /\ rows' \in Boards /\ stamp' \in Counts /\ r.task \in DOMAIN rows'
    BY <1>4, <2>1 DEF Changed
  <2>3. rows'[r.task] \in CardRows /\ stamp'[r.task] \in Nat
    BY <1>2, <2>2, BoardFacts DEF Counts
  <2>4. Replied(r, m)
    BY <1>4
  <2>5. /\ m \in Replies /\ m.kind = "accepted" /\ m.task = r.task /\ m.row = rows'[r.task]
        /\ m.at = stamp'[r.task]
    BY <1>2, <2>3 DEF Replies
  <2> HIDE DEF m
  <2>6. asked' = asked \ {r} /\ answers' = answers \cup {m}
    BY <1>3, <2>4, <2>5
  <2> QED
    BY <1>1, <1>4, <2>1, <2>2, <2>5, <2>6
<1>5. CASE Replied(r, [kind |-> "refused", move |-> r]) /\ UNCHANGED <<cards, wire>>
  <2> DEFINE m == [kind |-> "refused", move |-> r]
  <2>1. m \in Replies /\ m.kind = "refused" /\ m.move = r /\ Replied(r, m)
    BY <1>2, <1>5 DEF Replies
  <2> HIDE DEF m
  <2>2. asked' = asked \ {r} /\ answers' = answers \cup {m}
    BY <1>3, <2>1
  <2>3. rows' = rows /\ stamp' = stamp /\ placed' = placed /\ wire' = wire
    BY <1>5 DEF cards
  <2> QED
    BY <1>1, <2>1, <2>2, <2>3
<1> QED
  BY <1>1, <1>4, <1>5

LEMMA AnswerColumnsIs ==
    ASSUME ClientTyped, AnswerColumns
    PROVE  /\ ServerAlone /\ acts' = acts
           /\ rows' = rows /\ stamp' = stamp /\ placed' = placed
           /\ \E r \in asked, m \in Replies :
                /\ r.kind \in {"columnMove", "seed"} /\ r.basis \in SUBSET Nat /\ r.change \in Nat
                /\ asked' = asked \ {r} /\ answers' = answers \cup {m}
                /\ \/ m.kind = "conflict" /\ columnSet' = columnSet /\ wire' = wire
                   \/ /\ m.kind = "columnList" /\ m.columns = r.basis \cup {r.change}
                      /\ columnSet' = columnSet \cup {r.change}
                      /\ \E e \in Events : e.kind = "columns" /\ wire' = Emitted(e)
<1>1. PICK r \in asked :
    /\ r.kind \in {"columnMove", "seed"}
    /\ \/ /\ Replied(r, [kind |-> "conflict"]) /\ UNCHANGED <<columnSet, wire>>
       \/ /\ columnSet' = columnSet \cup {r.change}
          /\ wire' = Emitted([kind |-> "columns"])
          /\ Replied(r, [kind |-> "columnList", columns |-> r.basis \cup {r.change}])
    /\ ServerAlone /\ UNCHANGED <<cards, acts>>
  BY DEF AnswerColumns
<1>2. r.basis \in SUBSET Nat /\ r.change \in Nat
  BY <1>1, RequestFields DEF ClientTyped
<1>3. ASSUME NEW m \in Replies, Replied(r, m) PROVE asked' = asked \ {r} /\ answers' = answers \cup {m}
  BY <1>3 DEF Replied
<1>4. rows' = rows /\ stamp' = stamp /\ placed' = placed /\ acts' = acts /\ ServerAlone
  BY <1>1 DEF cards
<1>5. CASE Replied(r, [kind |-> "conflict"]) /\ UNCHANGED <<columnSet, wire>>
  <2> DEFINE m == [kind |-> "conflict"]
  <2>1. m \in Replies /\ m.kind = "conflict" /\ Replied(r, m)
    BY <1>5 DEF Replies
  <2> HIDE DEF m
  <2> QED
    BY <1>1, <1>2, <1>3, <1>4, <1>5, <2>1
<1>6. CASE /\ columnSet' = columnSet \cup {r.change}
           /\ wire' = Emitted([kind |-> "columns"])
           /\ Replied(r, [kind |-> "columnList", columns |-> r.basis \cup {r.change}])
  <2> DEFINE m == [kind |-> "columnList", columns |-> r.basis \cup {r.change}]
             e == [kind |-> "columns"]
  <2>1. e \in Events /\ e.kind = "columns" /\ wire' = Emitted(e) /\ Replied(r, m)
    BY <1>6 DEF Events
  <2> HIDE DEF e
  <2>2. m \in Replies /\ m.kind = "columnList" /\ m.columns = r.basis \cup {r.change}
    BY <1>2 DEF Replies
  <2> HIDE DEF m
  <2> QED
    BY <1>1, <1>2, <1>3, <1>4, <1>6, <2>1, <2>2
<1> QED
  BY <1>1, <1>5, <1>6

LEMMA RemoteColumnIs ==
    ASSUME ClientTyped, RemoteColumn
    PROVE  /\ ServerAlone /\ asked' = asked /\ answers' = answers /\ acts' \in Nat
           /\ rows' = rows /\ stamp' = stamp /\ placed' = placed
           /\ columnSet' = columnSet \cup {acts'}
           /\ \E e \in Events : e.kind = "columns" /\ wire' = Emitted(e)
<1> DEFINE e == [kind |-> "columns"]
<1>1. e \in Events /\ e.kind = "columns" /\ wire' = Emitted(e)
  BY DEF RemoteColumn, Events
<1> HIDE DEF e
<1>2. acts' \in Nat
  BY DEF RemoteColumn, Acts, ClientTyped
<1> QED
  BY <1>1, <1>2 DEF RemoteColumn, cards

LEMMA AcceptJoinIs ==
    ASSUME ClientTyped, AcceptJoin
    PROVE  /\ link = "open" /\ ~room /\ room' = TRUE
           /\ rows' = rows /\ stamp' = stamp /\ placed' = placed /\ columnSet' = columnSet
           /\ asked' = asked /\ answers' = answers /\ link' = link /\ drawn' = drawn
           /\ drawnCols' = drawnCols /\ loading' = loading /\ armed' = armed /\ resync' = resync
           /\ drains' = drains /\ drag' = drag /\ moves' = moves /\ owed' = owed
           /\ skipped' = skipped /\ restored' = restored /\ overtaken' = overtaken
           /\ latest' = latest /\ latestCols' = latestCols /\ acts' = acts
           /\ \E e \in Events : e.kind = "ack" /\ wire' = Append(wire, e)
<1> DEFINE e == [kind |-> "ack"]
<1>1. e \in Events /\ e.kind = "ack" /\ wire' = Append(wire, e)
  BY DEF AcceptJoin, Events
<1> HIDE DEF e
<1> QED
  BY <1>1 DEF AcceptJoin, cards, screen, lapses

LEMMA ServerTyped ==
    ASSUME ClientTyped,
           RemoteTask \/ RemoteColumn \/ AnswerRead \/ AnswerMove \/ AnswerColumns \/ AcceptJoin
    PROVE  ClientTyped'
<1> USE DEF ClientTyped
<1>1. ASSUME RemoteTask PROVE ClientTyped'
  <2>1. PICK t \in TaskIds, e \in Events : Changed(t, e)
    BY <1>1, RemoteTaskIs
  <2>2. rows' \in Boards /\ stamp' \in Counts /\ placed' \in Counts /\ wire' \in Seq(Events)
    BY <2>1, EmittedTyped DEF Changed
  <2> QED
    BY <1>1, <2>2, RemoteTaskIs, ServerAloneIs
<1>2. ASSUME RemoteColumn PROVE ClientTyped'
  <2>1. wire' \in Seq(Events)
    BY <1>2, RemoteColumnIs, EmittedTyped
  <2>2. columnSet' \in SUBSET Nat
    BY <1>2, RemoteColumnIs
  <2> QED
    BY <1>2, <2>1, <2>2, RemoteColumnIs, ServerAloneIs
<1>3. ASSUME AnswerRead PROVE ClientTyped'
  <2>1. asked' \in SUBSET Requests /\ answers' \in SUBSET Replies
    BY <1>3, AnswerReadIs
  <2> QED
    BY <1>3, <2>1, AnswerReadIs, ServerAloneIs
<1>4. ASSUME AnswerMove PROVE ClientTyped'
  <2>1. PICK r \in asked, m \in Replies :
          /\ r.kind = "move" /\ asked' = asked \ {r} /\ answers' = answers \cup {m}
          /\ \/ \E e \in Events : e.kind = "moved" /\ Changed(r.task, e)
             \/ rows' = rows /\ stamp' = stamp /\ placed' = placed /\ wire' = wire
    BY <1>4, AnswerMoveIs
  <2>2. asked' \in SUBSET Requests /\ answers' \in SUBSET Replies
    BY <2>1
  <2>3. rows' \in Boards /\ stamp' \in Counts /\ placed' \in Counts /\ wire' \in Seq(Events)
    BY <2>1, EmittedTyped DEF Changed
  <2> QED
    BY <1>4, <2>2, <2>3, AnswerMoveIs, ServerAloneIs
<1>5. ASSUME AnswerColumns PROVE ClientTyped'
  <2>1. asked' \in SUBSET Requests /\ answers' \in SUBSET Replies /\ columnSet' \in SUBSET Nat
    BY <1>5, AnswerColumnsIs
  <2>2. wire' \in Seq(Events)
    BY <1>5, AnswerColumnsIs, EmittedTyped
  <2> QED
    BY <1>5, <2>1, <2>2, AnswerColumnsIs, ServerAloneIs
<1>6. ASSUME AcceptJoin PROVE ClientTyped'
  <2>1. PICK e \in Events : wire' = Append(wire, e)
    BY <1>6, AcceptJoinIs
  <2>2. wire' \in Seq(Events)
    BY <2>1
  <2> QED
    BY <1>6, <2>2, AcceptJoinIs
<1> QED
  BY <1>1, <1>2, <1>3, <1>4, <1>5, <1>6

\* The browser's own steps.
LEMMA BrowserTyped ==
    ASSUME ClientTyped,
           Connect \/ Disconnect \/ FireUpsert \/ FireResync \/ StartDrag \/ Drop \/ AskColumns
    PROVE  ClientTyped'
<1> USE DEF ClientTyped
<1>1. ASSUME Connect PROVE ClientTyped'
  BY <1>1 DEF Connect, serverSide, cards, screen, lapses
<1>2. ASSUME Disconnect PROVE ClientTyped'
  <2>1. wire' \in Seq(Events) /\ link' = "down" /\ room' = FALSE /\ acts' \in Nat
    BY <1>2 DEF Disconnect, Acts
  <2> QED
    BY <1>2, <2>1 DEF Disconnect, cards, screen, lapses
<1>3. ASSUME FireUpsert PROVE ClientTyped'
  <2>1. PICK t \in armed : armed' = armed \ {t} /\ asked' = asked \cup {[kind |-> "task", task |-> t]}
    BY <1>3 DEF FireUpsert
  <2>2. [kind |-> "task", task |-> t] \in Requests
    BY DEF Requests
  <2>3. asked' \in SUBSET Requests /\ armed' \in SUBSET TaskIds
    BY <2>1, <2>2
  <2> QED
    BY <1>3, <2>3 DEF FireUpsert, serverSide, cards, screen, lapses
<1>4. ASSUME FireResync PROVE ClientTyped'
  <2>1. StartDrain("resync") /\ "resync" \in Drains
    BY <1>4 DEF FireResync, Drains
  <2>2. asked' \in SUBSET Requests /\ drains' \in [Drains -> SUBSET {"meta", "pages"}]
        /\ skipped' = FALSE /\ restored' = FALSE /\ overtaken' = FALSE
        /\ latest' = latest /\ latestCols' = latestCols
    BY <2>1, StartDrainIs
  <2>3. resync' \in Resyncs
    BY <1>4 DEF FireResync, Resyncs
  <2> QED
    BY <1>4, <2>2, <2>3 DEF FireResync, serverSide, cards, screen
<1>5. ASSUME StartDrag PROVE ClientTyped'
  <2>1. drag' \in TaskIds
    BY <1>5, BoardFacts DEF StartDrag
  <2> QED
    BY <1>5, <2>1 DEF StartDrag, serverSide, cards, screen, lapses
<1>6. ASSUME Drop PROVE ClientTyped'
  <2>1. PICK lane \in BoardLanes :
          /\ drag' = 0
          /\ \/ UNCHANGED <<asked, moves, drawn, acts>>
             \/ /\ drag \in DOMAIN drawn /\ Acts /\ moves' = moves + 1
                /\ drawn' = [drawn EXCEPT ![drag].lane = lane]
                /\ asked' = asked \cup {[kind |-> "move", task |-> drag, lane |-> lane,
                                         generation |-> moves + 1, previous |-> drawn]}
          /\ UNCHANGED <<serverSide, wire, answers, link, drawnCols, loading, armed, resync, drains,
                         lapses>>
    BY <1>6 DEF Drop
  <2>2. CASE UNCHANGED <<asked, moves, drawn, acts>>
    BY <2>1, <2>2 DEF serverSide, cards, lapses
  <2>3. CASE /\ drag \in DOMAIN drawn /\ Acts /\ moves' = moves + 1
             /\ drawn' = [drawn EXCEPT ![drag].lane = lane]
             /\ asked' = asked \cup {[kind |-> "move", task |-> drag, lane |-> lane,
                                      generation |-> moves + 1, previous |-> drawn]}
    <3>1. drawn' \in Boards
      <4>1. drawn' = WithLane(drawn, drag, lane)
        BY <2>3 DEF WithLane
      <4>2. WithLane(drawn, drag, lane) \in Boards
        BY <2>3, RowRelaned
      <4> QED
        BY <4>1, <4>2
    <3>2. [kind |-> "move", task |-> drag, lane |-> lane, generation |-> moves + 1, previous |-> drawn]
             \in MoveRequests
      BY <2>3, BoardFacts DEF MoveRequests
    <3>3. asked' \in SUBSET Requests
      BY <2>3, <3>2 DEF Requests
    <3>4. moves' \in Nat /\ acts' \in Nat
      BY <2>3 DEF Acts
    <3> QED
      BY <2>1, <3>1, <3>3, <3>4 DEF serverSide, cards, lapses
  <2> QED
    BY <2>1, <2>2, <2>3
<1>7. ASSUME AskColumns PROVE ClientTyped'
  <2>1. acts' \in Nat
    BY <1>7 DEF AskColumns, Acts
  <2>2. [kind |-> IF drawnCols = {} THEN "seed" ELSE "columnMove", basis |-> drawnCols, change |-> acts']
           \in Requests
    <3>1. \A k \in {"columnMove", "seed"} : [kind |-> k, basis |-> drawnCols, change |-> acts'] \in Requests
      BY <2>1 DEF Requests
    <3> QED
      BY <3>1
  <2>3. asked' \in SUBSET Requests
    BY <1>7, <2>2 DEF AskColumns
  <2> QED
    BY <1>7, <2>1, <2>3 DEF AskColumns, serverSide, cards, screen, lapses
<1> QED
  BY <1>1, <1>2, <1>3, <1>4, <1>5, <1>6, <1>7

\* What is received.
ServerSame ==
    /\ rows' = rows /\ stamp' = stamp /\ placed' = placed /\ columnSet' = columnSet
    /\ room' = room /\ acts' = acts

LEMMA EventIs ==
    ASSUME ClientTyped, NEW k, Received(k)
    PROVE  /\ wire # <<>> /\ Next1 = wire[1] /\ Next1 \in Events /\ Next1.kind = k
           /\ wire' \in Seq(Events)
           /\ Len(wire) \in Nat \ {0} /\ Len(wire') = Len(wire) - 1
           /\ \A i \in 1..Len(wire') : wire'[i] = wire[i + 1] /\ i + 1 \in 1..Len(wire)
           /\ \A i \in 2..Len(wire) : wire'[i - 1] = wire[i] /\ i - 1 \in 1..Len(wire')
           /\ \A i \in 1..Len(wire) : wire[i] \in Events
           /\ ServerSame /\ answers' = answers
<1>1. wire \in Seq(Events) /\ wire # <<>> /\ wire' = Tail(wire)
  BY DEF ClientTyped, Received
<1>2. Next1.kind = k /\ Next1 = Head(wire) /\ ServerSame /\ answers' = answers
  BY DEF Received, Next1, serverSide, cards, ServerSame
<1>3. ASSUME NEW w \in Seq(Events), w # <<>>
      PROVE  /\ Head(w) = w[1] /\ Head(w) \in Events
             /\ Tail(w) \in Seq(Events) /\ Len(w) \in Nat \ {0} /\ Len(Tail(w)) = Len(w) - 1
             /\ \A i \in 1..Len(Tail(w)) : Tail(w)[i] = w[i + 1] /\ i + 1 \in 1..Len(w)
             /\ \A i \in 2..Len(w) : Tail(w)[i - 1] = w[i] /\ i - 1 \in 1..Len(Tail(w))
             /\ \A i \in 1..Len(w) : w[i] \in Events
  BY <1>3
<1> QED
  BY <1>1, <1>2, <1>3

LEMMA DeliveryIs ==
    ASSUME ClientTyped, NEW m \in answers, NEW k, Delivered(m, k)
    PROVE  /\ m \in Replies /\ m.kind = k /\ answers' = answers \ {m}
           /\ answers' \in SUBSET Replies /\ ServerSame /\ wire' = wire
BY DEF ClientTyped, Delivered, serverSide, cards, ServerSame

LEMMA HeardIs ==
    ASSUME latest \in Counts, NEW t \in TaskIds, NEW n \in Nat, Heard(t, n)
    PROVE  /\ latest' \in Counts
           /\ latest'[t] >= n /\ latest'[t] >= latest[t] /\ (latest'[t] = n \/ latest'[t] = latest[t])
           /\ \A s \in TaskIds \ {t} : latest'[s] = latest[s]
BY DEF Heard, Counts

LEMMA ReceivePageIs ==
    ASSUME ClientTyped, NEW m \in answers,
           Delivered(m, "page"), drawn' = Merged(m),
           latest' = [t \in TaskIds |->
                  IF (m.first \/ t \in Decides(m)) /\ m.at[t] > latest[t]
                  THEN m.at[t] ELSE latest[t]],
           overtaken' = (overtaken \/ \E t \in Decides(m) : Late(t, m.at[t])),
           loading' = (loading /\ "meta" \in drains["load"]),
           IF m.next = 0
           THEN Settle(m.by, "pages") /\ UNCHANGED asked
           ELSE /\ asked' = asked \cup {[kind |-> "page", by |-> m.by, after |-> m.next]}
                /\ resync' = Painted(resync)
                /\ UNCHANGED drains,
           UNCHANGED <<link, drawnCols, armed, drag, moves, owed, skipped, restored, latestCols>>
    PROVE  ClientTyped'
<1> USE DEF ClientTyped
<1>1. m \in Replies /\ m.kind = "page" /\ answers' \in SUBSET Replies /\ ServerSame /\ wire' = wire
  BY DeliveryIs
<1>2. m.by \in Drains /\ m.next \in TaskIds \cup {0} /\ m.at \in Counts
  BY <1>1, ReplyFields
<1>3. drawn' \in Boards
  BY <1>1, MergedShows
<1>4. asked' \in SUBSET Requests /\ resync' \in Resyncs /\ drains' \in [Drains -> SUBSET {"meta", "pages"}]
  <2>1. CASE m.next = 0
    BY <1>2, <2>1, SettleIs
  <2>2. CASE m.next # 0
    <3>1. [kind |-> "page", by |-> m.by, after |-> m.next] \in Requests
      BY <1>2 DEF Requests
    <3>2. resync' \in Resyncs
      BY <2>2, PaintedIs
    <3> QED
      BY <2>2, <3>1, <3>2
  <2> QED
    BY <2>1, <2>2
<1>5. latest' \in Counts
  <2>1. \A t \in TaskIds : m.at[t] \in Nat /\ latest[t] \in Nat
    BY <1>2 DEF Counts
  <2> QED
    BY <2>1 DEF Counts
<1>6. loading' \in BOOLEAN /\ overtaken' \in BOOLEAN
  OBVIOUS
<1> QED
  BY <1>1, <1>3, <1>4, <1>5, <1>6 DEF ServerSame

LEMMA AnswersTyped ==
    ASSUME ClientTyped,
           \/ ReceivePage \/ ReceiveMeta \/ ReceiveColumnList \/ ReceiveTask
           \/ ReceiveAccepted \/ ReceiveRefused \/ ReceiveConflict
    PROVE  ClientTyped'
<1> USE DEF ClientTyped
<1>1. ASSUME ReceivePage PROVE ClientTyped'
  BY <1>1, ReceivePageIs DEF ReceivePage
<1>2. ASSUME ReceiveMeta PROVE ClientTyped'
  <2>1. PICK m \in answers :
          /\ Delivered(m, "meta") /\ ColumnsShown(m.columns)
          /\ loading' = (loading /\ FirstPageDue) /\ Settle(m.by, "meta")
          /\ UNCHANGED <<asked, link, drawn, armed, drag, moves, owed, skipped, restored, latest>>
    BY <1>2 DEF ReceiveMeta
  <2>2. m \in Replies /\ m.kind = "meta" /\ answers' \in SUBSET Replies /\ ServerSame /\ wire' = wire
    BY <2>1, DeliveryIs
  <2>3. m.by \in Drains /\ m.columns \in SUBSET Nat
    BY <2>2, ReplyFields
  <2>4. resync' \in Resyncs /\ drains' \in [Drains -> SUBSET {"meta", "pages"}]
    BY <2>1, <2>3, SettleIs
  <2>5. /\ loading' \in BOOLEAN /\ overtaken' \in BOOLEAN
        /\ drawnCols' \in SUBSET Nat /\ latestCols' \in SUBSET Nat
    BY <2>1, <2>3 DEF ColumnsShown
  <2> QED
    BY <2>1, <2>2, <2>4, <2>5 DEF ServerSame
<1>3. ASSUME ReceiveColumnList PROVE ClientTyped'
  <2>1. PICK m \in answers :
          /\ Delivered(m, "columnList") /\ ColumnsShown(m.columns)
          /\ UNCHANGED <<asked, link, drawn, loading, armed, resync, drains, drag, moves, owed, skipped,
                         restored, latest>>
    BY <1>3 DEF ReceiveColumnList
  <2>2. m \in Replies /\ m.kind = "columnList" /\ answers' \in SUBSET Replies /\ ServerSame /\ wire' = wire
    BY <2>1, DeliveryIs
  <2>3. m.columns \in SUBSET Nat
    BY <2>2, ReplyFields
  <2>4. overtaken' \in BOOLEAN /\ drawnCols' \in SUBSET Nat /\ latestCols' \in SUBSET Nat
    BY <2>1, <2>3 DEF ColumnsShown
  <2> QED
    BY <2>1, <2>2, <2>4 DEF ServerSame
<1>4. ASSUME ReceiveTask PROVE ClientTyped'
  <2>1. PICK m \in answers :
          /\ Delivered(m, "task") /\ drawn' = Put(m.task, m.row) /\ Heard(m.task, m.at)
          /\ overtaken' = (overtaken \/ Late(m.task, m.at))
          /\ UNCHANGED <<asked, link, drawnCols, loading, armed, resync, drains, drag, moves, owed,
                         skipped, restored, latestCols>>
    BY <1>4 DEF ReceiveTask
  <2>2. m \in Replies /\ m.kind = "task" /\ answers' \in SUBSET Replies /\ ServerSame /\ wire' = wire
    BY <2>1, DeliveryIs
  <2>3. m.task \in TaskIds /\ m.row \in CardRows /\ m.at \in Nat
    BY <2>2, ReplyFields
  <2>4. drawn' \in Boards
    <3>1. drawn' = Rowed(drawn, m.task, m.row)
      BY <2>1 DEF Put, Rowed
    <3>2. Rowed(drawn, m.task, m.row) \in Boards
      BY <2>3, RowPut
    <3> QED
      BY <3>1, <3>2
  <2>5. latest' \in Counts /\ overtaken' \in BOOLEAN
    BY <2>1, <2>3, HeardIs
  <2> QED
    BY <2>1, <2>2, <2>4, <2>5 DEF ServerSame
<1>5. ASSUME ReceiveAccepted PROVE ClientTyped'
  <2>1. PICK m \in answers :
          /\ Delivered(m, "accepted")
          /\ drawn' = IF m.task \in DOMAIN drawn THEN Put(m.task, m.row) ELSE drawn
          /\ Heard(m.task, m.at)
          /\ overtaken' = (overtaken \/ (m.task \in DOMAIN drawn /\ Late(m.task, m.at)))
          /\ UNCHANGED <<asked, link, drawnCols, loading, armed, resync, drains, drag, moves, owed,
                         skipped, restored, latestCols>>
    BY <1>5 DEF ReceiveAccepted
  <2>2. m \in Replies /\ m.kind = "accepted" /\ answers' \in SUBSET Replies /\ ServerSame /\ wire' = wire
    BY <2>1, DeliveryIs
  <2>3. m.task \in TaskIds /\ m.row \in CardRows /\ m.at \in Nat
    BY <2>2, ReplyFields
  <2>4. Put(m.task, m.row) \in Boards
    <3>1. Put(m.task, m.row) = Rowed(drawn, m.task, m.row)
      BY DEF Put, Rowed
    <3>2. Rowed(drawn, m.task, m.row) \in Boards
      BY <2>3, RowPut
    <3> QED
      BY <3>1, <3>2
  <2>5. latest' \in Counts /\ overtaken' \in BOOLEAN
    BY <2>1, <2>3, HeardIs
  <2> QED
    BY <2>1, <2>2, <2>4, <2>5 DEF ServerSame
<1>6. ASSUME ReceiveRefused PROVE ClientTyped'
  <2>1. PICK m \in answers :
          /\ Delivered(m, "refused")
          /\ IF m.move.generation = moves
             THEN /\ drawn' = m.move.previous /\ restored' = TRUE
                  /\ UNCHANGED <<asked, drains, skipped, overtaken, latest, latestCols>>
             ELSE StartDrain("undo") /\ UNCHANGED drawn
          /\ UNCHANGED <<link, drawnCols, loading, armed, resync, drag, moves, owed>>
    BY <1>6 DEF ReceiveRefused
  <2>2. m \in Replies /\ m.kind = "refused" /\ answers' \in SUBSET Replies /\ ServerSame /\ wire' = wire
    BY <2>1, DeliveryIs
  <2>3. m.move.previous \in Boards
    BY <2>2, ReplyFields DEF MoveRequests
  <2>4. CASE m.move.generation = moves
    BY <2>1, <2>2, <2>3, <2>4 DEF ServerSame
  <2>5. CASE m.move.generation # moves
    <3>1. StartDrain("undo") /\ "undo" \in Drains /\ drawn' = drawn
      BY <2>1, <2>5 DEF Drains
    <3>2. asked' \in SUBSET Requests /\ drains' \in [Drains -> SUBSET {"meta", "pages"}]
          /\ skipped' = FALSE /\ restored' = FALSE /\ overtaken' = FALSE
          /\ latest' = latest /\ latestCols' = latestCols
      BY <3>1, StartDrainIs
    <3> QED
      BY <2>1, <2>2, <3>1, <3>2 DEF ServerSame
  <2> QED
    BY <2>4, <2>5
<1>7. ASSUME ReceiveConflict PROVE ClientTyped'
  <2>1. PICK m \in answers :
          /\ Delivered(m, "conflict") /\ StartDrain("undo")
          /\ UNCHANGED <<link, screen, armed, resync, drag, moves, owed>>
    BY <1>7 DEF ReceiveConflict
  <2>2. answers' \in SUBSET Replies /\ ServerSame /\ wire' = wire /\ "undo" \in Drains
    BY <2>1, DeliveryIs DEF Drains
  <2>3. asked' \in SUBSET Requests /\ drains' \in [Drains -> SUBSET {"meta", "pages"}]
        /\ skipped' = FALSE /\ restored' = FALSE /\ overtaken' = FALSE
        /\ latest' = latest /\ latestCols' = latestCols
    BY <2>1, <2>2, StartDrainIs
  <2> QED
    BY <2>1, <2>2, <2>3 DEF ServerSame, screen
<1> QED
  BY <1>1, <1>2, <1>3, <1>4, <1>5, <1>6, <1>7

LEMMA EventsTyped ==
    ASSUME ClientTyped,
           ReceiveAck \/ ReceiveChange \/ ReceiveMoved \/ ReceiveDeleted \/ ReceiveColumns
    PROVE  ClientTyped'
<1> USE DEF ClientTyped
<1>1. ASSUME ReceiveAck PROVE ClientTyped'
  <2>1. wire' \in Seq(Events) /\ ServerSame /\ answers' = answers
    BY <1>1, EventIs DEF ReceiveAck
  <2>2. PICK r \in Aged(resync) : resync' = Requested(r) /\ owed' = (owed \/ ~r.fresh)
                                  /\ skipped' = (skipped \/ r.fresh)
    BY <1>1 DEF ReceiveAck
  <2>3. r \in Resyncs
    BY <2>2, AgedIs
  <2>4. resync' \in Resyncs /\ owed' \in BOOLEAN /\ skipped' \in BOOLEAN
    BY <2>2, <2>3, RequestedIs
  <2> QED
    BY <1>1, <2>1, <2>4 DEF ReceiveAck, ServerSame, screen
<1>2. ASSUME ReceiveChange PROVE ClientTyped'
  <2>1. PICK k \in {"created", "updated"} : Received(k)
    BY <1>2 DEF ReceiveChange
  <2>2. Next1 \in Events /\ Next1.kind = k /\ wire' \in Seq(Events) /\ ServerSame /\ answers' = answers
    BY <2>1, EventIs
  <2>3. armed' \in SUBSET TaskIds
    BY <1>2, <2>1, <2>2, EventFields DEF ReceiveChange
  <2> QED
    BY <1>2, <2>2, <2>3 DEF ReceiveChange, ServerSame, screen, lapses
<1>3. ASSUME ReceiveMoved PROVE ClientTyped'
  <2>1. Next1 \in Events /\ Next1.kind = "moved" /\ wire' \in Seq(Events) /\ ServerSame /\ answers' = answers
    BY <1>3, EventIs DEF ReceiveMoved
  <2>2. Next1.task \in TaskIds /\ Next1.lane \in BoardLanes /\ Next1.at \in Nat
    BY <2>1, EventFields
  <2>3. drawn' \in Boards
    <3>1. drawn' = drawn \/ (Next1.task \in DOMAIN drawn /\ drawn' = WithLane(drawn, Next1.task, Next1.lane))
      BY <1>3 DEF ReceiveMoved, WithLane
    <3>2. Next1.task \in DOMAIN drawn => WithLane(drawn, Next1.task, Next1.lane) \in Boards
      BY <2>2, RowRelaned
    <3> QED
      BY <3>1, <3>2
  <2>4. armed' \in SUBSET TaskIds /\ drag' \in TaskIds \cup {0} /\ latest' \in Counts
    BY <1>3, <2>2, HeardIs DEF ReceiveMoved
  <2> QED
    BY <1>3, <2>1, <2>3, <2>4 DEF ReceiveMoved, ServerSame
<1>4. ASSUME ReceiveDeleted PROVE ClientTyped'
  <2>1. Next1 \in Events /\ Next1.kind = "deleted" /\ wire' \in Seq(Events) /\ ServerSame /\ answers' = answers
    BY <1>4, EventIs DEF ReceiveDeleted
  <2>2. Next1.task \in TaskIds /\ Next1.at \in Nat
    BY <2>1, EventFields
  <2>3. drawn' \in Boards
    <3>1. drawn' = Without(drawn, Next1.task)
      BY <1>4 DEF ReceiveDeleted, Without
    <3> QED
      BY <2>2, <3>1, RowDropped
  <2>4. latest' \in Counts
    BY <1>4, <2>2, HeardIs DEF ReceiveDeleted
  <2> QED
    BY <1>4, <2>1, <2>3, <2>4 DEF ReceiveDeleted, ServerSame
<1>5. ASSUME ReceiveColumns PROVE ClientTyped'
  <2>1. wire' \in Seq(Events) /\ ServerSame /\ answers' = answers
    BY <1>5, EventIs DEF ReceiveColumns
  <2>2. [kind |-> "columns"] \in Requests
    BY DEF Requests
  <2> QED
    BY <1>5, <2>1, <2>2 DEF ReceiveColumns, ServerSame, screen, lapses
<1> QED
  BY <1>1, <1>2, <1>3, <1>4, <1>5

LEMMA ClientStepsTyped ==
    ASSUME ClientTyped, ClientNext
    PROVE  ClientTyped'
BY ServerTyped, BrowserTyped, AnswersTyped, EventsTyped DEF ClientNext, ClientReceives

-----------------------------------------------------------------------------
(* The board in a browser: what it has been told is true of some time *)

\* Which change of a task its text, or its place, is of.
Since(t, f) == IF f = "text" THEN rows[t].text ELSE placed[t]
Fields == {"text", "lane"}

\* A row read after change n: right in what has not changed since.
RowTrue(t, n, data) ==
    /\ 1 =< n /\ n =< stamp[t]
    /\ t \in DOMAIN rows => \A f \in Fields : n >= Since(t, f) => data[f] = rows[t][f]
    /\ t \notin DOMAIN rows => n < stamp[t]

\* A page has a task, or has the next page still to come for it.
Covers(m, t) == t \in DOMAIN m.tasks \/ (m.next # 0 /\ m.next < t)

PageTrue(m) ==
    /\ \A t \in TaskIds : m.at[t] =< stamp[t]
    /\ \A t \in DOMAIN m.tasks : RowTrue(t, m.at[t], m.tasks[t])
    /\ m.next # 0 => \A t \in DOMAIN m.tasks : t =< m.next
    /\ m.first => \A t \in DOMAIN rows : m.at[t] >= 1 => Covers(m, t)

ReplyTrue(m) ==
    /\ m.kind = "page" => PageTrue(m)
    /\ m.kind \in {"task", "accepted"} => RowTrue(m.task, m.at, m.row)
    /\ m.kind \in {"meta", "columnList"} => m.columns \subseteq columnSet
    /\ m.kind = "refused" => \A t \in DOMAIN m.move.previous : latest[t] >= 1

RequestTrue(r) ==
    /\ r.kind = "move" => \A t \in DOMAIN r.previous : latest[t] >= 1
    /\ r.kind \in {"seed", "columnMove"} => r.basis \subseteq columnSet

CardTrue(t) ==
    /\ latest[t] =< stamp[t] /\ placed[t] =< stamp[t]
    /\ t \in DOMAIN rows => 1 =< rows[t].text /\ rows[t].text =< stamp[t] /\ 1 =< placed[t]
    /\ t \in DOMAIN drawn => 1 =< latest[t]

\* The events of a task's moves end with the one that put it where it is.
EventTrue(i) ==
    /\ wire[i].kind \in {"moved", "deleted"} =>
          1 =< wire[i].at /\ wire[i].at =< stamp[wire[i].task]
    /\ wire[i].kind = "moved" /\ wire[i].task \in DOMAIN rows =>
          /\ wire[i].at = placed[wire[i].task] => wire[i].lane = rows[wire[i].task].lane
          /\ \E j \in i..Len(wire) : /\ wire[j].kind = "moved" /\ wire[j].task = wire[i].task
                                     /\ wire[j].at = placed[wire[i].task]
    /\ wire[i].kind = "deleted" =>
          wire[i].task \notin DOMAIN rows /\ wire[i].at = stamp[wire[i].task]

Truths ==
    /\ \A m \in answers : ReplyTrue(m)
    /\ \A r \in asked : RequestTrue(r)
    /\ \A t \in TaskIds : CardTrue(t)
    /\ \A i \in 1..Len(wire) : EventTrue(i)
    /\ drawnCols \subseteq latestCols /\ latestCols \subseteq columnSet

\* What one step does to a task, and to all that is told of it.
CardStep(t) == SameCard(t) \/ \E e \in Events : Changed(t, e)

Forward ==
    /\ ClientTyped'
    /\ \A t \in TaskIds : CardStep(t)
    /\ columnSet \subseteq columnSet'
    /\ \A t \in TaskIds : latest'[t] >= latest[t]

LEMMA CountsAre ==
    ASSUME ClientTyped, NEW t \in TaskIds
    PROVE  stamp[t] \in Nat /\ placed[t] \in Nat /\ latest[t] \in Nat
BY DEF ClientTyped, Counts

\* What no step takes back.
LEMMA CountsGrow ==
    ASSUME ClientTyped, Forward, NEW t \in TaskIds
    PROVE  /\ stamp[t] \in Nat /\ placed[t] \in Nat /\ latest[t] \in Nat
           /\ stamp'[t] \in Nat /\ placed'[t] \in Nat /\ latest'[t] \in Nat
           /\ stamp[t] =< stamp'[t] /\ latest[t] =< latest'[t]
<1>1. stamp[t] \in Nat /\ placed[t] \in Nat /\ latest[t] \in Nat
  BY CountsAre
<1>2. stamp'[t] \in Nat /\ placed'[t] \in Nat /\ latest'[t] \in Nat
  BY DEF Forward, ClientTyped, Counts
<1>3. latest[t] =< latest'[t] /\ CardStep(t)
  BY <1>1, <1>2 DEF Forward
<1>4. stamp[t] =< stamp'[t]
  BY <1>1, <1>2, <1>3 DEF CardStep, SameCard, Changed
<1> QED
  BY <1>1, <1>2, <1>3, <1>4

\* A row that was true stays so.
LEMMA RowStays ==
    ASSUME ClientTyped, NEW t \in TaskIds, NEW n \in Nat, NEW data, CardStep(t), RowTrue(t, n, data)
    PROVE  RowTrue(t, n, data)'
<1>1. stamp[t] \in Nat /\ placed[t] \in Nat
  BY CountsAre
<1>2. 1 =< n /\ n =< stamp[t]
  BY DEF RowTrue
<1>3. CASE SameCard(t)
  <2>1. 1 =< n /\ n =< stamp'[t]
    BY <1>2, <1>3 DEF SameCard
  <2>2. ASSUME t \in DOMAIN rows', NEW f \in Fields, n >= Since(t, f)' PROVE data[f] = rows'[t][f]
    BY <1>3, <2>2 DEF SameCard, RowTrue, Since
  <2>3. t \notin DOMAIN rows' => n < stamp'[t]
    BY <1>3 DEF SameCard, RowTrue
  <2> QED
    BY <2>1, <2>2, <2>3 DEF RowTrue
<1>4. ASSUME NEW e \in Events, Changed(t, e) PROVE RowTrue(t, n, data)'
  <2>1. stamp'[t] = stamp[t] + 1 /\ n < stamp'[t]
    BY <1>1, <1>2, <1>4 DEF Changed
  <2>2. ASSUME t \in DOMAIN rows', NEW f \in Fields, n >= Since(t, f)' PROVE data[f] = rows'[t][f]
    <3>1. CASE f = "text"
      <4>1. n >= rows'[t].text
        BY <2>2, <3>1 DEF Since
      <4>2. e.kind = "moved" /\ t \in DOMAIN rows /\ rows'[t].text = rows[t].text
        BY <1>1, <1>4, <2>1, <2>2, <4>1 DEF Changed
      <4>3. n >= Since(t, f)
        BY <3>1, <4>1, <4>2 DEF Since
      <4> QED
        BY <3>1, <4>2, <4>3 DEF RowTrue
    <3>2. CASE f = "lane"
      <4>1. n >= placed'[t]
        BY <2>2, <3>2 DEF Since
      <4>2. t \in DOMAIN rows /\ rows'[t].lane = rows[t].lane /\ placed'[t] = placed[t]
        BY <1>1, <1>4, <2>1, <2>2, <4>1 DEF Changed
      <4>3. n >= Since(t, f)
        BY <3>2, <4>1, <4>2 DEF Since
      <4> QED
        BY <3>2, <4>2, <4>3 DEF RowTrue
    <3> QED
      BY <3>1, <3>2 DEF Fields
  <2> QED
    BY <1>1, <1>2, <2>1, <2>2 DEF RowTrue
<1> QED
  BY <1>3, <1>4 DEF CardStep

LEMMA PageStays ==
    ASSUME ClientTyped, Forward, NEW m \in Replies, m.kind = "page", PageTrue(m)
    PROVE  PageTrue(m)'
<1>1. m.at \in Counts /\ m.tasks \in Boards /\ DOMAIN m.tasks \subseteq TaskIds
  BY ReplyFields, BoardFacts
<1>2. ASSUME NEW t \in TaskIds PROVE stamp[t] =< stamp'[t] /\ stamp[t] \in Nat /\ m.at[t] \in Nat /\ stamp'[t] \in Nat
  BY <1>1, CountsGrow DEF Counts
<1>3. \A t \in TaskIds : m.at[t] =< stamp'[t]
  BY <1>2 DEF PageTrue
<1>4. ASSUME NEW t \in DOMAIN m.tasks PROVE RowTrue(t, m.at[t], m.tasks[t])'
  BY <1>1, <1>2, RowStays DEF PageTrue, Forward
<1>5. ASSUME m.first, NEW t \in DOMAIN rows', m.at[t] >= 1 PROVE Covers(m, t)
  <2>0. t \in TaskIds
    <3>1. rows' \in Boards
      BY DEF Forward, ClientTyped
    <3> QED
      BY <1>5, <3>1, BoardFacts
  <2>1. t \in DOMAIN rows
    BY <1>2, <1>5, <2>0 DEF Forward, CardStep, SameCard, Changed, PageTrue
  <2> QED
    BY <1>5, <2>1 DEF PageTrue
<1> QED
  BY <1>3, <1>4, <1>5 DEF PageTrue, Covers

LEMMA ReplyStays ==
    ASSUME ClientTyped, Forward, NEW m \in Replies, ReplyTrue(m)
    PROVE  ReplyTrue(m)'
<1>1. m.kind = "page" => PageTrue(m)'
  BY PageStays DEF ReplyTrue
<1>2. m.kind \in {"task", "accepted"} => RowTrue(m.task, m.at, m.row)'
  BY ReplyFields, RowStays DEF ReplyTrue, Forward
<1>3. m.kind \in {"meta", "columnList"} => m.columns \subseteq columnSet'
  BY DEF ReplyTrue, Forward
<1>4. ASSUME m.kind = "refused", NEW t \in DOMAIN m.move.previous PROVE latest'[t] >= 1
  <2>1. t \in TaskIds
    BY <1>4, ReplyFields, BoardFacts DEF MoveRequests
  <2>2. latest[t] >= 1 /\ latest'[t] >= latest[t] /\ latest[t] \in Nat /\ latest'[t] \in Nat
    BY <1>4, <2>1, CountsGrow DEF ReplyTrue, Forward
  <2> QED
    BY <2>2
<1> QED
  BY <1>1, <1>2, <1>3, <1>4 DEF ReplyTrue

LEMMA RequestStays ==
    ASSUME ClientTyped, Forward, NEW r \in Requests, RequestTrue(r)
    PROVE  RequestTrue(r)'
<1>1. ASSUME r.kind = "move", NEW t \in DOMAIN r.previous PROVE latest'[t] >= 1
  <2>1. t \in TaskIds
    BY <1>1, RequestFields, BoardFacts
  <2>2. latest[t] >= 1 /\ latest'[t] >= latest[t] /\ latest[t] \in Nat /\ latest'[t] \in Nat
    BY <1>1, <2>1, CountsGrow DEF RequestTrue, Forward
  <2> QED
    BY <2>2
<1>2. r.kind \in {"seed", "columnMove"} => r.basis \subseteq columnSet'
  BY DEF RequestTrue, Forward
<1> QED
  BY <1>1, <1>2 DEF RequestTrue

CardsSame == rows' = rows /\ stamp' = stamp /\ placed' = placed /\ columnSet' = columnSet

LEMMA BrowserLeavesCards ==
    ASSUME \/ Connect \/ Disconnect \/ FireUpsert \/ FireResync \/ StartDrag \/ Drop \/ AskColumns
           \/ ClientReceives
    PROVE  CardsSame
<1>1. CASE Connect \/ Disconnect \/ FireUpsert \/ FireResync \/ StartDrag \/ Drop \/ AskColumns
  BY <1>1 DEF Connect, Disconnect, FireUpsert, FireResync, StartDrag, Drop, AskColumns, serverSide, cards,
              CardsSame
<1>2. CASE ClientReceives
  BY <1>2 DEF ClientReceives, ReceivePage, ReceiveMeta, ReceiveColumnList, ReceiveTask, ReceiveAck,
              ReceiveChange, ReceiveMoved, ReceiveDeleted, ReceiveColumns, ReceiveAccepted,
              ReceiveRefused, ReceiveConflict, Received, Delivered, serverSide, cards, CardsSame
<1> QED
  BY <1>1, <1>2

\* What the arrival of a page does.
PageComes(m) ==
    /\ Delivered(m, "page") /\ drawn' = Merged(m)
    /\ latest' = [t \in TaskIds |->
                  IF (m.first \/ t \in Decides(m)) /\ m.at[t] > latest[t]
                  THEN m.at[t] ELSE latest[t]]
    /\ overtaken' = (overtaken \/ \E t \in Decides(m) : Late(t, m.at[t]))
    /\ loading' = (loading /\ "meta" \in drains["load"])
    /\ \/ m.next = 0 /\ Settle(m.by, "pages") /\ asked' = asked
       \/ /\ m.next # 0
          /\ asked' = asked \cup {[kind |-> "page", by |-> m.by, after |-> m.next]}
          /\ resync' = Painted(resync)
          /\ drains' = drains
    /\ UNCHANGED <<link, drawnCols, armed, drag, moves, owed, skipped, restored, latestCols>>

LEMMA PageArrives ==
    ASSUME ReceivePage
    PROVE  \E m \in answers : PageComes(m)
BY DEF ReceivePage, PageComes

LEMMA PageHeard ==
    ASSUME ClientTyped, NEW m \in answers, PageComes(m), NEW t \in TaskIds
    PROVE  /\ m.at[t] \in Nat /\ latest[t] \in Nat /\ latest'[t] \in Nat
           /\ latest'[t] >= latest[t] /\ latest'[t] \in {latest[t], m.at[t]}
           /\ m.first \/ t \in Decides(m) => latest'[t] >= m.at[t]
           /\ ~m.first /\ t \notin Decides(m) => latest'[t] = latest[t]
<1>1. m \in Replies /\ m.kind = "page"
  BY DeliveryIs DEF PageComes
<1>2. m.at[t] \in Nat /\ latest[t] \in Nat
  BY <1>1, ReplyFields, CountsAre DEF Counts
<1> QED
  BY <1>2 DEF PageComes

LEMMA LatestGrows ==
    ASSUME ClientTyped, ClientNext, NEW t \in TaskIds
    PROVE  latest'[t] >= latest[t]
<1>0. latest[t] \in Nat /\ latest \in Counts
  BY CountsAre DEF ClientTyped
<1>1. CASE latest' = latest
  BY <1>0, <1>1
<1>2. ASSUME NEW s \in TaskIds, NEW n \in Nat, Heard(s, n) PROVE latest'[t] >= latest[t]
  BY <1>0, <1>2, HeardIs
<1>3. CASE RemoteTask \/ RemoteColumn \/ AnswerRead \/ AnswerMove \/ AnswerColumns \/ AcceptJoin
  <2>1. latest' = latest
    BY <1>3 DEF RemoteTask, RemoteColumn, AnswerRead, AnswerMove, AnswerColumns, AcceptJoin, ServerAlone,
                lapses
  <2> QED
    BY <1>1, <2>1
<1>4. CASE \/ Connect \/ Disconnect \/ FireUpsert \/ FireResync \/ StartDrag \/ Drop \/ AskColumns
           \/ ReceiveMeta \/ ReceiveColumnList \/ ReceiveAck \/ ReceiveChange \/ ReceiveColumns
           \/ ReceiveRefused \/ ReceiveConflict
  <2>1. latest' = latest
    BY <1>4 DEF Connect, Disconnect, FireUpsert, FireResync, StartDrag, Drop, AskColumns, ReceiveMeta,
                ReceiveColumnList, ReceiveAck, ReceiveChange, ReceiveColumns, ReceiveRefused,
                ReceiveConflict, StartDrain, lapses
  <2> QED
    BY <1>1, <2>1
<1>5. CASE ReceivePage
  BY <1>5, PageArrives, PageHeard
<1>6. CASE ReceiveTask \/ ReceiveAccepted
  <2>1. PICK m \in answers : Delivered(m, m.kind) /\ m.kind \in {"task", "accepted"} /\ Heard(m.task, m.at)
    BY <1>6 DEF ReceiveTask, ReceiveAccepted, Delivered
  <2>2. m.task \in TaskIds /\ m.at \in Nat
    BY <2>1, DeliveryIs, ReplyFields
  <2> QED
    BY <1>2, <2>1, <2>2
<1>7. CASE ReceiveMoved \/ ReceiveDeleted
  <2>1. PICK k \in {"moved", "deleted"} : Received(k) /\ Heard(Next1.task, Next1.at)
    BY <1>7 DEF ReceiveMoved, ReceiveDeleted
  <2>2. Next1.task \in TaskIds /\ Next1.at \in Nat
    BY <2>1, EventIs, EventFields
  <2> QED
    BY <1>2, <2>1, <2>2
<1> QED
  BY <1>3, <1>4, <1>5, <1>6, <1>7 DEF ClientNext, ClientReceives

LEMMA StepsGoForward ==
    ASSUME ClientTyped, ClientNext
    PROVE  Forward
<1>1. ClientTyped' /\ \A t \in TaskIds : latest'[t] >= latest[t]
  BY ClientStepsTyped, LatestGrows
<1>2. CASE RemoteTask
  BY <1>1, <1>2, RemoteTaskIs DEF Forward, CardStep, Changed
<1>3. CASE AnswerMove
  <2>1. \A t \in TaskIds : CardStep(t)
    BY <1>3, AnswerMoveIs DEF CardStep, Changed, SameCard
  <2> QED
    BY <1>1, <1>3, <2>1, AnswerMoveIs DEF Forward
<1>4. CASE RemoteColumn \/ AnswerColumns
  <2>1. rows' = rows /\ stamp' = stamp /\ placed' = placed /\ columnSet \subseteq columnSet'
    BY <1>4, RemoteColumnIs, AnswerColumnsIs
  <2> QED
    BY <1>1, <2>1 DEF Forward, CardStep, SameCard
<1>5. CASE ~(RemoteTask \/ AnswerMove \/ RemoteColumn \/ AnswerColumns)
  <2>1. CardsSame
    BY <1>5, AnswerReadIs, AcceptJoinIs, BrowserLeavesCards DEF ClientNext, CardsSame
  <2> QED
    BY <1>1, <2>1 DEF Forward, CardStep, SameCard, CardsSame
<1> QED
  BY <1>2, <1>3, <1>4, <1>5

\* An answer to what was asked is true when it is given.
LEMMA RowReadTrue ==
    ASSUME ClientTyped, Truths, NEW t \in DOMAIN rows
    PROVE  t \in TaskIds /\ RowTrue(t, stamp[t], rows[t])
<1>1. t \in TaskIds
  BY BoardFacts DEF ClientTyped
<1>2. stamp[t] \in Nat /\ placed[t] \in Nat /\ 1 =< stamp[t]
  <2>1. rows[t].text \in Nat
    BY BoardFacts DEF ClientTyped
  <2> QED
    BY <1>1, <2>1, CountsAre DEF Truths, CardTrue
<1> QED
  BY <1>1, <1>2 DEF RowTrue

LEMMA PageReadTrue ==
    ASSUME ClientTyped, Truths, NEW r \in Requests, r.kind = "page", NEW m \in Replies, PageRead(m, r)
    PROVE  PageTrue(m)
<1>1. \A t \in TaskIds : m.at[t] =< stamp[t]
  BY CountsAre DEF PageRead
<1>2. \A t \in DOMAIN m.tasks : RowTrue(t, m.at[t], m.tasks[t])
  BY RowReadTrue DEF PageRead
<1>3. ASSUME m.first, NEW t \in DOMAIN rows PROVE Covers(m, t)
  <2>1. t \in TaskIds /\ r.after = 0
    BY <1>3, RowReadTrue DEF PageRead
  <2>2. r.after < t
    BY <2>1, TaskIdsAre
  <2> QED
    BY <2>2 DEF PageRead, Covers
<1> QED
  BY <1>1, <1>2, <1>3 DEF PageTrue, PageRead

LEMMA AnswersStayTrue ==
    ASSUME ClientTyped, Truths, ClientNext
    PROVE  \A m \in answers' : ReplyTrue(m)'
<1>0. Forward
  BY StepsGoForward
<1>1. ASSUME NEW m \in answers PROVE ReplyTrue(m)'
  BY <1>0, ReplyStays DEF Truths, ClientTyped
<1>2. CASE answers' \subseteq answers
  BY <1>1, <1>2
<1>3. ASSUME NEW m, answers' = answers \cup {m}, ReplyTrue(m)' PROVE \A l \in answers' : ReplyTrue(l)'
  BY <1>1, <1>3
<1>4. ASSUME NEW m \in Replies, answers' = answers \cup {m}, ReplyTrue(m)
      PROVE  \A l \in answers' : ReplyTrue(l)'
  BY <1>0, <1>3, <1>4, ReplyStays
<1>5. CASE AnswerRead
  <2>1. PICK r \in asked :
          \/ answers' = answers
          \/ \E m \in Replies :
               /\ answers' = answers \cup {m}
               /\ \/ r.kind = "page" /\ PageRead(m, r)
                  \/ m.kind \in {"meta", "columnList"} /\ m.columns = columnSet
                  \/ /\ m.kind = "task" /\ m.task = r.task
                     /\ r.task \in DOMAIN rows /\ m.row = rows[r.task] /\ m.at = stamp[r.task]
    BY <1>5, AnswerReadIs
  <2>2. CASE answers' = answers
    BY <1>2, <2>2
  <2>3. ASSUME NEW m \in Replies, answers' = answers \cup {m}, r.kind = "page", PageRead(m, r)
        PROVE  \A l \in answers' : ReplyTrue(l)'
    <3>1. m.kind = "page" /\ r \in Requests
      BY <2>3 DEF PageRead, ClientTyped
    <3>2. ReplyTrue(m)
      BY <2>3, <3>1, PageReadTrue DEF ReplyTrue
    <3> QED
      BY <1>4, <2>3, <3>2
  <2>4. ASSUME NEW m \in Replies, answers' = answers \cup {m},
               m.kind \in {"meta", "columnList"}, m.columns = columnSet
        PROVE  \A l \in answers' : ReplyTrue(l)'
    BY <1>4, <2>4 DEF ReplyTrue
  <2>5. ASSUME NEW m \in Replies, answers' = answers \cup {m}, m.kind = "task", m.task = r.task,
               r.task \in DOMAIN rows, m.row = rows[r.task], m.at = stamp[r.task]
        PROVE  \A l \in answers' : ReplyTrue(l)'
    <3>1. ReplyTrue(m)
      BY <2>5, RowReadTrue DEF ReplyTrue
    <3> QED
      BY <1>4, <2>5, <3>1
  <2> QED
    BY <2>1, <2>2, <2>3, <2>4, <2>5
<1>6. CASE AnswerMove
  <2>1. PICK r \in asked, m \in Replies :
          /\ r.kind = "move" /\ answers' = answers \cup {m}
          /\ \/ /\ m.kind = "accepted" /\ m.task = r.task
                /\ m.row = rows'[r.task] /\ m.at = stamp'[r.task]
                /\ \E e \in Events : e.kind = "moved" /\ Changed(r.task, e)
             \/ m.kind = "refused" /\ m.move = r
    BY <1>6, AnswerMoveIs
  <2>2. CASE m.kind = "refused" /\ m.move = r
    <3>1. ReplyTrue(m)
      BY <2>1, <2>2 DEF Truths, ReplyTrue, RequestTrue
    <3> QED
      BY <1>4, <2>1, <3>1
  <2>3. CASE m.kind = "accepted"
    <3>1. PICK e \in Events : e.kind = "moved" /\ Changed(r.task, e)
      BY <2>1, <2>3
    <3> DEFINE t == r.task
    <3>2. t \in TaskIds
      BY <2>1, RequestFields DEF ClientTyped
    <3>3. t \in DOMAIN rows' /\ stamp[t] \in Nat /\ stamp'[t] = stamp[t] + 1
      BY <3>1, <3>2, CountsAre DEF Changed
    <3>4. RowTrue(m.task, m.at, m.row)'
      BY <2>1, <2>3, <3>3 DEF RowTrue
    <3>5. ReplyTrue(m)'
      BY <2>3, <3>4 DEF ReplyTrue
    <3> QED
      BY <1>3, <2>1, <3>5
  <2> QED
    BY <2>1, <2>2, <2>3
<1>7. CASE AnswerColumns
  <2>1. PICK r \in asked, m \in Replies :
          /\ r.kind \in {"columnMove", "seed"} /\ answers' = answers \cup {m}
          /\ \/ m.kind = "conflict"
             \/ /\ m.kind = "columnList" /\ m.columns = r.basis \cup {r.change}
                /\ columnSet' = columnSet \cup {r.change}
    BY <1>7, AnswerColumnsIs
  <2>2. ReplyTrue(m)'
    BY <2>1 DEF Truths, RequestTrue, ReplyTrue
  <2> QED
    BY <1>3, <2>1, <2>2
<1>8. CASE ~(AnswerRead \/ AnswerMove \/ AnswerColumns)
  <2>1. answers' \subseteq answers
    BY <1>8, AcceptJoinIs DEF ClientNext, RemoteTask, RemoteColumn, Connect, Disconnect, FireUpsert, FireResync,
       StartDrag, Drop, AskColumns, ClientReceives, ReceivePage, ReceiveMeta, ReceiveColumnList,
       ReceiveTask, ReceiveAck, ReceiveChange, ReceiveMoved, ReceiveDeleted, ReceiveColumns,
       ReceiveAccepted, ReceiveRefused, ReceiveConflict, Received, Delivered
  <2> QED
    BY <1>2, <2>1
<1> QED
  BY <1>5, <1>6, <1>7, <1>8

LEMMA RequestsStayTrue ==
    ASSUME ClientTyped, Truths, ClientNext
    PROVE  \A r \in asked' : RequestTrue(r)'
<1>0. Forward /\ drawn \in Boards /\ asked \in SUBSET Requests
  BY StepsGoForward DEF ClientTyped
<1>1. ASSUME NEW r \in asked PROVE RequestTrue(r)'
  BY <1>0, <1>1, RequestStays DEF Truths
<1>2. CASE asked' \subseteq asked
  BY <1>1, <1>2
<1>3. ASSUME \A r \in asked' \ asked : r.kind \in {"page", "meta", "columns", "task"}
      PROVE  \A r \in asked' : RequestTrue(r)'
  BY <1>1, <1>3 DEF RequestTrue
<1>4. CASE Drop
  <2>1. PICK lane \in BoardLanes :
          \/ asked' = asked
          \/ asked' = asked \cup {[kind |-> "move", task |-> drag, lane |-> lane,
                                   generation |-> moves + 1, previous |-> drawn]}
    BY <1>4 DEF Drop
  <2>2. latest' = latest
    BY <1>4 DEF Drop, lapses
  <2>3. PICK q : /\ q = [kind |-> "move", task |-> drag, lane |-> lane, generation |-> moves + 1,
                           previous |-> drawn]
                 /\ q.kind = "move" /\ q.previous = drawn
    <3> DEFINE move == [kind |-> "move", task |-> drag, lane |-> lane, generation |-> moves + 1,
                        previous |-> drawn]
    <3>1. move.kind = "move" /\ move.previous = drawn
      OBVIOUS
    <3> HIDE DEF move
    <3>2. \E q : q = move /\ q.kind = "move" /\ q.previous = drawn
      BY <3>1
    <3> QED
      BY <3>2 DEF move
  <2>4. asked' = asked \/ asked' = asked \cup {q}
    BY <2>1, <2>3
  <2>5. RequestTrue(q)'
    <3>1. \A t \in DOMAIN drawn : t \in TaskIds /\ 1 =< latest[t] /\ latest[t] \in Nat
      BY <1>0, BoardFacts, CountsAre DEF Truths, CardTrue
    <3> QED
      BY <2>2, <2>3, <3>1 DEF RequestTrue
  <2> QED
    BY <1>1, <2>4, <2>5
<1>5. CASE AskColumns
  <2>1. PICK q : /\ q = [kind |-> IF drawnCols = {} THEN "seed" ELSE "columnMove", basis |-> drawnCols,
                           change |-> acts']
                 /\ asked' = asked \cup {q} /\ q.kind # "move" /\ q.basis = drawnCols
    <3> DEFINE ask == [kind |-> IF drawnCols = {} THEN "seed" ELSE "columnMove", basis |-> drawnCols,
                       change |-> acts']
    <3>1. asked' = asked \cup {ask} /\ ask.kind # "move" /\ ask.basis = drawnCols
      BY <1>5 DEF AskColumns
    <3> HIDE DEF ask
    <3>2. \E q : q = ask /\ asked' = asked \cup {q} /\ q.kind # "move" /\ q.basis = drawnCols
      BY <3>1
    <3> QED
      BY <3>2 DEF ask
  <2>2. columnSet' = columnSet
    BY <1>5 DEF AskColumns, serverSide
  <2>3. RequestTrue(q)'
    BY <2>1, <2>2 DEF RequestTrue, Truths
  <2> QED
    BY <1>1, <2>1, <2>3
<1>6. CASE FireUpsert
  <2>1. PICK t \in armed : asked' = asked \cup {[kind |-> "task", task |-> t]}
    BY <1>6 DEF FireUpsert
  <2> QED
    BY <1>3, <2>1
<1>7. CASE FireResync \/ ReceiveRefused \/ ReceiveConflict
  <2>1. PICK by \in Drains : asked' = asked \/ asked' = asked \cup DrainCalls(by)
    BY <1>7 DEF FireResync, ReceiveRefused, ReceiveConflict, StartDrain, Drains
  <2> QED
    BY <1>3, <2>1 DEF DrainCalls
<1>8. CASE ReceivePage
  <2>1. PICK m \in answers : PageComes(m)
    BY <1>8, PageArrives
  <2>2. \A r \in asked' \ asked : r = [kind |-> "page", by |-> m.by, after |-> m.next]
    BY <2>1 DEF PageComes
  <2> QED
    BY <1>3, <2>2
<1>9. CASE ReceiveColumns
  <2>1. asked' = asked \cup {[kind |-> "columns"]}
    BY <1>9 DEF ReceiveColumns
  <2> QED
    BY <1>3, <2>1
<1>10. CASE ~(\/ Drop \/ AskColumns \/ FireUpsert \/ FireResync \/ ReceiveRefused \/ ReceiveConflict
              \/ ReceivePage \/ ReceiveColumns)
  <2>1. asked' \subseteq asked
    BY <1>10, AcceptJoinIs, AnswerReadIs, AnswerMoveIs, AnswerColumnsIs DEF ClientNext, RemoteTask, RemoteColumn, Connect, Disconnect,
       StartDrag, ClientReceives, ReceiveMeta, ReceiveColumnList,
       ReceiveTask, ReceiveAck, ReceiveChange, ReceiveMoved, ReceiveDeleted, ReceiveAccepted
  <2> QED
    BY <1>2, <2>1
<1> QED
  BY <1>4, <1>5, <1>6, <1>7, <1>8, <1>9, <1>10

\* Where the server changes a task, the browser shows what it showed.
LEMMA CardChanges ==
    ASSUME ClientTyped, Truths, Forward, NEW t \in TaskIds, CardTrue(t), CardStep(t),
           latest' = latest, drawn' = drawn
    PROVE  CardTrue(t)'
<1>1. /\ stamp[t] \in Nat /\ placed[t] \in Nat /\ latest[t] \in Nat
      /\ stamp'[t] \in Nat /\ placed'[t] \in Nat /\ stamp[t] =< stamp'[t]
  BY CountsGrow
<1>2. CASE SameCard(t)
  BY <1>2 DEF SameCard, CardTrue
<1>3. ASSUME NEW e \in Events, Changed(t, e) PROVE CardTrue(t)'
  <2>1. t \in DOMAIN rows => rows[t].text \in Nat
    BY BoardFacts DEF ClientTyped
  <2> QED
    BY <1>1, <1>3, <2>1 DEF Changed, CardTrue
<1> QED
  BY <1>2, <1>3 DEF CardStep

\* Where the browser hears of a task, the server has what it had.
LEMMA CardHeard ==
    ASSUME ClientTyped, Truths, Forward, NEW t \in TaskIds, CardsSame,
           latest'[t] =< stamp[t],
           t \in DOMAIN drawn' => t \in DOMAIN drawn \/ 1 =< latest'[t]
    PROVE  CardTrue(t)'
<1>1. latest[t] \in Nat /\ latest'[t] \in Nat /\ latest[t] =< latest'[t]
  BY CountsGrow
<1>2. CardTrue(t)
  BY DEF Truths
<1> QED
  BY <1>1, <1>2 DEF CardTrue, CardsSame

LEMMA PageTasks ==
    ASSUME ClientTyped, Truths, NEW m \in answers, PageComes(m)
    PROVE  /\ m \in Replies /\ m.kind = "page" /\ PageTrue(m)
           /\ \A t \in TaskIds : m.at[t] \in Nat /\ m.at[t] =< stamp[t]
           /\ DOMAIN m.tasks \subseteq TaskIds
           /\ \A t \in DOMAIN m.tasks : 1 =< m.at[t]
           /\ CardsSame
<1>1. m \in Replies /\ m.kind = "page" /\ CardsSame
  BY DeliveryIs DEF PageComes, ServerSame, CardsSame
<1>2. PageTrue(m)
  BY <1>1 DEF Truths, ReplyTrue
<1>3. m.at \in Counts /\ DOMAIN m.tasks \subseteq TaskIds
  BY <1>1, ReplyFields, BoardFacts
<1> QED
  BY <1>1, <1>2, <1>3 DEF PageTrue, RowTrue, Counts

LEMMA CardsStayTrue ==
    ASSUME ClientTyped, Truths, ClientNext, NEW t \in TaskIds
    PROVE  CardTrue(t)'
<1>0. Forward /\ CardTrue(t) /\ CardStep(t)
  BY StepsGoForward DEF Truths, Forward
<1>1. latest[t] \in Nat /\ stamp[t] \in Nat /\ latest[t] =< stamp[t]
  BY <1>0, CountsAre DEF CardTrue
<1>2. CASE RemoteTask \/ RemoteColumn \/ AnswerRead \/ AnswerMove \/ AnswerColumns \/ AcceptJoin
  <2>1. latest' = latest /\ drawn' = drawn
    BY <1>2, AcceptJoinIs, ServerAloneIs DEF RemoteTask, RemoteColumn, AnswerRead, AnswerMove, AnswerColumns
  <2> QED
    BY <1>0, <2>1, CardChanges
<1>3. ASSUME CardsSame, latest' = latest, DOMAIN drawn' \subseteq DOMAIN drawn PROVE CardTrue(t)'
  BY <1>0, <1>1, <1>3, CardHeard
<1>4. CASE \/ Connect \/ Disconnect \/ FireUpsert \/ FireResync \/ StartDrag \/ Drop \/ AskColumns
           \/ ReceiveMeta \/ ReceiveColumnList \/ ReceiveAck \/ ReceiveChange \/ ReceiveColumns
           \/ ReceiveConflict
  <2>1. CardsSame
    BY <1>4, BrowserLeavesCards DEF ClientReceives
  <2>2. latest' = latest
    BY <1>4 DEF Connect, Disconnect, FireUpsert, FireResync, StartDrag, Drop, AskColumns, ReceiveMeta,
                ReceiveColumnList, ReceiveAck, ReceiveChange, ReceiveColumns,
                ReceiveConflict, StartDrain, lapses
  <2>3. DOMAIN drawn' \subseteq DOMAIN drawn
    BY <1>4 DEF Connect, Disconnect, FireUpsert, FireResync, StartDrag, Drop, AskColumns, ReceiveMeta,
                ReceiveColumnList, ReceiveAck, ReceiveChange, ReceiveColumns,
                ReceiveConflict, screen
  <2> QED
    BY <1>3, <2>1, <2>2, <2>3
<1>5. CASE ReceivePage
  <2>1. PICK m \in answers : PageComes(m)
    BY <1>5, PageArrives
  <2>2. m.at[t] \in Nat /\ m.at[t] =< stamp[t] /\ m \in Replies /\ m.kind = "page" /\ CardsSame
    BY <2>1, PageTasks
  <2>3. latest'[t] =< stamp[t]
    BY <1>1, <2>1, <2>2, PageHeard
  <2>4. t \in DOMAIN drawn' => t \in DOMAIN drawn \/ 1 =< latest'[t]
    <3>1. SUFFICES ASSUME t \in DOMAIN drawn', t \notin DOMAIN drawn PROVE 1 =< latest'[t]
      OBVIOUS
    <3>2. t \in DOMAIN m.tasks /\ (m.first \/ t \in Decides(m))
      BY <2>1, <2>2, <3>1, MergedShows DEF PageComes, Decides, ClientTyped
    <3>3. latest'[t] >= m.at[t] /\ latest'[t] \in Nat
      BY <2>1, <3>2, PageHeard
    <3>4. 1 =< m.at[t]
      BY <2>1, <3>2, PageTasks
    <3> QED
      BY <2>2, <3>3, <3>4
  <2> QED
    BY <1>0, <2>2, <2>3, <2>4, CardHeard
<1>6. CASE ReceiveTask \/ ReceiveAccepted
  <2>1. PICK m \in answers :
          /\ Delivered(m, m.kind) /\ m.kind \in {"task", "accepted"} /\ Heard(m.task, m.at)
          /\ drawn' = Put(m.task, m.row) \/ drawn' = drawn
    BY <1>6 DEF ReceiveTask, ReceiveAccepted, Delivered
  <2>2. m \in Replies /\ m.task \in TaskIds /\ m.at \in Nat /\ CardsSame
    BY <2>1, DeliveryIs, ReplyFields DEF ServerSame, CardsSame
  <2>3. 1 =< m.at /\ m.at =< stamp[m.task]
    BY <2>1 DEF Truths, ReplyTrue, RowTrue
  <2>4. latest \in Counts
    BY DEF ClientTyped
  <2>5. latest'[t] =< stamp[t]
    BY <1>1, <2>1, <2>2, <2>3, <2>4, HeardIs
  <2>6. t \in DOMAIN drawn' => t \in DOMAIN drawn \/ t = m.task
    BY <2>1 DEF Put
  <2>7. t = m.task => 1 =< latest'[t]
    <3>1. t = m.task => latest'[t] >= m.at /\ latest'[t] \in Nat
      BY <2>1, <2>2, <2>4, HeardIs DEF Counts
    <3> QED
      BY <2>2, <2>3, <3>1
  <2> QED
    BY <1>0, <2>2, <2>5, <2>6, <2>7, CardHeard
<1>7. CASE ReceiveMoved \/ ReceiveDeleted
  <2>1. PICK k \in {"moved", "deleted"} :
          Received(k) /\ Heard(Next1.task, Next1.at) /\ DOMAIN drawn' \subseteq DOMAIN drawn
    BY <1>7 DEF ReceiveMoved, ReceiveDeleted
  <2>2. /\ Next1.task \in TaskIds /\ Next1.at \in Nat /\ Next1 = wire[1] /\ Next1.kind = k
        /\ 1 \in 1..Len(wire) /\ CardsSame
    BY <2>1, EventIs, EventFields DEF ServerSame, CardsSame
  <2>3. Next1.at =< stamp[Next1.task]
    BY <2>2 DEF Truths, EventTrue
  <2>4. latest \in Counts
    BY DEF ClientTyped
  <2>5. latest'[t] =< stamp[t]
    BY <1>1, <2>1, <2>2, <2>3, <2>4, HeardIs
  <2> QED
    BY <1>0, <2>1, <2>2, <2>5, CardHeard
<1>8. CASE ReceiveRefused
  <2>1. PICK m \in answers :
          /\ Delivered(m, "refused") /\ (drawn' = m.move.previous \/ drawn' = drawn)
          /\ latest' = latest
    BY <1>8 DEF ReceiveRefused, StartDrain
  <2>2. m.kind = "refused" /\ CardsSame
    BY <2>1, DeliveryIs DEF ServerSame, CardsSame
  <2>3. t \in DOMAIN drawn' => t \in DOMAIN drawn \/ 1 =< latest'[t]
    BY <1>1, <2>1, <2>2 DEF Truths, ReplyTrue
  <2> QED
    BY <1>0, <1>1, <2>1, <2>2, <2>3, CardHeard
<1> QED
  BY <1>2, <1>4, <1>5, <1>6, <1>7, <1>8 DEF ClientNext, ClientReceives

\* The socket's events stay in their order, and what is sent comes behind them.
Grown ==
    /\ Len(wire) \in Nat /\ Len(wire') \in Nat /\ Len(wire) =< Len(wire')
    /\ \A i \in 1..Len(wire) : i \in 1..Len(wire') /\ wire'[i] = wire[i]

LEMMA EmittedGrows ==
    ASSUME ClientTyped, NEW e \in Events, wire' = Emitted(e) \/ wire' = Append(wire, e)
    PROVE  /\ Grown /\ Len(wire') =< Len(wire) + 1
           /\ \A i \in 1..Len(wire') : i \in 1..Len(wire) \/ (i = Len(wire) + 1 /\ wire'[i] = e)
           /\ room => Len(wire') = Len(wire) + 1 /\ wire'[Len(wire) + 1] = e /\ Len(wire) + 1 \in 1..Len(wire')
<1>1. wire \in Seq(Events)
  BY DEF ClientTyped
<1>2. ASSUME NEW w \in Seq(Events), NEW v, v = Append(w, e) \/ (v = w /\ ~room)
      PROVE  /\ Len(w) \in Nat /\ Len(v) \in Nat /\ Len(w) =< Len(v) /\ Len(v) =< Len(w) + 1
             /\ \A i \in 1..Len(w) : i \in 1..Len(v) /\ v[i] = w[i]
             /\ \A i \in 1..Len(v) : i \in 1..Len(w) \/ (i = Len(w) + 1 /\ v[i] = e)
             /\ room => Len(v) = Len(w) + 1 /\ v[Len(w) + 1] = e /\ Len(w) + 1 \in 1..Len(v)
  BY <1>2
<1>3. wire' = Append(wire, e) \/ (wire' = wire /\ ~room)
  BY DEF Emitted
<1> QED
  BY <1>1, <1>2, <1>3 DEF Grown

LEMMA SameWireGrows ==
    ASSUME ClientTyped, wire' = wire
    PROVE  Grown
<1>1. Len(wire) \in Nat
  BY DEF ClientTyped
<1> QED
  BY <1>1 DEF Grown

LEMMA EventStays ==
    ASSUME ClientTyped, Forward, wire # <<>> => room, Grown, NEW i \in 1..Len(wire), EventTrue(i)
    PROVE  EventTrue(i)'
<1> DEFINE t == wire[i].task
<1>1. wire \in Seq(Events) /\ Len(wire) \in Nat /\ wire[i] \in Events /\ wire'[i] = wire[i] /\ i \in 1..Len(wire')
      /\ wire # <<>>
  BY DEF ClientTyped, Grown
<1>2. \A j \in i..Len(wire) : j \in i..Len(wire') /\ wire'[j] = wire[j]
  BY <1>1 DEF Grown
<1>3. CASE wire[i].kind \notin {"moved", "deleted"}
  BY <1>1, <1>3 DEF EventTrue
<1>4. CASE wire[i].kind \in {"moved", "deleted"}
  <2>1. PICK s \in TaskIds : s = t
    BY <1>1, <1>4, EventFields
  <2>2. PICK n \in Nat : n = wire[i].at
    BY <1>1, <1>4, EventFields
  <2>3. 1 =< n /\ n =< stamp[s] /\ stamp[s] \in Nat /\ stamp'[s] \in Nat /\ stamp[s] =< stamp'[s]
        /\ placed[s] \in Nat
    BY <1>4, <2>1, <2>2, CountsGrow DEF EventTrue
  <2>4. CardStep(s) /\ wire'[i].task = s /\ wire'[i].at = n /\ wire'[i].kind = wire[i].kind
    BY <1>1, <2>1, <2>2 DEF Forward
  <2>5. CASE SameCard(s)
    <3>1. wire'[i].kind = "moved" /\ s \in DOMAIN rows' =>
          /\ n = placed'[s] => wire'[i].lane = rows'[s].lane
          /\ \E j \in i..Len(wire') : wire'[j].kind = "moved" /\ wire'[j].task = s /\ wire'[j].at = placed'[s]
      BY <1>1, <1>2, <2>1, <2>2, <2>4, <2>5 DEF EventTrue, SameCard
    <3>2. wire'[i].kind = "deleted" => s \notin DOMAIN rows' /\ n = stamp'[s]
      BY <1>1, <2>1, <2>2, <2>4, <2>5 DEF EventTrue, SameCard
    <3> QED
      BY <2>3, <2>4, <3>1, <3>2 DEF EventTrue
  <2>6. ASSUME NEW e \in Events, Changed(s, e) PROVE EventTrue(i)'
    <3>1. /\ Len(wire) + 1 \in 1..Len(wire') /\ wire'[Len(wire) + 1] = e
      <4>1. wire' = Emitted(e) /\ room
        BY <1>1, <2>6 DEF Changed
      <4> QED
        BY <4>1, EmittedGrows
    <3>2. Len(wire) + 1 \in i..Len(wire')
      BY <1>1, <3>1
    <3>3. stamp'[s] = stamp[s] + 1 /\ e.kind # "created" /\ e.task = s /\ e.at = stamp'[s]
      BY <2>3, <2>6 DEF Changed
    <3>4. ASSUME wire[i].kind = "moved", s \in DOMAIN rows'
          PROVE  /\ n = placed'[s] => wire'[i].lane = rows'[s].lane
                 /\ \E j \in i..Len(wire') : wire'[j].kind = "moved" /\ wire'[j].task = s /\ wire'[j].at = placed'[s]
      <4>1. CASE e.kind = "updated"
        <5>1. placed'[s] = placed[s] /\ rows'[s].lane = rows[s].lane /\ s \in DOMAIN rows
          BY <2>6, <4>1 DEF Changed
        <5> QED
          BY <1>1, <1>2, <2>1, <2>2, <3>4, <5>1 DEF EventTrue
      <4>2. CASE e.kind = "moved"
        <5>1. placed'[s] = stamp'[s]
          BY <2>6, <4>2 DEF Changed
        <5> QED
          BY <2>3, <3>1, <3>2, <3>3, <4>2, <5>1
      <4> QED
        BY <2>6, <3>3, <3>4, <4>1, <4>2 DEF Changed
    <3>5. wire[i].kind # "deleted"
      BY <2>1, <2>6, <3>3 DEF Changed, EventTrue
    <3> QED
      BY <2>3, <2>4, <3>4, <3>5 DEF EventTrue
  <2> QED
    BY <2>4, <2>5, <2>6 DEF CardStep
<1> QED
  BY <1>3, <1>4

\* An event is true when it is sent.
LEMMA EventSent ==
    ASSUME ClientTyped, Forward, NEW t \in TaskIds, NEW e \in Events, Changed(t, e),
           NEW i \in 1..Len(wire'), wire'[i] = e
    PROVE  EventTrue(i)'
<1>1. e.task = t /\ e.at = stamp'[t] /\ stamp'[t] \in Nat /\ 1 =< stamp'[t] /\ Len(wire') \in Nat
  <2>1. Len(wire') \in Nat
    BY DEF Forward, ClientTyped
  <2> QED
    BY <2>1, CountsGrow DEF Changed
<1>2. i \in i..Len(wire')
  BY <1>1
<1>3. e.kind = "moved" => placed'[t] = stamp'[t] /\ rows'[t].lane = e.lane
  BY DEF Changed
<1>4. e.kind = "deleted" => t \notin DOMAIN rows'
  BY DEF Changed
<1> QED
  BY <1>1, <1>2, <1>3, <1>4 DEF EventTrue

LEMMA EventTail ==
    ASSUME ClientTyped, Truths, NEW k, Received(k), NEW i \in 1..Len(wire')
    PROVE  EventTrue(i)'
<1>1. /\ wire'[i] = wire[i + 1] /\ i + 1 \in 1..Len(wire)
      /\ Len(wire) \in Nat \ {0} /\ Len(wire') = Len(wire) - 1
      /\ \A j \in 2..Len(wire) : wire'[j - 1] = wire[j]
      /\ CardsSame
  BY EventIs DEF ServerSame, CardsSame
<1>2. EventTrue(i + 1)
  BY <1>1 DEF Truths
<1>3. \A j \in i + 1..Len(wire) : j - 1 \in i..Len(wire') /\ wire'[j - 1] = wire[j]
  BY <1>1
<1> QED
  BY <1>1, <1>2, <1>3 DEF EventTrue, CardsSame

LEMMA ServerWire ==
    ASSUME ClientTyped,
           RemoteTask \/ RemoteColumn \/ AnswerRead \/ AnswerMove \/ AnswerColumns \/ AcceptJoin
    PROVE  \/ wire' = wire
           \/ \E t \in TaskIds, e \in Events : Changed(t, e)
           \/ \E e \in Events : /\ e.kind \in {"columns", "ack"}
                                /\ wire' = Emitted(e) \/ wire' = Append(wire, e)
<1>1. CASE AnswerMove
  <2>1. PICK r \in asked : /\ r.kind = "move"
                           /\ wire' = wire \/ \E e \in Events : Changed(r.task, e)
    BY <1>1, AnswerMoveIs
  <2>2. r.task \in TaskIds
    BY <2>1, RequestFields DEF ClientTyped
  <2> QED
    BY <2>1, <2>2
<1>2. CASE RemoteTask \/ RemoteColumn \/ AnswerRead \/ AnswerColumns \/ AcceptJoin
  BY <1>2, RemoteTaskIs, RemoteColumnIs, AnswerReadIs, AnswerColumnsIs, AcceptJoinIs
<1> QED
  BY <1>1, <1>2

LEMMA ServerGrows ==
    ASSUME ClientTyped,
           RemoteTask \/ RemoteColumn \/ AnswerRead \/ AnswerMove \/ AnswerColumns \/ AcceptJoin
    PROVE  Grown
BY ServerWire, EmittedGrows, SameWireGrows DEF Changed

LEMMA BrowserWire ==
    ASSUME \/ Connect \/ FireUpsert \/ FireResync \/ StartDrag \/ Drop \/ AskColumns
           \/ ReceivePage \/ ReceiveMeta \/ ReceiveColumnList \/ ReceiveTask
           \/ ReceiveAccepted \/ ReceiveRefused \/ ReceiveConflict
    PROVE  wire' = wire
BY DEF Connect, FireUpsert, FireResync, StartDrag, Drop, AskColumns, ReceivePage, ReceiveMeta,
       ReceiveColumnList, ReceiveTask, ReceiveAccepted, ReceiveRefused, ReceiveConflict, Delivered

LEMMA EventsStayTrue ==
    ASSUME ClientTyped, Truths, wire # <<>> => room, ClientNext
    PROVE  \A i \in 1..Len(wire') : EventTrue(i)'
<1>0. Forward /\ \A i \in 1..Len(wire) : EventTrue(i)
  BY StepsGoForward DEF Truths
<1>1. CASE wire' = wire
  BY <1>0, <1>1, SameWireGrows, EventStays
<1>2. CASE RemoteTask \/ RemoteColumn \/ AnswerRead \/ AnswerMove \/ AnswerColumns \/ AcceptJoin
  <2>1. ASSUME NEW t \in TaskIds, NEW e \in Events, Changed(t, e)
        PROVE  \A i \in 1..Len(wire') : EventTrue(i)'
    <3>1. \A i \in 1..Len(wire') : i \in 1..Len(wire) \/ wire'[i] = e
      BY <2>1, EmittedGrows DEF Changed
    <3> QED
      BY <1>0, <1>2, <2>1, <3>1, ServerGrows, EventStays, EventSent
  <2>2. ASSUME NEW e \in Events, e.kind \in {"columns", "ack"},
               wire' = Emitted(e) \/ wire' = Append(wire, e)
        PROVE  \A i \in 1..Len(wire') : EventTrue(i)'
    <3>1. \A i \in 1..Len(wire') : i \in 1..Len(wire) \/ wire'[i] = e
      BY <2>2, EmittedGrows
    <3>2. \A i \in 1..Len(wire') : wire'[i] = e => EventTrue(i)'
      BY <2>2 DEF EventTrue
    <3> QED
      BY <1>0, <1>2, <3>1, <3>2, ServerGrows, EventStays
  <2> QED
    BY <1>1, <1>2, <2>1, <2>2, ServerWire
<1>3. CASE Disconnect
  <2>1. wire' = <<>>
    BY <1>3 DEF Disconnect
  <2>2. 1..Len(wire') = {}
    BY <2>1
  <2> QED
    BY <2>2
<1>4. CASE ReceiveAck \/ ReceiveChange \/ ReceiveMoved \/ ReceiveDeleted \/ ReceiveColumns
  <2>1. PICK k : Received(k)
    BY <1>4 DEF ReceiveAck, ReceiveChange, ReceiveMoved, ReceiveDeleted, ReceiveColumns
  <2> QED
    BY <2>1, EventTail
<1>5. CASE \/ Connect \/ FireUpsert \/ FireResync \/ StartDrag \/ Drop \/ AskColumns
           \/ ReceivePage \/ ReceiveMeta \/ ReceiveColumnList \/ ReceiveTask
           \/ ReceiveAccepted \/ ReceiveRefused \/ ReceiveConflict
  BY <1>1, <1>5, BrowserWire
<1> QED
  BY <1>2, <1>3, <1>4, <1>5 DEF ClientNext, ClientReceives

LEMMA ColumnsStayTrue ==
    ASSUME ClientTyped, Truths, ClientNext
    PROVE  (drawnCols \subseteq latestCols /\ latestCols \subseteq columnSet)'
<1>0. Forward /\ drawnCols \subseteq latestCols /\ latestCols \subseteq columnSet
  BY StepsGoForward DEF Truths
<1>1. CASE drawnCols' = drawnCols /\ latestCols' = latestCols
  BY <1>0, <1>1 DEF Forward
<1>2. CASE ReceiveMeta \/ ReceiveColumnList
  <2>1. PICK m \in answers : /\ m.kind \in {"meta", "columnList"} /\ drawnCols' = m.columns
                             /\ latestCols' = latestCols \cup m.columns
    BY <1>2 DEF ReceiveMeta, ReceiveColumnList, ColumnsShown, Delivered
  <2>2. m.columns \subseteq columnSet
    BY <2>1 DEF Truths, ReplyTrue
  <2> QED
    BY <1>0, <2>1, <2>2 DEF Forward
<1>3. CASE ~(ReceiveMeta \/ ReceiveColumnList)
  <2>1. drawnCols' = drawnCols /\ latestCols' = latestCols
    BY <1>3, AcceptJoinIs, ServerAloneIs DEF ClientNext, RemoteTask, RemoteColumn, AnswerRead, AnswerMove, AnswerColumns,
       Connect, Disconnect, FireUpsert, FireResync, StartDrag, Drop, AskColumns, ClientReceives,
       ReceivePage, ReceiveTask, ReceiveAck, ReceiveChange, ReceiveMoved, ReceiveDeleted,
       ReceiveColumns, ReceiveAccepted, ReceiveRefused, ReceiveConflict, StartDrain, screen, lapses
  <2> QED
    BY <1>1, <2>1
<1> QED
  BY <1>2, <1>3

LEMMA TruthsStay ==
    ASSUME ClientTyped, Truths, wire # <<>> => room, ClientNext
    PROVE  Truths'
BY AnswersStayTrue, RequestsStayTrue, CardsStayTrue, EventsStayTrue, ColumnsStayTrue DEF Truths

-----------------------------------------------------------------------------
(* The board in a browser: joins, and drains *)

\* The socket is enabled once the board is painted, and has events only in the room.
JoinsInOrder ==
    /\ room => link # "down"
    /\ link = "joined" => room
    /\ wire # <<>> => room
    /\ link # "down" \/ resync.queued => ~loading

\* What a drain waits for is under way.
Due(kind, by) ==
    \/ \E r \in asked : r.kind = kind /\ r.by = by
    \/ \E m \in answers : m.kind = kind /\ m.by = by

DrainsEnd ==
    /\ resync.running <=> drains["resync"] # {}
    /\ resync.queued => resync.running /\ ~resync.fresh
    /\ \A by \in Drains : /\ "meta" \in drains[by] => Due("meta", by)
                          /\ "pages" \in drains[by] => Due("page", by)

\* A join acknowledged asks for a resync.
LEMMA AckAsks ==
    ASSUME ClientTyped, ReceiveAck
    PROVE  /\ resync' \in Resyncs /\ resync'.running = resync.running
           /\ resync'.queued => resync.queued \/ (resync.running /\ ~resync'.fresh)
           /\ ~resync.fresh => ~resync'.fresh
           /\ resync.timer => resync'.timer
           /\ resync.queued => resync'.queued
           /\ skipped \/ skipped' \/ resync'.queued \/ resync'.timer
           /\ skipped => skipped'
<1>1. PICK r \in Aged(resync) : resync' = Requested(r) /\ skipped' = (skipped \/ r.fresh)
  BY DEF ReceiveAck
<1>2. r \in Resyncs /\ r.timer = resync.timer /\ r.running = resync.running /\ r.queued = resync.queued
      /\ (~resync.fresh => ~r.fresh) /\ r.fresh \in BOOLEAN /\ r.running \in BOOLEAN
  BY <1>1, AgedIs, ResyncFields DEF ClientTyped
<1>3. PICK q : q = Requested(r)
  OBVIOUS
<1>4. /\ q \in Resyncs /\ q.running = r.running /\ q.fresh = r.fresh
      /\ (r.timer => q.timer) /\ (r.queued => q.queued)
      /\ ~r.fresh => IF r.running THEN q.queued ELSE q.timer
      /\ q.queued => r.queued \/ (r.running /\ ~r.fresh)
  BY <1>2, <1>3, RequestedIs
<1> QED
  BY <1>1, <1>2, <1>3, <1>4

\* The resync after a page, or the frame, has come.
LEMMA PageSettles ==
    ASSUME ClientTyped, NEW m \in answers, PageComes(m)
    PROVE  /\ m.by \in Drains /\ (resync'.queued => resync.queued)
           /\ resync.timer => resync'.timer
<1>1. m.by \in Drains
  BY DeliveryIs, ReplyFields DEF PageComes
<1>2. CASE Settle(m.by, "pages")
  BY <1>1, <1>2, SettleIs
<1>3. CASE resync' = Painted(resync)
  BY <1>1, <1>3, PaintedIs DEF ClientTyped
<1> QED
  BY <1>1, <1>2, <1>3 DEF PageComes

LEMMA MetaSettles ==
    ASSUME ClientTyped, NEW m \in answers, Delivered(m, "meta"), Settle(m.by, "meta")
    PROVE  /\ m.by \in Drains /\ (resync'.queued => resync.queued)
           /\ resync.timer => resync'.timer
<1>1. m.by \in Drains
  BY DeliveryIs, ReplyFields
<1> QED
  BY <1>1, SettleIs

LEMMA JoinsStepInOrder ==
    ASSUME ClientTyped, JoinsInOrder, ClientNext
    PROVE  JoinsInOrder'
<1> USE DEF JoinsInOrder
<1>1. CASE RemoteTask \/ RemoteColumn \/ AnswerRead \/ AnswerMove \/ AnswerColumns
  <2>1. room' = room /\ link' = link /\ loading' = loading /\ resync' = resync
    BY <1>1, ServerAloneIs DEF RemoteTask, RemoteColumn, AnswerRead, AnswerMove, AnswerColumns
  <2>2. wire' = wire \/ room
    BY <1>1 DEF RemoteTask, RemoteColumn, AnswerRead, AnswerMove, AnswerColumns, Emitted
  <2> QED
    BY <2>1, <2>2
<1>2. CASE AcceptJoin
  BY <1>2, AcceptJoinIs
<1>3. CASE Connect
  BY <1>3 DEF Connect, serverSide, screen
<1>4. CASE Disconnect
  BY <1>4 DEF Disconnect, screen
<1>5. CASE FireUpsert \/ StartDrag \/ Drop \/ AskColumns
  BY <1>5 DEF FireUpsert, StartDrag, Drop, AskColumns, serverSide, screen
<1>6. CASE FireResync
  BY <1>6 DEF FireResync, serverSide, screen
<1>7. CASE ReceivePage
  <2>1. PICK m \in answers : PageComes(m)
    BY <1>7, PageArrives
  <2>2. (resync'.queued => resync.queued) /\ (loading' => loading) /\ link' = link
        /\ room' = room /\ wire' = wire
    BY <2>1, PageSettles DEF PageComes, Delivered, serverSide
  <2> QED
    BY <2>2
<1>8. CASE ReceiveMeta
  <2>1. PICK m \in answers : Delivered(m, "meta") /\ Settle(m.by, "meta")
    BY <1>8 DEF ReceiveMeta
  <2>2. resync'.queued => resync.queued
    BY <2>1, MetaSettles
  <2>3. (loading' => loading) /\ link' = link /\ room' = room /\ wire' = wire
    BY <1>8 DEF ReceiveMeta, Delivered, serverSide
  <2> QED
    BY <2>2, <2>3
<1>9. CASE ReceiveAck
  <2>1. wire # <<>> /\ room' = room /\ link' = "joined" /\ loading' = loading
    BY <1>9, EventIs DEF ReceiveAck, ServerSame, screen
  <2> QED
    BY <2>1
<1>10. CASE ReceiveChange \/ ReceiveMoved \/ ReceiveDeleted \/ ReceiveColumns
  <2>1. wire # <<>> /\ room' = room
    BY <1>10 DEF ReceiveChange, ReceiveMoved, ReceiveDeleted, ReceiveColumns, Received, serverSide
  <2>2. link' = link /\ loading' = loading /\ resync' = resync
    BY <1>10 DEF ReceiveChange, ReceiveMoved, ReceiveDeleted, ReceiveColumns, screen
  <2> QED
    BY <2>1, <2>2
<1>11. CASE ReceiveColumnList \/ ReceiveTask \/ ReceiveAccepted \/ ReceiveRefused \/ ReceiveConflict
  <2>1. room' = room /\ wire' = wire
    BY <1>11 DEF ReceiveColumnList, ReceiveTask, ReceiveAccepted, ReceiveRefused, ReceiveConflict,
                 Delivered, serverSide
  <2>2. link' = link /\ loading' = loading /\ resync' = resync
    BY <1>11 DEF ReceiveColumnList, ReceiveTask, ReceiveAccepted, ReceiveRefused, ReceiveConflict, screen
  <2> QED
    BY <2>1, <2>2
<1> QED
  BY <1>1, <1>2, <1>3, <1>4, <1>5, <1>6, <1>7, <1>8, <1>9, <1>10, <1>11 DEF ClientNext, ClientReceives

\* What was on its way still is, unless something in its place is.
LEMMA DueLasts ==
    ASSUME NEW kind, NEW by, Due(kind, by),
           \A r \in asked : r.kind = kind /\ r.by = by => r \in asked' \/ Due(kind, by)',
           \A m \in answers : m.kind = kind /\ m.by = by => m \in answers' \/ Due(kind, by)'
    PROVE  Due(kind, by)'
BY DEF Due

DuesStay == \A k \in {"meta", "page"}, by \in Drains : Due(k, by) => Due(k, by)'

LEMMA KeptDuesStay ==
    ASSUME \A r \in asked : r.kind \in {"meta", "page"} => r \in asked',
           \A m \in answers : m.kind \in {"meta", "page"} => m \in answers'
    PROVE  DuesStay
BY DueLasts DEF DuesStay

\* The answer to a read of a drain is on its way in its place.
LEMMA AnswersAreDue ==
    ASSUME ClientTyped, AnswerRead
    PROVE  DuesStay
<1>1. PICK r \in asked :
        /\ asked' = asked \ {r} /\ answers \subseteq answers'
        /\ r.kind \in {"meta", "page"} =>
              \E m \in answers' : m.kind = r.kind /\ m.by = r.by
  BY AnswerReadIs DEF PageRead
<1>2. r.kind \in {"meta", "page"} => Due(r.kind, r.by)'
  BY <1>1 DEF Due
<1> SUFFICES ASSUME NEW k \in {"meta", "page"}, NEW by \in Drains, Due(k, by) PROVE Due(k, by)'
  BY DEF DuesStay
<1> QED
  BY <1>1, <1>2, DueLasts

LEMMA OthersKeepDues ==
    ASSUME ClientTyped,
           \/ RemoteTask \/ RemoteColumn \/ AnswerMove \/ AnswerColumns \/ AcceptJoin
           \/ Connect \/ Disconnect \/ FireUpsert \/ FireResync \/ StartDrag \/ Drop \/ AskColumns
           \/ ReceiveColumnList \/ ReceiveTask \/ ReceiveAck \/ ReceiveChange \/ ReceiveMoved
           \/ ReceiveDeleted \/ ReceiveColumns \/ ReceiveAccepted \/ ReceiveRefused \/ ReceiveConflict
    PROVE  DuesStay
<1>1. CASE RemoteTask \/ RemoteColumn \/ AcceptJoin
  BY <1>1, RemoteTaskIs, RemoteColumnIs, AcceptJoinIs, KeptDuesStay
<1>2. CASE AnswerMove \/ AnswerColumns
  <2>1. PICK r \in asked : r.kind \notin {"meta", "page"} /\ asked' = asked \ {r} /\ answers \subseteq answers'
    BY <1>2, AnswerMoveIs, AnswerColumnsIs
  <2> QED
    BY <2>1, KeptDuesStay
<1>3. CASE \/ Connect \/ Disconnect \/ FireUpsert \/ FireResync \/ StartDrag \/ Drop \/ AskColumns
           \/ ReceiveAck \/ ReceiveChange \/ ReceiveMoved \/ ReceiveDeleted \/ ReceiveColumns
  <2>1. answers' = answers
    BY <1>3 DEF Connect, Disconnect, FireUpsert, FireResync, StartDrag, Drop, AskColumns, ReceiveAck,
                ReceiveChange, ReceiveMoved, ReceiveDeleted, ReceiveColumns, Received
  <2>2. asked \subseteq asked'
    BY <1>3 DEF Connect, Disconnect, FireUpsert, FireResync, StartDrag, Drop, AskColumns, ReceiveAck,
                ReceiveChange, ReceiveMoved, ReceiveDeleted, ReceiveColumns, StartDrain
  <2> QED
    BY <2>1, <2>2, KeptDuesStay
<1>4. CASE ReceiveColumnList \/ ReceiveTask \/ ReceiveAccepted \/ ReceiveRefused \/ ReceiveConflict
  <2>1. PICK m \in answers : m.kind \notin {"meta", "page"} /\ answers' = answers \ {m}
    BY <1>4 DEF ReceiveColumnList, ReceiveTask, ReceiveAccepted, ReceiveRefused, ReceiveConflict, Delivered
  <2>2. asked \subseteq asked'
    BY <1>4 DEF ReceiveColumnList, ReceiveTask, ReceiveAccepted, ReceiveRefused, ReceiveConflict, StartDrain
  <2> QED
    BY <2>1, <2>2, KeptDuesStay
<1> QED
  BY <1>1, <1>2, <1>3, <1>4

Awaited == \A by \in Drains : /\ "meta" \in drains[by] => Due("meta", by)
                              /\ "pages" \in drains[by] => Due("page", by)

LEMMA StartedIsAwaited ==
    ASSUME ClientTyped, Awaited, DuesStay, NEW d \in Drains, StartDrain(d)
    PROVE  Awaited'
<1>1. /\ \E r \in asked' : r.kind = "page" /\ r.after = 0 /\ r.by = d
      /\ \E r \in asked' : r.kind = "meta" /\ r.by = d
      /\ drains' = [drains EXCEPT ![d] = {"meta", "pages"}]
  BY StartDrainIs
<1>2. Due("meta", d)' /\ Due("page", d)'
  BY <1>1 DEF Due
<1>3. \A by \in Drains \ {d} : drains'[by] = drains[by]
  BY <1>1 DEF ClientTyped
<1> QED
  BY <1>2, <1>3 DEF Awaited, DuesStay

LEMMA SettledIsAwaited ==
    ASSUME ClientTyped, JoinsInOrder, DrainsEnd, NEW m \in answers, answers' = answers \ {m},
           asked' = asked, NEW by \in Drains, m.by = by,
           NEW p \in {"meta", "pages"}, m.kind = IF p = "pages" THEN "page" ELSE "meta",
           Settle(by, p)
    PROVE  DrainsEnd'
<1>1. /\ drains'[by] = drains[by] \ {p} /\ \A d \in Drains \ {by} : drains'[d] = drains[d]
      /\ resync' \in Resyncs
      /\ IF by = "resync" /\ drains[by] = {p}
         THEN ~resync'.running /\ ~resync'.queued
         ELSE /\ resync'.running = resync.running /\ resync'.queued = resync.queued
              /\ ~loading => resync'.fresh = resync.fresh
  BY SettleIs
<1>2. ASSUME NEW l \in {"meta", "page"}, NEW b \in Drains, Due(l, b), l # m.kind \/ b # by
      PROVE  Due(l, b)'
  BY <1>2, DueLasts
<1>3. \A b \in Drains : /\ "meta" \in drains'[b] => Due("meta", b)'
                        /\ "pages" \in drains'[b] => Due("page", b)'
  <2> SUFFICES ASSUME NEW b \in Drains, NEW q \in {"meta", "pages"}, q \in drains'[b]
               PROVE  Due(IF q = "pages" THEN "page" ELSE "meta", b)'
    OBVIOUS
  <2>1. q \in drains[b] /\ ~(b = by /\ q = p)
    BY <1>1
  <2>2. PICK l \in {"meta", "page"} : l = IF q = "pages" THEN "page" ELSE "meta"
    OBVIOUS
  <2>3. Due(l, b) /\ (l # m.kind \/ b # by)
    BY <2>1, <2>2 DEF DrainsEnd
  <2> QED
    BY <1>2, <2>2, <2>3
<1>4. "resync" \in Drains
  BY DEF Drains
<1>5. CASE by = "resync" /\ drains[by] = {p}
  <2>1. drains'["resync"] = {} /\ ~resync'.running /\ ~resync'.queued
    BY <1>1, <1>5
  <2> QED
    BY <1>3, <2>1 DEF DrainsEnd
<1>6. CASE ~(by = "resync" /\ drains[by] = {p})
  <2>1. resync'.running = resync.running /\ resync'.queued = resync.queued
        /\ (~loading => resync'.fresh = resync.fresh)
    BY <1>1, <1>6
  <2>2. drains'["resync"] # {} <=> drains["resync"] # {}
    <3>1. CASE by = "resync"
      <4>1. drains'["resync"] = drains["resync"] \ {p} /\ drains["resync"] # {p}
        BY <1>1, <1>6, <3>1
      <4> QED
        BY <4>1
    <3>2. CASE by # "resync"
      BY <1>1, <1>4, <3>2
    <3> QED
      BY <3>1, <3>2
  <2>3. resync'.queued => resync'.running /\ ~resync'.fresh
    BY <2>1 DEF JoinsInOrder, DrainsEnd
  <2>4. resync'.running <=> drains'["resync"] # {}
    BY <2>1, <2>2 DEF DrainsEnd
  <2> QED
    BY <1>3, <2>3, <2>4 DEF DrainsEnd
<1> QED
  BY <1>5, <1>6

LEMMA DrainsStepEnd ==
    ASSUME ClientTyped, JoinsInOrder, DrainsEnd, ClientNext
    PROVE  DrainsEnd'
<1>0. Awaited /\ "resync" \in Drains /\ "undo" \in Drains
  BY DEF DrainsEnd, Awaited, Drains
<1>1. ASSUME resync' = resync, drains' = drains, DuesStay PROVE DrainsEnd'
  BY <1>1 DEF DrainsEnd, DuesStay
<1>2. CASE RemoteTask \/ RemoteColumn \/ AnswerRead \/ AnswerMove \/ AnswerColumns \/ AcceptJoin
  <2>1. resync' = resync /\ drains' = drains
    BY <1>2, AcceptJoinIs, ServerAloneIs DEF RemoteTask, RemoteColumn, AnswerRead, AnswerMove, AnswerColumns
  <2> QED
    BY <1>1, <1>2, <2>1, AnswersAreDue, OthersKeepDues
<1>3. CASE \/ Connect \/ Disconnect \/ FireUpsert \/ StartDrag \/ Drop \/ AskColumns
           \/ ReceiveColumnList \/ ReceiveTask \/ ReceiveChange \/ ReceiveMoved
           \/ ReceiveDeleted \/ ReceiveColumns \/ ReceiveAccepted
  <2>1. resync' = resync /\ drains' = drains
    BY <1>3 DEF Connect, Disconnect, FireUpsert, StartDrag, Drop, AskColumns, ReceiveColumnList,
                ReceiveTask, ReceiveChange, ReceiveMoved, ReceiveDeleted, ReceiveColumns, ReceiveAccepted
  <2> QED
    BY <1>1, <1>3, <2>1, OthersKeepDues
<1>4. CASE FireResync
  <2>1. /\ StartDrain("resync")
        /\ resync' = [timer |-> FALSE, running |-> TRUE, queued |-> FALSE, fresh |-> TRUE]
    BY <1>4 DEF FireResync
  <2>2. Awaited'
    BY <1>0, <1>4, <2>1, OthersKeepDues, StartedIsAwaited
  <2>3. drains'["resync"] = {"meta", "pages"}
    BY <1>0, <2>1 DEF StartDrain, ClientTyped
  <2>4. resync'.running /\ ~resync'.queued
    BY <2>1
  <2> QED
    BY <2>2, <2>3, <2>4 DEF DrainsEnd, Awaited
<1>5. CASE ReceiveConflict \/ ReceiveRefused
  <2>1. resync' = resync /\ (drains' = drains \/ StartDrain("undo"))
    BY <1>5 DEF ReceiveConflict, ReceiveRefused
  <2>2. DuesStay
    BY <1>5, OthersKeepDues
  <2>3. CASE drains' = drains
    BY <1>1, <2>1, <2>2, <2>3
  <2>4. CASE StartDrain("undo")
    <3>1. Awaited'
      BY <1>0, <2>2, <2>4, StartedIsAwaited
    <3>2. drains'["resync"] = drains["resync"]
      BY <1>0, <2>4 DEF StartDrain, ClientTyped
    <3> QED
      BY <2>1, <3>1, <3>2 DEF DrainsEnd, Awaited
  <2> QED
    BY <2>1, <2>3, <2>4
<1>6. CASE ReceiveAck
  <2>1. /\ resync'.running = resync.running
        /\ resync'.queued => resync.queued \/ (resync.running /\ ~resync'.fresh)
        /\ ~resync.fresh => ~resync'.fresh
    BY <1>6, AckAsks
  <2>2. drains' = drains /\ DuesStay
    BY <1>6, OthersKeepDues DEF ReceiveAck
  <2> QED
    BY <2>1, <2>2 DEF DrainsEnd, DuesStay
<1>7. CASE ReceiveMeta
  <2>1. PICK m \in answers : Delivered(m, "meta") /\ Settle(m.by, "meta") /\ asked' = asked
    BY <1>7 DEF ReceiveMeta
  <2>2. m.by \in Drains /\ answers' = answers \ {m} /\ m.kind = "meta"
    BY <2>1, MetaSettles, DeliveryIs
  <2> QED
    BY <2>1, <2>2, SettledIsAwaited
<1>8. CASE ReceivePage
  <2>1. PICK m \in answers : PageComes(m)
    BY <1>8, PageArrives
  <2>2. m.by \in Drains /\ answers' = answers \ {m} /\ m.kind = "page"
    BY <2>1, PageSettles, DeliveryIs DEF PageComes
  <2>3. CASE Settle(m.by, "pages") /\ asked' = asked
    BY <2>2, <2>3, SettledIsAwaited
  <2>4. CASE /\ asked' = asked \cup {[kind |-> "page", by |-> m.by, after |-> m.next]}
             /\ resync' = Painted(resync) /\ drains' = drains
    <3>1. Due("page", m.by)'
      <4>1. PICK q : q = [kind |-> "page", by |-> m.by, after |-> m.next]
        OBVIOUS
      <4> QED
        BY <2>4, <4>1 DEF Due
    <3>2. DuesStay
      <4> SUFFICES ASSUME NEW k \in {"meta", "page"}, NEW by \in Drains, Due(k, by) PROVE Due(k, by)'
        BY DEF DuesStay
      <4> QED
        BY <2>2, <2>4, <3>1, DueLasts
    <3>3. resync'.running = resync.running /\ resync'.queued = resync.queued
          /\ (~loading => resync'.fresh = resync.fresh)
      BY <2>4, PaintedIs DEF ClientTyped
    <3> QED
      BY <2>4, <3>2, <3>3 DEF DrainsEnd, DuesStay, JoinsInOrder
  <2> QED
    BY <2>1, <2>3, <2>4 DEF PageComes
<1> QED
  BY <1>2, <1>3, <1>4, <1>5, <1>6, <1>7, <1>8 DEF ClientNext, ClientReceives

-----------------------------------------------------------------------------
(* The board in a browser: how what it does not show yet is coming *)

\* The ways in which a task as it was after change n can come: by a refetch, or a first page;
\* and how one that is to be added can, and the end of a move this browser shows already.
TaskWay(t, n) ==
    \/ t \in armed
    \/ \E r \in asked : r.kind = "task" /\ r.task = t
    \/ \E m \in answers : m.kind = "task" /\ m.task = t /\ m.at >= n
FirstWay(t, n) ==
    \/ \E r \in asked : r.kind = "page" /\ r.after = 0
    \/ \E m \in answers : m.kind = "page" /\ m.first /\ m.at[t] >= n
ChainWay(t) ==
    \/ \E r \in asked : r.kind = "page" /\ r.after < t
    \/ \E m \in answers : m.kind = "page" /\ Covers(m, t)
MoveWay(t) ==
    \/ \E r \in asked : r.kind = "move" /\ r.task = t
    \/ \E m \in answers : m.kind = "refused" /\ m.move.task = t

\* The events of a task that are still to come.
Told(k, t) == \E i \in 1..Len(wire) : wire[i].kind = k /\ wire[i].task = t
MovedTold(t) ==
    \E i \in 1..Len(wire) : wire[i].kind = "moved" /\ wire[i].task = t /\ wire[i].at = placed[t]

\* What the browser does with what it shows of a task.
SameShown(t) ==
    /\ t \in DOMAIN drawn' <=> t \in DOMAIN drawn
    /\ t \in DOMAIN drawn => drawn'[t] = drawn[t]

\* A row is shown, and when something newer was received this is noted.
Shown(t, n, data) ==
    /\ t \in DOMAIN drawn' /\ drawn'[t] = data
    /\ RowTrue(t, n, data)
    /\ latest'[t] >= n
    /\ n < latest[t] => overtaken'

DrawnStep(t) ==
    \/ SameShown(t)
    \/ \E n \in Nat, data \in CardRows : Shown(t, n, data)
    \/ \E m \in answers : /\ PageComes(m) /\ m.first
                          /\ t \notin DOMAIN m.tasks /\ t \notin DOMAIN drawn'
    \/ /\ Received("moved") /\ Next1.task = t /\ t \in DOMAIN drawn /\ t \in DOMAIN drawn'
       /\ drawn'[t].text = drawn[t].text /\ drawn'[t].lane = Next1.lane
    \/ Received("deleted") /\ Next1.task = t /\ t \notin DOMAIN drawn'
    \/ restored'
    \/ /\ t \in DOMAIN drawn /\ t \in DOMAIN drawn' /\ drawn'[t].text = drawn[t].text
       /\ MoveWay(t)'

LEMMA AskedLeaves ==
    ASSUME ClientTyped, ClientNext, NEW r \in asked, r \notin asked'
    PROVE  \/ r.kind = "task" /\ r.task \notin DOMAIN rows
           \/ r.kind = "page" /\ \E m \in answers' : PageRead(m, r)
           \/ /\ r.kind \in {"meta", "columns"} /\ columnSet' = columnSet
              /\ \E m \in answers' : m.kind \in {"meta", "columnList"} /\ m.columns = columnSet
           \/ r.kind = "task" /\ \E m \in answers' : m.kind = "task" /\ m.task = r.task /\ m.at = stamp[r.task]
           \/ r.kind = "move" /\ \E m \in answers' : m.kind = "refused" /\ m.move = r
           \/ r.kind = "move" /\ \E e \in Events : Changed(r.task, e)
           \/ r.kind \in {"columnMove", "seed"}
<1>1. CASE AnswerRead
  BY <1>1, AnswerReadIs
<1>2. CASE AnswerMove
  BY <1>2, AnswerMoveIs
<1>3. CASE AnswerColumns
  BY <1>3, AnswerColumnsIs
<1>4. CASE ~(AnswerRead \/ AnswerMove \/ AnswerColumns)
  <2>1. asked \subseteq asked'
    BY <1>4, AcceptJoinIs DEF ClientNext, RemoteTask, RemoteColumn, Connect, Disconnect, FireUpsert,
       FireResync, StartDrag, Drop, AskColumns, ClientReceives, ReceivePage, ReceiveMeta,
       ReceiveColumnList, ReceiveTask, ReceiveAck, ReceiveChange, ReceiveMoved, ReceiveDeleted,
       ReceiveColumns, ReceiveAccepted, ReceiveRefused, ReceiveConflict, StartDrain
  <2> QED
    BY <2>1
<1> QED
  BY <1>1, <1>2, <1>3, <1>4

LEMMA AnswerLeaves ==
    ASSUME ClientTyped, ClientNext, NEW m \in answers, m \notin answers'
    PROVE  /\ m.kind = "page" => PageComes(m)
           /\ m.kind = "task" => /\ drawn' = Put(m.task, m.row) /\ Heard(m.task, m.at)
                                 /\ overtaken' = (overtaken \/ Late(m.task, m.at))
           /\ m.kind \in {"meta", "columnList"} => ColumnsShown(m.columns) /\ columnSet' = columnSet
           /\ m.kind = "refused" => restored' \/ StartDrain("undo")
<1>1. ASSUME ~ClientReceives PROVE FALSE
  <2>1. answers \subseteq answers'
    BY <1>1, AcceptJoinIs, AnswerReadIs, AnswerMoveIs, AnswerColumnsIs DEF ClientNext, RemoteTask, RemoteColumn,
       Connect, Disconnect, FireUpsert, FireResync, StartDrag, Drop, AskColumns
  <2> QED
    BY <2>1
<1>2. CASE ReceiveAck \/ ReceiveChange \/ ReceiveMoved \/ ReceiveDeleted \/ ReceiveColumns
  <2>1. answers' = answers
    BY <1>2 DEF ReceiveAck, ReceiveChange, ReceiveMoved, ReceiveDeleted, ReceiveColumns, Received
  <2> QED
    BY <2>1
<1>3. CASE ReceivePage
  <2>1. PICK l \in answers : PageComes(l)
    BY <1>3, PageArrives
  <2>2. answers' = answers \ {l} /\ l.kind = "page"
    BY <2>1 DEF PageComes, Delivered
  <2> QED
    BY <2>1, <2>2
<1>4. CASE ReceiveMeta \/ ReceiveColumnList
  <2>1. PICK l \in answers : /\ l.kind \in {"meta", "columnList"} /\ answers' = answers \ {l}
                             /\ ColumnsShown(l.columns) /\ columnSet' = columnSet
    BY <1>4 DEF ReceiveMeta, ReceiveColumnList, Delivered, serverSide
  <2> QED
    BY <2>1
<1>5. CASE ReceiveTask
  <2>1. PICK l \in answers : /\ l.kind = "task" /\ answers' = answers \ {l}
                             /\ drawn' = Put(l.task, l.row) /\ Heard(l.task, l.at)
                             /\ overtaken' = (overtaken \/ Late(l.task, l.at))
    BY <1>5 DEF ReceiveTask, Delivered
  <2> QED
    BY <2>1
<1>6. CASE ReceiveAccepted \/ ReceiveConflict
  <2>1. PICK l \in answers : l.kind \in {"accepted", "conflict"} /\ answers' = answers \ {l}
    BY <1>6 DEF ReceiveAccepted, ReceiveConflict, Delivered
  <2> QED
    BY <2>1
<1>7. CASE ReceiveRefused
  <2>1. PICK l \in answers : /\ l.kind = "refused" /\ answers' = answers \ {l}
                             /\ restored' = TRUE \/ StartDrain("undo")
    BY <1>7 DEF ReceiveRefused, Delivered
  <2> QED
    BY <2>1
<1> QED
  BY <1>1, <1>2, <1>3, <1>4, <1>5, <1>6, <1>7 DEF ClientReceives

LEMMA ArmedLeaves ==
    ASSUME ClientTyped, ClientNext, NEW t \in armed, t \notin armed'
    PROVE  \E r \in asked' : r.kind = "task" /\ r.task = t
<1>1. CASE FireUpsert
  <2>1. PICK s \in armed : armed' = armed \ {s} /\ asked' = asked \cup {[kind |-> "task", task |-> s]}
    BY <1>1 DEF FireUpsert
  <2>2. PICK q : q = [kind |-> "task", task |-> s]
    OBVIOUS
  <2> QED
    BY <2>1, <2>2
<1>2. CASE ~FireUpsert
  <2>1. armed \subseteq armed'
    BY <1>2, AcceptJoinIs, ServerAloneIs DEF ClientNext, RemoteTask, RemoteColumn, AnswerRead,
       AnswerMove, AnswerColumns, Connect, Disconnect, FireResync,
       StartDrag, Drop, AskColumns, ClientReceives, ReceivePage, ReceiveMeta,
       ReceiveColumnList, ReceiveTask, ReceiveAck, ReceiveChange, ReceiveMoved, ReceiveDeleted,
       ReceiveColumns, ReceiveAccepted, ReceiveRefused, ReceiveConflict
  <2> QED
    BY <2>1
<1> QED
  BY <1>1, <1>2

\* The step in which the browser takes an event of a kind.
Taken(k) ==
    /\ Received(k)
    /\ k \in {"created", "updated"} => ReceiveChange
    /\ k = "moved" => ReceiveMoved
    /\ k = "deleted" => ReceiveDeleted
    /\ k = "columns" => ReceiveColumns

\* An event stays on the socket until it is received, or the connection is lost.
LEMMA EventLeaves ==
    ASSUME ClientTyped, ClientNext, NEW i \in 1..Len(wire), link' # "down"
    PROVE  \/ \E j \in 1..Len(wire') : wire'[j] = wire[i]
           \/ i = 1 /\ wire[1] = Next1 /\ Taken(Next1.kind)
<1>1. CASE Grown
  BY <1>1 DEF Grown
<1>2. CASE RemoteTask \/ RemoteColumn \/ AnswerRead \/ AnswerMove \/ AnswerColumns \/ AcceptJoin
  BY <1>1, <1>2, ServerGrows
<1>3. CASE \/ Connect \/ FireUpsert \/ FireResync \/ StartDrag \/ Drop \/ AskColumns
           \/ ReceivePage \/ ReceiveMeta \/ ReceiveColumnList \/ ReceiveTask
           \/ ReceiveAccepted \/ ReceiveRefused \/ ReceiveConflict
  BY <1>1, <1>3, BrowserWire, SameWireGrows
<1>4. CASE Disconnect
  BY <1>4 DEF Disconnect
<1>5. CASE ReceiveAck \/ ReceiveChange \/ ReceiveMoved \/ ReceiveDeleted \/ ReceiveColumns
  <2>1. PICK k : Received(k)
    BY <1>5 DEF ReceiveAck, ReceiveChange, ReceiveMoved, ReceiveDeleted, ReceiveColumns
  <2>0. Next1.kind = k => Taken(k)
    BY <1>5, <2>1 DEF ReceiveAck, ReceiveChange, ReceiveMoved, ReceiveDeleted, ReceiveColumns, Received, Taken
  <2>2. /\ Next1 = wire[1] /\ Next1.kind = k
        /\ Len(wire) \in Nat \ {0}
        /\ \A j \in 2..Len(wire) : wire'[j - 1] = wire[j] /\ j - 1 \in 1..Len(wire')
    BY <2>1, EventIs
  <2>3. CASE i = 1
    BY <2>0, <2>2, <2>3
  <2>4. CASE i # 1
    <3>1. i \in 2..Len(wire)
      BY <2>2, <2>4
    <3> QED
      BY <2>2, <3>1
  <2> QED
    BY <2>3, <2>4
<1> QED
  BY <1>2, <1>3, <1>4, <1>5 DEF ClientNext, ClientReceives

LEMMA WaysOfTask ==
    ASSUME ClientTyped, Truths, ClientNext, NEW t \in DOMAIN rows, NEW n \in Nat, n =< stamp[t],
           TaskWay(t, n)
    PROVE  \/ TaskWay(t, n)'
           \/ \E m \in answers : /\ m.kind = "task" /\ m.task = t /\ m.at >= n
                                 /\ drawn' = Put(m.task, m.row) /\ Heard(m.task, m.at)
                                 /\ overtaken' = (overtaken \/ Late(m.task, m.at))
<1>1. CASE t \in armed
  BY <1>1, ArmedLeaves DEF TaskWay
<1>2. ASSUME NEW r \in asked, r.kind = "task", r.task = t PROVE TaskWay(t, n)'
  <2>1. CASE r \in asked'
    BY <1>2, <2>1 DEF TaskWay
  <2>2. CASE r \notin asked'
    <3>1. PICK m \in answers' : m.kind = "task" /\ m.task = t /\ m.at = stamp[t]
      BY <1>2, <2>2, AskedLeaves
    <3>2. m.at >= n
      BY <3>1, RowReadTrue, CountsAre
    <3> QED
      BY <3>1, <3>2 DEF TaskWay
  <2> QED
    BY <2>1, <2>2
<1>3. ASSUME NEW m \in answers, m.kind = "task", m.task = t, m.at >= n, ~TaskWay(t, n)'
      PROVE  \E l \in answers : /\ l.kind = "task" /\ l.task = t /\ l.at >= n
                                /\ drawn' = Put(l.task, l.row) /\ Heard(l.task, l.at)
                                /\ overtaken' = (overtaken \/ Late(l.task, l.at))
  <2>1. m \notin answers'
    BY <1>3 DEF TaskWay
  <2> QED
    BY <1>3, <2>1, AnswerLeaves
<1> QED
  BY <1>1, <1>2, <1>3 DEF TaskWay

LEMMA WaysOfFirst ==
    ASSUME ClientTyped, Truths, ClientNext, NEW t \in TaskIds, NEW n \in Nat, n =< stamp[t],
           FirstWay(t, n)
    PROVE  \/ FirstWay(t, n)'
           \/ \E m \in answers : PageComes(m) /\ m.first /\ m.at[t] >= n
<1>1. ASSUME NEW r \in asked, r.kind = "page", r.after = 0 PROVE FirstWay(t, n)'
  <2>1. CASE r \in asked'
    BY <1>1, <2>1 DEF FirstWay
  <2>2. CASE r \notin asked'
    <3>1. PICK m \in answers' : PageRead(m, r)
      BY <1>1, <2>2, AskedLeaves
    <3>2. m.kind = "page" /\ m.first /\ m.at[t] >= n
      BY <1>1, <3>1, CountsAre DEF PageRead
    <3> QED
      BY <3>2 DEF FirstWay
  <2> QED
    BY <2>1, <2>2
<1>2. ASSUME NEW m \in answers, m.kind = "page", m.first, m.at[t] >= n, ~FirstWay(t, n)'
      PROVE  PageComes(m)
  BY <1>2, AnswerLeaves DEF FirstWay
<1> QED
  BY <1>1, <1>2 DEF FirstWay

\* A page that covers a task has it, or asks for the next one.
LEMMA PageLeadsOn ==
    ASSUME ClientTyped, NEW m \in answers, PageComes(m), m.next # 0, NEW t, m.next < t
    PROVE  ChainWay(t)'
<1>1. asked' = asked \cup {[kind |-> "page", by |-> m.by, after |-> m.next]}
  BY DEF PageComes
<1>2. PICK q : q = [kind |-> "page", by |-> m.by, after |-> m.next]
  OBVIOUS
<1> QED
  BY <1>1, <1>2 DEF ChainWay

LEMMA WaysOfChain ==
    ASSUME ClientTyped, Truths, ClientNext, NEW t \in DOMAIN rows, ChainWay(t)
    PROVE  \/ ChainWay(t)'
           \/ \E m \in answers : PageComes(m) /\ t \in DOMAIN m.tasks
<1>1. ASSUME NEW r \in asked, r.kind = "page", r.after < t PROVE ChainWay(t)'
  <2>1. CASE r \in asked'
    BY <1>1, <2>1 DEF ChainWay
  <2>2. CASE r \notin asked'
    <3>1. PICK m \in answers' : PageRead(m, r)
      BY <1>1, <2>2, AskedLeaves
    <3>2. m.kind = "page" /\ Covers(m, t)
      BY <1>1, <3>1 DEF PageRead, Covers
    <3>3. Covers(m, t)'
      BY <3>2 DEF Covers
    <3> QED
      BY <3>2, <3>3 DEF ChainWay
  <2> QED
    BY <2>1, <2>2
<1>2. ASSUME NEW m \in answers, m.kind = "page", Covers(m, t), ~ChainWay(t)'
      PROVE  PageComes(m) /\ t \in DOMAIN m.tasks
  <2>1. Covers(m, t)'
    BY <1>2 DEF Covers
  <2>2. PageComes(m)
    BY <1>2, <2>1, AnswerLeaves DEF ChainWay
  <2> QED
    BY <1>2, <2>2, PageLeadsOn DEF Covers
<1> QED
  BY <1>1, <1>2 DEF ChainWay

\* Every read of the board is asked for again.
DrainAsked ==
    /\ \E r \in asked : r.kind = "page" /\ r.after = 0
    /\ \E r \in asked : r.kind = "meta"

LEMMA WaysOfMove ==
    ASSUME ClientTyped, ClientNext, NEW t \in TaskIds, SameCard(t), MoveWay(t)
    PROVE  MoveWay(t)' \/ restored' \/ DrainAsked'
<1>1. ASSUME NEW r \in asked, r.kind = "move", r.task = t PROVE MoveWay(t)'
  <2>1. CASE r \in asked'
    BY <1>1, <2>1 DEF MoveWay
  <2>2. CASE r \notin asked'
    <3>1. \A e \in Events : ~Changed(t, e)
      <4>1. stamp[t] \in Nat
        BY CountsAre
      <4> QED
        BY <4>1 DEF SameCard, Changed
    <3>2. PICK m \in answers' : m.kind = "refused" /\ m.move = r
      BY <1>1, <2>2, <3>1, AskedLeaves
    <3> QED
      BY <1>1, <3>2 DEF MoveWay
  <2> QED
    BY <2>1, <2>2
<1>2. ASSUME NEW m \in answers, m.kind = "refused", m.move.task = t, ~MoveWay(t)'
      PROVE  restored' \/ DrainAsked'
  <2>1. restored' \/ StartDrain("undo")
    BY <1>2, AnswerLeaves DEF MoveWay
  <2>2. "undo" \in Drains
    BY DEF Drains
  <2>3. StartDrain("undo") => DrainAsked'
    BY <2>2, StartDrainIs DEF DrainAsked
  <2> QED
    BY <2>1, <2>3
<1> QED
  BY <1>1, <1>2 DEF MoveWay

LEMMA WaysOfEvents ==
    ASSUME ClientTyped, ClientNext, link' # "down", NEW k, NEW t, Told(k, t)
    PROVE  Told(k, t)' \/ (Taken(k) /\ Next1.task = t)
<1>1. PICK i \in 1..Len(wire) : wire[i].kind = k /\ wire[i].task = t
  BY DEF Told
<1>2. CASE \E j \in 1..Len(wire') : wire'[j] = wire[i]
  BY <1>1, <1>2 DEF Told
<1>3. CASE i = 1 /\ wire[1] = Next1 /\ Taken(Next1.kind)
  BY <1>1, <1>3
<1> QED
  BY <1>2, <1>3, EventLeaves

LEMMA WaysOfMoved ==
    ASSUME ClientTyped, ClientNext, link' # "down", NEW t \in TaskIds, placed'[t] = placed[t], MovedTold(t)
    PROVE  MovedTold(t)' \/ (Taken("moved") /\ Next1.task = t /\ Next1.at = placed[t])
<1>1. PICK i \in 1..Len(wire) : wire[i].kind = "moved" /\ wire[i].task = t /\ wire[i].at = placed[t]
  BY DEF MovedTold
<1>2. CASE \E j \in 1..Len(wire') : wire'[j] = wire[i]
  BY <1>1, <1>2 DEF MovedTold
<1>3. CASE i = 1 /\ wire[1] = Next1 /\ Taken(Next1.kind)
  BY <1>1, <1>3
<1> QED
  BY <1>2, <1>3, EventLeaves

\* What a page does to what is shown of a task.
LEMMA PageDraws ==
    ASSUME ClientTyped, Truths, NEW m \in answers, PageComes(m), NEW t \in TaskIds
    PROVE  \/ SameShown(t)
           \/ t \in DOMAIN m.tasks /\ m.tasks[t] \in CardRows /\ Shown(t, m.at[t], m.tasks[t])
           \/ m.first /\ t \notin DOMAIN m.tasks /\ t \notin DOMAIN drawn'
<1>1. /\ m \in Replies /\ m.kind = "page" /\ PageTrue(m) /\ m.at[t] \in Nat /\ m.tasks \in Boards
      /\ m.first \in BOOLEAN /\ m.next \in TaskIds \cup {0}
  BY PageTasks, ReplyFields
<1>2. drawn' = Merged(m) /\ drawn \in Boards
  BY DEF PageComes, ClientTyped
<1>3. ASSUME t \in DOMAIN m.tasks, m.first \/ t \notin DOMAIN drawn
      PROVE  m.tasks[t] \in CardRows /\ Shown(t, m.at[t], m.tasks[t])
  <2>1. t \in Decides(m)
    BY <1>1, <1>3 DEF Decides, PageTrue
  <2>2. t \in DOMAIN drawn' /\ drawn'[t] = m.tasks[t]
    BY <1>1, <1>2, <1>3, MergedShows
  <2>3. latest'[t] >= m.at[t]
    BY <2>1, PageHeard
  <2>4. m.at[t] < latest[t] => overtaken'
    BY <2>1 DEF PageComes, Late
  <2>5. RowTrue(t, m.at[t], m.tasks[t]) /\ m.tasks[t] \in CardRows
    BY <1>1, <1>3, BoardFacts DEF PageTrue
  <2> QED
    BY <2>2, <2>3, <2>4, <2>5 DEF Shown
<1>4. CASE m.first
  <2>1. drawn' = m.tasks
    BY <1>1, <1>2, <1>4, MergedShows
  <2> QED
    BY <1>3, <1>4, <2>1
<1>5. CASE ~m.first
  <2>1. t \in DOMAIN drawn => SameShown(t)
    BY <1>1, <1>2, <1>5, MergedShows DEF SameShown
  <2>2. t \notin DOMAIN drawn /\ t \notin DOMAIN m.tasks => SameShown(t)
    BY <1>1, <1>2, <1>5, MergedShows DEF SameShown
  <2> QED
    BY <1>3, <2>1, <2>2
<1> QED
  BY <1>4, <1>5

\* A row put where a task is, or is to be.
LEMMA PutDraws ==
    ASSUME ClientTyped, Truths, NEW m \in answers, m.kind \in {"task", "accepted"},
           drawn' = Put(m.task, m.row), Heard(m.task, m.at),
           overtaken' = (overtaken \/ Late(m.task, m.at))
    PROVE  /\ m.task \in TaskIds /\ m.at \in Nat /\ m.row \in CardRows
           /\ Shown(m.task, m.at, m.row)
           /\ \A t \in TaskIds \ {m.task} : SameShown(t)
<1>1. m.task \in TaskIds /\ m.at \in Nat /\ m.row \in CardRows
  BY ReplyFields DEF ClientTyped
<1>2. RowTrue(m.task, m.at, m.row)
  BY DEF Truths, ReplyTrue
<1>3. latest'[m.task] >= m.at
  BY <1>1, HeardIs DEF ClientTyped
<1>4. drawn' = Rowed(drawn, m.task, m.row) /\ drawn \in Boards
  BY DEF Put, Rowed, ClientTyped
<1>5. /\ DOMAIN drawn' = DOMAIN drawn \cup {m.task} /\ drawn'[m.task] = m.row
      /\ \A s \in DOMAIN drawn \ {m.task} : drawn'[s] = drawn[s]
  BY <1>1, <1>4, RowPut
<1>6. m.at < latest[m.task] => overtaken'
  BY DEF Late
<1> QED
  BY <1>1, <1>2, <1>3, <1>5, <1>6 DEF Shown, SameShown

LEMMA SameBoardShown ==
    ASSUME drawn' = drawn
    PROVE  \A t \in TaskIds : SameShown(t)
BY DEF SameShown

LEMMA DrawnSteps ==
    ASSUME ClientTyped, Truths, ClientNext, NEW t \in TaskIds
    PROVE  DrawnStep(t)
<1>1. CASE drawn' = drawn
  BY <1>1, SameBoardShown DEF DrawnStep
<1>2. CASE RemoteTask \/ RemoteColumn \/ AnswerRead \/ AnswerMove \/ AnswerColumns \/ AcceptJoin
  <2>1. drawn' = drawn
    BY <1>2, AcceptJoinIs, ServerAloneIs DEF RemoteTask, RemoteColumn, AnswerRead, AnswerMove, AnswerColumns
  <2> QED
    BY <1>1, <2>1
<1>3. CASE \/ Connect \/ Disconnect \/ FireUpsert \/ FireResync \/ StartDrag \/ AskColumns
           \/ ReceiveMeta \/ ReceiveColumnList \/ ReceiveAck \/ ReceiveChange \/ ReceiveColumns
           \/ ReceiveConflict
  <2>1. drawn' = drawn
    BY <1>3 DEF Connect, Disconnect, FireUpsert, FireResync, StartDrag, AskColumns, ReceiveMeta,
                ReceiveColumnList, ReceiveAck, ReceiveChange, ReceiveColumns,
                ReceiveConflict, screen
  <2> QED
    BY <1>1, <2>1
<1>4. CASE ReceivePage
  <2>1. PICK m \in answers : PageComes(m)
    BY <1>4, PageArrives
  <2>2. m.at[t] \in Nat
    BY <2>1, PageTasks
  <2> QED
    BY <2>1, <2>2, PageDraws DEF DrawnStep
<1>5. CASE ReceiveTask \/ ReceiveAccepted
  <2>1. PICK m \in answers :
          /\ m.kind \in {"task", "accepted"} /\ Heard(m.task, m.at)
          /\ \/ drawn' = drawn
             \/ drawn' = Put(m.task, m.row) /\ overtaken' = (overtaken \/ Late(m.task, m.at))
    BY <1>5 DEF ReceiveTask, ReceiveAccepted, Delivered
  <2>2. CASE drawn' = Put(m.task, m.row) /\ overtaken' = (overtaken \/ Late(m.task, m.at))
    <3>1. m.at \in Nat /\ m.row \in CardRows /\ Shown(m.task, m.at, m.row)
          /\ \A s \in TaskIds \ {m.task} : SameShown(s)
      BY <2>1, <2>2, PutDraws
    <3> QED
      BY <3>1 DEF DrawnStep
  <2> QED
    BY <1>1, <2>1, <2>2
<1>6. CASE ReceiveMoved
  <2>1. Received("moved")
        /\ (drawn' = drawn \/ (Next1.task \in DOMAIN drawn /\ drawn' = WithLane(drawn, Next1.task, Next1.lane)))
    BY <1>6 DEF ReceiveMoved, WithLane
  <2>2. PICK s \in TaskIds, lane \in BoardLanes : s = Next1.task /\ lane = Next1.lane
    BY <2>1, EventIs, EventFields
  <2>3. CASE s \in DOMAIN drawn /\ drawn' = WithLane(drawn, s, lane)
    <3>1. PICK b : b = WithLane(drawn, s, lane)
      OBVIOUS
    <3>2. DOMAIN b = DOMAIN drawn /\ b[s].lane = lane /\ b[s].text = drawn[s].text
          /\ \A q \in DOMAIN drawn \ {s} : b[q] = drawn[q]
      BY <2>3, <3>1, RowRelaned DEF ClientTyped
    <3>3. drawn' = b
      BY <2>3, <3>1
    <3>4. t # s => SameShown(t)
      BY <3>2, <3>3 DEF SameShown
    <3> QED
      BY <2>1, <2>2, <2>3, <3>2, <3>3, <3>4 DEF DrawnStep
  <2> QED
    BY <1>1, <2>1, <2>2, <2>3
<1>7. CASE ReceiveDeleted
  <2>1. Received("deleted") /\ drawn' = Without(drawn, Next1.task)
    BY <1>7 DEF ReceiveDeleted, Without
  <2>2. Next1.task \in TaskIds
    BY <2>1, EventIs, EventFields
  <2>3. DOMAIN drawn' = DOMAIN drawn \ {Next1.task} /\ \A s \in DOMAIN drawn \ {Next1.task} : drawn'[s] = drawn[s]
    BY <2>1, <2>2, RowDropped DEF ClientTyped
  <2>4. t # Next1.task => SameShown(t)
    BY <2>3 DEF SameShown
  <2> QED
    BY <2>1, <2>3, <2>4 DEF DrawnStep
<1>8. CASE ReceiveRefused
  <2>1. drawn' = drawn \/ restored' = TRUE
    BY <1>8 DEF ReceiveRefused
  <2> QED
    BY <1>1, <2>1 DEF DrawnStep
<1>9. CASE Drop
  <2>1. PICK lane \in BoardLanes :
          \/ drawn' = drawn
          \/ /\ drag \in DOMAIN drawn /\ drawn' = WithLane(drawn, drag, lane)
             /\ asked' = asked \cup {[kind |-> "move", task |-> drag, lane |-> lane,
                                      generation |-> moves + 1, previous |-> drawn]}
    BY <1>9 DEF Drop, WithLane
  <2>2. PICK s : s = drag
    OBVIOUS
  <2>3. CASE /\ drag \in DOMAIN drawn /\ drawn' = WithLane(drawn, drag, lane)
             /\ asked' = asked \cup {[kind |-> "move", task |-> drag, lane |-> lane,
                                      generation |-> moves + 1, previous |-> drawn]}
    <3>1. PICK b : b = WithLane(drawn, s, lane)
      OBVIOUS
    <3>2. DOMAIN b = DOMAIN drawn /\ b[s].text = drawn[s].text
          /\ \A q \in DOMAIN drawn \ {s} : b[q] = drawn[q]
      BY <2>2, <2>3, <3>1, RowRelaned DEF ClientTyped
    <3>3. drawn' = b
      BY <2>2, <2>3, <3>1
    <3>4. t # s => SameShown(t)
      BY <3>2, <3>3 DEF SameShown
    <3>5. MoveWay(s)'
      <4> DEFINE move == [kind |-> "move", task |-> drag, lane |-> lane,
                          generation |-> moves + 1, previous |-> drawn]
      <4>1. move \in asked' /\ move.kind = "move" /\ move.task = s
        BY <2>2, <2>3
      <4> HIDE DEF move
      <4>2. \E r \in asked' : r.kind = "move" /\ r.task = s
        BY <4>1
      <4> QED
        BY <4>2 DEF MoveWay
    <3> QED
      BY <2>2, <2>3, <3>2, <3>3, <3>4, <3>5 DEF DrawnStep
  <2> QED
    BY <1>1, <2>1, <2>3
<1> QED
  BY <1>2, <1>3, <1>4, <1>5, <1>6, <1>7, <1>8, <1>9 DEF ClientNext, ClientReceives

\* What is on the board is shown or coming, each field of it right, or the right one coming; what
\* is gone is not shown, or its end is coming.
Presence(t) == t \in DOMAIN drawn \/ TaskWay(t, 1) \/ Told("created", t) \/ ChainWay(t)

Right(t, f) == latest[t] >= Since(t, f) /\ (t \in DOMAIN drawn => drawn[t][f] = rows[t][f])

Field(t, f) ==
    \/ Right(t, f)
    \/ TaskWay(t, Since(t, f)) \/ FirstWay(t, Since(t, f))
    \/ Told("created", t) /\ Since(t, f) = 1 /\ t \notin DOMAIN drawn
    \/ f = "text" /\ Told("updated", t)
    \/ f = "lane" /\ (MovedTold(t) \/ MoveWay(t))

Gone(t) ==
    \/ t \notin DOMAIN drawn /\ latest[t] = stamp[t]
    \/ Told("deleted", t) \/ FirstWay(t, stamp[t])

ColumnWay ==
    \/ drawnCols = columnSet
    \/ \E r \in asked : r.kind \in {"columns", "meta"}
    \/ \E i \in 1..Len(wire) : wire[i].kind = "columns"
    \/ \E m \in answers : m.kind \in {"meta", "columnList"} /\ m.columns = columnSet

\* A drain is to begin, or what the property leaves out has happened since the last one began.
Renewing == link # "joined" \/ skipped \/ restored \/ overtaken \/ resync.timer \/ resync.queued

Coming(t) == IF t \in DOMAIN rows THEN Presence(t) /\ Field(t, "text") /\ Field(t, "lane") ELSE Gone(t)

AllComing == ~Renewing => ColumnWay /\ \A t \in TaskIds : Coming(t)

LEMMA SinceIs ==
    ASSUME ClientTyped, Truths, NEW t \in DOMAIN rows, NEW f \in Fields
    PROVE  t \in TaskIds /\ Since(t, f) \in Nat /\ 1 =< Since(t, f) /\ Since(t, f) =< stamp[t]
<1>1. t \in TaskIds /\ rows[t].text \in Nat
  BY BoardFacts DEF ClientTyped
<1>2. stamp[t] \in Nat /\ placed[t] \in Nat /\ CardTrue(t)
  BY <1>1, CountsAre DEF Truths
<1> QED
  BY <1>1, <1>2 DEF Since, Fields, CardTrue

\* A row that is shown is right in a field that has not changed since, or newer data was overtaken.
LEMMA ShownIsRight ==
    ASSUME ClientTyped, Truths, Forward, NEW t \in DOMAIN rows, NEW f \in Fields, SameCard(t),
           NEW n \in Nat, NEW data, Shown(t, n, data), latest[t] >= Since(t, f) \/ n >= Since(t, f),
           ~overtaken'
    PROVE  Right(t, f)'
<1>1. t \in TaskIds /\ Since(t, f) \in Nat /\ Since(t, f)' = Since(t, f)
  BY SinceIs DEF SameCard, Since
<1>2. latest[t] \in Nat /\ latest'[t] \in Nat /\ latest[t] =< latest'[t]
  BY <1>1, CountsGrow
<1>3. n >= latest[t]
  BY <1>2 DEF Shown
<1>4. n >= Since(t, f)
  BY <1>1, <1>2, <1>3
<1>5. data[f] = rows[t][f] /\ rows'[t] = rows[t] /\ drawn'[t] = data
  BY <1>4 DEF Shown, RowTrue, SameCard
<1>6. latest'[t] >= Since(t, f)
  BY <1>1, <1>2, <1>4 DEF Shown
<1> QED
  BY <1>1, <1>5, <1>6 DEF Right

LEMMA PresenceStays ==
    ASSUME ClientTyped, Truths, ClientNext, NEW t \in DOMAIN rows, SameCard(t), Presence(t), ~Renewing'
    PROVE  Presence(t)'
<1>0. /\ Forward /\ t \in TaskIds /\ ~overtaken' /\ ~restored' /\ link' # "down"
      /\ stamp[t] \in Nat /\ latest[t] \in Nat /\ 1 =< stamp[t]
  BY StepsGoForward, RowReadTrue, CountsAre DEF Renewing, RowTrue
<1>1. CASE t \in DOMAIN drawn
  <2>0. 1 =< latest[t]
    BY <1>0, <1>1 DEF Truths, CardTrue
  <2>1. DrawnStep(t)
    BY <1>0, DrawnSteps
  <2>2. CASE t \in DOMAIN drawn'
    BY <2>2 DEF Presence
  <2>3. ASSUME NEW m \in answers, PageComes(m), m.first, t \notin DOMAIN m.tasks PROVE Presence(t)'
    <3>1. m.at[t] \in Nat /\ PageTrue(m) /\ m \in Replies /\ m.kind = "page"
      BY <1>0, <2>3, PageTasks
    <3>2. m.next \in TaskIds \cup {0}
      BY <3>1, ReplyFields
    <3>3. CASE m.next # 0 /\ m.next < t
      BY <2>3, <3>3, PageLeadsOn DEF Presence
    <3>4. CASE ~(m.next # 0 /\ m.next < t)
      <4>1. t \in Decides(m)
        BY <1>0, <2>3, <3>2, <3>4, TaskIdsAre DEF Decides
      <4>2. ~(m.at[t] < latest[t])
        BY <1>0, <2>3, <4>1 DEF PageComes, Late
      <4>3. m.at[t] >= 1
        BY <1>0, <2>0, <3>1, <4>2
      <4> QED
        BY <2>3, <3>1, <3>4, <4>3 DEF PageTrue, Covers
    <3> QED
      BY <3>3, <3>4
  <2>4. ASSUME Received("deleted"), Next1.task = t PROVE FALSE
    <3>1. 1 \in 1..Len(wire) /\ wire[1].kind = "deleted" /\ wire[1].task = t
      BY <2>4, EventIs
    <3> QED
      BY <3>1 DEF Truths, EventTrue
  <2> QED
    BY <1>0, <1>1, <2>1, <2>2, <2>3, <2>4 DEF DrawnStep, SameShown, Shown
<1>2. CASE TaskWay(t, 1)
  <2>1. ASSUME NEW m \in answers, m.kind = "task", m.task = t, drawn' = Put(m.task, m.row) PROVE Presence(t)'
    BY <2>1 DEF Put, Presence
  <2> QED
    BY <1>0, <1>2, <2>1, WaysOfTask DEF Presence
<1>3. CASE Told("created", t)
  <2>1. CASE Taken("created") /\ Next1.task = t
    <3>1. t \in DOMAIN drawn' \/ t \in armed'
      BY <2>1 DEF Taken, Received, ReceiveChange, screen
    <3> QED
      BY <3>1 DEF Presence, TaskWay
  <2> QED
    BY <1>0, <1>3, <2>1, WaysOfEvents DEF Presence
<1>4. CASE ChainWay(t)
  <2>1. ASSUME NEW m \in answers, PageComes(m), t \in DOMAIN m.tasks PROVE Presence(t)'
    <3>1. m \in Replies /\ m.kind = "page" /\ drawn' = Merged(m) /\ drawn \in Boards
      BY <2>1, PageTasks DEF PageComes, ClientTyped
    <3>2. t \in DOMAIN drawn'
      BY <2>1, <3>1, MergedShows
    <3> QED
      BY <3>2 DEF Presence
  <2> QED
    BY <1>4, <2>1, WaysOfChain DEF Presence
<1> QED
  BY <1>1, <1>2, <1>3, <1>4 DEF Presence

LEMMA DrainBrings ==
    ASSUME DrainAsked', NEW t \in TaskIds, NEW n
    PROVE  FirstWay(t, n)' /\ ChainWay(t)'
BY TaskIdsAre DEF DrainAsked, FirstWay, ChainWay

\* What is right stays so, or what makes it right is coming.
LEMMA RightStays ==
    ASSUME ClientTyped, Truths, ClientNext, NEW t \in DOMAIN rows, NEW f \in Fields, SameCard(t),
           Right(t, f), ~Renewing'
    PROVE  Field(t, f)'
<1>0. /\ Forward /\ t \in TaskIds /\ ~overtaken' /\ ~restored' /\ link' # "down"
      /\ Since(t, f) \in Nat /\ Since(t, f)' = Since(t, f) /\ t \in DOMAIN rows' /\ rows'[t] = rows[t]
      /\ placed'[t] = placed[t]
  BY StepsGoForward, SinceIs DEF Renewing, SameCard, Since
<1>1. latest[t] \in Nat /\ latest'[t] \in Nat /\ latest[t] =< latest'[t] /\ latest[t] >= Since(t, f)
  BY <1>0, CountsGrow DEF Right
<1>2. latest'[t] >= Since(t, f)'
  BY <1>0, <1>1
<1>3. t \in DOMAIN drawn => drawn[t][f] = rows[t][f]
  BY DEF Right
<1>4. CASE SameShown(t)
  BY <1>0, <1>2, <1>3, <1>4 DEF SameShown, Right, Field
<1>5. ASSUME NEW n \in Nat, NEW data \in CardRows, Shown(t, n, data) PROVE Field(t, f)'
  BY <1>0, <1>1, <1>5, ShownIsRight DEF Field
<1>6. CASE t \notin DOMAIN drawn'
  BY <1>2, <1>6 DEF Right, Field
<1>7. CASE /\ Received("moved") /\ Next1.task = t /\ t \in DOMAIN drawn /\ t \in DOMAIN drawn'
           /\ drawn'[t].text = drawn[t].text /\ drawn'[t].lane = Next1.lane
  <2>1. CASE f = "text"
    <3>1. drawn'[t][f] = drawn[t][f]
      BY <1>7, <2>1
    <3> QED
      BY <1>0, <1>2, <1>3, <1>7, <3>1 DEF Right, Field
  <2>2. CASE f = "lane"
    <3>1. /\ 1 \in 1..Len(wire) /\ wire[1] = Next1 /\ Next1.kind = "moved"
          /\ Len(wire) \in Nat
          /\ \A i \in 2..Len(wire) : wire'[i - 1] = wire[i] /\ i - 1 \in 1..Len(wire')
      BY <1>7, EventIs
    <3>2. /\ Next1.at = placed[t] => Next1.lane = rows[t].lane
          /\ \E j \in 1..Len(wire) : wire[j].kind = "moved" /\ wire[j].task = t /\ wire[j].at = placed[t]
      BY <1>7, <3>1 DEF Truths, EventTrue
    <3>3. CASE Next1.at = placed[t]
      <4>1. drawn'[t][f] = rows'[t][f]
        BY <1>0, <1>7, <2>2, <3>2, <3>3
      <4> QED
        BY <1>2, <4>1 DEF Right, Field
    <3>4. CASE Next1.at # placed[t]
      <4>1. PICK j \in 1..Len(wire) : wire[j].kind = "moved" /\ wire[j].task = t /\ wire[j].at = placed[t]
        BY <3>2
      <4>2. j \in 2..Len(wire)
        BY <3>1, <3>4, <4>1
      <4>3. MovedTold(t)'
        BY <1>0, <3>1, <4>1, <4>2 DEF MovedTold
      <4> QED
        BY <2>2, <4>3 DEF Field
    <3> QED
      BY <3>3, <3>4
  <2> QED
    BY <2>1, <2>2 DEF Fields
<1>8. CASE t \in DOMAIN drawn /\ drawn'[t].text = drawn[t].text /\ MoveWay(t)'
  <2>1. CASE f = "text"
    <3>1. drawn'[t][f] = drawn[t][f]
      BY <1>8, <2>1
    <3> QED
      BY <1>0, <1>2, <1>3, <1>8, <3>1 DEF Right, Field
  <2>2. CASE f = "lane"
    BY <1>8, <2>2 DEF Field
  <2> QED
    BY <2>1, <2>2 DEF Fields
<1> QED
  BY <1>0, <1>4, <1>5, <1>6, <1>7, <1>8, DrawnSteps DEF DrawnStep

LEMMA FieldStays ==
    ASSUME ClientTyped, Truths, ClientNext, NEW t \in DOMAIN rows, NEW f \in Fields, SameCard(t),
           Field(t, f), ~Renewing'
    PROVE  Field(t, f)'
<1>0. /\ Forward /\ t \in TaskIds /\ ~overtaken' /\ ~restored' /\ link' # "down"
      /\ Since(t, f) \in Nat /\ Since(t, f)' = Since(t, f) /\ 1 =< Since(t, f) /\ Since(t, f) =< stamp[t]
      /\ t \in DOMAIN rows' /\ rows'[t] = rows[t] /\ placed'[t] = placed[t]
  BY StepsGoForward, SinceIs DEF Renewing, SameCard, Since
<1>1. latest[t] \in Nat /\ latest'[t] \in Nat /\ latest[t] =< latest'[t]
  BY <1>0, CountsGrow
<1>2. PICK n \in Nat : n = Since(t, f)
  BY <1>0
<1>3. CASE Right(t, f)
  BY <1>3, RightStays
<1>4. CASE TaskWay(t, Since(t, f))
  <2>1. ASSUME NEW m \in answers, m.kind = "task", m.task = t, m.at >= n, drawn' = Put(m.task, m.row),
               Heard(m.task, m.at), overtaken' = (overtaken \/ Late(m.task, m.at))
        PROVE  Field(t, f)'
    <3>1. m.at \in Nat /\ Shown(t, m.at, m.row)
      BY <2>1, PutDraws
    <3> QED
      BY <1>0, <1>2, <2>1, <3>1, ShownIsRight DEF Field
  <2>2. TaskWay(t, n)' => Field(t, f)'
    BY <1>0, <1>2 DEF Field
  <2> QED
    BY <1>0, <1>2, <1>4, <2>1, <2>2, WaysOfTask
<1>5. CASE FirstWay(t, Since(t, f))
  <2>1. ASSUME NEW m \in answers, PageComes(m), m.first, m.at[t] >= n PROVE Field(t, f)'
    <3>1. m.at[t] \in Nat /\ latest'[t] >= m.at[t] /\ m \in Replies /\ m.kind = "page"
      BY <1>0, <2>1, PageHeard, PageTasks
    <3>2. CASE t \in DOMAIN m.tasks
      <4>1. Shown(t, m.at[t], m.tasks[t]) \/ SameShown(t)
        BY <1>0, <2>1, <3>2, PageDraws
      <4>2. drawn' = m.tasks
        BY <2>1, <3>1, MergedShows DEF PageComes, ClientTyped
      <4>3. RowTrue(t, m.at[t], m.tasks[t])
        BY <2>1, <3>2, PageTasks DEF PageTrue
      <4>4. drawn'[t][f] = rows'[t][f]
        BY <1>0, <1>2, <2>1, <4>2, <4>3 DEF RowTrue
      <4>5. latest'[t] >= Since(t, f)'
        BY <1>0, <1>1, <1>2, <2>1, <3>1
      <4> QED
        BY <4>4, <4>5 DEF Right, Field
    <3>3. CASE t \notin DOMAIN m.tasks
      <4>1. drawn' = m.tasks
        BY <2>1, <3>1, MergedShows DEF PageComes, ClientTyped
      <4>2. latest'[t] >= Since(t, f)'
        BY <1>0, <1>1, <1>2, <2>1, <3>1
      <4> QED
        BY <3>3, <4>1, <4>2 DEF Right, Field
    <3> QED
      BY <3>2, <3>3
  <2>2. FirstWay(t, n)' => Field(t, f)'
    BY <1>0, <1>2 DEF Field
  <2> QED
    BY <1>0, <1>2, <1>5, <2>1, <2>2, WaysOfFirst
<1>6. CASE Told("created", t) /\ Since(t, f) = 1 /\ t \notin DOMAIN drawn
  <2>1. CASE Taken("created") /\ Next1.task = t
    <3>1. t \in armed'
      BY <1>6, <2>1 DEF Taken, Received, ReceiveChange
    <3> QED
      BY <3>1 DEF Field, TaskWay
  <2>2. CASE Told("created", t)' /\ t \notin DOMAIN drawn'
    BY <1>0, <1>6, <2>2 DEF Field
  <2>3. CASE t \in DOMAIN drawn'
    <3>1. DrawnStep(t)
      BY <1>0, DrawnSteps
    <3>2. PICK k \in Nat, data \in CardRows : Shown(t, k, data)
      BY <1>0, <1>6, <2>3, <3>1 DEF DrawnStep, SameShown
    <3>3. k >= Since(t, f)
      BY <1>6, <3>2 DEF Shown, RowTrue
    <3> QED
      BY <1>0, <3>2, <3>3, ShownIsRight DEF Field
  <2> QED
    BY <1>0, <1>6, <2>1, <2>2, <2>3, WaysOfEvents
<1>7. CASE f = "text" /\ Told("updated", t)
  <2>1. CASE Taken("updated") /\ Next1.task = t
    <3>1. t \in armed'
      BY <2>1 DEF Taken, Received, ReceiveChange
    <3> QED
      BY <3>1 DEF Field, TaskWay
  <2> QED
    BY <1>0, <1>7, <2>1, WaysOfEvents DEF Field
<1>8. CASE f = "lane" /\ MovedTold(t)
  <2>1. CASE Taken("moved") /\ Next1.task = t /\ Next1.at = placed[t]
    <3>1. /\ 1 \in 1..Len(wire) /\ wire[1] = Next1 /\ Next1.kind = "moved" /\ Next1 \in Events
      BY <2>1, EventIs DEF Taken
    <3>2. Next1.lane = rows[t].lane /\ Next1.at \in Nat
      BY <2>1, <3>1, EventFields DEF Truths, EventTrue
    <3>3. latest'[t] >= Next1.at
      BY <1>0, <2>1, <3>2, HeardIs DEF Taken, ReceiveMoved, ClientTyped
    <3>4. latest'[t] >= Since(t, f)'
      BY <1>0, <1>8, <2>1, <3>3 DEF Since
    <3>5. t \in DOMAIN drawn' => drawn'[t].lane = rows[t].lane
      <4>1. drawn' = IF t \in DOMAIN drawn THEN WithLane(drawn, t, Next1.lane) ELSE drawn
        BY <2>1 DEF Taken, ReceiveMoved, WithLane
      <4>2. PICK lane \in BoardLanes : lane = Next1.lane
        BY <3>1, EventFields
      <4>3. t \in DOMAIN drawn => WithLane(drawn, t, lane)[t].lane = lane
        BY RowRelaned DEF ClientTyped
      <4>4. CASE t \in DOMAIN drawn
        <5>1. PICK b : b = WithLane(drawn, t, lane)
          OBVIOUS
        <5>2. drawn' = b /\ b[t].lane = lane
          BY <4>1, <4>2, <4>3, <4>4, <5>1
        <5> QED
          BY <3>2, <4>2, <5>2
      <4>5. CASE t \notin DOMAIN drawn
        BY <4>1, <4>5
      <4> QED
        BY <4>4, <4>5
    <3> QED
      BY <1>0, <1>8, <3>4, <3>5 DEF Right, Field
  <2> QED
    BY <1>0, <1>8, <2>1, WaysOfMoved DEF Field
<1>9. CASE f = "lane" /\ MoveWay(t)
  <2>1. DrainAsked' => Field(t, f)'
    BY <1>0, DrainBrings DEF Field
  <2> QED
    BY <1>0, <1>9, <2>1, WaysOfMove DEF Field
<1> QED
  BY <1>3, <1>4, <1>5, <1>6, <1>7, <1>8, <1>9 DEF Field

LEMMA GoneStays ==
    ASSUME ClientTyped, Truths, ClientNext, NEW t \in TaskIds, t \notin DOMAIN rows, SameCard(t),
           Gone(t), ~Renewing'
    PROVE  Gone(t)'
<1>0. /\ Forward /\ ~overtaken' /\ ~restored' /\ link' # "down" /\ stamp'[t] = stamp[t] /\ CardTrue(t)'
  BY StepsGoForward, CardsStayTrue DEF Renewing, SameCard
<1>1. latest[t] \in Nat /\ latest'[t] \in Nat /\ latest[t] =< latest'[t] /\ stamp[t] \in Nat
      /\ latest'[t] =< stamp[t]
  BY <1>0, CountsGrow DEF CardTrue
<1>2. PICK n \in Nat : n = stamp[t]
  BY <1>1
<1>3. CASE t \notin DOMAIN drawn /\ latest[t] = stamp[t]
  <2>1. latest'[t] = stamp'[t]
    BY <1>0, <1>1, <1>3
  <2>2. t \notin DOMAIN drawn'
    <3>1. \A k \in Nat, data \in CardRows : ~Shown(t, k, data)
      BY <1>0, <1>3 DEF Shown, RowTrue
    <3> QED
      BY <1>0, <1>3, <3>1, DrawnSteps DEF DrawnStep, SameShown
  <2> QED
    BY <2>1, <2>2 DEF Gone
<1>4. CASE Told("deleted", t)
  <2>1. CASE Taken("deleted") /\ Next1.task = t
    <3>1. 1 \in 1..Len(wire) /\ wire[1] = Next1 /\ Next1.kind = "deleted" /\ Next1 \in Events
      BY <2>1, EventIs DEF Taken
    <3>2. Next1.at = stamp[t] /\ Next1.at \in Nat
      BY <2>1, <3>1, EventFields DEF Truths, EventTrue
    <3>3. latest'[t] >= Next1.at
      BY <2>1, <3>2, HeardIs DEF Taken, ReceiveDeleted, ClientTyped
    <3>4. t \notin DOMAIN drawn'
      BY <2>1 DEF Taken, ReceiveDeleted
    <3> QED
      BY <1>0, <1>1, <3>2, <3>3, <3>4 DEF Gone
  <2> QED
    BY <1>0, <1>4, <2>1, WaysOfEvents DEF Gone
<1>5. CASE FirstWay(t, stamp[t])
  <2>1. ASSUME NEW m \in answers, PageComes(m), m.first, m.at[t] >= n PROVE Gone(t)'
    <3>1. m.at[t] \in Nat /\ latest'[t] >= m.at[t] /\ m \in Replies /\ m.kind = "page" /\ PageTrue(m)
      BY <2>1, PageHeard, PageTasks
    <3>2. t \notin DOMAIN m.tasks
      BY <1>1, <1>2, <2>1, <3>1 DEF PageTrue, RowTrue
    <3>3. drawn' = m.tasks
      BY <2>1, <3>1, MergedShows DEF PageComes, ClientTyped
    <3>4. latest'[t] = stamp'[t]
      BY <1>0, <1>1, <1>2, <2>1, <3>1
    <3> QED
      BY <3>2, <3>3, <3>4 DEF Gone
  <2>2. FirstWay(t, n)' => Gone(t)'
    BY <1>0, <1>2 DEF Gone
  <2> QED
    BY <1>1, <1>2, <1>5, <2>1, <2>2, WaysOfFirst
<1> QED
  BY <1>3, <1>4, <1>5 DEF Gone

\* Where requests other than moves stay, and answers and events, so do the ways.
LEMMA WaysKept ==
    ASSUME armed \subseteq armed', answers \subseteq answers', Grown,
           \A r \in asked : r.kind # "move" => r \in asked', NEW t
    PROVE  /\ \A n : TaskWay(t, n) => TaskWay(t, n)'
           /\ \A n : FirstWay(t, n) => FirstWay(t, n)'
           /\ ChainWay(t) => ChainWay(t)'
           /\ \A k : Told(k, t) => Told(k, t)'
           /\ placed'[t] = placed[t] /\ MovedTold(t) => MovedTold(t)'
<1>1. ASSUME NEW n, TaskWay(t, n) PROVE TaskWay(t, n)'
  BY <1>1 DEF TaskWay
<1>2. ASSUME NEW n, FirstWay(t, n) PROVE FirstWay(t, n)'
  BY <1>2 DEF FirstWay
<1>3. ChainWay(t) => ChainWay(t)'
  BY DEF ChainWay, Covers
<1>4. ASSUME NEW k, Told(k, t) PROVE Told(k, t)'
  <2>1. PICK i \in 1..Len(wire) : wire[i].kind = k /\ wire[i].task = t
    BY <1>4 DEF Told
  <2>2. i \in 1..Len(wire') /\ wire'[i] = wire[i]
    BY DEF Grown
  <2> QED
    BY <2>1, <2>2 DEF Told
<1>5. ASSUME placed'[t] = placed[t], MovedTold(t) PROVE MovedTold(t)'
  <2>1. PICK i \in 1..Len(wire) : wire[i].kind = "moved" /\ wire[i].task = t /\ wire[i].at = placed[t]
    BY <1>5 DEF MovedTold
  <2>2. i \in 1..Len(wire') /\ wire'[i] = wire[i]
    BY DEF Grown
  <2> QED
    BY <1>5, <2>1, <2>2 DEF MovedTold
<1> QED
  BY <1>1, <1>2, <1>3, <1>4, <1>5

\* A task changes in a step of the server, which sends the event into the room.
LEMMA ChangeIsTold ==
    ASSUME ClientTyped, JoinsInOrder, ClientNext, ~Renewing,
           NEW t \in TaskIds, NEW e \in Events, Changed(t, e)
    PROVE  /\ drawn' = drawn /\ latest' = latest /\ armed' = armed /\ answers \subseteq answers'
           /\ Grown
           /\ \A r \in asked : r.kind # "move" \/ e.kind # "moved" => r \in asked'
           /\ \E i \in 1..Len(wire') : wire'[i] = e
<1>1. room /\ wire' = Emitted(e)
  BY DEF Renewing, JoinsInOrder, Changed
<1>2. Grown /\ Len(wire) + 1 \in 1..Len(wire') /\ wire'[Len(wire) + 1] = e
  BY <1>1, EmittedGrows
<1>3. ~CardsSame
  <2>1. stamp[t] \in Nat /\ stamp'[t] = stamp[t] + 1
    BY CountsAre DEF Changed
  <2> QED
    BY <2>1 DEF CardsSame
<1>4. CASE RemoteTask
  <2>1. ServerAlone /\ asked' = asked /\ answers' = answers
    BY <1>4, RemoteTaskIs
  <2> QED
    BY <1>2, <2>1, ServerAloneIs
<1>5. CASE AnswerMove
  <2>1. PICK r \in asked :
          /\ r.kind = "move" /\ asked' = asked \ {r} /\ answers \subseteq answers' /\ ServerAlone
          /\ (\E d \in Events : d.kind = "moved" /\ wire' = Emitted(d)) \/ CardsSame
    BY <1>5, AnswerMoveIs DEF Changed, CardsSame
  <2>2. PICK d \in Events : d.kind = "moved" /\ wire' = Emitted(d)
    BY <1>3, <2>1
  <2>3. wire'[Len(wire) + 1] = d
    BY <1>1, <2>2, EmittedGrows
  <2>4. e.kind = "moved"
    BY <1>2, <2>2, <2>3
  <2> QED
    BY <1>2, <2>1, <2>4, ServerAloneIs
<1>6. CASE ~(RemoteTask \/ AnswerMove)
  <2>1. rows' = rows /\ stamp' = stamp /\ placed' = placed
    BY <1>6, AnswerReadIs, AcceptJoinIs, RemoteColumnIs, AnswerColumnsIs, BrowserLeavesCards DEF ClientNext, CardsSame
  <2>2. stamp[t] \in Nat /\ stamp'[t] = stamp[t] + 1
    BY CountsAre DEF Changed
  <2> QED
    BY <2>1, <2>2
<1> QED
  BY <1>4, <1>5, <1>6

LEMMA ChangedComes ==
    ASSUME ClientTyped, Truths, JoinsInOrder, ClientNext, ~Renewing,
           NEW t \in TaskIds, NEW e \in Events, Changed(t, e), Coming(t)
    PROVE  Coming(t)'
<1>1. /\ drawn' = drawn /\ latest' = latest /\ armed' = armed /\ answers \subseteq answers'
      /\ Grown
      /\ \A r \in asked : r.kind # "move" \/ e.kind # "moved" => r \in asked'
      /\ \E i \in 1..Len(wire') : wire'[i] = e
  BY ChangeIsTold
<1>2. /\ e.task = t /\ e.at = stamp'[t] /\ stamp'[t] = stamp[t] + 1 /\ CardTrue(t)
      /\ stamp[t] \in Nat /\ latest[t] \in Nat
  BY CountsAre DEF Changed, Truths
<1>3. Told(e.kind, t)'
  BY <1>1, <1>2 DEF Told
<1>4. /\ \A n : TaskWay(t, n) => TaskWay(t, n)'
      /\ \A n : FirstWay(t, n) => FirstWay(t, n)'
      /\ ChainWay(t) => ChainWay(t)'
      /\ \A k : Told(k, t) => Told(k, t)'
      /\ placed'[t] = placed[t] /\ MovedTold(t) => MovedTold(t)'
  BY <1>1, WaysKept
<1>5. Presence(t) => Presence(t)'
  BY <1>1, <1>4 DEF Presence
\* A field that this change leaves alone.
<1>6. ASSUME NEW f \in Fields, t \in DOMAIN rows, t \in DOMAIN rows', Since(t, f)' = Since(t, f),
             rows'[t][f] = rows[t][f], f = "lane" => e.kind = "updated" /\ placed'[t] = placed[t],
             Field(t, f)
      PROVE  Field(t, f)'
  <2>1. PICK n : n = Since(t, f)
    OBVIOUS
  <2>2. Right(t, f) => Right(t, f)'
    BY <1>1, <1>6 DEF Right
  <2>3. TaskWay(t, n)' \/ FirstWay(t, n)' => Field(t, f)'
    BY <1>6, <2>1 DEF Field
  <2>4. f = "lane" /\ MoveWay(t) => MoveWay(t)'
    BY <1>1, <1>6 DEF MoveWay
  <2> QED
    BY <1>1, <1>4, <1>6, <2>1, <2>2, <2>3, <2>4 DEF Field
<1>7. CASE e.kind = "created"
  <2>1. t \in DOMAIN rows' /\ stamp'[t] = 1 /\ rows'[t].text = 1 /\ placed'[t] = 1
    BY <1>2, <1>7 DEF Changed
  <2>2. t \notin DOMAIN drawn
    BY <1>2, <1>7 DEF Changed, CardTrue
  <2>3. \A f \in Fields : Since(t, f)' = 1
    BY <2>1 DEF Since
  <2>4. Presence(t)' /\ \A f \in Fields : Field(t, f)'
    BY <1>1, <1>3, <1>7, <2>2, <2>3 DEF Presence, Field
  <2> QED
    BY <2>1, <2>4 DEF Coming, Fields
<1>8. CASE e.kind = "updated"
  <2>1. t \in DOMAIN rows /\ t \in DOMAIN rows' /\ rows'[t].lane = rows[t].lane /\ placed'[t] = placed[t]
    BY <1>8 DEF Changed
  <2>2. Presence(t) /\ Field(t, "lane")
    BY <2>1 DEF Coming
  <2>3. Field(t, "text")'
    BY <1>3, <1>8 DEF Field
  <2>4. Since(t, "lane")' = Since(t, "lane") /\ "lane" \in Fields
    BY <2>1 DEF Since, Fields
  <2>5. Field(t, "lane")'
    BY <1>6, <1>8, <2>1, <2>2, <2>4
  <2> QED
    BY <1>5, <2>1, <2>2, <2>3, <2>5 DEF Coming
<1>9. CASE e.kind = "moved"
  <2>1. /\ t \in DOMAIN rows /\ t \in DOMAIN rows' /\ rows'[t].text = rows[t].text
        /\ placed'[t] = stamp'[t]
    BY <1>9 DEF Changed
  <2>2. Presence(t) /\ Field(t, "text")
    BY <2>1 DEF Coming
  <2>3. MovedTold(t)'
    BY <1>1, <1>2, <1>9, <2>1 DEF MovedTold
  <2>4. Field(t, "lane")'
    BY <2>3 DEF Field
  <2>5. Since(t, "text")' = Since(t, "text") /\ "text" \in Fields /\ "text" # "lane"
    BY <2>1 DEF Since, Fields
  <2>6. Field(t, "text")'
    BY <1>6, <2>1, <2>2, <2>5
  <2> QED
    BY <1>5, <2>1, <2>2, <2>4, <2>6 DEF Coming
<1>10. CASE e.kind = "deleted"
  <2>1. t \notin DOMAIN rows'
    BY <1>10 DEF Changed
  <2> QED
    BY <1>3, <1>10, <2>1 DEF Coming, Gone
<1> QED
  BY <1>7, <1>8, <1>9, <1>10 DEF Changed

LEMMA ComingStays ==
    ASSUME ClientTyped, Truths, JoinsInOrder, ClientNext, ~Renewing, ~Renewing',
           NEW t \in TaskIds, Coming(t)
    PROVE  Coming(t)'
<1>1. CardStep(t)
  BY StepsGoForward DEF Forward
<1>2. CASE SameCard(t) /\ t \in DOMAIN rows
  <2>1. Presence(t) /\ Field(t, "text") /\ Field(t, "lane") /\ "text" \in Fields /\ "lane" \in Fields
    BY <1>2 DEF Coming, Fields
  <2>2. Presence(t)' /\ Field(t, "text")' /\ Field(t, "lane")'
    BY <1>2, <2>1, PresenceStays, FieldStays
  <2> QED
    BY <1>2, <2>2 DEF Coming, SameCard
<1>3. CASE SameCard(t) /\ t \notin DOMAIN rows
  <2>1. Gone(t)'
    BY <1>3, GoneStays DEF Coming
  <2> QED
    BY <1>3, <2>1 DEF Coming, SameCard
<1> QED
  BY <1>1, <1>2, <1>3, ChangedComes DEF CardStep

\* What is being renewed stays so until the reads of a drain are asked for.
LEMMA RenewingEnds ==
    ASSUME ClientTyped, JoinsInOrder, DrainsEnd, ClientNext, Renewing, ~Renewing'
    PROVE  DrainAsked'
<1>0. /\ link' = "joined" /\ ~skipped' /\ ~restored' /\ ~overtaken' /\ ~resync'.timer /\ ~resync'.queued
  BY DEF Renewing
<1>1. ASSUME NEW by \in Drains, StartDrain(by) PROVE DrainAsked'
  BY <1>1, StartDrainIs DEF DrainAsked
<1>2. "resync" \in Drains /\ "undo" \in Drains
  BY DEF Drains
<1>3. ASSUME link' = link, skipped => skipped', restored => restored', overtaken => overtaken',
             resync.timer => resync'.timer, resync.queued => resync'.queued \/ resync'.timer
      PROVE  FALSE
  BY <1>0, <1>3 DEF Renewing
<1>4. CASE FireResync \/ ReceiveConflict
  BY <1>1, <1>2, <1>4 DEF FireResync, ReceiveConflict
<1>5. CASE ReceiveRefused
  <2>1. restored' = TRUE \/ StartDrain("undo")
    BY <1>5 DEF ReceiveRefused
  <2> QED
    BY <1>0, <1>1, <1>2, <2>1
<1>6. CASE ReceiveAck
  <2>1. /\ skipped \/ skipped' \/ resync'.queued \/ resync'.timer
        /\ skipped => skipped'
    BY <1>6, AckAsks
  <2> QED
    BY <1>0, <2>1
<1>7. CASE RemoteTask \/ RemoteColumn \/ AnswerRead \/ AnswerMove \/ AnswerColumns \/ AcceptJoin
  <2>1. link' = link /\ skipped' = skipped /\ restored' = restored /\ overtaken' = overtaken
        /\ resync' = resync
    BY <1>7, AcceptJoinIs, ServerAloneIs DEF RemoteTask, RemoteColumn, AnswerRead, AnswerMove, AnswerColumns
  <2> QED
    BY <1>3, <2>1
<1>8. CASE \/ FireUpsert \/ StartDrag \/ Drop \/ AskColumns \/ ReceiveChange \/ ReceiveMoved
           \/ ReceiveDeleted \/ ReceiveColumns \/ ReceiveColumnList \/ ReceiveTask \/ ReceiveAccepted
  <2>1. link' = link /\ skipped' = skipped /\ restored' = restored /\ resync' = resync
    BY <1>8 DEF FireUpsert, StartDrag, Drop, AskColumns, ReceiveChange, ReceiveMoved, ReceiveDeleted,
                ReceiveColumns, ReceiveColumnList, ReceiveTask, ReceiveAccepted, lapses
  <2>2. overtaken => overtaken'
    BY <1>8 DEF FireUpsert, StartDrag, Drop, AskColumns, ReceiveChange, ReceiveMoved, ReceiveDeleted,
                ReceiveColumns, ReceiveColumnList, ReceiveTask, ReceiveAccepted, lapses, ColumnsShown
  <2> QED
    BY <1>3, <2>1, <2>2
<1>9. CASE Connect \/ Disconnect
  BY <1>0, <1>9 DEF Connect, Disconnect
\* A drain that ends while another resync is queued hands it on.
<1>10. ASSUME NEW by \in Drains, NEW p \in {"meta", "pages"}, Settle(by, p)
       PROVE  /\ resync.timer => resync'.timer
              /\ resync.queued => resync'.queued \/ resync'.timer
  <2>1. resync.queued => ~resync.fresh
    BY DEF DrainsEnd
  <2> QED
    BY <1>10, <2>1, SettleIs
<1>11. CASE ReceiveMeta
  <2>1. PICK m \in answers : Delivered(m, "meta") /\ Settle(m.by, "meta") /\ ColumnsShown(m.columns)
    BY <1>11 DEF ReceiveMeta
  <2>2. m.by \in Drains
    BY <2>1, MetaSettles
  <2>3. link' = link /\ skipped' = skipped /\ restored' = restored /\ (overtaken => overtaken')
    BY <1>11, <2>1 DEF ReceiveMeta, ColumnsShown
  <2> QED
    BY <1>3, <1>10, <2>1, <2>2, <2>3
<1>12. CASE ReceivePage
  <2>1. PICK m \in answers : PageComes(m)
    BY <1>12, PageArrives
  <2>2. m.by \in Drains
    BY <2>1, PageSettles
  <2>3. link' = link /\ skipped' = skipped /\ restored' = restored /\ (overtaken => overtaken')
    BY <2>1 DEF PageComes
  <2>4. CASE Settle(m.by, "pages")
    BY <1>3, <1>10, <2>2, <2>3, <2>4
  <2>5. CASE resync' = Painted(resync)
    BY <1>3, <2>3, <2>5, PaintedIs DEF ClientTyped
  <2> QED
    BY <2>1, <2>4, <2>5 DEF PageComes
<1> QED
  BY <1>4, <1>5, <1>6, <1>7, <1>8, <1>9, <1>11, <1>12 DEF ClientNext, ClientReceives

LEMMA ColumnsCome ==
    ASSUME ClientTyped, Truths, JoinsInOrder, ClientNext, ~Renewing, ~Renewing', ColumnWay
    PROVE  ColumnWay'
<1>0. room /\ ~overtaken' /\ link' # "down" /\ drawnCols \subseteq latestCols /\ latestCols \subseteq columnSet
  BY DEF Renewing, JoinsInOrder, Truths
\* A change of the columns is told.
<1>1. ASSUME NEW e \in Events, e.kind = "columns", wire' = Emitted(e) PROVE ColumnWay'
  <2>1. Len(wire) + 1 \in 1..Len(wire') /\ wire'[Len(wire) + 1] = e
    BY <1>0, <1>1, EmittedGrows
  <2> QED
    BY <1>1, <2>1 DEF ColumnWay
<1>2. CASE columnSet' # columnSet
  <2>1. RemoteColumn \/ AnswerColumns
    BY <1>2, RemoteTaskIs, AnswerReadIs, AnswerMoveIs, AcceptJoinIs, BrowserLeavesCards DEF ClientNext, CardsSame
  <2> QED
    BY <1>1, <1>2, <2>1, RemoteColumnIs, AnswerColumnsIs
<1>3. CASE columnSet' = columnSet
  <2>1. CASE drawnCols = columnSet
    <3>1. CASE drawnCols' = drawnCols
      BY <1>3, <2>1, <3>1 DEF ColumnWay
    <3>2. CASE ReceiveMeta \/ ReceiveColumnList
      <4>1. PICK m \in answers : m.kind \in {"meta", "columnList"} /\ ColumnsShown(m.columns)
        BY <3>2 DEF ReceiveMeta, ReceiveColumnList, Delivered
      <4>2. m.columns \subseteq columnSet /\ latestCols = columnSet
        BY <1>0, <2>1, <4>1 DEF Truths, ReplyTrue
      <4>3. drawnCols' = columnSet
        BY <1>0, <4>1, <4>2 DEF ColumnsShown
      <4> QED
        BY <1>3, <4>3 DEF ColumnWay
    <3>3. CASE ~(ReceiveMeta \/ ReceiveColumnList)
      <4>1. drawnCols' = drawnCols
        BY <3>3, AcceptJoinIs, ServerAloneIs DEF ClientNext, RemoteTask, RemoteColumn, AnswerRead, AnswerMove, AnswerColumns,
           Connect, Disconnect, FireUpsert, FireResync, StartDrag, Drop, AskColumns, ClientReceives,
           ReceivePage, ReceiveTask, ReceiveAck, ReceiveChange, ReceiveMoved, ReceiveDeleted,
           ReceiveColumns, ReceiveAccepted, ReceiveRefused, ReceiveConflict, screen
      <4> QED
        BY <3>1, <4>1
    <3> QED
      BY <3>2, <3>3
  <2>2. ASSUME NEW r \in asked, r.kind \in {"columns", "meta"} PROVE ColumnWay'
    <3>1. CASE r \in asked'
      BY <2>2, <3>1 DEF ColumnWay
    <3>2. CASE r \notin asked'
      <4>1. PICK m \in answers' : m.kind \in {"meta", "columnList"} /\ m.columns = columnSet
        BY <2>2, <3>2, AskedLeaves
      <4> QED
        BY <1>3, <4>1 DEF ColumnWay
    <3> QED
      BY <3>1, <3>2
  <2>3. ASSUME NEW i \in 1..Len(wire), wire[i].kind = "columns" PROVE ColumnWay'
    <3>1. CASE \E j \in 1..Len(wire') : wire'[j] = wire[i]
      BY <2>3, <3>1 DEF ColumnWay
    <3>2. CASE i = 1 /\ wire[1] = Next1 /\ Taken(Next1.kind)
      <4>1. asked' = asked \cup {[kind |-> "columns"]}
        BY <2>3, <3>2 DEF Taken, ReceiveColumns
      <4>2. PICK q : q = [kind |-> "columns"]
        OBVIOUS
      <4> QED
        BY <4>1, <4>2 DEF ColumnWay
    <3> QED
      BY <1>0, <3>1, <3>2, EventLeaves
  <2>4. ASSUME NEW m \in answers, m.kind \in {"meta", "columnList"}, m.columns = columnSet PROVE ColumnWay'
    <3>1. CASE m \in answers'
      BY <1>3, <2>4, <3>1 DEF ColumnWay
    <3>2. CASE m \notin answers'
      <4>1. ColumnsShown(m.columns)
        BY <2>4, <3>2, AnswerLeaves
      <4> QED
        BY <1>3, <2>4, <4>1 DEF ColumnsShown, ColumnWay
    <3> QED
      BY <3>1, <3>2
  <2> QED
    BY <2>1, <2>2, <2>3, <2>4 DEF ColumnWay
<1> QED
  BY <1>2, <1>3

LEMMA AllStaysComing ==
    ASSUME ClientTyped, Truths, JoinsInOrder, DrainsEnd, AllComing, ClientNext
    PROVE  AllComing'
<1> SUFFICES ASSUME ~Renewing' PROVE (ColumnWay /\ \A t \in TaskIds : Coming(t))'
  BY DEF AllComing
<1>1. CASE Renewing
  <2>1. DrainAsked'
    BY <1>1, RenewingEnds
  <2>2. ColumnWay'
    BY <2>1 DEF DrainAsked, ColumnWay
  <2>3. ASSUME NEW t \in TaskIds PROVE Coming(t)'
    <3>1. ChainWay(t)' /\ \A n : FirstWay(t, n)'
      BY <2>1, DrainBrings
    <3>2. Presence(t)' /\ Field(t, "text")' /\ Field(t, "lane")' /\ Gone(t)'
      BY <2>1, <3>1 DEF Presence, Field, Gone, FirstWay, DrainAsked
    <3> QED
      BY <3>2 DEF Coming
  <2> QED
    BY <2>2, <2>3
<1>2. CASE ~Renewing
  BY <1>2, ColumnsCome, ComingStays DEF AllComing
<1> QED
  BY <1>1, <1>2

-----------------------------------------------------------------------------
(* The board in a browser: the invariant *)

ClientInv == ClientTyped /\ JoinsInOrder /\ DrainsEnd /\ Truths /\ AllComing

LEMMA ClientStarts == ClientInit => ClientInv
<1> SUFFICES ASSUME ClientInit PROVE ClientInv
  OBVIOUS
<1>1. ClientTyped
  BY ClientStartsTyped
<1>2. JoinsInOrder
  BY DEF ClientInit, JoinsInOrder
<1>3. DrainsEnd
  <2>1. PICK page, meta : /\ page = [kind |-> "page", by |-> "load", after |-> 0]
                          /\ meta = [kind |-> "meta", by |-> "load"]
    OBVIOUS
  <2>2. asked = {meta, page}
    BY <2>1 DEF ClientInit, DrainCalls
  <2>3. Due("meta", "load") /\ Due("page", "load")
    BY <2>1, <2>2 DEF Due
  <2> QED
    BY <2>3 DEF ClientInit, DrainsEnd, Drains
<1>4. Truths
  <2>1. answers = {} /\ wire = <<>> /\ drawnCols = {} /\ latestCols = {}
    BY DEF ClientInit
  <2>2. \A r \in asked : RequestTrue(r)
    BY DEF ClientInit, DrainCalls, RequestTrue
  <2>3. ASSUME NEW t \in TaskIds PROVE CardTrue(t)
    <3>1. stamp[t] = (IF t \in DOMAIN rows THEN 1 ELSE 0) /\ placed[t] = stamp[t] /\ latest[t] = 0
          /\ t \notin DOMAIN drawn
      BY <2>3 DEF ClientInit, NoTasks
    <3>2. t \in DOMAIN rows => rows[t].text = 1
      BY BoardClientAssumption DEF ClientInit
    <3> QED
      BY <3>1, <3>2 DEF CardTrue
  <2>4. 1..Len(wire) = {}
    BY <2>1
  <2> QED
    BY <2>1, <2>2, <2>3, <2>4 DEF Truths
<1>5. AllComing
  BY DEF ClientInit, AllComing, Renewing
<1> QED
  BY <1>1, <1>2, <1>3, <1>4, <1>5 DEF ClientInv

LEMMA ClientStutters ==
    ASSUME ClientInv, UNCHANGED clientVars
    PROVE  ClientInv'
<1>1. /\ rows' = rows /\ stamp' = stamp /\ placed' = placed /\ columnSet' = columnSet /\ room' = room
      /\ asked' = asked /\ wire' = wire /\ answers' = answers /\ link' = link /\ drawn' = drawn
      /\ drawnCols' = drawnCols /\ loading' = loading /\ armed' = armed /\ resync' = resync
      /\ drains' = drains /\ drag' = drag /\ moves' = moves /\ owed' = owed /\ skipped' = skipped
      /\ restored' = restored /\ overtaken' = overtaken /\ latest' = latest
      /\ latestCols' = latestCols /\ acts' = acts
  BY DEF clientVars
<1>2. ClientTyped' /\ JoinsInOrder' /\ DrainsEnd'
  BY <1>1 DEF ClientInv, ClientTyped, JoinsInOrder, DrainsEnd, Due
<1>3. Truths'
  BY <1>1 DEF ClientInv, Truths, ReplyTrue, RequestTrue, CardTrue, EventTrue, PageTrue, RowTrue, Covers, Since
<1>4. AllComing'
  BY <1>1 DEF ClientInv, AllComing, Renewing, ColumnWay, Coming, Presence, Field, Right, Gone, TaskWay,
              FirstWay, ChainWay, MoveWay, Told, MovedTold, Covers, Since
<1> QED
  BY <1>2, <1>3, <1>4 DEF ClientInv

LEMMA ClientKeeps ==
    ASSUME ClientInv, [ClientNext]_clientVars
    PROVE  ClientInv'
<1>1. CASE ClientNext
  <2>1. ClientTyped'
    BY <1>1, ClientStepsTyped DEF ClientInv
  <2>2. JoinsInOrder' /\ DrainsEnd'
    BY <1>1, JoinsStepInOrder, DrainsStepEnd DEF ClientInv
  <2>3. Truths'
    BY <1>1, TruthsStay DEF ClientInv, JoinsInOrder
  <2>4. AllComing'
    BY <1>1, AllStaysComing DEF ClientInv
  <2> QED
    BY <2>1, <2>2, <2>3, <2>4 DEF ClientInv
<1>2. CASE UNCHANGED clientVars
  BY <1>2, ClientStutters
<1> QED
  BY <1>1, <1>2

LEMMA ClientTypes ==
    ASSUME ClientInv
    PROVE  ClientTypeOK
<1>1. ClientTyped /\ JoinsInOrder /\ DrainsEnd /\ Truths
  BY DEF ClientInv
<1>2. IsBoard(rows) /\ IsBoard(drawn)
  BY <1>1, BoardsAre DEF ClientTyped
<1>3. \A t \in TaskIds : latest[t] =< stamp[t]
  BY <1>1 DEF Truths, CardTrue
<1>4. resync.queued => resync.running
  BY <1>1 DEF DrainsEnd
<1> QED
  BY <1>1, <1>2, <1>3, <1>4 DEF ClientTyped, ClientTypeOK, JoinsInOrder, Truths, Counts, Resyncs

\* With nothing under way nothing is coming: what was to come is shown.
LEMMA ClientCatchesUp ==
    ASSUME ClientInv
    PROVE  BoardCatchesUp
<1> SUFFICES ASSUME AtRest, ~skipped, ~restored, ~overtaken PROVE drawn = rows /\ drawnCols = columnSet
  BY DEF BoardCatchesUp
<1>1. /\ link = "joined" /\ asked = {} /\ wire = <<>> /\ answers = {} /\ armed = {} /\ ~resync.timer
      /\ 1..Len(wire) = {}
  BY DEF AtRest
<1>2. ~resync.queued
  <2>1. SUFFICES ASSUME resync.queued PROVE FALSE
    OBVIOUS
  <2>2. drains["resync"] # {} /\ drains["resync"] \in SUBSET {"meta", "pages"} /\ "resync" \in Drains
    BY <2>1 DEF ClientInv, DrainsEnd, ClientTyped, Drains
  <2>3. Due("meta", "resync") \/ Due("page", "resync")
    BY <2>2 DEF ClientInv, DrainsEnd
  <2> QED
    BY <1>1, <2>3 DEF Due
<1>3. ColumnWay /\ \A t \in TaskIds : Coming(t)
  BY <1>1, <1>2 DEF ClientInv, AllComing, Renewing
<1>4. drawnCols = columnSet
  BY <1>1, <1>3 DEF ColumnWay
<1>5. ASSUME NEW t \in TaskIds
      PROVE  /\ t \in DOMAIN drawn <=> t \in DOMAIN rows
             /\ t \in DOMAIN rows => drawn[t].text = rows[t].text /\ drawn[t].lane = rows[t].lane
  <2>1. /\ \A n : ~TaskWay(t, n) /\ ~FirstWay(t, n)
        /\ \A k : ~Told(k, t)
        /\ ~ChainWay(t) /\ ~MoveWay(t) /\ ~MovedTold(t)
    BY <1>1 DEF TaskWay, FirstWay, ChainWay, MoveWay, Told, MovedTold
  <2>2. CASE t \in DOMAIN rows
    <3>1. t \in DOMAIN drawn
      BY <1>3, <2>1, <2>2 DEF Coming, Presence
    <3>2. Right(t, "text") /\ Right(t, "lane")
      BY <1>3, <2>1, <2>2 DEF Coming, Field
    <3> QED
      BY <2>2, <3>1, <3>2 DEF Right
  <2>3. CASE t \notin DOMAIN rows
    BY <1>3, <2>1, <2>3 DEF Coming, Gone
  <2> QED
    BY <2>2, <2>3
<1>6. drawn \in Boards /\ rows \in Boards
  BY DEF ClientInv, ClientTyped
<1>7. DOMAIN drawn = DOMAIN rows /\ DOMAIN rows \subseteq TaskIds
  BY <1>5, <1>6, BoardFacts
<1>8. \A t \in DOMAIN rows : drawn[t] = rows[t]
  <2> SUFFICES ASSUME NEW t \in DOMAIN rows PROVE drawn[t] = rows[t]
    OBVIOUS
  <2>1. drawn[t] \in CardRows /\ rows[t] \in CardRows
    BY <1>6, <1>7, BoardFacts
  <2>2. drawn[t].text = rows[t].text /\ drawn[t].lane = rows[t].lane
    BY <1>5, <1>7
  <2> QED
    BY <2>1, <2>2 DEF CardRows
<1>9. drawn = rows
  BY <1>6, <1>7, <1>8, BoardFacts
<1> QED
  BY <1>4, <1>9

-----------------------------------------------------------------------------
(* The board as a whole *)

\* A behaviour of the board is one of each of its components.
LEMMA EachComponent ==
    BoardsSpec => ColumnSpec /\ ChecklistSpec /\ LinkSpec /\ ClientSpec /\ Spec
<1>1. BoardsInit => ColumnInit /\ ChecklistInit /\ LinkInit /\ ClientInit /\ Init
  BY DEF BoardsInit
<1>2. [BoardsNext]_boardsVars =>
         /\ [ColumnNext]_columnVars /\ [ChecklistNext]_checklistVars /\ [LinkNext]_linkVars
         /\ [ClientNext]_clientVars /\ [Next]_vars
  BY DEF BoardsNext, boardsVars
<1> QED
  BY <1>1, <1>2, PTL DEF BoardsSpec, ColumnSpec, ChecklistSpec, LinkSpec, ClientSpec, Spec

\* The invariants of the components, together.
LEMMA BoardsInvariant == BoardsSpec => [](ColumnsInv /\ ListsInv /\ LinksInv /\ ClientInv)
<1>1. ChecklistSpec => []ListsInv
  BY ListsInit, ListsNext, PTL DEF ChecklistSpec
<1>2. ClientSpec => []ClientInv
  BY ClientStarts, ClientKeeps, PTL DEF ClientSpec
<1> QED
  BY <1>1, <1>2, ColumnsInvariant, LinksInvariant, EachComponent, PTL

(***************************************************************************)
(* Columns that are created, moved and seeded, and checklist rows that are  *)
(* appended, share no position, for any number of requests at a time: each  *)
(* reads the list it is put in under a lock on its parent.                  *)
(***************************************************************************)
THEOREM PositionsStayDistinct == BoardsSpec => []PositionsDistinct
<1>1. ColumnsInv /\ ListsInv => PositionsDistinct
  BY DEF ColumnsInv, ListsInv, PositionsDistinct
<1> QED
  BY <1>1, BoardsInvariant, PTL

(***************************************************************************)
(* The components keep their types: a board that is gone has no columns,    *)
(* only columns that are there have tasks, a task wears labels of its board *)
(* only, and a browser's resync waits only behind one that runs.            *)
(***************************************************************************)
THEOREM BoardsTyped == BoardsSpec => []BoardsTypeOK
<1>1. ListsInv => ChecklistTypeOK
  <2> SUFFICES ASSUME ListsInv PROVE ChecklistTypeOK
    OBVIOUS
  <2>1. PICK S \in SUBSET ListRows : row \in [S -> RowRecords]
    BY DEF ListsInv, ListsTyped
  <2>2. \A r \in DOMAIN row :
           row[r].of \in ListRows \cup {NoRow} /\ row[r].pos \in Int /\ row[r].done \in BOOLEAN
    BY <2>1 DEF RowRecords
  <2>3. \A k \in Writers : change[k] \in ChangeRecords
    BY DEF ListsInv, ListsTyped
  <2>4. \A k \in Writers :
          /\ change[k].op \in {"none", "add", "edit", "remove", "move"}
          /\ change[k].at \in {"idle", "lock", "last", "insert", "write", "read", "place", "announce"}
          /\ {change[k].id, change[k].of, change[k].after} \subseteq ListRows \cup {NoRow}
    BY <2>3 DEF ChangeRecords
  <2> QED
    BY <2>2, <2>4 DEF ListsInv, ListsTyped, ChecklistTypeOK
<1>2. ColumnsInv /\ LinksInv => ColumnTypeOK /\ LinkTypeOK
  BY SettledLinks DEF ColumnsInv, ColumnsTyped
<1>3. ColumnsInv /\ ListsInv /\ LinksInv /\ ClientInv => BoardsTypeOK
  BY <1>1, <1>2, ClientTypes DEF BoardsTypeOK
<1> QED
  BY <1>3, BoardsInvariant, PTL

(***************************************************************************)
(* useBoardData and useBoardRealtime: a browser that has joined and has     *)
(* nothing under way shows the tasks and the columns the server has, for    *)
(* any number of tasks, pages of any size, answers that come in any order   *)
(* among each other and beside the socket's events, whatever others did and *)
(* however often the connection was lost.  Excused, until the next drain:   *)
(* older data of a task, or of the columns, shown over newer; the resync a  *)
(* join drops after a recent one; the list a refused drag puts back.        *)
(***************************************************************************)
THEOREM BrowserCatchesUp == BoardsSpec => []BoardCatchesUp
BY BoardsInvariant, ClientCatchesUp, PTL

(***************************************************************************)
(* midpoint, needsRebalance and rebalancePositions together: a sibling      *)
(* query returns the rows in the very order the requests asked for, for any *)
(* number of rows and gaps, however many insertions exhaust a gap.          *)
(***************************************************************************)
THEOREM ListReadsBack == BoardsSpec => []ReadsBackAsAsked
BY OrderInvariant, OrderedReadsBack, EachComponent, PTL

=============================================================================
