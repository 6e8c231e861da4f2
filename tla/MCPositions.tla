----------------------------- MODULE MCPositions -----------------------------
(***************************************************************************)
(* One list, one writer: the arithmetic of Positions against the sequence a *)
(* person dragging rows has in mind.  `list' is what the table holds,       *)
(* `order' the reference, kept with the operators on sequences alone.       *)
(***************************************************************************)
EXTENDS Positions, SequencesExt

CONSTANTS
    Ids,     \* the rows that may be in the list
    Reach    \* bound: the largest position followed; the smallest is -Gap

ASSUME RowsAssumption == Ids \subseteq Nat \ {NoRow}

VARIABLES list, order

vars == <<list, order>>

IndexIn(s, a) == CHOOSE i \in DOMAIN s : s[i] = a

RefIndex(s, prevId, nextId) ==
    IF prevId # NoRow THEN IndexIn(s, prevId)
    ELSE IF nextId # NoRow THEN IndexIn(s, nextId) - 1
    ELSE Len(s)

Without(l, id) == [a \in DOMAIN l \ {id} |-> l[a]]

\* What a sibling query returns: at each index, the row with as many rows before it.
ReadBack(l) == [i \in 1..Cardinality(DOMAIN l) |-> CHOOSE a \in DOMAIN l : Rank(l, a) = i - 1]

Init == list = [a \in {} |-> 0] /\ order = <<>>

\* A row is created or moved into the slot between two named neighbours.
Place(id, prevId, nextId) ==
    /\ id \notin {prevId, nextId}
    /\ \E others \in {Without(list, id)}, rest \in {RemoveFirst(order, id)} :
         /\ ~NeighborNotFound(others, prevId, nextId)
         /\ \E ahead \in {AheadOf(others, prevId, nextId)} :
              /\ list' = [a \in DOMAIN others \cup {id} |->
                            IF a = id THEN OwnPosition(others, ahead)
                                      ELSE OtherPosition(others, ahead, a)]
              /\ \A a \in DOMAIN list' : list'[a] \in -Gap..Reach
              /\ order' = InsertAt(rest, RefIndex(rest, prevId, nextId) + 1, id)

Delete(id) ==
    /\ id \in DOMAIN list
    /\ list' = Without(list, id)
    /\ order' = RemoveFirst(order, id)

Next ==
    \E id \in Ids :
        \/ \E prevId, nextId \in Ids \cup {NoRow} : Place(id, prevId, nextId)
        \/ Delete(id)

Spec == Init /\ [][Next]_vars

-----------------------------------------------------------------------------

(***************************************************************************)
(* However many insertions exhaust a gap, reading the rows back by position *)
(* gives the order the requests asked for (midpoint, needsRebalance and     *)
(* rebalancePositions together).                                            *)
(***************************************************************************)
ReadsBackAsAsked == ReadBack(list) = order

=============================================================================
