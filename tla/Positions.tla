------------------------------ MODULE Positions ------------------------------
(***************************************************************************)
(* The ordering arithmetic every list of the application shares             *)
(* (apps/api/src/common/position).  A list is a function from the ids of    *)
(* its rows to their positions; the order of the list is the order of the   *)
(* positions, ties broken by id, as every sibling query asks for it.        *)
(*                                                                         *)
(* Positions are 64-bit floats in the code.  Here they are integers, in a   *)
(* unit no larger than half of MIN_GAP: halving an even distance is exact,  *)
(* halving an odd one rounds down, as a float does in its last place.       *)
(***************************************************************************)
EXTENDS Integers, FiniteSets

CONSTANTS
    Gap,     \* POSITION_GAP, in units
    MinGap   \* MIN_GAP, in units

ASSUME GapAssumption ==
    /\ Gap \in Nat
    /\ MinGap \in Nat
    /\ 2 =< MinGap
    /\ MinGap =< Gap

\* The id a request leaves out: no neighbour named, or no row created yet.
NoRow == 0

\* The order of a sibling query: ORDER BY position ASC, id ASC.
Before(list, a, b) ==
    \/ list[a] < list[b]
    \/ list[a] = list[b] /\ a < b

LastOf(list, S) ==
    IF S = {} THEN NoRow ELSE CHOOSE a \in S : \A b \in S : ~Before(list, a, b)

FirstOf(list, S) ==
    IF S = {} THEN NoRow ELSE CHOOSE a \in S : \A b \in S : ~Before(list, b, a)

(***************************************************************************)
(* The arithmetic of a slot between two neighbours, either of which may be  *)
(* missing at an end of the list.                                           *)
(***************************************************************************)
Midpoint(list, prev, next) ==
    IF prev = NoRow
    THEN IF next = NoRow THEN Gap ELSE list[next] - Gap
    ELSE IF next = NoRow THEN list[prev] + Gap ELSE (list[prev] + list[next]) \div 2

\* Slip: the exhausted gap is never noticed.
NeverRebalance(list, prev, next) == FALSE

NeedsRebalance(list, prev, next) ==
    prev # NoRow /\ next # NoRow /\ list[next] - list[prev] < MinGap

(***************************************************************************)
(* A slot is the set of rows ahead of it.  A request names the row the slot *)
(* follows, the row it precedes, both, or neither (the end of the list).    *)
(***************************************************************************)
NeighborNotFound(list, prevId, nextId) ==
    \/ prevId # NoRow /\ prevId \notin DOMAIN list
    \/ nextId # NoRow /\ nextId \notin DOMAIN list
    \/ /\ prevId # NoRow
       /\ nextId # NoRow
       /\ nextId # FirstOf(list, {a \in DOMAIN list : Before(list, prevId, a)})

\* Slip: an index off by one, the named row left behind the slot.
AheadOfOffByOne(list, prevId, nextId) ==
    {a \in DOMAIN list : prevId # NoRow => Before(list, a, prevId)}

AheadOf(list, prevId, nextId) ==
    IF prevId # NoRow THEN {a \in DOMAIN list : ~Before(list, prevId, a)}
    ELSE IF nextId # NoRow THEN {a \in DOMAIN list : Before(list, a, nextId)}
    ELSE DOMAIN list

PrevOf(list, ahead) == LastOf(list, ahead)
NextOf(list, ahead) == FirstOf(list, DOMAIN list \ ahead)

MustSpread(list, ahead) ==
    NeedsRebalance(list, PrevOf(list, ahead), NextOf(list, ahead))

\* rebalancePositions: the row at index i of the respread list is at (i + 1) * Gap,
\* and the rows behind the slot shift by one to leave it free.
Rank(list, a) == Cardinality({b \in DOMAIN list : Before(list, b, a)})

SpreadPosition(list, ahead, a) ==
    (Rank(list, a) + (IF a \in ahead THEN 1 ELSE 2)) * Gap

OwnPosition(list, ahead) ==
    IF MustSpread(list, ahead)
    THEN (Cardinality(ahead) + 1) * Gap
    ELSE Midpoint(list, PrevOf(list, ahead), NextOf(list, ahead))

\* The position every other row of the list has once the slot is taken.
OtherPosition(list, ahead, a) ==
    IF MustSpread(list, ahead) THEN SpreadPosition(list, ahead, a) ELSE list[a]

=============================================================================
