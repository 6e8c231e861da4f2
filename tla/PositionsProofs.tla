--------------------------- MODULE PositionsProofs ---------------------------
(***************************************************************************)
(* What the ordering arithmetic guarantees of every finite list, every gap  *)
(* and every slot.                                                          *)
(***************************************************************************)
EXTENDS Positions, FiniteSetTheorems, WellFoundedInduction, TLAPS

\* A list of rows as a sibling query returns it.
IsList(list) ==
    /\ IsFiniteSet(DOMAIN list)
    /\ DOMAIN list \subseteq Nat \ {NoRow}
    /\ list \in [DOMAIN list -> Int]

IsSlot(list, ahead) ==
    /\ ahead \subseteq DOMAIN list
    /\ \A a \in ahead, b \in DOMAIN list : Before(list, b, a) => b \in ahead

\* Positions in order strictly: the sibling query needs no tie-break.
Strict(list) == \A a, b \in DOMAIN list : a # b => list[a] # list[b]

-----------------------------------------------------------------------------
(* The order of a list *)

\* Before is a total order on the rows of a list: position, then id.
LEMMA BeforeIsTotal ==
    ASSUME NEW list, IsList(list)
    PROVE  /\ \A a \in DOMAIN list : ~Before(list, a, a)
           /\ \A a, b \in DOMAIN list : a # b => Before(list, a, b) \/ Before(list, b, a)
           /\ \A a, b \in DOMAIN list : ~(Before(list, a, b) /\ Before(list, b, a))
           /\ \A a, b, c \in DOMAIN list :
                 Before(list, a, b) /\ Before(list, b, c) => Before(list, a, c)
<1> DEFINE D == DOMAIN list
<1>1. /\ \A a \in D : a \in Nat
      /\ \A a \in D : list[a] \in Int
  BY DEF IsList
<1> QED
  BY <1>1 DEF Before

\* Rows ahead of one row are fewer than those ahead of a later one.
LEMMA FewerAhead ==
    ASSUME NEW list, IsList(list), NEW S \in SUBSET (DOMAIN list),
           NEW a \in S, NEW b \in S, Before(list, a, b)
    PROVE  /\ Cardinality({x \in S : Before(list, x, a)}) \in Nat
           /\ Cardinality({x \in S : Before(list, x, b)}) \in Nat
           /\ Cardinality({x \in S : Before(list, x, a)})
                < Cardinality({x \in S : Before(list, x, b)})
<1> DEFINE P == {x \in S : Before(list, x, a)}
           Q == {x \in S : Before(list, x, b)}
<1>1. IsFiniteSet(S)
  BY FS_Subset DEF IsList
<1>2. IsFiniteSet(P) /\ IsFiniteSet(Q)
  <2>1. P \in SUBSET S /\ Q \in SUBSET S
    OBVIOUS
  <2> HIDE DEF P, Q
  <2> QED
    BY <1>1, <2>1, FS_Subset
<1>3. P \in SUBSET Q
  BY BeforeIsTotal
<1>4. a \in Q /\ a \notin P
  BY BeforeIsTotal
<1> HIDE DEF P, Q
<1>5. Cardinality(P) \in Nat /\ Cardinality(Q) \in Nat
  BY <1>2, FS_CardinalityType
<1>6. Cardinality(P) <= Cardinality(Q) /\ Cardinality(P) # Cardinality(Q)
  BY <1>2, <1>3, <1>4, FS_Subset
<1> QED
  BY <1>5, <1>6 DEF P, Q

\* Every set of naturals that is not empty has a least element.
LEMMA LeastOfNat ==
    ASSUME NEW T, T \subseteq Nat, T # {}
    PROVE  \E n \in T : \A m \in T : n <= m
<1> DEFINE R == OpToRel(<, Nat)
<1>1. IsWellFoundedOn(R, Nat)
  BY NatLessThanWellFounded
<1>2. \A m, n \in Nat : m < n => <<m, n>> \in R
  BY DEF OpToRel
<1> HIDE DEF R
<1>3. PICK n \in T : \A m \in T : ~(<<m, n>> \in R)
  BY <1>1, WFMin
<1>4. ASSUME NEW m \in T
      PROVE  n <= m
  <2>1. m \in Nat /\ n \in Nat
    OBVIOUS
  <2>2. ~(m < n)
    BY <1>2, <1>3, <2>1
  <2> QED
    BY <2>1, <2>2
<1> QED
  BY <1>4

\* A set of rows that is not empty has a first and a last one.
LEMMA EndsExist ==
    ASSUME NEW list, IsList(list), NEW S \in SUBSET (DOMAIN list), S # {}
    PROVE  /\ FirstOf(list, S) \in S /\ \A b \in S : ~Before(list, b, FirstOf(list, S))
           /\ LastOf(list, S) \in S /\ \A b \in S : ~Before(list, LastOf(list, S), b)
<1> DEFINE Rk(a) == Cardinality({x \in S : Before(list, x, a)})
           N == Cardinality(S)
           Ranks == {Rk(a) : a \in S}
           Co == {N - Rk(a) : a \in S}
<1>1. IsFiniteSet(S)
  BY FS_Subset DEF IsList
<1>2. N \in Nat
  BY <1>1, FS_CardinalityType
<1>3. ASSUME NEW a \in S
      PROVE  Rk(a) \in Nat /\ Rk(a) <= N
  <2>1. {x \in S : Before(list, x, a)} \in SUBSET S
    OBVIOUS
  <2> QED
    BY <1>1, <2>1, FS_Subset, FS_CardinalityType
<1>4. \A a, b \in S : Before(list, a, b) => Rk(a) < Rk(b)
  BY FewerAhead
<1> HIDE DEF Rk, N
<1>5. \E a \in S : \A b \in S : ~Before(list, b, a)
  <2>1. Ranks \in SUBSET Nat /\ Ranks # {}
    BY <1>3
  <2>2. PICK n \in Ranks : \A m \in Ranks : n <= m
    BY <2>1, LeastOfNat
  <2>3. PICK a \in S : n = Rk(a)
    OBVIOUS
  <2>4. \A b \in S : Rk(b) \in Ranks
    OBVIOUS
  <2>5. ASSUME NEW b \in S, Before(list, b, a)
        PROVE  FALSE
    <3>1. Rk(a) <= Rk(b)
      BY <2>2, <2>3, <2>4
    <3> QED
      BY <1>3, <1>4, <2>5, <3>1
  <2> QED
    BY <2>5
<1>6. \E a \in S : \A b \in S : ~Before(list, a, b)
  <2>1. Co \in SUBSET Nat /\ Co # {}
    BY <1>2, <1>3
  <2>2. PICK n \in Co : \A m \in Co : n <= m
    BY <2>1, LeastOfNat
  <2>3. PICK a \in S : n = N - Rk(a)
    OBVIOUS
  <2>4. \A b \in S : N - Rk(b) \in Co
    OBVIOUS
  <2>5. ASSUME NEW b \in S, Before(list, a, b)
        PROVE  FALSE
    <3>1. N - Rk(a) <= N - Rk(b)
      BY <2>2, <2>3, <2>4
    <3> QED
      BY <1>2, <1>3, <1>4, <2>5, <3>1
  <2> QED
    BY <2>5
<1> QED
  BY <1>5, <1>6 DEF FirstOf, LastOf

-----------------------------------------------------------------------------
(* The slot of a request *)

\* What a request names is a slot: whatever is above a row of it is in it too.
LEMMA RequestedSlot ==
    ASSUME NEW list, IsList(list), NEW prevId, NEW nextId,
           ~NeighborNotFound(list, prevId, nextId)
    PROVE  IsSlot(list, AheadOf(list, prevId, nextId))
<1>1. /\ prevId # NoRow => prevId \in DOMAIN list
      /\ nextId # NoRow => nextId \in DOMAIN list
  BY DEF NeighborNotFound
<1>2. CASE prevId # NoRow
  BY <1>1, <1>2, BeforeIsTotal DEF IsSlot, AheadOf
<1>3. CASE prevId = NoRow /\ nextId # NoRow
  BY <1>1, <1>3, BeforeIsTotal DEF IsSlot, AheadOf
<1>4. CASE prevId = NoRow /\ nextId = NoRow
  BY <1>4 DEF IsSlot, AheadOf
<1> QED
  BY <1>2, <1>3, <1>4

\* The neighbours of a slot are its last row and the first row behind it.
LEMMA SlotNeighbours ==
    ASSUME NEW list, IsList(list), NEW ahead, IsSlot(list, ahead)
    PROVE  /\ ahead = {} => PrevOf(list, ahead) = NoRow
           /\ ahead # {} => PrevOf(list, ahead) \in ahead
           /\ \A a \in ahead : list[a] =< list[PrevOf(list, ahead)]
           /\ DOMAIN list = ahead => NextOf(list, ahead) = NoRow
           /\ DOMAIN list # ahead => NextOf(list, ahead) \in DOMAIN list \ ahead
           /\ \A a \in DOMAIN list \ ahead : list[NextOf(list, ahead)] =< list[a]
           /\ \A a \in ahead, b \in DOMAIN list \ ahead : Before(list, a, b)
<1> DEFINE D == DOMAIN list
<1>1. ahead \in SUBSET D /\ D \ ahead \in SUBSET D
  BY DEF IsSlot
<1>2. \A a \in D : list[a] \in Int /\ a \in Nat
  BY DEF IsList
<1>3. ahead # {} => /\ PrevOf(list, ahead) \in ahead
                    /\ \A a \in ahead : ~Before(list, PrevOf(list, ahead), a)
  BY <1>1, EndsExist DEF PrevOf
<1>4. D \ ahead # {} => /\ NextOf(list, ahead) \in D \ ahead
                        /\ \A a \in D \ ahead : ~Before(list, a, NextOf(list, ahead))
  BY <1>1, EndsExist DEF NextOf
<1>5. \A a, b \in D : ~Before(list, a, b) => list[b] =< list[a]
  BY <1>2 DEF Before
<1>6. \A a \in ahead, b \in D \ ahead : Before(list, a, b)
  BY <1>1, BeforeIsTotal DEF IsSlot
<1>7. ahead = {} => PrevOf(list, ahead) = NoRow
  BY DEF PrevOf, LastOf
<1>8. D = ahead => NextOf(list, ahead) = NoRow
  BY DEF NextOf, FirstOf
<1> QED
  BY <1>1, <1>3, <1>4, <1>5, <1>6, <1>7, <1>8

\* Indexes a list is respread by stay in order when they are scaled by the gap.
LEMMA ScaledByGap ==
    ASSUME NEW x \in Int, NEW y \in Int, x < y
    PROVE  x * Gap \in Int /\ y * Gap \in Int /\ x * Gap < y * Gap
BY GapAssumption

\* A slot that has room: halving it, or stepping past an end, keeps the order.
LEMMA RoomySlot ==
    ASSUME NEW list, IsList(list), Strict(list), NEW ahead, IsSlot(list, ahead),
           ~MustSpread(list, ahead)
    PROVE  /\ OwnPosition(list, ahead) \in Int
           /\ \A a \in ahead : list[a] < OwnPosition(list, ahead)
           /\ \A a \in DOMAIN list \ ahead : OwnPosition(list, ahead) < list[a]
<1> DEFINE D == DOMAIN list
           p == PrevOf(list, ahead)
           n == NextOf(list, ahead)
           own == OwnPosition(list, ahead)
<1>1. /\ \A a \in D : list[a] \in Int /\ a # NoRow
      /\ ahead \subseteq D
  BY DEF IsList, IsSlot
<1>2. own = Midpoint(list, p, n)
  BY DEF OwnPosition
<1>3. /\ ahead = {} => p = NoRow
      /\ ahead # {} => p \in ahead
      /\ \A a \in ahead : list[a] =< list[p]
      /\ D = ahead => n = NoRow
      /\ D # ahead => n \in D \ ahead
      /\ \A a \in D \ ahead : list[n] =< list[a]
  BY SlotNeighbours
<1>4. Gap \in Nat /\ MinGap \in Nat /\ 2 =< MinGap /\ MinGap =< Gap
  BY GapAssumption
<1> HIDE DEF p, n, own
<1>5. CASE ahead = {} /\ D = ahead
  BY <1>1, <1>2, <1>3, <1>4, <1>5 DEF Midpoint, own
<1>6. CASE ahead = {} /\ D # ahead
  <2>1. n \in D /\ n # NoRow /\ list[n] \in Int /\ own = list[n] - Gap
    BY <1>1, <1>2, <1>3, <1>6 DEF Midpoint
  <2> QED
    BY <1>1, <1>3, <1>4, <1>6, <2>1 DEF own
<1>7. CASE ahead # {} /\ D = ahead
  <2>1. p \in D /\ p # NoRow /\ list[p] \in Int /\ own = list[p] + Gap
    BY <1>1, <1>2, <1>3, <1>7 DEF Midpoint
  <2> QED
    BY <1>1, <1>3, <1>4, <1>7, <2>1 DEF own
<1>8. CASE ahead # {} /\ D # ahead
  <2>1. /\ p \in D /\ n \in D /\ p # NoRow /\ n # NoRow
        /\ list[p] \in Int /\ list[n] \in Int
        /\ own = (list[p] + list[n]) \div 2
    BY <1>1, <1>2, <1>3, <1>8 DEF Midpoint
  <2>2. list[n] - list[p] >= MinGap
    BY <1>4, <2>1 DEF MustSpread, NeedsRebalance, p, n
  <2>3. own \in Int /\ list[p] < own /\ own < list[n]
    BY <1>4, <2>1, <2>2
  <2> QED
    BY <1>1, <1>3, <1>8, <2>1, <2>3 DEF own
<1> QED
  BY <1>5, <1>6, <1>7, <1>8

\* A slot without room: the respread list is in the same order, the slot left free.
LEMMA SpreadSlot ==
    ASSUME NEW list, IsList(list), Strict(list), NEW ahead, IsSlot(list, ahead)
    PROVE  LET own == (Cardinality(ahead) + 1) * Gap
               at(a) == SpreadPosition(list, ahead, a)
           IN  /\ own \in Int
               /\ \A a \in DOMAIN list : at(a) \in Int
               /\ \A a, b \in DOMAIN list : list[a] < list[b] => at(a) < at(b)
               /\ \A a \in ahead : at(a) < own
               /\ \A a \in DOMAIN list \ ahead : own < at(a)
<1> DEFINE D == DOMAIN list
           R(a) == Rank(list, a)
           I(a) == R(a) + (IF a \in ahead THEN 1 ELSE 2)
           N == Cardinality(ahead)
<1>1. /\ IsFiniteSet(D) /\ ahead \in SUBSET D
      /\ \A a \in D : list[a] \in Int
  BY DEF IsList, IsSlot
<1>2. IsFiniteSet(ahead) /\ N \in Nat
  BY <1>1, FS_Subset, FS_CardinalityType
<1>3. \A a \in D : R(a) \in Nat
  <2> TAKE a \in D
  <2>1. {b \in D : Before(list, b, a)} \in SUBSET D
    OBVIOUS
  <2> QED
    BY <1>1, <2>1, FS_Subset, FS_CardinalityType DEF Rank
<1>4. \A a, b \in D : Before(list, a, b) => R(a) < R(b)
  BY FewerAhead DEF Rank
<1>5. \A a \in ahead : R(a) + 1 =< N
  <2> TAKE a \in ahead
  <2> DEFINE S == {b \in D : Before(list, b, a)}
  <2>1. S \in SUBSET ahead /\ a \notin S
    BY <1>1, BeforeIsTotal DEF IsSlot
  <2>2. R(a) = Cardinality(S)
    BY DEF Rank
  <2> HIDE DEF S
  <2>3. Cardinality(S) =< N /\ Cardinality(S) # N
    BY <1>2, <2>1, FS_Subset
  <2> QED
    BY <1>1, <1>2, <1>3, <2>2, <2>3
<1>6. \A a \in D \ ahead : N =< R(a)
  <2> TAKE a \in D \ ahead
  <2> DEFINE S == {b \in D : Before(list, b, a)}
  <2>1. S \in SUBSET D /\ ahead \in SUBSET S
    BY <1>1, SlotNeighbours
  <2>2. R(a) = Cardinality(S)
    BY DEF Rank
  <2> HIDE DEF S
  <2> QED
    BY <1>1, <2>1, <2>2, FS_Subset
<1>7. \A a, b \in D : list[a] < list[b] => Before(list, a, b)
  BY DEF Before
<1> HIDE DEF R, N, D
<1>8. \A a \in D : I(a) \in Int
  BY <1>3
<1>9. \A a, b \in D : list[a] < list[b] => I(a) < I(b)
  <2>1. SUFFICES ASSUME NEW a \in D, NEW b \in D, list[a] < list[b]
                 PROVE  I(a) < I(b)
    OBVIOUS
  <2>2. R(a) < R(b) /\ R(a) \in Nat /\ R(b) \in Nat
    BY <1>3, <1>4, <1>7, <2>1
  <2>3. b \in ahead => a \in ahead
    BY <1>7, <2>1 DEF IsSlot, D
  <2> QED
    BY <2>2, <2>3
<1>10. \A a \in ahead : I(a) < N + 1
  BY <1>1, <1>2, <1>3, <1>5
<1>11. \A a \in D \ ahead : N + 1 < I(a)
  BY <1>2, <1>3, <1>6
<1>12. N + 1 \in Int
  BY <1>2
<1>13. \A a \in D : SpreadPosition(list, ahead, a) = I(a) * Gap
  BY DEF SpreadPosition, R
<1>14. (N + 1) * Gap \in Int /\ \A a \in D : I(a) * Gap \in Int
  BY <1>8, <1>12, GapAssumption
<1> HIDE DEF I
<1>15. \A a, b \in D : list[a] < list[b] => I(a) * Gap < I(b) * Gap
  BY <1>8, <1>9, ScaledByGap
<1>16. \A a \in ahead : I(a) * Gap < (N + 1) * Gap
  BY <1>1, <1>8, <1>10, <1>12, ScaledByGap
<1>17. \A a \in D \ ahead : (N + 1) * Gap < I(a) * Gap
  BY <1>8, <1>11, <1>12, ScaledByGap
<1> QED
  BY <1>1, <1>13, <1>14, <1>15, <1>16, <1>17 DEF D, N

(***************************************************************************)
(* Whatever the list and the slot, taking the slot puts the new row below   *)
(* every row ahead of it and over every other one, and leaves the others in *)
(* the order they were in (task.service.ts:116-132, 346-396).               *)
(***************************************************************************)
THEOREM SlotTaken ==
    ASSUME NEW list, IsList(list), Strict(list), NEW ahead, IsSlot(list, ahead)
    PROVE  LET own == OwnPosition(list, ahead)
               at(a) == OtherPosition(list, ahead, a)
           IN  /\ own \in Int
               /\ \A a \in DOMAIN list : at(a) \in Int
               /\ \A a, b \in DOMAIN list : list[a] < list[b] => at(a) < at(b)
               /\ \A a \in ahead : at(a) < own
               /\ \A a \in DOMAIN list \ ahead : own < at(a)
<1>1. CASE MustSpread(list, ahead)
  BY <1>1, SpreadSlot DEF OwnPosition, OtherPosition
<1>2. CASE ~MustSpread(list, ahead)
  <2>1. \A a \in DOMAIN list : OtherPosition(list, ahead, a) = list[a]
    BY <1>2 DEF OtherPosition
  <2>2. ahead \subseteq DOMAIN list /\ \A a \in DOMAIN list : list[a] \in Int
    BY DEF IsSlot, IsList
  <2> QED
    BY <1>2, <2>1, <2>2, RoomySlot
<1> QED
  BY <1>1, <1>2

\* The list once a row has taken a slot of it.
LEMMA RowInSlot ==
    ASSUME NEW l, IsList(l), Strict(l), NEW ahead, IsSlot(l, ahead),
           NEW id \in Nat \ {NoRow}, id \notin DOMAIN l,
           NEW w, w = [a \in DOMAIN l \cup {id} |->
                         IF a = id THEN OwnPosition(l, ahead) ELSE OtherPosition(l, ahead, a)]
    PROVE  /\ IsList(w) /\ Strict(w) /\ DOMAIN w = DOMAIN l \cup {id}
           /\ \A a, b \in DOMAIN l : Before(l, a, b) => Before(w, a, b)
           /\ \A a \in ahead : Before(w, a, id)
           /\ \A a \in DOMAIN l \ ahead : Before(w, id, a)
<1> DEFINE own == OwnPosition(l, ahead)
           at(a) == OtherPosition(l, ahead, a)
<1>1. /\ own \in Int
      /\ \A a \in DOMAIN l : at(a) \in Int
      /\ \A a, b \in DOMAIN l : l[a] < l[b] => at(a) < at(b)
      /\ \A a \in ahead : at(a) < own
      /\ \A a \in DOMAIN l \ ahead : own < at(a)
  BY SlotTaken
<1>2. /\ ahead \subseteq DOMAIN l
      /\ \A a \in DOMAIN l : l[a] \in Int
      /\ DOMAIN l \subseteq Nat \ {NoRow}
  BY DEF IsSlot, IsList
<1>3. \A a, b \in DOMAIN l : a # b => l[a] < l[b] \/ l[b] < l[a]
  BY <1>2 DEF Strict
<1> HIDE DEF own, at
<1>4. /\ DOMAIN w = DOMAIN l \cup {id}
      /\ w[id] = own
      /\ \A a \in DOMAIN l : w[a] = at(a)
  BY DEF own, at
<1>5. w = [a \in DOMAIN l \cup {id} |-> w[a]]
  BY DEF own, at
<1>6. w \in [DOMAIN l \cup {id} -> Int]
  BY <1>1, <1>4, <1>5
<1>7. IsList(w)
  <2>1. IsFiniteSet(DOMAIN l \cup {id})
    BY FS_AddElement DEF IsList
  <2> QED
    BY <1>2, <1>4, <1>6, <2>1 DEF IsList
<1>8. \A a, b \in DOMAIN w : a # b => w[a] < w[b] \/ w[b] < w[a]
  BY <1>1, <1>2, <1>3, <1>4
<1>9. Strict(w)
  BY <1>1, <1>4, <1>8 DEF Strict
<1>10. \A a, b \in DOMAIN l : Before(l, a, b) => Before(w, a, b)
  <2> SUFFICES ASSUME NEW a \in DOMAIN l, NEW b \in DOMAIN l, Before(l, a, b)
               PROVE  Before(w, a, b)
    OBVIOUS
  <2>1. a # b
    BY BeforeIsTotal
  <2>2. l[a] < l[b]
    BY <1>2, <1>3, <2>1 DEF Before
  <2> QED
    BY <1>1, <1>4, <2>2 DEF Before
<1> QED
  BY <1>1, <1>2, <1>4, <1>7, <1>9, <1>10 DEF Before

\* Where an append puts its row: behind every row of the list it read.
LEMMA AppendedLast ==
    ASSUME NEW l, IsList(l)
    PROVE  LET end == (IF LastOf(l, DOMAIN l) = NoRow THEN 0 ELSE l[LastOf(l, DOMAIN l)]) + Gap
           IN  end \in Int /\ \A r \in DOMAIN l : l[r] < end
<1> DEFINE last == LastOf(l, DOMAIN l)
<1>1. CASE DOMAIN l = {}
  BY <1>1, GapAssumption DEF LastOf
<1>2. CASE DOMAIN l # {}
  <2>1. last \in DOMAIN l /\ \A r \in DOMAIN l : ~Before(l, last, r)
    BY <1>2, EndsExist
  <2>2. last # NoRow /\ \A r \in DOMAIN l : l[r] \in Int
    BY <2>1 DEF IsList
  <2>3. \A r \in DOMAIN l : l[r] =< l[last]
    BY <2>1, <2>2 DEF Before
  <2> HIDE DEF last
  <2>4. l[last] + Gap \in Int /\ \A r \in DOMAIN l : l[r] < l[last] + Gap
    BY <2>1, <2>2, <2>3, GapAssumption
  <2> QED
    BY <2>2, <2>4 DEF last
<1> QED
  BY <1>1, <1>2

-----------------------------------------------------------------------------
\* How many of S are at most c.
UpTo(S, c) == Cardinality({d \in S : d =< c})

LEMMA UpToIs ==
    ASSUME NEW S \in SUBSET Nat, IsFiniteSet(S), NEW c
    PROVE  UpTo(S, c) \in Nat /\ UpTo(S, c) =< Cardinality(S) /\ Cardinality(S) \in Nat
BY FS_Subset, FS_CardinalityType DEF UpTo

LEMMA UpToGrows ==
    ASSUME NEW S \in SUBSET Nat, IsFiniteSet(S), NEW c \in S, NEW d \in S, c < d
    PROVE  UpTo(S, c) < UpTo(S, d)
<1> DEFINE C == {x \in S : x =< c}
           D == {x \in S : x =< d}
<1>1. c \in Nat /\ d \in Nat
  OBVIOUS
<1>2. C \in SUBSET D
  <2> SUFFICES ASSUME NEW x \in C PROVE x \in D
    OBVIOUS
  <2>1. x \in Nat /\ x =< c
    OBVIOUS
  <2> QED
    BY <1>1, <2>1
<1>3. d \in D /\ d \notin C
  BY <1>1
<1>4. IsFiniteSet(D) /\ IsFiniteSet(C)
  BY FS_Subset
<1> HIDE DEF C, D
<1>5. Cardinality(C) =< Cardinality(D) /\ Cardinality(C) # Cardinality(D)
  BY <1>2, <1>3, <1>4, FS_Subset
<1>6. Cardinality(C) \in Nat /\ Cardinality(D) \in Nat
  BY <1>4, FS_CardinalityType
<1> QED
  BY <1>5, <1>6 DEF UpTo, C, D

\* The least of a set is the only one up to it.
LEMMA UpToLeast ==
    ASSUME NEW S \in SUBSET Nat, IsFiniteSet(S), NEW m \in S, \A x \in S : m =< x
    PROVE  UpTo(S, m) = 1
<1>1. {d \in S : d =< m} = {m}
  <2>1. ASSUME NEW d \in S, d =< m PROVE d = m
    <3>1. d \in Nat /\ m \in Nat /\ m =< d
      OBVIOUS
    <3> QED
      BY <2>1, <3>1
  <2>2. m =< m
    OBVIOUS
  <2> QED
    BY <2>1, <2>2
<1> QED
  BY <1>1, FS_Singleton DEF UpTo

LEMMA GreatestOfNat ==
    ASSUME NEW S \in SUBSET Nat, S # {}, IsFiniteSet(S)
    PROVE  \E c \in S : \A d \in S : d =< c
<1> DEFINE Left(c) == Cardinality(S) - UpTo(S, c)
           Lefts == {Left(c) : c \in S}
<1>1. \A c \in S : Left(c) \in Nat
  BY UpToIs
<1>2. Lefts \subseteq Nat /\ Lefts # {}
  BY <1>1
<1>3. PICK m \in Lefts : \A n \in Lefts : m <= n
  BY <1>2, LeastOfNat
<1>4. PICK c \in S : m = Left(c)
  OBVIOUS
<1>5. ASSUME NEW d \in S PROVE d =< c
  <2>1. Left(c) =< Left(d)
    BY <1>3, <1>4
  <2>2. UpTo(S, d) =< UpTo(S, c)
    <3>1. UpTo(S, c) \in Nat /\ UpTo(S, d) \in Nat /\ Cardinality(S) \in Nat
      BY UpToIs
    <3> QED
      BY <2>1, <3>1
  <2>3. ~(c < d)
    <3> SUFFICES ASSUME c < d PROVE FALSE
      OBVIOUS
    <3>1. UpTo(S, c) < UpTo(S, d)
      BY UpToGrows
    <3>2. UpTo(S, c) \in Nat /\ UpTo(S, d) \in Nat
      BY UpToIs
    <3> QED
      BY <2>2, <3>1, <3>2
  <2>4. c \in Nat /\ d \in Nat
    OBVIOUS
  <2> QED
    BY <2>3, <2>4
<1> QED
  BY <1>5

=============================================================================
