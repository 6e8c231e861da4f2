---------------------------- MODULE FarewellProofs ----------------------------
(***************************************************************************)
(* Proofs about Farewell, for any number of workspaces and of people: its   *)
(* types, and that the account that is deleted leaves every workspace       *)
(* either gone or owned by somebody who is still there, and no room with    *)
(* its socket in it.                                                        *)
(***************************************************************************)
EXTENDS Farewell, FiniteSetTheorems, TLAPS

-----------------------------------------------------------------------------
(* Types *)

Stages == {"idle", "list", "count", "settle", "commit", "evict"}
Answers == UNION {[S -> Choices] : S \in SUBSET Teams}
Heirs == UNION {[S -> Mates] : S \in SUBSET Teams}

Farewells ==
    [step : Stages, answers : Answers, sole : SUBSET Teams, other : SUBSET Teams,
     todo : SUBSET Teams, heirs : Heirs, evict : SUBSET Teams]

Dialogs ==
    [state : {"closed", "loading", "shown", "failed"}, owned : SUBSET Teams,
     heirs : [Teams -> SUBSET Mates], decisions : [Teams -> Choices], pending : BOOLEAN]

Typed ==
    /\ seat \in [Teams -> [Folk -> Ranked]]
    /\ account \in {"live", "gone"}
    /\ sockets \subseteq Teams /\ farewells \subseteq Teams
    /\ dialog \in Dialogs
    /\ farewell \in Farewells
    /\ farewell.todo \subseteq farewell.sole
    /\ farewell.step \in {"idle", "list", "count"} => farewell.todo = {}
    /\ crossed \in BOOLEAN /\ stirs \in 0..MaxStirs

(***************************************************************************)
(* No request is a request.                                                 *)
(***************************************************************************)
LEMMA IdleTyped == NoErasing \in Farewells /\ NoErasing.todo = {} /\ NoErasing.evict = {}
<1>1. NoAnswers \in [{} -> Choices] /\ NoAnswers \in [{} -> Mates]
  BY DEF NoAnswers
<1>2. NoAnswers \in Answers /\ NoAnswers \in Heirs
  BY <1>1 DEF Answers, Heirs
<1> QED BY <1>2 DEF NoErasing, Farewells, Stages

(***************************************************************************)
(* The types hold when the dialog has not been opened yet.                  *)
(***************************************************************************)
LEMMA InitTyped == FarewellInit => Typed
<1> SUFFICES ASSUME FarewellInit PROVE Typed
  OBVIOUS
<1>1. sockets \subseteq Teams
  BY DEF FarewellInit, Mine
<1>2. dialog \in Dialogs
  BY DEF FarewellInit, Dialogs, Choices
<1>3. stirs \in 0..MaxStirs
  BY MatesAssumption DEF FarewellInit
<1> QED BY <1>1, <1>2, <1>3, IdleTyped DEF FarewellInit, Typed

(***************************************************************************)
(* The steps of the dialog keep the types.                                  *)
(***************************************************************************)
LEMMA DialogTyped ==
    ASSUME Typed,
           OpenDialog \/ CloseDialog \/ Preview \/ PreviewFails \/ Decide \/ Confirm
    PROVE  Typed'
<1>1. CASE OpenDialog \/ CloseDialog \/ PreviewFails
  <2>1. dialog' \in Dialogs
    BY <1>1 DEF Typed, Dialogs, OpenDialog, CloseDialog, PreviewFails
  <2> QED BY <1>1, <2>1 DEF Typed, OpenDialog, CloseDialog, PreviewFails, DialogOnly
<1>2. CASE Preview
  <2>1. [w \in Teams |-> Candidates(w)] \in [Teams -> SUBSET Mates]
    BY DEF Candidates, Members, Folk
  <2>2. {w \in Owned : FewOwners(w)} \subseteq Teams
    BY DEF Owned
  <2>3. dialog' \in Dialogs
    <3> DEFINE owned == {w \in Owned : FewOwners(w)}
               heirs == [w \in Teams |-> Candidates(w)]
    <3>1. dialog' = [dialog EXCEPT !.state = "shown", !.owned = owned, !.heirs = heirs]
      BY <1>2 DEF Preview
    <3> HIDE DEF owned, heirs
    <3>2. owned \in SUBSET Teams /\ heirs \in [Teams -> SUBSET Mates]
      BY <2>1, <2>2 DEF owned, heirs
    <3> QED BY <3>1, <3>2 DEF Typed, Dialogs
  <2> QED BY <1>2, <2>3 DEF Typed, Preview, DialogOnly
<1>3. CASE Decide
  <2>1. PICK w \in dialog.owned :
            \E choice \in dialog.heirs[w] \cup {Undecided, Destroy} :
                dialog' = [dialog EXCEPT !.decisions[w] = choice]
    BY <1>3 DEF Decide
  <2>2. PICK choice \in dialog.heirs[w] \cup {Undecided, Destroy} :
            dialog' = [dialog EXCEPT !.decisions[w] = choice]
    BY <2>1
  <2>3. w \in Teams /\ choice \in Choices
    BY DEF Typed, Dialogs, Choices
  <2>4. dialog' \in Dialogs
    BY <2>2, <2>3 DEF Typed, Dialogs
  <2> QED BY <1>3, <2>4 DEF Typed, Decide, DialogOnly
<1>4. CASE Confirm
  <2> DEFINE answers == [w \in dialog.owned |-> dialog.decisions[w]]
  <2>1. answers \in [dialog.owned -> Choices] /\ dialog.owned \in SUBSET Teams
    BY DEF Typed, Dialogs
  <2>2. answers \in Answers
    BY <2>1 DEF Answers
  <2>3. dialog' \in Dialogs
    BY <1>4 DEF Typed, Dialogs, Confirm
  <2>4. farewell' = [NoErasing EXCEPT !.step = "list", !.answers = answers]
    BY <1>4 DEF Confirm
  <2> HIDE DEF answers
  <2>5. farewell' \in Farewells /\ farewell'.todo = {}
    BY <2>2, <2>4, IdleTyped DEF Farewells, Stages
  <2> QED BY <1>4, <2>3, <2>5 DEF Typed, Confirm
<1> QED BY <1>1, <1>2, <1>3, <1>4

(***************************************************************************)
(* A request that is refused leaves the types.                              *)
(***************************************************************************)
LEMMA RefuseTyped ==
    ASSUME Typed, Refuse, UNCHANGED stirs
    PROVE  Typed'
<1>1. dialog' \in Dialogs
  BY DEF Typed, Dialogs, Refuse
<1> QED BY <1>1, IdleTyped DEF Typed, Refuse

(***************************************************************************)
(* A request that goes on to a well-formed one leaves the types.            *)
(***************************************************************************)
LEMMA OnwardTyped ==
    ASSUME Typed, NEW request, Onward(request), UNCHANGED stirs,
           request \in Farewells, request.todo \subseteq request.sole,
           request.step \in {"idle", "list", "count"} => request.todo = {}
    PROVE  Typed'
BY DEF Typed, Onward

-----------------------------------------------------------------------------
(* What becomes of a workspace *)

Spent(w) == [farewell EXCEPT !.todo = @ \ {w}]

Handed(w) ==
    [Spent(w) EXCEPT !.heirs = [u \in DOMAIN @ \cup {w} |->
                                    IF u = w THEN farewell.answers[w] ELSE @[u]]]

(***************************************************************************)
(* A workspace that is dealt with is no longer to be dealt with.            *)
(***************************************************************************)
LEMMA SpentIs ==
    ASSUME Typed, NEW w \in Teams
    PROVE  /\ Spent(w) \in Farewells
           /\ Spent(w).todo = farewell.todo \ {w}
           /\ Spent(w).heirs = farewell.heirs
           /\ Spent(w).step = farewell.step /\ Spent(w).answers = farewell.answers
           /\ Spent(w).sole = farewell.sole /\ Spent(w).other = farewell.other
BY DEF Typed, Farewells, Spent

(***************************************************************************)
(* One that is handed on has its heir, and the others have theirs.          *)
(***************************************************************************)
LEMMA HandedIs ==
    ASSUME Typed, NEW w \in Teams, farewell.answers[w] \in Mates
    PROVE  /\ Handed(w) \in Farewells
           /\ Handed(w).todo = farewell.todo \ {w}
           /\ DOMAIN Handed(w).heirs = DOMAIN farewell.heirs \cup {w}
           /\ Handed(w).heirs[w] = farewell.answers[w]
           /\ \A u \in DOMAIN farewell.heirs \ {w} : Handed(w).heirs[u] = farewell.heirs[u]
           /\ Handed(w).step = farewell.step /\ Handed(w).answers = farewell.answers
           /\ Handed(w).sole = farewell.sole /\ Handed(w).other = farewell.other
<1> DEFINE heirs == [u \in DOMAIN farewell.heirs \cup {w} |->
                         IF u = w THEN farewell.answers[w] ELSE farewell.heirs[u]]
<1>1. PICK S \in SUBSET Teams : farewell.heirs \in [S -> Mates]
  BY DEF Typed, Farewells, Heirs
<1>2. heirs \in [S \cup {w} -> Mates]
  BY <1>1
<1>3. heirs \in Heirs
  BY <1>2 DEF Heirs
<1>4. Handed(w) = [Spent(w) EXCEPT !.heirs = heirs]
  BY SpentIs DEF Handed
<1>5. /\ DOMAIN heirs = DOMAIN farewell.heirs \cup {w}
      /\ heirs[w] = farewell.answers[w]
      /\ \A u \in DOMAIN farewell.heirs \ {w} : heirs[u] = farewell.heirs[u]
  OBVIOUS
<1>6. /\ Handed(w) \in Farewells /\ Handed(w).heirs = heirs
      /\ Handed(w).todo = Spent(w).todo /\ Handed(w).step = Spent(w).step
      /\ Handed(w).answers = Spent(w).answers /\ Handed(w).sole = Spent(w).sole
      /\ Handed(w).other = Spent(w).other
  <2> HIDE DEF heirs
  <2> QED BY <1>3, <1>4, SpentIs DEF Farewells
<1> QED BY <1>5, <1>6, SpentIs

(***************************************************************************)
(* What a step that settles a workspace comes to.                           *)
(***************************************************************************)
LEMMA SettleOutcomes ==
    ASSUME Typed, Settle
    PROVE  \E w \in farewell.todo :
               \/ farewell.answers[w] = Destroy /\ Onward(Spent(w))
               \/ farewell.answers[w] \in Candidates(w) /\ Onward(Handed(w))
               \/ Refuse
BY DEF Settle, Spent, Handed

(***************************************************************************)
(* Who can be handed a workspace is somebody else.                          *)
(***************************************************************************)
LEMMA CandidatesAreMates == \A w \in Teams : Candidates(w) \subseteq Mates
BY DEF Candidates, Members, Folk

-----------------------------------------------------------------------------
(* The rest of the types *)

(***************************************************************************)
(* The steps of the request keep the types.                                 *)
(***************************************************************************)
LEMMA RequestTyped ==
    ASSUME Typed,
           ListMine \/ Match \/ Settle \/ RecordFarewells \/ CommitFarewell \/ FarewellFails
               \/ EvictFrom \/ Farewelled
    PROVE  Typed'
<1>1. CASE ListMine
  <2> DEFINE r == [farewell EXCEPT !.step = "count", !.other = Mine, !.sole = Owned]
  <2>1. r \in Farewells /\ r.todo = {}
    BY <1>1 DEF ListMine, Mine, Owned, Typed, Farewells, Stages
  <2> QED BY <1>1, <2>1, OnwardTyped, RefuseTyped DEF ListMine
<1>2. CASE Match
  <2> DEFINE r == [farewell EXCEPT !.step = "settle", !.sole = Required, !.todo = Required,
                                   !.other = @ \ Required]
  <2>1. Required \subseteq Teams
    BY DEF Required, Typed, Farewells
  <2>2. r \in Farewells /\ r.todo \subseteq r.sole /\ r.step = "settle"
    BY <2>1 DEF Typed, Farewells, Stages
  <2> QED BY <1>2, <2>2, OnwardTyped, RefuseTyped DEF Match
<1>3. CASE Settle
  <2>1. PICK w \in farewell.todo :
            \/ farewell.answers[w] = Destroy /\ Onward(Spent(w))
            \/ farewell.answers[w] \in Candidates(w) /\ Onward(Handed(w))
            \/ Refuse
    BY <1>3, SettleOutcomes
  <2>2. w \in Teams /\ UNCHANGED stirs /\ farewell.step = "settle"
    BY <1>3 DEF Settle, Typed, Farewells
  <2>3. CASE Onward(Spent(w))
    BY <2>2, <2>3, SpentIs, OnwardTyped DEF Typed
  <2>4. CASE farewell.answers[w] \in Candidates(w) /\ Onward(Handed(w))
    <3>1. farewell.answers[w] \in Mates
      BY <2>2, <2>4, CandidatesAreMates
    <3> QED BY <2>2, <2>4, <3>1, HandedIs, OnwardTyped DEF Typed
  <2>5. CASE Refuse
    BY <2>2, <2>5, RefuseTyped
  <2> QED BY <2>1, <2>3, <2>4, <2>5
<1>4. CASE RecordFarewells
  <2> DEFINE r == [farewell EXCEPT !.step = "commit", !.evict = Surviving]
  <2>1. DOMAIN farewell.heirs \subseteq Teams
    BY DEF Typed, Farewells, Heirs
  <2>2. Surviving \subseteq Teams
    BY <2>1 DEF Surviving, Typed, Farewells
  <2>3. r \in Farewells /\ r.todo \subseteq r.sole /\ r.step = "commit"
    BY <2>2 DEF Typed, Farewells, Stages
  <2> QED BY <1>4, <2>3, OnwardTyped, RefuseTyped DEF RecordFarewells
<1>5. CASE CommitFarewell
  <2>1. seat' \in [Teams -> [Folk -> Ranked]]
    BY <1>5 DEF CommitFarewell, Settled, Typed, Ranked
  <2>2. farewell' \in Farewells /\ farewell'.todo = farewell.todo /\ farewell'.sole = farewell.sole
        /\ farewell'.step = "evict"
    BY <1>5 DEF CommitFarewell, Typed, Farewells, Stages
  <2>3. farewells' \subseteq Teams
    BY <1>5 DEF CommitFarewell, Typed, Farewells
  <2> QED BY <1>5, <2>1, <2>2, <2>3 DEF CommitFarewell, Typed
<1>6. CASE FarewellFails
  BY <1>6, RefuseTyped DEF FarewellFails
<1>7. CASE EvictFrom
  <2>1. PICK w \in farewell.evict :
            sockets' = sockets \ {w} /\ farewell' = [farewell EXCEPT !.evict = @ \ {w}]
    BY <1>7 DEF EvictFrom
  <2>2. farewell' \in Farewells /\ farewell'.todo = farewell.todo /\ farewell'.sole = farewell.sole
        /\ farewell'.step = farewell.step
    BY <2>1 DEF Typed, Farewells
  <2> QED BY <1>7, <2>1, <2>2 DEF EvictFrom, Typed
<1>8. CASE Farewelled
  <2>1. dialog' \in Dialogs
    BY <1>8 DEF Farewelled, Typed, Dialogs
  <2> QED BY <1>8, <2>1, IdleTyped DEF Farewelled, Typed
<1> QED BY <1>1, <1>2, <1>3, <1>4, <1>5, <1>6, <1>7, <1>8

(***************************************************************************)
(* The changes that others make meanwhile.                                  *)
(***************************************************************************)
Stirring == Join \/ Leave \/ Promote \/ StepDown

(***************************************************************************)
(* Whoever changes a membership keeps the types.                            *)
(***************************************************************************)
LEMMA StirTyped ==
    ASSUME Typed, Stirring \/ Dissolve
    PROVE  Typed'
<1>1. stirs < MaxStirs /\ stirs' = stirs + 1 => stirs' \in 0..MaxStirs
  BY MatesAssumption DEF Typed
<1>2. ASSUME NEW w \in Teams, NEW p \in Folk, NEW role \in Ranked, Stir(w, p, role) PROVE Typed'
  <2>1. seat' \in [Teams -> [Folk -> Ranked]]
    BY <1>2 DEF Stir, Typed
  <2>2. sockets' \subseteq Teams /\ crossed' \in BOOLEAN
    BY <1>2 DEF Stir, Typed
  <2> QED BY <1>1, <1>2, <2>1, <2>2 DEF Stir, Typed
<1>3. CASE Stirring
  <2>1. \E w \in Teams, p \in Folk, role \in Ranked : Stir(w, p, role)
    BY <1>3 DEF Stirring, Join, Leave, Promote, StepDown, Ranked
  <2> QED BY <1>2, <2>1
<1>4. CASE Dissolve
  <2>1. PICK w \in Teams :
            /\ seat' = [seat EXCEPT ![w] = [p \in Folk |-> "NONE"]]
            /\ sockets' = sockets \ {w} /\ farewells' = farewells \ {w}
            /\ crossed' = (crossed \/ farewell.step \notin {"idle", "list", "evict"})
            /\ stirs < MaxStirs /\ stirs' = stirs + 1
            /\ UNCHANGED <<account, dialog, farewell>>
    BY <1>4 DEF Dissolve
  <2>2. seat' \in [Teams -> [Folk -> Ranked]]
    BY <2>1 DEF Typed, Ranked
  <2>3. crossed' \in BOOLEAN
    BY <2>1 DEF Typed
  <2> QED BY <1>1, <2>1, <2>2, <2>3 DEF Typed
<1> QED BY <1>3, <1>4

(***************************************************************************)
(* Every step keeps the types.                                              *)
(***************************************************************************)
LEMMA NextTyped == ASSUME Typed, [FarewellNext]_farewellVars PROVE Typed'
<1>1. CASE UNCHANGED farewellVars
  BY <1>1 DEF farewellVars, Typed
<1> QED BY <1>1, DialogTyped, RequestTyped, StirTyped DEF FarewellNext, Stirring

(***************************************************************************)
(* Type correctness, for any number of workspaces and people: what the      *)
(* request carries is always about workspaces there are, and what it has    *)
(* left to settle is among those the person alone owns.                     *)
(***************************************************************************)
THEOREM FarewellTypesKept == FarewellSpec => []FarewellTypeOK
<1>1. Typed => FarewellTypeOK
  <2> SUFFICES ASSUME Typed PROVE FarewellTypeOK
    OBVIOUS
  <2>1. DOMAIN farewell.answers \subseteq Teams /\ DOMAIN farewell.heirs \subseteq Teams
    BY DEF Typed, Farewells, Answers, Heirs
  <2>2. farewell.step \in Stages
    BY DEF Typed, Farewells
  <2> QED BY <2>1, <2>2 DEF Typed, FarewellTypeOK, Dialogs, Stages
<1> QED BY <1>1, InitTyped, NextTyped, PTL DEF FarewellSpec

-----------------------------------------------------------------------------
(* The request and the account *)

(***************************************************************************)
(* A request in flight is known to the dialog; an account that is gone has  *)
(* no request but the one that deleted it, and opens the dialog no more.    *)
(***************************************************************************)
OneFarewell ==
    /\ farewell.step # "idle" => dialog.pending
    /\ farewell.step = "idle" => farewell.evict = {}
    /\ farewell.step = "evict" => account = "gone"
    /\ account = "gone" => /\ farewell.step \in {"idle", "evict"}
                           /\ farewell.step = "idle" => dialog.state = "closed"

(***************************************************************************)
(* What a step of the request makes of its stage.                           *)
(***************************************************************************)
LEMMA StagesFollow ==
    ASSUME Typed
    PROVE  /\ ListMine => farewell.step = "list" /\ (farewell'.step = "count" \/ Refuse)
           /\ Match => farewell.step = "count" /\ (farewell'.step = "settle" \/ Refuse)
           /\ Settle => farewell.step = "settle" /\ (farewell'.step = "settle" \/ Refuse)
           /\ RecordFarewells => farewell.step = "settle" /\ (farewell'.step = "commit" \/ Refuse)
           /\ ListMine \/ Match \/ Settle \/ RecordFarewells
                  => UNCHANGED <<seat, account, sockets>> /\ (UNCHANGED <<dialog, crossed>> \/ Refuse)
<1>1. ASSUME ListMine
      PROVE  farewell.step = "list" /\ (farewell'.step = "count" \/ Refuse)
  BY <1>1 DEF ListMine, Onward, Typed, Farewells
<1>2. ASSUME Match
      PROVE  farewell.step = "count" /\ (farewell'.step = "settle" \/ Refuse)
  BY <1>2 DEF Match, Onward, Typed, Farewells
<1>3. ASSUME Settle
      PROVE  farewell.step = "settle" /\ (farewell'.step = "settle" \/ Refuse)
  <2>1. PICK w \in farewell.todo :
            \/ farewell.answers[w] = Destroy /\ Onward(Spent(w))
            \/ farewell.answers[w] \in Candidates(w) /\ Onward(Handed(w))
            \/ Refuse
    BY <1>3, SettleOutcomes
  <2>2. w \in Teams /\ farewell.step = "settle"
    BY <1>3 DEF Settle, Typed, Farewells
  <2>3. farewell.answers[w] \in Candidates(w) => farewell.answers[w] \in Mates
    BY <2>2, CandidatesAreMates
  <2> QED BY <2>1, <2>2, <2>3, SpentIs, HandedIs DEF Onward
<1>4. ASSUME RecordFarewells
      PROVE  farewell.step = "settle" /\ (farewell'.step = "commit" \/ Refuse)
  BY <1>4 DEF RecordFarewells, Onward, Typed, Farewells
<1>5. ASSUME ListMine \/ Match \/ Settle \/ RecordFarewells
      PROVE  UNCHANGED <<seat, account, sockets>> /\ (UNCHANGED <<dialog, crossed>> \/ Refuse)
  BY <1>5 DEF ListMine, Match, Settle, RecordFarewells, Onward, Refuse
<1> QED BY <1>1, <1>2, <1>3, <1>4, <1>5

(***************************************************************************)
(* There is never a second request.                                         *)
(***************************************************************************)
LEMMA StaysOneFarewell ==
    ASSUME Typed, OneFarewell, [FarewellNext]_farewellVars
    PROVE  OneFarewell'
<1>1. CASE UNCHANGED <<account, dialog, farewell>>
  BY <1>1 DEF OneFarewell
<1>2. CASE OpenDialog \/ CloseDialog \/ Preview \/ PreviewFails \/ Decide
  <2>1. dialog'.pending = dialog.pending
    BY <1>2 DEF OpenDialog, CloseDialog, Preview, PreviewFails, Decide, Typed, Dialogs
  <2>2. dialog.state = "closed" => dialog'.state = "closed" \/ account # "gone"
    BY <1>2 DEF OpenDialog, CloseDialog, Preview, PreviewFails, Decide
  <2>3. UNCHANGED <<account, farewell>>
    BY <1>2 DEF OpenDialog, CloseDialog, Preview, PreviewFails, Decide, DialogOnly
  <2> QED BY <2>1, <2>2, <2>3 DEF OneFarewell
<1>3. CASE Confirm
  <2>1. farewell'.step = "list" /\ dialog'.pending /\ account' = account
    BY <1>3 DEF Confirm, NoErasing, Typed, Dialogs
  <2>2. account # "gone"
    BY <1>3 DEF Confirm, OneFarewell
  <2> QED BY <2>1, <2>2 DEF OneFarewell
<1>4. CASE Refuse /\ account # "gone"
  <2>1. farewell'.step = "idle" /\ farewell'.evict = {} /\ account' = account
    BY <1>4 DEF Refuse, NoErasing
  <2> QED BY <1>4, <2>1 DEF OneFarewell
<1>5. CASE ListMine \/ Match \/ Settle \/ RecordFarewells
  <2>1. account # "gone"
    BY <1>5, StagesFollow DEF OneFarewell
  <2>2. CASE Refuse
    BY <1>4, <2>1, <2>2
  <2>3. CASE ~Refuse
    BY <1>5, <2>1, <2>3, StagesFollow DEF OneFarewell
  <2> QED BY <2>2, <2>3
<1>6. CASE CommitFarewell
  <2>1. farewell'.step = "evict" /\ account' = "gone" /\ dialog' = dialog /\ dialog.pending
    BY <1>6 DEF CommitFarewell, OneFarewell, Typed, Farewells
  <2> QED BY <2>1 DEF OneFarewell
<1>7. CASE FarewellFails
  BY <1>4, <1>7 DEF FarewellFails, InTransaction, OneFarewell
<1>8. CASE EvictFrom
  <2>1. farewell.step = "evict" /\ farewell'.step = "evict" /\ UNCHANGED <<account, dialog>>
    BY <1>8 DEF EvictFrom, Typed, Farewells
  <2> QED BY <2>1 DEF OneFarewell
<1>9. CASE Farewelled
  <2>1. /\ farewell'.step = "idle" /\ farewell'.evict = {} /\ account' = account
        /\ dialog'.state = "closed"
    BY <1>9 DEF Farewelled, NoErasing, Typed, Dialogs
  <2> QED BY <1>9, <2>1 DEF OneFarewell, Farewelled
<1>10. CASE Stirring \/ Dissolve
  BY <1>1, <1>10 DEF Stirring, Join, Leave, Promote, StepDown, Stir, Dissolve
<1> QED BY <1>1, <1>2, <1>3, <1>5, <1>6, <1>7, <1>8, <1>9, <1>10
        DEF FarewellNext, farewellVars, Stirring

-----------------------------------------------------------------------------
(* The workspaces and their owners *)

AllOwned == \A w \in Teams : Members(w) # {} => Owners(w) # {}

(***************************************************************************)
(* A workspace the person owns, and not alone, has another owner.           *)
(***************************************************************************)
LEMMA AnotherOwns ==
    ASSUME NEW w \in Teams, ~FewOwners(w)
    PROVE  \E p \in Owners(w) : p # Me
<1> SUFFICES ASSUME Owners(w) \subseteq {Me} PROVE FewOwners(w)
  OBVIOUS
<1>1. IsFiniteSet({Me}) /\ Cardinality({Me}) = 1
  BY FS_Singleton
<1>2. Cardinality(Owners(w)) \in Nat /\ Cardinality(Owners(w)) =< 1
  BY <1>1, FS_Subset, FS_CardinalityType
<1> QED BY <1>2 DEF FewOwners

(***************************************************************************)
(* Others leave every workspace that has members an owner.                  *)
(***************************************************************************)
LEMMA StirsLeaveOwners ==
    ASSUME Typed, AllOwned, Stirring \/ Dissolve
    PROVE  AllOwned'
<1>1. SUFFICES ASSUME NEW v \in Teams, (Members(v) # {})' PROVE (Owners(v) # {})'
  BY DEF AllOwned
<1>2. CASE seat'[v] = seat[v]
  BY <1>1, <1>2 DEF AllOwned, Members, Owners
<1>3. CASE Join /\ seat'[v] # seat[v]
  <2>1. PICK w \in Teams, p \in Folk : p \notin Members(w) /\ Members(w) # {} /\ Stir(w, p, "MEMBER")
    BY <1>3 DEF Join
  <2>2. w = v /\ \A q \in Folk : q # p => seat'[v][q] = seat[v][q]
    BY <1>3, <2>1 DEF Stir, Typed
  <2>3. PICK q \in Owners(v) : TRUE
    BY <2>1, <2>2 DEF AllOwned
  <2> QED BY <2>1, <2>2, <2>3 DEF Owners, Members
<1>4. CASE Leave /\ seat'[v] # seat[v]
  <2>1. PICK w \in Teams, p \in Folk : p \in Members(w) /\ Owners(w) # {p} /\ Stir(w, p, "NONE")
    BY <1>4 DEF Leave
  <2>2. w = v /\ \A q \in Folk : q # p => seat'[v][q] = seat[v][q]
    BY <1>4, <2>1 DEF Stir, Typed
  <2>3. PICK q \in Owners(v) : q # p
    BY <2>1, <2>2 DEF AllOwned
  <2> QED BY <2>2, <2>3 DEF Owners
<1>5. CASE Promote /\ seat'[v] # seat[v]
  <2>1. PICK w \in Teams, p \in Folk : Stir(w, p, "OWNER")
    BY <1>5 DEF Promote
  <2>2. w = v /\ seat'[v][p] = "OWNER"
    BY <1>5, <2>1 DEF Stir, Typed
  <2> QED BY <2>2 DEF Owners
<1>6. CASE StepDown /\ seat'[v] # seat[v]
  <2>1. PICK w \in Teams, p \in Folk : p \in Owners(w) /\ Owners(w) # {p} /\ Stir(w, p, "MEMBER")
    BY <1>6 DEF StepDown
  <2>2. w = v /\ \A q \in Folk : q # p => seat'[v][q] = seat[v][q]
    BY <1>6, <2>1 DEF Stir, Typed
  <2>3. PICK q \in Owners(v) : q # p
    BY <2>1, <2>2
  <2> QED BY <2>2, <2>3 DEF Owners
<1>7. CASE Dissolve /\ seat'[v] # seat[v]
  <2>1. PICK w \in Teams : seat' = [seat EXCEPT ![w] = [p \in Folk |-> "NONE"]]
    BY <1>7 DEF Dissolve
  <2>2. \A p \in Folk : seat'[v][p] = "NONE"
    BY <1>7, <2>1 DEF Typed
  <2> QED BY <1>1, <2>2 DEF Members
<1> QED BY <1>2, <1>3, <1>4, <1>5, <1>6, <1>7 DEF Stirring

-----------------------------------------------------------------------------
(* What the request has read, while nobody has come between *)

AsCounted ==
    farewell.step = "count" /\ ~crossed => farewell.sole = Owned /\ farewell.other = Mine

Provided(w) ==
    \/ farewell.answers[w] = Destroy
    \/ w \in DOMAIN farewell.heirs /\ farewell.heirs[w] \in Candidates(w)

AsSettled ==
    farewell.step \in {"settle", "commit"} /\ ~crossed =>
        /\ farewell.sole = {w \in Owned : FewOwners(w)}
        /\ farewell.other = Mine \ farewell.sole
        /\ \A w \in farewell.sole \ farewell.todo : Provided(w)

AsCommitted == farewell.step = "commit" => farewell.todo = {} /\ farewell.evict = Surviving

Reading == AsCounted /\ AsSettled /\ AsCommitted

(***************************************************************************)
(* A workspace that was provided for stays so, and so is the one in hand.   *)
(***************************************************************************)
LEMMA SettleProvides ==
    ASSUME Typed, AsSettled, Settle, ~Refuse
    PROVE  AsSettled'
<1>1. PICK w \in farewell.todo :
          \/ farewell.answers[w] = Destroy /\ Onward(Spent(w))
          \/ farewell.answers[w] \in Candidates(w) /\ Onward(Handed(w))
  BY SettleOutcomes
<1>2. w \in Teams /\ farewell.step = "settle"
  BY DEF Settle, Typed, Farewells
<1>3. farewell.answers[w] \in Candidates(w) => farewell.answers[w] \in Mates
  BY <1>2, CandidatesAreMates
<1>4. UNCHANGED <<seat, crossed>>
  BY <1>1 DEF Onward
<1> SUFFICES ASSUME ~crossed
             PROVE  /\ farewell'.sole = {v \in Owned : FewOwners(v)}
                    /\ farewell'.other = Mine \ farewell'.sole
                    /\ \A v \in farewell'.sole \ farewell'.todo :
                           \/ farewell'.answers[v] = Destroy
                           \/ v \in DOMAIN farewell'.heirs /\ farewell'.heirs[v] \in Candidates(v)
  BY <1>4 DEF AsSettled, Provided, Owned, Mine, FewOwners, Candidates, Owners, Members
<1>5. /\ farewell.sole = {v \in Owned : FewOwners(v)}
      /\ farewell.other = Mine \ farewell.sole
      /\ \A v \in farewell.sole \ farewell.todo : Provided(v)
  BY <1>2 DEF AsSettled
<1>6. /\ farewell'.sole = farewell.sole /\ farewell'.other = farewell.other
      /\ farewell'.answers = farewell.answers /\ farewell'.todo = farewell.todo \ {w}
  BY <1>1, <1>2, <1>3, SpentIs, HandedIs DEF Onward
<1>7. CASE farewell.answers[w] = Destroy /\ Onward(Spent(w))
  <2>1. farewell'.heirs = farewell.heirs
    BY <1>2, <1>7, SpentIs DEF Onward
  <2> QED BY <1>5, <1>6, <1>7, <2>1 DEF Provided
<1>8. CASE farewell.answers[w] \in Candidates(w) /\ Onward(Handed(w))
  <2>1. /\ DOMAIN farewell'.heirs = DOMAIN farewell.heirs \cup {w}
        /\ farewell'.heirs[w] = farewell.answers[w]
        /\ \A u \in DOMAIN farewell.heirs \ {w} : farewell'.heirs[u] = farewell.heirs[u]
    BY <1>2, <1>3, <1>8, HandedIs DEF Onward
  <2> QED BY <1>5, <1>6, <1>8, <2>1 DEF Provided
<1> QED BY <1>1, <1>7, <1>8

(***************************************************************************)
(* The request goes by what it has read as long as nobody comes between.    *)
(***************************************************************************)
LEMMA ReadingStays ==
    ASSUME Typed, OneFarewell, Reading, [FarewellNext]_farewellVars
    PROVE  Reading'
<1>1. CASE UNCHANGED <<seat, farewell, crossed>>
  BY <1>1 DEF Reading, AsCounted, AsSettled, AsCommitted, Provided, Surviving, Owned, Mine, FewOwners,
              Candidates, Owners, Members
<1>2. CASE farewell'.step \in {"idle", "list", "evict"}
  BY <1>2 DEF Reading, AsCounted, AsSettled, AsCommitted
<1>3. CASE Refuse
  BY <1>2, <1>3 DEF Refuse, NoErasing
<1>4. CASE OpenDialog \/ CloseDialog \/ Preview \/ PreviewFails \/ Decide
  BY <1>1, <1>4 DEF OpenDialog, CloseDialog, Preview, PreviewFails, Decide, DialogOnly
<1>5. CASE Confirm
  BY <1>2, <1>5 DEF Confirm, NoErasing
<1>6. CASE ListMine /\ ~Refuse
  <2>1. /\ farewell' = [farewell EXCEPT !.step = "count", !.other = Mine, !.sole = Owned]
        /\ UNCHANGED <<seat, crossed>>
    BY <1>6 DEF ListMine, Onward
  <2>2. farewell'.step = "count" /\ farewell'.sole = Owned /\ farewell'.other = Mine
    BY <2>1 DEF Typed, Farewells
  <2>3. Owned' = Owned /\ Mine' = Mine
    BY <2>1 DEF Owned, Mine, Owners, Members
  <2> QED BY <2>2, <2>3 DEF Reading, AsCounted, AsSettled, AsCommitted
<1>7. CASE Match /\ ~Refuse
  <2>1. /\ farewell' = [farewell EXCEPT !.step = "settle", !.sole = Required, !.todo = Required,
                                        !.other = @ \ Required]
        /\ UNCHANGED <<seat, crossed>> /\ farewell.step = "count"
    BY <1>7 DEF Match, Onward
  <2>2. /\ farewell'.step = "settle" /\ farewell'.sole = Required /\ farewell'.todo = Required
        /\ farewell'.other = farewell.other \ Required
    BY <2>1 DEF Typed, Farewells
  <2>3. ~crossed => Required = {w \in Owned : FewOwners(w)} /\ farewell.other = Mine
    BY <2>1 DEF Reading, AsCounted, Required
  <2>4. Owned' = Owned /\ Mine' = Mine /\ \A w \in Teams : FewOwners(w)' = FewOwners(w)
    BY <2>1 DEF Owned, Mine, FewOwners, Owners, Members
  <2>5. {w \in Owned : FewOwners(w)}' = {w \in Owned : FewOwners(w)}
    BY <2>4 DEF Owned
  <2> QED BY <2>1, <2>2, <2>3, <2>4, <2>5 DEF Reading, AsCounted, AsSettled, AsCommitted
<1>8. CASE Settle /\ ~Refuse
  <2>1. farewell'.step = "settle"
    BY <1>8, StagesFollow
  <2> QED BY <1>8, <2>1, SettleProvides DEF Reading, AsCounted, AsCommitted
<1>9. CASE RecordFarewells /\ ~Refuse
  <2>1. /\ farewell' = [farewell EXCEPT !.step = "commit", !.evict = Surviving]
        /\ UNCHANGED <<seat, crossed>> /\ farewell.step = "settle" /\ farewell.todo = {}
    BY <1>9 DEF RecordFarewells, Onward
  <2>2. /\ farewell'.step = "commit" /\ farewell'.sole = farewell.sole /\ farewell'.todo = farewell.todo
        /\ farewell'.other = farewell.other /\ farewell'.heirs = farewell.heirs
        /\ farewell'.answers = farewell.answers /\ farewell'.evict = Surviving
    BY <2>1 DEF Typed, Farewells
  <2>3. AsSettled'
    BY <2>1, <2>2 DEF Reading, AsSettled, Provided, Owned, Mine, FewOwners, Candidates, Owners, Members
  <2>4. AsCommitted'
    BY <2>1, <2>2 DEF AsCommitted, Surviving
  <2> QED BY <2>2, <2>3, <2>4 DEF Reading, AsCounted
<1>10. CASE CommitFarewell \/ EvictFrom
  <2>1. farewell'.step = "evict"
    BY <1>10 DEF CommitFarewell, EvictFrom, Typed, Farewells
  <2> QED BY <1>2, <2>1
<1>11. CASE Farewelled
  BY <1>2, <1>11 DEF Farewelled, NoErasing
<1>12. CASE Stirring \/ Dissolve
  <2>1. farewell' = farewell /\ crossed' = (crossed \/ farewell.step \notin {"idle", "list", "evict"})
    BY <1>12 DEF Stirring, Join, Leave, Promote, StepDown, Stir, Dissolve
  <2>2. Surviving' = Surviving
    BY <2>1 DEF Surviving
  <2> QED BY <2>1, <2>2 DEF Reading, AsCounted, AsSettled, AsCommitted
<1> QED BY <1>1, <1>3, <1>4, <1>5, <1>6, <1>7, <1>8, <1>9, <1>10, <1>11, <1>12
        DEF FarewellNext, farewellVars, Stirring, FarewellFails

-----------------------------------------------------------------------------
(* The account that goes, and what it leaves *)

Present == account = "live" => AllOwned /\ sockets = Mine

Departed ==
    account = "gone" /\ ~crossed =>
        /\ AllOwned
        /\ \A w \in Teams : /\ Me \notin Members(w)
                            /\ w \in sockets /\ Members(w) # {} => w \in farewell.evict

(***************************************************************************)
(* A commit that nobody came before leaves everything settled but the       *)
(* sockets, which it is going to evict.                                     *)
(***************************************************************************)
LEMMA CommitSettles ==
    ASSUME Typed, OneFarewell, Reading, Present, CommitFarewell, ~crossed
    PROVE  Departed'
<1>1. /\ farewell.sole = {w \in Owned : FewOwners(w)}
      /\ farewell.other = Mine \ farewell.sole
      /\ \A w \in farewell.sole : Provided(w)
      /\ farewell.evict = Surviving /\ farewell.todo = {}
      /\ AllOwned /\ sockets = Mine
  BY DEF CommitFarewell, Reading, AsSettled, AsCommitted, Present, OneFarewell, Typed
<1>2. farewell'.evict = farewell.evict /\ sockets' = sockets
  BY DEF CommitFarewell, Typed, Farewells
<1>3. \A w \in Teams : seat'[w] = Settled(w)
  BY DEF CommitFarewell
<1>4. Doomed = {w \in farewell.sole : farewell.answers[w] = Destroy}
  BY <1>1 DEF Doomed
<1> SUFFICES ASSUME NEW w \in Teams
             PROVE  /\ (Members(w) # {} => Owners(w) # {})'
                    /\ (Me \notin Members(w))'
                    /\ w \in sockets /\ (Members(w) # {})' => w \in farewell.evict
  BY <1>2 DEF Departed, AllOwned
<1>5. CASE w \in Doomed
  <2>1. \A p \in Folk : seat'[w][p] = "NONE"
    <3>1. Settled(w) = [p \in Folk |-> "NONE"]
      BY <1>5 DEF Settled
    <3>2. seat'[w] = Settled(w)
      BY <1>3
    <3> QED BY <3>1, <3>2
  <2>2. Members(w)' = {}
    BY <2>1 DEF Members
  <2>3. Me \notin Members(w)'
    BY <2>2
  <2> QED BY <2>2, <2>3
<1>6. CASE w \notin Doomed
  <2>1. seat'[w] = [p \in Folk |-> IF p = Me THEN "NONE"
                                   ELSE IF w \in DOMAIN farewell.heirs /\ farewell.heirs[w] = p
                                   THEN "OWNER" ELSE seat[w][p]]
    <3>1. seat'[w] = Settled(w)
      BY <1>3
    <3> QED BY <1>6, <3>1 DEF Settled
  <2>2. (Me \notin Members(w))'
    BY <2>1 DEF Members, Folk
  <2>3. CASE w \in farewell.sole
    <3>1. w \in DOMAIN farewell.heirs /\ farewell.heirs[w] \in Candidates(w)
      BY <1>1, <1>4, <1>6, <2>3 DEF Provided
    <3>2. farewell.heirs[w] \in Folk \ {Me}
      BY <3>1 DEF Candidates, Members
    <3>3. (Owners(w) # {})'
      BY <2>1, <3>1, <3>2 DEF Owners
    <3> QED BY <1>1, <2>2, <3>1, <3>3 DEF Surviving
  <2>4. CASE w \notin farewell.sole
    <3>1. \A p \in Folk \ {Me} : seat[w][p] = "OWNER" => seat'[w][p] = "OWNER"
      BY <2>1
    <3>2. ASSUME (Members(w) # {})' PROVE (Owners(w) # {})'
      <4>1. CASE \E p \in Owners(w) : p # Me
        BY <3>1, <4>1 DEF Owners
      <4>2. CASE ~ \E p \in Owners(w) : p # Me
        <5>1. w \notin Owned
          BY <1>1, <2>4, <4>2, AnotherOwns
        <5>2. Owners(w) = {}
          BY <4>2, <5>1 DEF Owned
        <5>3. \A p \in Folk : seat[w][p] = "NONE"
          BY <1>1, <5>2 DEF AllOwned, Members
        <5>4. CASE w \in DOMAIN farewell.heirs /\ farewell.heirs[w] \in Folk \ {Me}
          BY <2>1, <5>4 DEF Owners
        <5>5. CASE ~(w \in DOMAIN farewell.heirs /\ farewell.heirs[w] \in Folk \ {Me})
          BY <2>1, <3>2, <5>3, <5>5 DEF Members
        <5> QED BY <5>4, <5>5
      <4> QED BY <4>1, <4>2
    <3> QED BY <1>1, <2>2, <2>4, <3>2 DEF Surviving
  <2> QED BY <2>3, <2>4
<1> QED BY <1>5, <1>6

(***************************************************************************)
(* While the account is live its sockets are where its memberships are.     *)
(***************************************************************************)
LEMMA StaysPresent ==
    ASSUME Typed, OneFarewell, Present, [FarewellNext]_farewellVars
    PROVE  Present'
<1>1. CASE UNCHANGED <<seat, account, sockets>>
  BY <1>1 DEF Present, AllOwned, Mine, Members, Owners
<1>2. CASE account' = "gone"
  BY <1>2 DEF Present
<1>3. CASE (Stirring \/ Dissolve) /\ account = "live"
  <2>1. AllOwned'
    BY <1>3, StirsLeaveOwners DEF Present
  <2>2. CASE Stirring
    <3>1. PICK w \in Teams, p \in Folk, role \in Ranked : Stir(w, p, role)
      BY <2>2 DEF Stirring, Join, Leave, Promote, StepDown, Ranked
    <3>2. \A v \in Teams, q \in Folk :
              seat'[v][q] = IF v = w /\ q = p THEN role ELSE seat[v][q]
      BY <3>1 DEF Stir, Typed
    <3>3. Me \in Folk
      BY DEF Folk
    <3>4. Mine' = {v \in Teams : seat'[v][Me] # "NONE"} /\ Mine = {v \in Teams : seat[v][Me] # "NONE"}
      BY <3>3 DEF Mine, Members
    <3>5. sockets' = Mine'
      <4>1. CASE p # Me
        BY <1>3, <3>1, <3>2, <3>3, <3>4, <4>1 DEF Stir, Present
      <4>2. CASE p = Me /\ role = "NONE"
        <5>1. sockets' = Mine \ {w}
          BY <1>3, <3>1, <4>2 DEF Stir, Present
        <5> QED BY <3>2, <3>3, <3>4, <4>2, <5>1
      <4>3. CASE p = Me /\ role # "NONE"
        <5>1. sockets' = Mine \cup {w}
          BY <1>3, <3>1, <4>3 DEF Stir, Present
        <5> QED BY <3>2, <3>3, <3>4, <4>3, <5>1
      <4> QED BY <4>1, <4>2, <4>3
    <3> QED BY <2>1, <3>5 DEF Present
  <2>3. CASE Dissolve
    <3>1. PICK w \in Teams :
              seat' = [seat EXCEPT ![w] = [p \in Folk |-> "NONE"]] /\ sockets' = sockets \ {w}
      BY <2>3 DEF Dissolve
    <3>2. Me \in Folk
      BY DEF Folk
    <3>3. \A v \in Teams : seat'[v][Me] = IF v = w THEN "NONE" ELSE seat[v][Me]
      BY <3>1, <3>2 DEF Typed
    <3>4. Mine' = {v \in Teams : seat'[v][Me] # "NONE"} /\ Mine = {v \in Teams : seat[v][Me] # "NONE"}
      BY <3>2 DEF Mine, Members
    <3>5. sockets' = Mine \ {w}
      BY <1>3, <3>1 DEF Present
    <3>6. sockets' = Mine'
      BY <3>3, <3>4, <3>5
    <3> QED BY <2>1, <3>6 DEF Present
  <2> QED BY <1>3, <2>2, <2>3
<1>4. CASE (Stirring \/ Dissolve) /\ account # "live"
  BY <1>4 DEF Stirring, Join, Leave, Promote, StepDown, Stir, Dissolve, Present
<1>5. CASE CommitFarewell
  BY <1>2, <1>5 DEF CommitFarewell
<1>6. CASE EvictFrom \/ Farewelled
  BY <1>2, <1>6 DEF EvictFrom, Farewelled, OneFarewell
<1>7. CASE \/ OpenDialog \/ CloseDialog \/ Preview \/ PreviewFails \/ Decide \/ Confirm \/ FarewellFails
  BY <1>1, <1>7 DEF OpenDialog, CloseDialog, Preview, PreviewFails, Decide, Confirm, DialogOnly,
                    FarewellFails, Refuse
<1>8. CASE ListMine \/ Match \/ Settle \/ RecordFarewells
  BY <1>1, <1>8, StagesFollow
<1> QED BY <1>1, <1>3, <1>4, <1>5, <1>6, <1>7, <1>8 DEF FarewellNext, farewellVars, Stirring

(***************************************************************************)
(* What a deleted account has left behind stays settled.                    *)
(***************************************************************************)
LEMMA StaysDeparted ==
    ASSUME Typed, OneFarewell, Reading, Present, Departed, [FarewellNext]_farewellVars
    PROVE  Departed'
<1>1. CASE CommitFarewell
  <2>1. crossed' = crossed
    BY <1>1 DEF CommitFarewell
  <2> QED BY <1>1, <2>1, CommitSettles DEF Departed
<1>2. CASE account' # "gone"
  BY <1>2 DEF Departed
<1>3. CASE UNCHANGED <<seat, account, sockets, farewell, crossed>>
  BY <1>3 DEF Departed, AllOwned, Members, Owners
<1>4. CASE OpenDialog \/ CloseDialog \/ Preview \/ PreviewFails \/ Decide
  BY <1>3, <1>4 DEF OpenDialog, CloseDialog, Preview, PreviewFails, Decide, DialogOnly
<1>5. CASE Confirm
  BY <1>2, <1>5 DEF Confirm, OneFarewell
<1>6. CASE ListMine \/ Match \/ Settle \/ RecordFarewells \/ FarewellFails
  <2>1. farewell.step \in {"list", "count", "settle", "commit"} /\ account' = account
    BY <1>6, StagesFollow DEF FarewellFails, InTransaction, Refuse
  <2> QED BY <1>2, <2>1 DEF OneFarewell
<1>7. CASE EvictFrom
  <2>1. PICK w \in farewell.evict :
            sockets' = sockets \ {w} /\ farewell' = [farewell EXCEPT !.evict = @ \ {w}]
    BY <1>7 DEF EvictFrom
  <2>2. farewell'.evict = farewell.evict \ {w} /\ UNCHANGED <<seat, account, crossed>>
    BY <1>7, <2>1 DEF EvictFrom, Typed, Farewells
  <2>3. AllOwned' = AllOwned /\ \A v \in Teams : Members(v)' = Members(v)
    BY <2>2 DEF AllOwned, Owners, Members
  <2> QED BY <2>1, <2>2, <2>3 DEF Departed
<1>8. CASE Farewelled
  <2>1. /\ farewell'.evict = {} /\ farewell.evict = {}
        /\ UNCHANGED <<seat, account, sockets, crossed>>
    BY <1>8 DEF Farewelled, NoErasing
  <2>2. AllOwned' = AllOwned /\ \A v \in Teams : Members(v)' = Members(v)
    BY <2>1 DEF AllOwned, Owners, Members
  <2> QED BY <2>1, <2>2 DEF Departed
<1>9. CASE (Stirring \/ Dissolve) /\ account' = "gone"
  <2> SUFFICES ASSUME ~crossed' PROVE Departed'
    BY DEF Departed
  <2>1. account = "gone" /\ ~crossed /\ farewell' = farewell
    BY <1>9 DEF Stirring, Join, Leave, Promote, StepDown, Stir, Dissolve
  <2>2. AllOwned'
    BY <1>9, <2>1, StirsLeaveOwners DEF Departed
  <2>3. \A v \in Teams : (Me \notin Members(v))' /\ (Members(v) = {} => Members(v)' = {})
    <3> SUFFICES ASSUME NEW v \in Teams
                 PROVE  (Me \notin Members(v))' /\ (Members(v) = {} => Members(v)' = {})
      OBVIOUS
    <3>1. Me \notin Members(v)
      BY <2>1 DEF Departed
    <3>2. CASE seat'[v] = seat[v]
      BY <3>1, <3>2 DEF Members
    <3>3. CASE Stirring /\ seat'[v] # seat[v]
      <4>1. PICK w \in Teams, p \in Folk, role \in Ranked : Stir(w, p, role) /\ Members(w) # {}
        BY <3>3 DEF Stirring, Join, Leave, Promote, StepDown, Ranked, Members, Owners
      <4>2. w = v /\ p # Me /\ \A q \in Folk : q # p => seat'[v][q] = seat[v][q]
        BY <2>1, <3>3, <4>1 DEF Stir, Typed
      <4> QED BY <3>1, <4>1, <4>2 DEF Members
    <3>4. CASE Dissolve /\ seat'[v] # seat[v]
      <4>1. PICK w \in Teams : seat' = [seat EXCEPT ![w] = [p \in Folk |-> "NONE"]]
        BY <3>4 DEF Dissolve
      <4>2. \A p \in Folk : seat'[v][p] = "NONE"
        BY <3>4, <4>1 DEF Typed
      <4> QED BY <4>2 DEF Members
    <3> QED BY <1>9, <3>2, <3>3, <3>4
  <2>4. sockets' \subseteq sockets
    <3>1. CASE Stirring
      <4>1. PICK w \in Teams, p \in Folk, role \in Ranked : Stir(w, p, role)
        BY <3>1 DEF Stirring, Join, Leave, Promote, StepDown, Ranked
      <4> QED BY <2>1, <4>1 DEF Stir
    <3>2. CASE Dissolve
      BY <3>2 DEF Dissolve
    <3> QED BY <1>9, <3>1, <3>2
  <2> QED BY <2>1, <2>2, <2>3, <2>4 DEF Departed
<1> QED BY <1>1, <1>2, <1>3, <1>4, <1>5, <1>6, <1>7, <1>8, <1>9 DEF FarewellNext, farewellVars, Stirring

(***************************************************************************)
(* However many workspaces the person is in, and however old the preview    *)
(* was: unless a membership changed between the request's reads and its     *)
(* commit, a deleted account is in no workspace, its sockets are in no room *)
(* of one that is left, and every workspace with members has an owner.      *)
(***************************************************************************)
THEOREM FarewellSettles == FarewellSpec => []EveryTeamIsSettled
<1> DEFINE IInv == Typed /\ OneFarewell /\ Reading /\ Present /\ Departed
<1>1. FarewellInit => IInv
  <2> SUFFICES ASSUME FarewellInit PROVE OneFarewell /\ Reading /\ Present /\ Departed
    BY InitTyped
  <2>1. farewell.step = "idle" /\ farewell.evict = {} /\ account = "live"
    BY DEF FarewellInit, NoErasing
  <2> QED BY <2>1 DEF FarewellInit, OneFarewell, Reading, AsCounted, AsSettled, AsCommitted, Present,
                      Departed, AllOwned
<1>2. IInv /\ [FarewellNext]_farewellVars => IInv'
  BY NextTyped, StaysOneFarewell, ReadingStays, StaysPresent, StaysDeparted
<1>3. IInv => EveryTeamIsSettled
  <2> SUFFICES ASSUME IInv, account = "gone", ~crossed, farewell.step = "idle"
               PROVE  /\ \A w \in Teams : Me \notin Members(w) /\ (Members(w) # {} => Owners(w) # {})
                      /\ sockets \cap {w \in Teams : Members(w) # {}} = {}
    BY DEF EveryTeamIsSettled
  <2>1. farewell.evict = {}
    BY DEF OneFarewell
  <2> QED BY <2>1 DEF Departed, AllOwned
<1> QED BY <1>1, <1>2, <1>3, PTL DEF FarewellSpec

=============================================================================
