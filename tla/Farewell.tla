-------------------------------- MODULE Farewell --------------------------------
(***************************************************************************)
(* One person deletes their account: the dialog that shows what they alone  *)
(* own and asks what becomes of each workspace, and the request that        *)
(* matches the answers with what it finds and carries them out in one       *)
(* transaction.  Membership has the erasure as one of the operations on the *)
(* members of one workspace, and Erasure its work on other people's text;   *)
(* here it goes over all the workspaces of the person, while others join,   *)
(* leave and are promoted.                                                  *)
(***************************************************************************)
EXTENDS Naturals, FiniteSets

CONSTANTS
    Teams,      \* the workspaces
    Mates,      \* the other people
    MaxStirs    \* how often the members of a workspace change meanwhile

Me == "me"
ASSUME MatesAssumption == IsFiniteSet(Mates) /\ Me \notin Mates /\ MaxStirs \in Nat

Folk == Mates \cup {Me}
Ranked == {"OWNER", "MEMBER", "NONE"}

\* What the person may decide of a workspace; at first they have decided nothing.
Undecided == "undecided"
Destroy == "delete"
Choices == Mates \cup {Undecided, Destroy}

VARIABLES
    seat,       \* the role of everybody in every workspace; a deleted one has no members
    account,    \* the person's account: "live" or "gone"
    sockets,    \* the workspaces whose rooms the person's sockets are in
    farewells,  \* the workspaces whose feed says that the account was deleted
    dialog,     \* the dialog
    farewell,    \* the request in flight
    crossed,    \* somebody's membership changed between the request's reads and its commit
    stirs       \* how often members have changed

farewellVars == <<seat, account, sockets, farewells, dialog, farewell, crossed, stirs>>

Members(w) == {p \in Folk : seat[w][p] # "NONE"}
Owners(w) == {p \in Folk : seat[w][p] = "OWNER"}
Mine == {w \in Teams : Me \in Members(w)}
Owned == {w \in Teams : Me \in Owners(w)}

\* Slip: what counts is another member, not another owner.
AloneIn(w) == Cardinality(Members(w)) =< 1

\* Of a workspace the person owns, as far as they have read: no other owner.
FewOwners(w) == Cardinality(Owners(w)) =< 1

\* Who can be handed a workspace.
Candidates(w) == Members(w) \ {Me}

NoAnswers == [w \in {} |-> Undecided]
NoErasing == [step |-> "idle", answers |-> NoAnswers, sole |-> {}, other |-> {}, todo |-> {},
              heirs |-> NoAnswers, evict |-> {}]

\* `Doomed' and `heirs' are what the transaction has written and nobody else sees yet.
Doomed == {w \in farewell.sole \ farewell.todo : farewell.answers[w] = Destroy}
InTransaction == farewell.step \in {"settle", "commit"}

FarewellInit ==
    /\ seat \in [Teams -> [Folk -> Ranked]]
    /\ \A w \in Teams : Members(w) # {} => Owners(w) # {}
    /\ account = "live"
    /\ sockets = Mine
    /\ farewells = {}
    /\ dialog = [state |-> "closed", owned |-> {}, heirs |-> [w \in Teams |-> {}],
                 decisions |-> [w \in Teams |-> Undecided], pending |-> FALSE]
    /\ farewell = NoErasing
    /\ crossed = FALSE
    /\ stirs = 0

-----------------------------------------------------------------------------
(* The dialog *)

DialogOnly == UNCHANGED <<seat, account, sockets, farewells, farewell, crossed, stirs>>

\* Opening it starts the preview; what was decided when it was open before is still decided.
OpenDialog ==
    /\ dialog.state = "closed" /\ account = "live"
    /\ dialog' = [dialog EXCEPT !.state = "loading"]
    /\ DialogOnly

\* It can be closed while its request is in flight.
CloseDialog ==
    /\ dialog.state # "closed"
    /\ dialog' = [dialog EXCEPT !.state = "closed"]
    /\ DialogOnly

Preview ==
    /\ dialog.state = "loading" /\ account = "live"
    /\ dialog' = [dialog EXCEPT !.state = "shown", !.owned = {w \in Owned : FewOwners(w)},
                                !.heirs = [w \in Teams |-> Candidates(w)]]
    /\ DialogOnly

\* Whatever goes wrong, and in particular an account that is gone.
PreviewFails ==
    /\ dialog.state = "loading"
    /\ dialog' = [dialog EXCEPT !.state = "failed", !.owned = {}]
    /\ DialogOnly

Decide ==
    /\ dialog.state = "shown"
    /\ \E w \in dialog.owned : \E choice \in dialog.heirs[w] \cup {Undecided, Destroy} :
          /\ dialog' = [dialog EXCEPT !.decisions[w] = choice]
          /\ choice # dialog.decisions[w]
    /\ DialogOnly

AllDecided == \A w \in dialog.owned : dialog.decisions[w] # Undecided

Confirm ==
    /\ dialog.state = "shown" /\ ~dialog.pending /\ AllDecided
    /\ dialog' = [dialog EXCEPT !.pending = TRUE]
    /\ farewell' = [NoErasing EXCEPT !.step = "list",
                                    !.answers = [w \in dialog.owned |-> dialog.decisions[w]]]
    /\ UNCHANGED <<seat, account, sockets, farewells, crossed, stirs>>

-----------------------------------------------------------------------------
(* The request *)

\* Answered, or refused: nothing of a refused one has happened.
Refuse ==
    /\ farewell' = NoErasing
    /\ dialog' = [dialog EXCEPT !.pending = FALSE]
    /\ crossed' = FALSE
    /\ UNCHANGED <<seat, account, sockets, farewells>>

Onward(request) ==
    /\ farewell' = request
    /\ UNCHANGED <<seat, account, sockets, farewells, dialog, crossed>>

\* The live account, and its memberships.
ListMine ==
    /\ farewell.step = "list"
    /\ IF account = "live"
       THEN Onward([farewell EXCEPT !.step = "count", !.other = Mine, !.sole = Owned])
       ELSE Refuse
    /\ UNCHANGED stirs

\* The owners of those it owns, counted in a second statement.  What was decided must be what
\* is to be decided, in both directions.
Required == {w \in farewell.sole : FewOwners(w)}

Match ==
    /\ farewell.step = "count"
    /\ IF DOMAIN farewell.answers = Required
       THEN Onward([farewell EXCEPT !.step = "settle", !.sole = Required, !.todo = Required,
                                    !.other = @ \ Required])
       ELSE Refuse
    /\ UNCHANGED stirs

\* The workspaces one after the other: one is deleted, another handed to a member it still has.
Settle ==
    /\ farewell.step = "settle" /\ farewell.todo # {}
    /\ \E w \in farewell.todo :
          LET heir == farewell.answers[w]
              done == [farewell EXCEPT !.todo = @ \ {w}]
          IN  IF heir = Destroy /\ Members(w) # {} THEN Onward(done)
              ELSE IF heir \in Candidates(w)
              THEN Onward([done EXCEPT !.heirs = [u \in DOMAIN @ \cup {w} |->
                                                      IF u = w THEN heir ELSE @[u]]])
              ELSE Refuse
    /\ UNCHANGED stirs

\* An account that is erased leaves a row in each feed that survives it; a workspace that
\* somebody else has deleted since has none any more, and the transaction fails.
Surviving == farewell.other \cup DOMAIN farewell.heirs

RecordFarewells ==
    /\ farewell.step = "settle" /\ farewell.todo = {}
    /\ IF \A w \in Surviving : Members(w) # {}
       THEN Onward([farewell EXCEPT !.step = "commit", !.evict = Surviving])
       ELSE Refuse
    /\ UNCHANGED stirs

\* The memberships go by the person, whatever was read at first.
Settled(w) ==
    IF w \in Doomed THEN [p \in Folk |-> "NONE"]
    ELSE [p \in Folk |-> IF p = Me THEN "NONE"
                         ELSE IF w \in DOMAIN farewell.heirs /\ farewell.heirs[w] = p THEN "OWNER"
                         ELSE seat[w][p]]

CommitFarewell ==
    /\ farewell.step = "commit"
    /\ seat' = [w \in Teams |-> Settled(w)]
    /\ account' = "gone"
    /\ farewells' = farewells \cup farewell.evict
    /\ farewell' = [farewell EXCEPT !.step = "evict"]
    /\ UNCHANGED <<sockets, dialog, crossed, stirs>>

\* A failure of any statement takes all of them back.
FarewellFails ==
    /\ InTransaction
    /\ Refuse
    /\ UNCHANGED stirs

\* After the commit the sockets, workspace by workspace.
EvictFrom ==
    /\ farewell.step = "evict" /\ farewell.evict # {}
    /\ \E w \in farewell.evict :
          /\ sockets' = sockets \ {w}
          /\ farewell' = [farewell EXCEPT !.evict = @ \ {w}]
    /\ UNCHANGED <<seat, account, farewells, dialog, crossed, stirs>>

\* The dialog closes, and the sign-in page drops the connection.
Farewelled ==
    /\ farewell.step = "evict" /\ farewell.evict = {}
    /\ farewell' = NoErasing
    /\ dialog' = [dialog EXCEPT !.state = "closed", !.pending = FALSE]
    /\ UNCHANGED <<seat, account, sockets, farewells, crossed, stirs>>

-----------------------------------------------------------------------------
(* Meanwhile: other people, and the person in another tab.  A row that the  *)
(* transaction has written is locked until it ends.                         *)

Locked(w, p) == InTransaction /\ (w \in Doomed \/ (w \in DOMAIN farewell.heirs /\ farewell.heirs[w] = p))

Stir(w, p, role) ==
    /\ stirs < MaxStirs /\ stirs' = stirs + 1
    /\ ~Locked(w, p)
    /\ p = Me => account = "live"
    /\ seat' = [seat EXCEPT ![w][p] = role]
    /\ crossed' = (crossed \/ farewell.step \notin {"idle", "list", "evict"})
    /\ sockets' = IF p # Me THEN sockets
                  ELSE IF role = "NONE" THEN sockets \ {w} ELSE sockets \cup {w}
    /\ UNCHANGED <<account, farewells, dialog, farewell>>

\* A workspace always keeps an owner: its last one can neither leave nor step down.
Join == \E w \in Teams, p \in Folk : p \notin Members(w) /\ Members(w) # {} /\ Stir(w, p, "MEMBER")
Leave == \E w \in Teams, p \in Folk : p \in Members(w) /\ Owners(w) # {p} /\ Stir(w, p, "NONE")
Promote == \E w \in Teams, p \in Folk : p \in Members(w) \ Owners(w) /\ Stir(w, p, "OWNER")
StepDown == \E w \in Teams, p \in Folk : p \in Owners(w) /\ Owners(w) # {p} /\ Stir(w, p, "MEMBER")

\* Another owner deletes a workspace.
Dissolve ==
    \E w \in Teams :
        /\ stirs < MaxStirs /\ stirs' = stirs + 1
        /\ Owners(w) \ {Me} # {}
        /\ \A p \in Folk : ~Locked(w, p)
        /\ farewell.step = "commit" => w \notin farewell.evict
        /\ seat' = [seat EXCEPT ![w] = [p \in Folk |-> "NONE"]]
        /\ crossed' = (crossed \/ farewell.step \notin {"idle", "list", "evict"})
        /\ sockets' = sockets \ {w}
        /\ farewells' = farewells \ {w}
        /\ UNCHANGED <<account, dialog, farewell>>

FarewellNext ==
    \/ OpenDialog \/ CloseDialog \/ Preview \/ PreviewFails \/ Decide \/ Confirm
    \/ ListMine \/ Match \/ Settle \/ RecordFarewells \/ CommitFarewell \/ FarewellFails
    \/ EvictFrom \/ Farewelled
    \/ Join \/ Leave \/ Promote \/ StepDown \/ Dissolve

FarewellSpec == FarewellInit /\ [][FarewellNext]_farewellVars

-----------------------------------------------------------------------------

FarewellTypeOK ==
    /\ seat \in [Teams -> [Folk -> Ranked]]
    /\ account \in {"live", "gone"}
    /\ sockets \subseteq Teams /\ farewells \subseteq Teams
    /\ dialog \in [state : {"closed", "loading", "shown", "failed"}, owned : SUBSET Teams,
                   heirs : [Teams -> SUBSET Mates], decisions : [Teams -> Choices],
                   pending : BOOLEAN]
    /\ farewell.step \in {"idle", "list", "count", "settle", "commit", "evict"}
    /\ DOMAIN farewell.answers \subseteq Teams /\ DOMAIN farewell.heirs \subseteq Teams
    /\ farewell.todo \subseteq farewell.sole
    /\ crossed \in BOOLEAN /\ stirs \in 0..MaxStirs

(***************************************************************************)
(* When an account has been deleted and no membership changed in the middle *)
(* of it, the person is in no workspace and in no room, and every workspace *)
(* that is left has an owner, however old the preview was that they decided *)
(* by: "the last-owner invariant is enforced above by the disposition       *)
(* requirement" (account-deletion.service.ts:121-122).                      *)
(***************************************************************************)
EveryTeamIsSettled ==
    account = "gone" /\ ~crossed /\ farewell.step = "idle" =>
        /\ \A w \in Teams : Me \notin Members(w) /\ (Members(w) # {} => Owners(w) # {})
        /\ sockets \cap {w \in Teams : Members(w) # {}} = {}

=============================================================================
