-------------------------------- MODULE Erasure --------------------------------
(***************************************************************************)
(* What the erasure of an account does to the text others keep of it:       *)
(* AccountDeletionService.deleteAccount                                     *)
(* (apps/api/src/account/account-deletion.service.ts), statement by         *)
(* statement, among other erasures, comments posted and deleted, and        *)
(* members removed.                                                         *)
(*                                                                         *)
(* One workspace.  PostgreSQL at READ COMMITTED: a statement sees what was  *)
(* committed before it, and a row another transaction has written is waited *)
(* for.  A transaction's writes are applied by its commit.  The statements  *)
(* between the redactions touch rows of the leaver's alone and are left     *)
(* out, as is a workspace deleted with its owner, which takes its comments. *)
(***************************************************************************)
EXTENDS Integers, FiniteSets

CONSTANTS
    Persons,        \* the accounts that can be erased
    TeamOwners,     \* who owns the workspace to begin with; a stranger to Persons may
    StartRemarks,   \* what its comments may be: functions from ids to [ids, names]
    RedactionPage,  \* COMMENT_REDACTION_PAGE
    RemarkIds,      \* bound: comments that are ever posted
    MaxErasureActs  \* bound: requests and time-outs

RemarkRows == [ids : SUBSET Persons, names : SUBSET Persons]

ASSUME ErasureAssumption ==
    /\ IsFiniteSet(Persons)
    /\ TeamOwners # {}
    /\ RedactionPage \in Nat \ {0}
    /\ RemarkIds \subseteq Nat \ {0} /\ IsFiniteSet(RemarkIds)
    /\ \A rows \in StartRemarks :
          /\ rows \in [DOMAIN rows -> RemarkRows]
          /\ DOMAIN rows \subseteq Nat \ {0} /\ IsFiniteSet(DOMAIN rows)
          /\ \A c \in DOMAIN rows : rows[c].names \subseteq rows[c].ids
    /\ MaxErasureActs \in Nat

VARIABLES
    erased,     \* users whose deletedAt is set
    team,       \* those of Persons with a WorkspaceMember row
    owners,     \* the members who are OWNER
    remarks,    \* Comment rows: whose ids a body carries, and whose names its mentions show
    payloads,   \* Activity rows that carry a targetName: <<serial, user>>
    serial,     \* how many of them there have been
    erasing,    \* the erasure of each person: its statement, and what it has read and written
    drafts,     \* comments whose transaction is open
    spent,      \* the ids that have been given to comments
    removal,    \* a member being removed, or leaving, outside of any transaction
    erasureActs

erasureVars == <<erased, team, owners, remarks, payloads, serial, erasing, drafts, spent, removal, erasureActs>>

Nobody == "nobody"
NoRemarks == [c \in {} |-> {}]

\* heir: the transfer's; cursor, page: of the redaction; known: the comments there were when it
\* began; body: the names it has written; scrubbed: the activity rows it has rewritten.
NotErasing == [at |-> "rest", heir |-> Nobody, cursor |-> 0, page |-> NoRemarks, todo |-> {},
               known |-> {}, body |-> NoRemarks, scrubbed |-> {}]
NoRemoval == [at |-> "rest", who |-> Nobody]

ErasureTypeOK ==
    /\ erased \subseteq Persons /\ team \subseteq Persons \ erased
    /\ owners \cap Persons \subseteq team
    /\ \A c \in DOMAIN remarks : remarks[c].names \subseteq remarks[c].ids
    /\ payloads \subseteq (1..serial) \X Persons
    /\ \A u \in Persons :
          /\ erasing[u].at \in {"rest", "heir", "promote", "page", "rewrite", "scrub", "leave", "commit"}
          /\ DOMAIN erasing[u].body \subseteq DOMAIN remarks
          /\ erasing[u].todo \subseteq DOMAIN erasing[u].page
    /\ DOMAIN remarks \cap {d.id : d \in drafts} = {}
    /\ DOMAIN remarks \cup {d.id : d \in drafts} \subseteq spent

ErasureInit ==
    /\ erased = {} /\ team = Persons /\ owners = TeamOwners
    /\ remarks \in StartRemarks
    /\ payloads = {} /\ serial = 0
    /\ erasing = [u \in Persons |-> NotErasing]
    /\ drafts = {} /\ spent = DOMAIN remarks /\ removal = NoRemoval /\ erasureActs = 0

ErasureAct == erasureActs < MaxErasureActs /\ erasureActs' = erasureActs + 1

-----------------------------------------------------------------------------
(* Locks *)

\* The membership rows an erasure has written: its heir's, and in the end its own.
OwnRow(u) == IF erasing[u].at = "commit" THEN {u} ELSE {}
HeldRows(u) ==
    IF erasing[u].at \in {"page", "rewrite", "scrub", "leave", "commit"}
    THEN ({erasing[u].heir} \ {Nobody}) \cup OwnRow(u) ELSE {}

NextRemark(u) == CHOOSE c \in erasing[u].todo : \A d \in erasing[u].todo : c =< d
Rewriting(u) == erasing[u].at = "rewrite" /\ erasing[u].todo # {}
Changes(u, c) == u \in erasing[u].page[c].names

WaitsFor(u, v) ==
    /\ u # v
    /\ \/ erasing[u].at = "promote" /\ erasing[u].heir \in HeldRows(v)
       \/ erasing[u].at = "leave" /\ u \in HeldRows(v)
       \/ Rewriting(u) /\ Changes(u, NextRemark(u)) /\ NextRemark(u) \in DOMAIN erasing[v].body

CanRun(u) == \A v \in Persons : ~WaitsFor(u, v)

Deadlocks == {S \in SUBSET Persons : S # {} /\ \A u \in S : \E v \in S : WaitsFor(u, v)}

-----------------------------------------------------------------------------
(* One erasure *)

Texts == <<remarks, payloads, serial, drafts, spent>>
Rolls == <<erased, team, owners, removal>>
Proceed(u, e) == erasing' = [erasing EXCEPT ![u] = e]

\* Slip: the connection goes back to the pool with its transaction open.
StayOpen(u) == Proceed(u, erasing[u])

\* An exception anywhere rolls the transaction back, and the account is as it was.
Undo(u) == Proceed(u, NotErasing)

\* requireLiveUser, partitionMemberships and matchDispositions: the sole owner names an heir.
AskErasure == \E u \in Persons \ erased, h \in (Persons \cup {Nobody}) :
    /\ ErasureAct
    /\ erasing[u].at = "rest"
    /\ (h # Nobody) <=> (owners = {u})
    /\ Proceed(u, [NotErasing EXCEPT !.at = IF h = Nobody THEN "page" ELSE "heir", !.heir = h])
    /\ UNCHANGED <<Texts, Rolls>>

\* transferOwnership reads the heir's row: a 404 or a 409 ends it.
ReadHeir(u) ==
    /\ erasing[u].at = "heir"
    /\ IF erasing[u].heir \in team \ {u}
       THEN Proceed(u, [erasing[u] EXCEPT !.at = "promote"]) ELSE Undo(u)
    /\ UNCHANGED <<Texts, Rolls, erasureActs>>

\* ... and writes it, if it is still there.
PromoteHeir(u) ==
    /\ erasing[u].at = "promote" /\ CanRun(u)
    /\ IF erasing[u].heir \in team
       THEN Proceed(u, [erasing[u] EXCEPT !.at = "page"]) ELSE Undo(u)
    /\ UNCHANGED <<Texts, Rolls, erasureActs>>

\* redactCommentMentions: the bodies that carry the id, keyset-paged on the comment's id.
Carrying(u) == {c \in DOMAIN remarks : c > erasing[u].cursor /\ u \in remarks[c].ids}
ReadRemarks(u) ==
    /\ erasing[u].at = "page"
    /\ LET page == {c \in Carrying(u) : Cardinality({d \in Carrying(u) : d =< c}) =< RedactionPage}
           e == IF erasing[u].cursor = 0 THEN [erasing[u] EXCEPT !.known = DOMAIN remarks]
                                         ELSE erasing[u]
       IN  Proceed(u, [e EXCEPT !.at = IF page = {} THEN "scrub" ELSE "rewrite",
                                !.page = [c \in page |-> remarks[c]], !.todo = page])
    /\ UNCHANGED <<Texts, Rolls, erasureActs>>

\* The body as it was read, less the name; a comment that is gone by now is an exception.
RewriteRemark(u) ==
    /\ Rewriting(u) /\ CanRun(u)
    /\ LET c == NextRemark(u)
           e == [erasing[u] EXCEPT !.todo = @ \ {c}]
           body == [d \in DOMAIN e.body \cup {c} |->
                      IF d = c THEN e.page[c].names \ {u} ELSE e.body[d]]
       IN  IF ~Changes(u, c) THEN Proceed(u, e)
           ELSE IF c \in DOMAIN remarks THEN Proceed(u, [e EXCEPT !.body = body])
           ELSE Undo(u)
    /\ UNCHANGED <<Texts, Rolls, erasureActs>>

\* Slip: a page counts the bodies that changed, and a short one is taken for the last.
FullIfRewritten(e) == Cardinality(DOMAIN e.body \cap DOMAIN e.page) = RedactionPage

\* A page that is not full is the last.
Full(e) == Cardinality(DOMAIN e.page) = RedactionPage

TurnRemarks(u) ==
    /\ erasing[u].at = "rewrite" /\ erasing[u].todo = {}
    /\ LET e == erasing[u] IN
       Proceed(u, IF Full(e)
                  THEN [e EXCEPT !.at = "page", !.page = NoRemarks,
                                 !.cursor = CHOOSE c \in DOMAIN e.page : \A d \in DOMAIN e.page : d =< c]
                  ELSE [e EXCEPT !.at = "scrub", !.page = NoRemarks])
    /\ UNCHANGED <<Texts, Rolls, erasureActs>>

\* redactActivityPayloads: one UPDATE.
ScrubPayloads(u) ==
    /\ erasing[u].at = "scrub"
    /\ Proceed(u, [erasing[u] EXCEPT !.at = "leave", !.scrubbed = {p \in payloads : p[2] = u}])
    /\ UNCHANGED <<Texts, Rolls, erasureActs>>

\* workspaceMember.deleteMany, after the rows that are the leaver's alone.
DropMembership(u) ==
    /\ erasing[u].at = "leave" /\ CanRun(u)
    /\ Proceed(u, [erasing[u] EXCEPT !.at = "commit"])
    /\ UNCHANGED <<Texts, Rolls, erasureActs>>

\* The promotion's audit row quotes the name of the heir.
CommitErasure(u) ==
    /\ erasing[u].at = "commit"
    /\ LET e == erasing[u]
           heirs == {e.heir} \ {Nobody}
       IN  /\ remarks' = [c \in DOMAIN remarks |->
                            IF c \in DOMAIN e.body THEN [remarks[c] EXCEPT !.names = e.body[c]]
                                                   ELSE remarks[c]]
           /\ serial' = serial + Cardinality(heirs)
           /\ payloads' = (payloads \ e.scrubbed) \cup ({serial'} \X heirs)
           /\ owners' = (owners \ {u}) \cup heirs
    /\ team' = team \ {u}
    /\ erased' = erased \cup {u}
    /\ Proceed(u, NotErasing)
    /\ UNCHANGED <<drafts, spent, removal, erasureActs>>

\* DELETION_TRANSACTION_TIMEOUT_MS, or a connection lost.
TimeOut == \E u \in Persons :
    /\ ErasureAct /\ erasing[u].at # "rest"
    /\ Undo(u)
    /\ UNCHANGED <<Texts, Rolls>>

\* PostgreSQL aborts one of those that wait for each other.
BreakErasureDeadlock == \E S \in Deadlocks : \E u \in S :
    Undo(u) /\ UNCHANGED <<Texts, Rolls, erasureActs>>

-----------------------------------------------------------------------------
(* The others *)

\* CommentService.create: a uuid(7), which grows with time, and the names are the writer's.
DraftRemark == \E c \in RemarkIds \ spent, S \in SUBSET Persons \ {{}} :
    /\ ErasureAct
    /\ \A d \in spent : d < c
    /\ \A d \in RemarkIds \ spent : c =< d
    /\ spent' = spent \cup {c}
    /\ drafts' = drafts \cup {[id |-> c, ids |-> S, names |-> S]}
    /\ UNCHANGED <<remarks, payloads, serial, erasing, Rolls>>

PostRemark == \E d \in drafts :
    /\ drafts' = drafts \ {d}
    /\ remarks' = [c \in DOMAIN remarks \cup {d.id} |->
                     IF c = d.id THEN [ids |-> d.ids, names |-> d.names] ELSE remarks[c]]
    /\ UNCHANGED <<payloads, serial, spent, erasing, Rolls, erasureActs>>

\* CommentService.remove, which waits for a transaction that has written the row.
DeleteRemark == \E c \in DOMAIN remarks :
    /\ ErasureAct
    /\ \A u \in Persons : c \notin DOMAIN erasing[u].body
    /\ remarks' = [d \in DOMAIN remarks \ {c} |-> remarks[d]]
    /\ UNCHANGED <<payloads, serial, drafts, spent, erasing, Rolls>>

\* WorkspaceMemberService.removeMember and leave: the row is read with the user's name, ...
BeginRemoval == \E u \in team :
    /\ ErasureAct
    /\ removal = NoRemoval /\ owners # {u}
    /\ removal' = [at |-> "write", who |-> u]
    /\ UNCHANGED <<Texts, erased, team, owners, erasing>>

\* ... deleted by the plugin, ...
RemoveMember ==
    /\ removal.at = "write"
    /\ \A v \in Persons : removal.who \notin HeldRows(v)
    /\ removal' = IF removal.who \in team THEN [removal EXCEPT !.at = "record"] ELSE NoRemoval
    /\ team' = team \ {removal.who}
    /\ owners' = owners \ {removal.who}
    /\ UNCHANGED <<Texts, erased, erasing, erasureActs>>

\* ... and recorded with the name that was read.
RecordRemoval ==
    /\ removal.at = "record"
    /\ serial' = serial + 1
    /\ payloads' = payloads \cup {<<serial', removal.who>>}
    /\ removal' = NoRemoval
    /\ UNCHANGED <<remarks, drafts, spent, erased, team, owners, erasing, erasureActs>>

-----------------------------------------------------------------------------

ErasureStep(u) ==
    \/ ReadHeir(u) \/ PromoteHeir(u)
    \/ ReadRemarks(u) \/ RewriteRemark(u) \/ TurnRemarks(u)
    \/ ScrubPayloads(u) \/ DropMembership(u) \/ CommitErasure(u)

ErasureNext ==
    \/ AskErasure \/ TimeOut \/ BreakErasureDeadlock
    \/ \E u \in Persons : ErasureStep(u)
    \/ DraftRemark \/ PostRemark \/ DeleteRemark
    \/ BeginRemoval \/ RemoveMember \/ RecordRemoval

ErasureSpec == ErasureInit /\ [][ErasureNext]_erasureVars

\* Statements are carried out, and the deadlock detector runs.
ErasureFairness ==
    WF_erasureVars(BreakErasureDeadlock) /\ \A u \in Persons : WF_erasureVars(ErasureStep(u))

-----------------------------------------------------------------------------
(* Properties *)

(***************************************************************************)
(* When an erasure commits, no comment that was there when its redaction    *)
(* began shows the name: comments posted and deleted between the pages make *)
(* it miss none, and neither do ids that are no mentions.                   *)
(***************************************************************************)
RedactionMissesNone ==
    [][\A u \in erased' \ erased :
          \A c \in erasing[u].known \cap DOMAIN remarks' : u \notin remarks'[c].names]_erasureVars

(***************************************************************************)
(* Every erasure ends, committed or undone, although two of them can hold   *)
(* the row the other needs: an heir's membership and a comment that         *)
(* mentions both.                                                           *)
(***************************************************************************)
EveryErasureEnds ==
    \A u \in Persons : erasing[u].at # "rest" ~> erasing[u].at = "rest"

(***************************************************************************)
(* ADR 0026 says that the mentions of an erased account no longer name      *)
(* anyone.  An erasure writes back a whole body as it read it, so of two    *)
(* that overlap the second can bring back the name the first took out.      *)
(***************************************************************************)
NamesStayGone ==
    \A u \in erased, c \in DOMAIN remarks : u \notin remarks[c].names

=============================================================================
