------------------------------- MODULE TaskLinks -------------------------------
(***************************************************************************)
(* What people hang on a task: assignees, labels, comments with mentions,   *)
(* and the notifications and activity rows these leave behind               *)
(* (TaskAssigneeService, TaskLabelService, LabelService, CommentService,    *)
(* NotificationService, ActivityService).                                   *)
(*                                                                         *)
(* Checks on members and labels come before the statement that relies on    *)
(* them; a transaction is one step, since what it locks is only what it      *)
(* writes.  After the commit come a signal for every user whose unread      *)
(* count changed and an event for the board, which make browsers read the   *)
(* count and the task again.  The erasure of an account and the retention   *)
(* of the feed belong to other services, and change these rows unannounced. *)
(***************************************************************************)
EXTENDS Integers, FiniteSets, Bags

CONSTANTS
    Agents,          \* requests being served at the same time
    People,          \* users: actors, assignees and people mentioned
    Admins,          \* those of them who are OWNER or ADMIN of the workspace
    Labels,          \* labels of the board, existing and still to be created
    NoteIds,         \* ids of notifications and of comments
    MaxLinkOps       \* bound: requests served in one behaviour

ASSUME LinksAssumption ==
    /\ Admins \subseteq People
    /\ IsFiniteSet(People)
    /\ NoteIds \subseteq Nat
    /\ MaxLinkOps \in Nat

VARIABLES
    task,        \* is the Task row there?
    crew,        \* users who are members of the workspace
    assigned,    \* TaskAssignee rows of the task
    labels,      \* Label rows of the board
    worn,        \* TaskLabel rows of the task
    comments,    \* Comment rows of the task: [id, by]
    notes,       \* Notification rows about the task: [id, user, type, read]
    feed,        \* Activity rows: a bag of <<type, what it is about>>
    errand,      \* each request: what it asks for and the statement it is at
    signals,     \* users whose browsers have an unread signal to act on
    badge,       \* the unread count each user's browser shows
    event,       \* has TASK_UPDATED reached a watcher that has not read the task since?
    watched,     \* the assignees and labels a watcher's last read returned
    erased,      \* people whose account was erased
    struck,      \* those of them who were assigned, and lost the assignment with it
    forgotten,   \* Activity rows that retention has deleted: a bag like the feed
    linksBegun   \* requests started, and rows forgotten

linkRows == <<task, crew, assigned, labels, worn, comments, notes, feed>>
browsers == <<signals, badge, event, watched>>
past == <<erased, struck, forgotten>>
linkVars == <<task, crew, assigned, labels, worn, comments, notes, feed, errand, signals, badge,
              event, watched, erased, struck, forgotten, linksBegun>>

NoErrand == [op |-> "none", by |-> "none", on |-> "none", tell |-> {}, at |-> "idle"]

LinkTypeOK ==
    /\ task \in BOOLEAN /\ event \in BOOLEAN
    /\ crew \subseteq People /\ assigned \subseteq People /\ signals \subseteq People
    /\ labels \subseteq Labels /\ worn \subseteq labels
    /\ comments \subseteq [id : NoteIds, by : People]
    /\ notes \subseteq [id : NoteIds, user : People, type : {"assignment", "mention"}, read : BOOLEAN]
    /\ IsABag(feed) /\ IsABag(forgotten)
    /\ struck \subseteq erased /\ erased \subseteq People
    /\ badge \in [People -> Nat]
    /\ \A k \in Agents : errand[k].at \in {"idle", "find", "write", "record", "signal", "announce"}
    /\ linksBegun \in 0..MaxLinkOps

LinkInit ==
    /\ task = TRUE
    /\ crew = People
    /\ assigned = {}
    /\ labels \in SUBSET Labels
    /\ worn = {}
    /\ comments = {} /\ notes = {} /\ feed = EmptyBag
    /\ errand = [k \in Agents |-> NoErrand]
    /\ signals = {} /\ badge = [u \in People |-> 0]
    /\ event = FALSE /\ watched = [people |-> {}, labels |-> {}]
    /\ erased = {} /\ struck = {} /\ forgotten = EmptyBag
    /\ linksBegun = 0

Unread(u) == Cardinality({n \in notes : n.user = u /\ ~n.read})

\* The rows a request is about, and those that are there: an id of theirs is not given again.
Named == {errand[k].on : k \in {m \in Agents : errand[m].op \in {"read", "uncomment"}}}

\* The next m unused ids, one of them for each of the people in S, and their notifications.
\* Bound: ids are left.
NextIds(m) ==
    LET free == {i \in NoteIds : \A n \in notes \cup comments \cup Named : n.id # i}
    IN  {i \in free : Cardinality({j \in free : j =< i}) =< m}
IdsFor(S) == {ids \in [S -> NextIds(Cardinality(S))] : \A u, v \in S : u # v => ids[u] # ids[v]}
NotesFor(ids, type) ==
    {[id |-> ids[u], user |-> u, type |-> type, read |-> FALSE] : u \in DOMAIN ids}

\* ActivityService.record.
Recorded(type, what) == feed (+) SetToBag({<<type, what>>})

\* A member asks for `op'; the request goes on with `step'.
Send(k, op, by, on, tell, step) ==
    /\ errand[k] = NoErrand
    /\ by \in crew
    /\ linksBegun < MaxLinkOps
    /\ linksBegun' = linksBegun + 1
    /\ errand' = [errand EXCEPT ![k] = [op |-> op, by |-> by, on |-> on, tell |-> tell, at |-> step]]
    /\ UNCHANGED <<linkRows, browsers, past>>

Reached(k, op, step) == errand[k].op = op /\ errand[k].at = step
GoTo(k, e) == errand' = [errand EXCEPT ![k] = e] /\ UNCHANGED <<browsers, past, linksBegun>>

\* 404, 409, 422 or an exception that rolls the transaction back: nothing changes.
Rejected(k) == GoTo(k, NoErrand) /\ UNCHANGED linkRows
Answered(k) == GoTo(k, NoErrand)
Proceed(k, step, tell) == GoTo(k, [errand[k] EXCEPT !.at = step, !.tell = tell])

-----------------------------------------------------------------------------
(* Assignees *)

\* findTaskBasic, and the membership of the user to assign: a 422 otherwise.
AddAssignee(k) == \E by \in People, u \in crew : task /\ Send(k, "assign", by, u, {}, "write")

\* The unique row, the activity and the assignee's notification stand or fall together.
WriteAssignee(k) ==
    LET e == errand[k]
        told == {e.on} \ {e.by}
    IN  /\ Reached(k, "assign", "write")
        /\ IF ~task \/ e.on \in assigned
           THEN Rejected(k)
           ELSE /\ assigned' = assigned \cup {e.on}
                /\ feed' = Recorded("assigned", e.on)
                /\ \E ids \in IdsFor(told) : notes' = notes \cup NotesFor(ids, "assignment")
                /\ Proceed(k, "signal", told)
                /\ UNCHANGED <<task, crew, labels, worn, comments>>

RemoveAssignee(k) == \E by, u \in People : task /\ Send(k, "unassign", by, u, {}, "write")

\* Slip: the deletion is recorded even if there was no row to delete.
DropAnyAssignee(k) ==
    /\ Reached(k, "unassign", "write")
    /\ assigned' = assigned \ {errand[k].on}
    /\ feed' = Recorded("unassigned", errand[k].on)
    /\ Proceed(k, "announce", {})
    /\ UNCHANGED <<task, crew, labels, worn, comments, notes>>

DropAssignee(k) ==
    /\ Reached(k, "unassign", "write")
    /\ IF errand[k].on \notin assigned
       THEN Rejected(k)
       ELSE /\ assigned' = assigned \ {errand[k].on}
            /\ feed' = Recorded("unassigned", errand[k].on)
            /\ Proceed(k, "announce", {})
            /\ UNCHANGED <<task, crew, labels, worn, comments, notes>>

-----------------------------------------------------------------------------
(* Labels of the task *)

\* The label has to belong to the task's board: a 422 otherwise.
AddLabel(k) == \E by \in People, l \in labels : task /\ Send(k, "wear", by, l, {}, "write")

\* A unique violation is a 409; a label or a task deleted since, a foreign key violation.
WriteLabel(k) ==
    /\ Reached(k, "wear", "write")
    /\ IF ~task \/ errand[k].on \notin labels \/ errand[k].on \in worn
       THEN Rejected(k)
       ELSE /\ worn' = worn \cup {errand[k].on}
            /\ Proceed(k, "announce", {})
            /\ UNCHANGED <<task, crew, assigned, labels, comments, notes, feed>>

RemoveLabel(k) == \E by \in People, l \in labels : task /\ Send(k, "strip", by, l, {}, "write")

\* Slip: the handler answers without emitUpdated.
DropLabelUnheard(k) ==
    /\ Reached(k, "strip", "write")
    /\ errand[k].on \in worn
    /\ worn' = worn \ {errand[k].on}
    /\ Answered(k)
    /\ UNCHANGED <<task, crew, assigned, labels, comments, notes, feed>>

DropLabel(k) ==
    /\ Reached(k, "strip", "write")
    /\ IF errand[k].on \notin worn
       THEN Rejected(k)
       ELSE /\ worn' = worn \ {errand[k].on}
            /\ Proceed(k, "announce", {})
            /\ UNCHANGED <<task, crew, assigned, labels, comments, notes, feed>>

-----------------------------------------------------------------------------
(* Labels of the board *)

CreateLabel(k) == \E by \in People, l \in Labels \ labels :
    /\ \A t \in BagToSet(feed) \cup BagToSet(forgotten) : t[2] # l
    /\ \A m \in Agents : errand[m].on # l
    /\ Send(k, "create label", by, l, {}, "write")

InsertLabel(k) ==
    /\ Reached(k, "create label", "write")
    /\ labels' = labels \cup {errand[k].on}
    /\ Proceed(k, "record", {})
    /\ UNCHANGED <<task, crew, assigned, worn, comments, notes, feed>>

\* Recorded after the insert, outside a transaction: the activity row of a creation may be lost.
RecordLabel(k) ==
    /\ Reached(k, "create label", "record")
    /\ feed' \in {feed, Recorded("label created", errand[k].on)}
    /\ Answered(k)
    /\ UNCHANGED <<task, crew, assigned, labels, worn, comments, notes>>

EditLabel(k) == \E by \in People, l \in labels, op \in {"update label", "delete label"} :
    Send(k, op, by, l, {}, "find")

\* Inside the transaction, but without a lock on the row.
FindLabel(k) ==
    /\ errand[k].op \in {"update label", "delete label"} /\ errand[k].at = "find"
    /\ IF errand[k].on \in labels THEN Proceed(k, "write", {}) /\ UNCHANGED linkRows ELSE Rejected(k)

WriteLabelName(k) ==
    /\ Reached(k, "update label", "write")
    /\ IF errand[k].on \notin labels
       THEN Rejected(k)
       ELSE /\ feed' = Recorded("label updated", errand[k].on)
            /\ Answered(k)
            /\ UNCHANGED <<task, crew, assigned, labels, worn, comments, notes>>

\* Slip: the count of the deleted rows is not looked at, and the recorded deletion stands.
DeleteLabelAgain(k) ==
    /\ Reached(k, "delete label", "write")
    /\ feed' = Recorded("label deleted", errand[k].on)
    /\ labels' = labels \ {errand[k].on}
    /\ worn' = worn \ {errand[k].on}
    /\ Answered(k)
    /\ UNCHANGED <<task, crew, assigned, comments, notes>>

\* Recorded before the delete; count = 0 is a 404 that takes the record back.
DeleteLabel(k) ==
    /\ Reached(k, "delete label", "write")
    /\ IF errand[k].on \notin labels
       THEN Rejected(k)
       ELSE /\ feed' = Recorded("label deleted", errand[k].on)
            /\ labels' = labels \ {errand[k].on}
            /\ worn' = worn \ {errand[k].on}
            /\ Answered(k)
            /\ UNCHANGED <<task, crew, assigned, comments, notes>>

-----------------------------------------------------------------------------
(* Comments *)

\* findTask, and parseMentions without the author.
CreateComment(k) == \E by \in People : \E mentioned \in SUBSET (People \ {by}) :
    task /\ Send(k, "comment", by, "none", mentioned, "write")

\* Only members are notified; they are read inside the transaction.
WriteComment(k) ==
    LET e == errand[k]
        told == e.tell \cap crew
    IN  /\ Reached(k, "comment", "write")
        /\ IF ~task
           THEN Rejected(k)
           ELSE /\ \E ids \in IdsFor(told), i \in NextIds(Cardinality(told) + 1) :
                      /\ \A u \in told : ids[u] # i
                      /\ comments' = comments \cup {[id |-> i, by |-> e.by]}
                      /\ notes' = notes \cup NotesFor(ids, "mention")
                /\ feed' = Recorded("commented", "task")
                /\ Proceed(k, "signal", told)
                /\ UNCHANGED <<task, crew, assigned, labels, worn>>

\* Its author, an OWNER or an ADMIN: a 403 otherwise.  No event follows a deletion.
RemoveComment(k) == \E by \in People, c \in comments :
    (c.by = by \/ by \in Admins) /\ Send(k, "uncomment", by, c, {}, "write")

DeleteComment(k) ==
    /\ Reached(k, "uncomment", "write")
    /\ comments' = comments \ {errand[k].on}
    /\ Answered(k)
    /\ UNCHANGED <<task, crew, assigned, labels, worn, notes, feed>>

-----------------------------------------------------------------------------
(* Notifications *)

MarkRead(k) == \E n \in notes : Send(k, "read", n.user, n, {}, "find")

\* An already read row is answered as it is, and changes nobody's count.
FindNote(k) ==
    /\ Reached(k, "read", "find")
    /\ IF \E n \in notes : n.id = errand[k].on.id /\ ~n.read
       THEN Proceed(k, "write", {}) /\ UNCHANGED linkRows
       ELSE Rejected(k)

ReadNotes(S) == {n \in notes : n \notin S} \cup {[n EXCEPT !.read = TRUE] : n \in S}

\* A row deleted since it was found fails the update.
WriteRead(k) ==
    LET S == {n \in notes : n.id = errand[k].on.id}
    IN  /\ Reached(k, "read", "write")
        /\ IF S = {}
           THEN Rejected(k)
           ELSE /\ notes' = ReadNotes(S)
                /\ Proceed(k, "signal", {errand[k].by})
                /\ UNCHANGED <<task, crew, assigned, labels, worn, comments, feed>>

MarkAllRead(k) == \E u \in People : Send(k, "read all", u, "none", {}, "write")

\* Slip: the count is not compared with zero the right way round.
WriteAllReadUnheard(k) ==
    /\ Reached(k, "read all", "write")
    /\ notes' = ReadNotes({n \in notes : n.user = errand[k].by})
    /\ IF Unread(errand[k].by) = 0 THEN Proceed(k, "signal", {errand[k].by}) ELSE Answered(k)
    /\ UNCHANGED <<task, crew, assigned, labels, worn, comments, feed>>

WriteAllRead(k) ==
    /\ Reached(k, "read all", "write")
    /\ notes' = ReadNotes({n \in notes : n.user = errand[k].by})
    /\ IF Unread(errand[k].by) > 0 THEN Proceed(k, "signal", {errand[k].by}) ELSE Answered(k)
    /\ UNCHANGED <<task, crew, assigned, labels, worn, comments, feed>>

-----------------------------------------------------------------------------
(* Signals and events, the browsers, and what other services do *)

\* emitUnreadChanged, after the commit, once per user.
SignalUsers(k) ==
    LET e == errand[k]
    IN  /\ e.at = "signal"
        /\ signals' = signals \cup e.tell
        /\ errand' = [errand EXCEPT ![k] =
                        IF e.op = "assign" THEN [e EXCEPT !.at = "announce"] ELSE NoErrand]
        /\ UNCHANGED <<linkRows, badge, event, watched, past, linksBegun>>

\* emitUpdated: a task that is gone is a 404 after the commit.
AnnounceTask(k) ==
    /\ errand[k].at = "announce"
    /\ errand' = [errand EXCEPT ![k] = NoErrand]
    /\ event' = (event \/ task)
    /\ UNCHANGED <<linkRows, signals, badge, watched, past, linksBegun>>

\* GET unread-count, and GET of the task, by a browser that was told to.
Recount(u) ==
    /\ u \in signals
    /\ signals' = signals \ {u}
    /\ badge' = [badge EXCEPT ![u] = Unread(u)]
    /\ UNCHANGED <<linkRows, errand, event, watched, past, linksBegun>>

ReadAgain ==
    /\ event
    /\ event' = FALSE
    /\ watched' = [people |-> assigned, labels |-> worn]
    /\ UNCHANGED <<linkRows, errand, signals, badge, past, linksBegun>>

\* A member leaves; the assignments stay.
LeaveWorkspace(u) ==
    /\ u \in crew
    /\ crew' = crew \ {u}
    /\ UNCHANGED <<task, assigned, labels, worn, comments, notes, feed, errand, browsers, past,
                   linksBegun>>

\* The cascade takes what hangs on the task, and sends no signal for the notifications.
RemoveTask ==
    /\ task
    /\ task' = FALSE
    /\ assigned' = {} /\ worn' = {} /\ comments' = {} /\ notes' = {}
    /\ UNCHANGED <<crew, labels, feed, errand, browsers, past, linksBegun>>

\* AccountDeletionService, in one transaction and with no event or signal for a task; the User row
\* stays, and so do the comments.  A workspace that goes with its owner is RemoveTask's.
EraseAccount(u) ==
    /\ u \notin erased
    /\ erased' = erased \cup {u}
    /\ struck' = struck \cup ({u} \cap assigned)
    /\ assigned' = assigned \ {u}
    /\ notes' = {n \in notes : n.user # u}
    /\ crew' = crew \ {u}
    /\ feed' = IF u \in crew THEN Recorded("account deleted", u) ELSE feed
    /\ UNCHANGED <<task, labels, worn, comments, errand, browsers, forgotten, linksBegun>>

\* The nightly cleanup deletes rows of the feed that have grown old.
ForgetActivity == \E r \in BagToSet(feed) :
    /\ linksBegun < MaxLinkOps
    /\ linksBegun' = linksBegun + 1
    /\ feed' = feed (-) SetToBag({r})
    /\ forgotten' = forgotten (+) SetToBag({r})
    /\ UNCHANGED <<task, crew, assigned, labels, worn, comments, notes, errand, browsers, erased, struck>>

LinkRequest(k) ==
    \/ AddAssignee(k) \/ RemoveAssignee(k) \/ AddLabel(k) \/ RemoveLabel(k)
    \/ CreateLabel(k) \/ EditLabel(k) \/ CreateComment(k) \/ RemoveComment(k)
    \/ MarkRead(k) \/ MarkAllRead(k)

LinkStep(k) ==
    \/ WriteAssignee(k) \/ DropAssignee(k) \/ WriteLabel(k) \/ DropLabel(k)
    \/ InsertLabel(k) \/ RecordLabel(k) \/ FindLabel(k) \/ WriteLabelName(k) \/ DeleteLabel(k)
    \/ WriteComment(k) \/ DeleteComment(k)
    \/ FindNote(k) \/ WriteRead(k) \/ WriteAllRead(k)
    \/ SignalUsers(k) \/ AnnounceTask(k)

LinkNext ==
    \/ \E k \in Agents : LinkRequest(k) \/ LinkStep(k)
    \/ \E u \in People : Recount(u) \/ LeaveWorkspace(u) \/ EraseAccount(u)
    \/ ReadAgain
    \/ RemoveTask
    \/ ForgetActivity

LinkSpec == LinkInit /\ [][LinkNext]_linkVars

-----------------------------------------------------------------------------
(* Properties *)

NothingInFlight == \A k \in Agents : errand[k] = NoErrand

Copies(r, bag) == IF BagIn(r, bag) THEN bag[r] ELSE 0

\* Rows ever recorded: those of the feed and those that retention has deleted since.
TimesRecorded(type, what) == Copies(<<type, what>>, feed) + Copies(<<type, what>>, forgotten)

(***************************************************************************)
(* Once nothing is in flight, the unread count a user sees is the number of *)
(* unread notifications the database has for them: every transaction that   *)
(* inserts or reads notifications signals its users after its commit.  The  *)
(* deletions of a task and of an account signal nobody, and are left out.   *)
(***************************************************************************)
BadgesCatchUp ==
    task /\ NothingInFlight => \A u \in People \ (signals \cup erased) : badge[u] = Unread(u)

AssignmentsMatchFeed ==
    task => \A u \in People :
        TimesRecorded("assigned", u) - TimesRecorded("unassigned", u)
            = (IF u \in assigned THEN 1 ELSE 0) + (IF u \in struck THEN 1 ELSE 0)

LabelDeletionsAuditedOnce ==
    \A l \in Labels : TimesRecorded("label deleted", l) =< (IF l \in labels THEN 0 ELSE 1)

(***************************************************************************)
(* The activity that was ever recorded tells what happened, whoever meets   *)
(* whom.  While the task is there, a user has one assignment more than      *)
(* removals exactly if they are assigned; for one whom the erasure of their *)
(* account unassigned, which records no removal, there is one more still.   *)
(* And two deletions that both found a label leave one row, if it is gone,  *)
(* and none if it is not.  What the feed still shows is less than this once *)
(* retention has deleted rows of it.                                        *)
(***************************************************************************)
FeedMatchesRows == AssignmentsMatchFeed /\ LabelDeletionsAuditedOnce

(***************************************************************************)
(* Once nothing is in flight, a watcher that answered its events shows the  *)
(* assignees and the labels the task has.  Left out are the deletion of a   *)
(* label and the assignments that went with an account, which nobody is     *)
(* told of.                                                                 *)
(***************************************************************************)
LinksCatchUp ==
    task /\ NothingInFlight /\ ~event => /\ watched.people \ struck = assigned \ struck
                              /\ watched.labels \cap labels = worn

=============================================================================
