------------------------------- MODULE TaskPanel -------------------------------
(***************************************************************************)
(* The task panel of the board (apps/web/components/task) as its hooks are  *)
(* written: the task a route selects and the board may not hold             *)
(* (useBoardData over useApiResource), its attachments (useTaskAttachments), *)
(* the detail its checklists need (useTaskChecklists), its comments and      *)
(* activity (useTaskMetadata).  Every hook reads again when what it read for *)
(* changes and aborts the read it had; the writes are not aborted.          *)
(*                                                                         *)
(* A request is answered in one step, which is the step in which the server *)
(* serves it; what an answer that is late by itself does is BoardClient's.  *)
(***************************************************************************)
EXTENDS Integers, FiniteSets

CONSTANTS
    PanelTasks,    \* tasks of the board
    PanelPage,     \* COMMENTS_PAGE_LIMIT
    PanelActs      \* bound: what this user and the others do

ASSUME PanelAssumption ==
    /\ PanelTasks \subseteq Nat \ {0} /\ IsFiniteSet(PanelTasks)
    /\ PanelPage \in Nat \ {0} /\ PanelActs \in Nat

VARIABLES
    live,        \* tasks of the server
    attached,    \* its attachments and comments: [kind, of, n], n in order of creation
    ui,          \* the browser: what is shown and what it waits for, see Closed
    told,        \* the task the server last said it does not have
    panelActs

panelVars == <<live, attached, ui, told, panelActs>>

PanelReads == {"row", "files", "detail", "thread"}

\* The component a write belongs to: the write of one that is gone shows nothing.
PanelCalls == {"upload", "unfile", "tick", "save"}
ThreadCalls == {"post", "unpost", "more", "trail"}

NoFiles == [items |-> {}, of |-> 0, failed |-> 0, strayed |-> FALSE]
NoThread == [items |-> {}, cursor |-> 0, loading |-> TRUE, failed |-> FALSE, strayed |-> FALSE]

\* The board with no panel open: `board` says what it holds of each task.
Closed(board) ==
    [route |-> 0, board |-> board,
     row |-> [failed |-> FALSE, gone |-> FALSE],       \* fetchedTaskError, selectedTaskGone
     files |-> NoFiles,                                \* attachments, loadedTaskId, failedTaskId
     undetailed |-> 0,                                 \* failedTaskId of the checklists
     thread |-> NoThread,                              \* the TaskMeta, loading, failed
     calls |-> {}, busy |-> {}]

Held(S) == [t \in S |-> "summary"]

PanelInit ==
    /\ live = PanelTasks
    /\ attached \in {{}, {[kind |-> k, of |-> t, n |-> 1] : k \in {"file", "note"}, t \in PanelTasks}}
    /\ \E S \in SUBSET PanelTasks : ui = Closed(Held(S))
    /\ told = 0 /\ panelActs = 0

-----------------------------------------------------------------------------
(* Rendering *)

\* The task prop: what the route selects, once the board holds it.
Task(u) == IF u.route \in DOMAIN u.board THEN u.route ELSE 0

\* What each read is for, 0 when there is nothing to read.
Wanted(u) == [read \in PanelReads |->
    CASE read = "row" -> IF u.route \in DOMAIN u.board THEN 0 ELSE u.route
      [] read = "detail" -> IF Task(u) # 0 /\ u.board[Task(u)] = "summary" THEN u.route ELSE 0
      [] OTHER -> Task(u)]

Read(read, t) ==
    [what |-> read, task |-> t, here |-> TRUE, base |-> {}, item |-> {}, astray |-> FALSE]

(* Three operators the hooks are built from, each behind a slip of its own. *)

\* An "already asked for this task" guard around the detail, which the comment of
\* useTaskChecklists warns of.
StaleOnce(now, was) ==
    {read \in PanelReads : now[read] # was[read] /\ (read = "detail" => now["thread"] # was["thread"])}

\* The dependencies of the hooks' effects.
Stale(now, was) == {read \in PanelReads : now[read] # was[read]}

UnabortedCalls(calls, stale) == calls

\* The AbortController of each effect.
UnlessAborted(calls, stale) == {c \in calls : c.what \notin stale}

ErrorKept(failed, needed) == failed

\* useApiResource takes its error back in the render that first sees the new request.
ErrorOf(failed, needed) == failed /\ "row" \notin needed

\* PanelReads whose subject changed are aborted and begun again, and so are those in `again`.
Rerequested(u, again) ==
    LET now == Wanted(u)
        stale == Stale(now, Wanted(ui)) \cup again
        needed == {read \in stale : now[read] # 0} IN
    [u EXCEPT !.calls = UnlessAborted(@, stale) \cup {Read(read, now[read]) : read \in needed},
              !.row.failed = ErrorOf(@, needed)]

\* A component that leaves takes its state with it.
Orphaned(calls, kinds) ==
    {IF c.what \in kinds THEN [c EXCEPT !.here = FALSE] ELSE c : c \in calls}

Unmounted(u) ==
    LET panel == IF u.route # 0 THEN u ELSE
            [u EXCEPT !.files = NoFiles, !.undetailed = 0, !.busy = @ \ {"files", "tick", "save"},
                      !.calls = Orphaned(@, PanelCalls)] IN
    IF Task(u) # 0 THEN panel ELSE
        [panel EXCEPT !.thread = NoThread, !.busy = @ \ {"thread", "more"},
                      !.calls = Orphaned(@, ThreadCalls)]

\* Another task's thread stays on screen, marked as loading, until its own has come.
Reloading(u, again) ==
    IF Task(u) # Task(ui) \/ "thread" \in again
    THEN [u EXCEPT !.thread.loading = TRUE, !.thread.failed = FALSE]
    ELSE u

RenderedAgain(u, again) ==
    \E state \in {u} : \E requested \in {Rerequested(state, again)} :
        ui' = Unmounted(Reloading(requested, again))

Rendered(u) == RenderedAgain(u, {})

-----------------------------------------------------------------------------
(* The others, and the board around the panel *)

Of(kind, t) == {i \in attached : i.kind = kind /\ i.of = t}

\* The next attachment or comment of the task.
Fresh(kind, t) ==
    LET given == {i.n : i \in Of(kind, t)}
        last == IF given = {} THEN 0 ELSE CHOOSE n \in given : \A m \in given : m <= n IN
    [kind |-> kind, of |-> t, n |-> last + 1]

PanelAct == panelActs < PanelActs /\ panelActs' = panelActs + 1

Navigate == \E t \in (PanelTasks \cup {0}) \ {ui.route} :
    /\ PanelAct
    /\ Rendered([ui EXCEPT !.route = t])
    /\ UNCHANGED <<live, attached, told>>

\* Another filter: the rows come back with their summaries only.  A reload brings the
\* members too, which the thread is read along with.
Redrained == \E S \in SUBSET live, again \in {{}, {"thread"}} :
    /\ PanelAct
    /\ RenderedAgain([ui EXCEPT !.board = Held(S)], again)
    /\ UNCHANGED <<live, attached, told>>

\* applyTaskPatch and upsertRemoteTask with a row that stands on its own.
Whole(u, t) == [u EXCEPT !.board = [s \in DOMAIN @ \cup {t} |-> IF s = t THEN "whole" ELSE @[s]]]

\* task:updated and what useBoardRealtime reads for it.
RowHeard == \E t \in live :
    /\ PanelAct
    /\ Rendered(Whole(ui, t))
    /\ UNCHANGED <<live, attached, told>>

TaskDeleted == \E t \in live :
    /\ PanelAct
    /\ live' = live \ {t} /\ attached' = {i \in attached : i.of # t}
    /\ Rendered([ui EXCEPT !.board = [s \in DOMAIN @ \ {t} |-> @[s]]])
    /\ UNCHANGED told

\* comment:added bumps metaRefreshKey when it is about the open task.
CommentHeard(u, t) == IF t = u.route /\ Task(u) # 0 THEN RenderedAgain(u, {"thread"}) ELSE Rendered(u)

RemoteComment == \E t \in live :
    /\ PanelAct
    /\ attached' = attached \cup {Fresh("note", t)}
    /\ CommentHeard(ui, t)
    /\ UNCHANGED <<live, told>>

Retry ==
    /\ PanelAct
    /\ Wanted(ui)["row"] # 0 /\ ui.row.failed /\ ~ui.row.gone
    /\ RenderedAgain(ui, {"row"})
    /\ UNCHANGED <<live, attached, told>>

-----------------------------------------------------------------------------
(* PanelReads *)

\* Comments come back oldest first, a page at a time.
Page(t, after) ==
    LET rest == {i \in Of("note", t) : i.n >= after} IN
    {i \in rest : Cardinality({j \in rest : j.n < i.n}) < PanelPage}

\* Where the next page starts, 0 once the thread is drained.
NextCursor(t, after) ==
    LET left == {i \in Of("note", t) : i.n >= after} \ Page(t, after) IN
    IF left = {} THEN 0 ELSE CHOOSE n \in {i.n : i \in left} : \A i \in left : n <= i.n

Landed(c) == [ui EXCEPT !.calls = @ \ {c}]

RowAnswered(c) ==
    /\ c.what = "row" /\ c.task \in live
    /\ Rendered(Whole(Landed(c), c.task))

FilesAnswered(c) ==
    /\ c.what = "files" /\ c.task \in live
    /\ Rendered([Landed(c) EXCEPT !.files =
                 [items |-> Of("file", c.task), of |-> c.task, failed |-> 0, strayed |-> FALSE]])

DetailAnswered(c) ==
    /\ c.what = "detail" /\ c.task \in live
    /\ Rendered(Whole([Landed(c) EXCEPT !.undetailed = 0], c.task))

ThreadAnswered(c) ==
    /\ c.what = "thread" /\ c.task \in live
    /\ Rendered([Landed(c) EXCEPT !.thread =
                 [items |-> Page(c.task, 0), cursor |-> NextCursor(c.task, 0),
                  loading |-> FALSE, failed |-> FALSE, strayed |-> FALSE]])

\* No answer, or a 404, which only the row's read tells apart.
ReadFailed(c) ==
    /\ c.what \in PanelReads
    /\ Rendered(
         CASE c.what = "row" ->
                [Landed(c) EXCEPT !.row = [failed |-> TRUE, gone |-> c.task \notin live]]
           [] c.what = "files" -> [Landed(c) EXCEPT !.files.failed = c.task]
           [] c.what = "detail" -> [Landed(c) EXCEPT !.undetailed = c.task]
           [] OTHER -> [Landed(c) EXCEPT !.thread =
                                [NoThread EXCEPT !.loading = FALSE, !.failed = TRUE]])

ReadLands == \E c \in ui.calls :
    /\ RowAnswered(c) \/ FilesAnswered(c) \/ DetailAnswered(c) \/ ThreadAnswered(c) \/ ReadFailed(c)
    /\ told' = IF c.what = "row" /\ c.task \notin live THEN c.task ELSE told
    /\ UNCHANGED <<live, attached, panelActs>>

-----------------------------------------------------------------------------
(* Writes, and the reads nothing aborts *)

\* What the panel lists: the rows, but only for the task they were read for.
FileRows(u) == IF u.files.of = Task(u) THEN u.files.items ELSE {}

Begun(what, flag, base, item) ==
    /\ PanelAct
    /\ Task(ui) # 0 /\ flag \notin ui.busy
    /\ ui' = [ui EXCEPT !.busy = @ \cup {flag},
                        !.calls = @ \cup {[what |-> what, task |-> ui.route, here |-> TRUE,
                                           base |-> base, item |-> item,
                                           astray |-> ui.files.strayed]}]
    /\ UNCHANGED <<live, attached, told>>

Upload == Begun("upload", "files", FileRows(ui), {})
RemoveFile == \E i \in FileRows(ui) : Begun("unfile", "files", FileRows(ui), {i})
Tick == Task(ui) # 0 /\ ui.board[Task(ui)] = "whole" /\ Begun("tick", "tick", {}, {})
Save == Begun("save", "save", {}, {})
Post == Begun("post", "thread", {}, {})
RemoveComment == \E i \in ui.thread.items : Begun("unpost", "thread", {}, {i})

\* The request goes on from the cursor that was on screen when it was made: its `base'.
LoadMore ==
    /\ ui.thread.cursor # 0
    /\ Begun("more", "more", {[kind |-> "note", of |-> ui.route, n |-> ui.thread.cursor]}, {})

\* The call is over; a list that takes the rows of another task's write has strayed, and so
\* has one that takes the rows of a write that began from such a list.
FilesWritten(c, items) ==
    IF ~c.here THEN Landed(c) ELSE
    [Landed(c) EXCEPT !.busy = @ \ {"files"}, !.files.items = items,
                        !.files.strayed = @ \/ c.astray \/ ui.files.of # c.task]

ThreadWritten(c, flag, items) ==
    IF ~c.here THEN Landed(c) ELSE
    [Landed(c) EXCEPT !.busy = @ \ {flag}, !.thread.items = items,
                        !.thread.strayed = @ \/ Task(ui) # c.task]

\* applyTaskPatch with a few fields: of a row the board does not hold it reloads the board.
Patched(u, t) == {IF t \in DOMAIN u.board THEN u ELSE [u EXCEPT !.board = Held(S)] : S \in SUBSET live}

FileStored(c) ==
    /\ c.what = "upload" /\ c.task \in live
    /\ LET new == Fresh("file", c.task) IN
       /\ attached' = attached \cup {new}
       /\ \E u \in Patched(FilesWritten(c, c.base \cup {new}), c.task) : Rendered(u)

FileRemoved(c) ==
    /\ c.what = "unfile" /\ c.item \subseteq attached
    /\ attached' = attached \ c.item
    /\ \E u \in Patched(FilesWritten(c, c.base \ c.item), c.task) : Rendered(u)

\* Every checklist endpoint, and a saved title, answers with the whole row.
RowWritten(c) ==
    /\ c.what \in {"tick", "save"} /\ c.task \in live
    /\ Rendered(Whole([Landed(c) EXCEPT !.busy = IF c.here THEN @ \ {c.what} ELSE @], c.task))
    /\ UNCHANGED attached

\* Posting ends with a read of the activity, which nothing aborts either.
Posted(c) == \E heard \in BOOLEAN :
    /\ c.what = "post" /\ c.task \in live
    /\ LET new == Fresh("note", c.task)
           shown == ThreadWritten(c, "thread", ui.thread.items \cup {new})
           then == [shown EXCEPT !.calls = @ \cup {[c EXCEPT !.what = "trail"]}] IN
       /\ attached' = attached \cup {new}
       /\ IF heard THEN CommentHeard(then, c.task) ELSE Rendered(then)

CommentRemoved(c) ==
    /\ c.what = "unpost" /\ c.item \subseteq attached
    /\ attached' = attached \ c.item
    /\ Rendered(ThreadWritten(c, "thread", ui.thread.items \ c.item))

MoreCame(c) ==
    /\ c.what = "more" /\ c.task \in live
    /\ \E from \in {i.n : i \in c.base} : Rendered(
         LET u == ThreadWritten(c, "more", ui.thread.items \cup Page(c.task, from)) IN
         IF c.here THEN [u EXCEPT !.thread.cursor = NextCursor(c.task, from)] ELSE u)
    /\ UNCHANGED attached

TrailCame(c) ==
    /\ c.what = "trail"
    /\ Rendered(Landed(c))
    /\ UNCHANGED attached

\* Refused, or unanswered: the list stays, and the controls come back.
ListWriteFailed(c) ==
    /\ c.what \in {"upload", "unfile", "post", "unpost", "more"}
    /\ LET flag == CASE c.what = "more" -> "more"
                     [] c.what \in PanelCalls -> "files"
                     [] OTHER -> "thread" IN
       Rendered([Landed(c) EXCEPT !.busy = IF c.here THEN @ \ {flag} ELSE @])
    /\ UNCHANGED attached

\* What was shown ahead of the answer is put back, checklists with it; a task that is not
\* there any more closes the panel, whichever task it shows.
RowWriteFailed(c) ==
    /\ c.what \in {"tick", "save"}
    /\ \E u \in Patched([Landed(c) EXCEPT !.busy = IF c.here THEN @ \ {c.what} ELSE @], c.task) :
         LET back == IF c.what = "tick" /\ c.task \in DOMAIN u.board THEN Whole(u, c.task) ELSE u IN
         Rendered(IF c.what = "save" /\ c.task \notin live THEN [back EXCEPT !.route = 0]
                                                                ELSE back)
    /\ UNCHANGED attached

WriteLands == \E c \in ui.calls :
    /\ \/ FileStored(c) \/ FileRemoved(c) \/ RowWritten(c) \/ Posted(c) \/ CommentRemoved(c)
       \/ MoreCame(c) \/ TrailCame(c) \/ ListWriteFailed(c) \/ RowWriteFailed(c)
    /\ UNCHANGED <<live, told, panelActs>>

PanelNext ==
    \/ Navigate \/ Redrained \/ RowHeard \/ TaskDeleted \/ RemoteComment \/ Retry
    \/ ReadLands
    \/ Upload \/ RemoveFile \/ Tick \/ Save \/ Post \/ RemoveComment \/ LoadMore
    \/ WriteLands

PanelSpec == PanelInit /\ [][PanelNext]_panelVars

-----------------------------------------------------------------------------
(* Properties *)

PanelTypeOK ==
    /\ live \subseteq PanelTasks
    /\ \A i \in attached : i.kind \in {"file", "note"} /\ i.of \in live /\ i.n \in Nat \ {0}
    /\ told \in PanelTasks \cup {0} /\ panelActs \in 0..PanelActs
    /\ ui.route \in PanelTasks \cup {0}
    /\ DOMAIN ui.board \subseteq PanelTasks
    /\ \A t \in DOMAIN ui.board : ui.board[t] \in {"summary", "whole"}
    /\ \A c \in ui.calls : c.what \in PanelReads \cup PanelCalls \cup ThreadCalls /\ c.task \in PanelTasks
    /\ \A r \in PanelReads : {c.task : c \in {d \in ui.calls : d.what = r}} \subseteq {Wanted(ui)[r]}
    /\ ui.busy \subseteq {"files", "tick", "save", "thread", "more"}

\* The lists the panel shows are those of the task it is open on: an attachment always, a
\* comment once its thread is not loading any more, however quickly the user goes from task
\* to task ("the AbortController so a fast task switch cannot land a stale list").  A write
\* is not aborted and may land in another task's list; until the next read this excuses it,
\* and a later write that began from such a list is excused as well.
ReadsStayHome ==
    /\ ui.files.strayed \/ \A i \in FileRows(ui) : i.of = ui.route
    /\ ui.thread.strayed \/ ui.thread.loading \/ \A i \in ui.thread.items : i.of = ui.route

\* What the panel says of a task the board does not hold.
Verdict ==
    IF Wanted(ui)["row"] = 0 THEN "shown"
    ELSE IF ~ui.row.failed THEN "loading"
    ELSE IF ui.row.gone THEN "missing" ELSE "failed"

\* "This task no longer exists" is said only of a task the server does not have, and never
\* of the one before it or of one whose read broke.
MissingIsAnAnswer == Verdict = "missing" => told = ui.route

\* Does some part of the panel show a skeleton?
Skeleton ==
    \/ Verdict = "loading"
    \/ Task(ui) # 0 /\ \/ ui.files.of # ui.route /\ ui.files.failed # ui.route
                       \/ ui.board[ui.route] = "summary" /\ ui.undetailed # ui.route
                       \/ ui.thread.loading

\* A panel that is open on a task comes to rest: every part of it is shown or has failed,
\* also when the board takes back a row whose detail had been read.
PanelSettles == []<>(ui.route = 0 \/ ~Skeleton)

=============================================================================
