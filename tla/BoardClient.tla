------------------------------ MODULE BoardClient ------------------------------
(***************************************************************************)
(* One browser with a board open (apps/web/components/board): useBoardData  *)
(* drains the tasks page by page, useBoardRealtime applies the events of    *)
(* the board's room and asks for a resync when it joins, useBoardMutations  *)
(* shows a move before the server has it and takes it back when refused.    *)
(*                                                                         *)
(* Events come over the socket, in the order they were sent.  Requests are  *)
(* separate: they are served, and their answers arrive, in any order among  *)
(* each other and beside the events.  A lost connection loses the events    *)
(* that are under way and no answers; a read does not fail; two equal reads *)
(* that are both still to be served count as one.                           *)
(***************************************************************************)
EXTENDS Integers, Sequences, FiniteSets

CONSTANTS
    TaskIds,       \* tasks of the board, existing and still to be created
    BoardLanes,    \* where a task can be: a column, and a place in it
    StartBoards,   \* what the board may hold: functions from tasks to rows
    TaskPage,      \* BOARD_TASK_PAGE_LIMIT
    MaxActs        \* bound: changes by others, lost connections, and what this user does

\* What a row says besides where it is: the change of the task that wrote it.
CardRows == [lane : BoardLanes, text : Nat]
IsBoard(b) == DOMAIN b \subseteq TaskIds /\ b \in [DOMAIN b -> CardRows]

ASSUME BoardClientAssumption ==
    /\ TaskIds \subseteq Nat \ {0} /\ IsFiniteSet(TaskIds)
    /\ \A b \in StartBoards : IsBoard(b) /\ \A t \in DOMAIN b : b[t].text = 1
    /\ TaskPage \in Nat \ {0}
    /\ MaxActs \in Nat

VARIABLES
    rows,        \* Task rows of the board: [lane, text]
    stamp,       \* how often each task has changed, its creation included
    placed,      \* which of its changes put it where it is
    columnSet,   \* what has been done to its columns
    room,        \* is this socket in the board's room?
    asked,       \* requests on their way to the server
    wire,        \* the socket's: events, and the join's acknowledgement, in their order
    answers,     \* of requests that were served, on their way to the browser in no order
    link,        \* the socket: "down", "open", or "joined" once the join is acknowledged
    drawn,       \* the tasks on screen
    drawnCols,   \* the columns on screen
    loading,     \* has the first page not arrived yet?
    armed,       \* tasks with a refetch timer running
    resync,      \* its timer, whether it runs, whether another is queued, and if one is recent
    drains,      \* what each drain still waits for
    drag,        \* the task being dragged, or 0
    moves,       \* moveGenerationRef
    owed,        \* was a join acknowledged that no drain has started since?
    skipped,     \* was the resync of a join dropped since the last drain began?
    restored,    \* has a refused move put its snapshot back since the last drain began?
    overtaken,   \* has older data been shown over newer since the last drain began?
    latest,      \* the latest change of each task that something the browser received is later than
    latestCols,  \* the same of the columns
    acts         \* how much of this has happened

cards == <<rows, stamp, placed>>
serverSide == <<cards, columnSet, room>>
screen == <<drawn, drawnCols, loading>>
lapses == <<owed, skipped, restored, overtaken, latest, latestCols>>
clientVars == <<rows, stamp, placed, columnSet, room, asked, wire, answers, link, drawn, drawnCols,
                loading, armed, resync, drains, drag, moves, owed, skipped, restored, overtaken,
                latest, latestCols, acts>>

NoTasks == [t \in {} |-> 0]
Drains == {"load", "resync", "undo"}

ClientTypeOK ==
    /\ IsBoard(rows) /\ IsBoard(drawn)
    /\ (room => link # "down") /\ (wire # <<>> => room)
    /\ link \in {"down", "open", "joined"} /\ (link = "joined" => room)
    /\ armed \subseteq TaskIds
    /\ resync \in [timer : BOOLEAN, running : BOOLEAN, queued : BOOLEAN, fresh : BOOLEAN]
    /\ resync.queued => resync.running
    /\ drains \in [Drains -> SUBSET {"meta", "pages"}]
    /\ drag \in TaskIds \cup {0}
    /\ {owed, skipped, restored, overtaken, loading} \subseteq BOOLEAN
    /\ {stamp, placed, latest} \subseteq [TaskIds -> Nat] /\ latestCols \subseteq columnSet
    /\ \A t \in TaskIds : latest[t] =< stamp[t]

\* The frame and the first page are asked for together.
DrainCalls(by) == {[kind |-> "meta", by |-> by], [kind |-> "page", by |-> by, after |-> 0]}

ClientInit ==
    /\ rows \in StartBoards
    /\ columnSet = IF rows = NoTasks THEN {} ELSE {0}
    /\ stamp = [t \in TaskIds |-> IF t \in DOMAIN rows THEN 1 ELSE 0] /\ placed = stamp
    /\ room = FALSE /\ link = "down"
    /\ asked = DrainCalls("load")
    /\ wire = <<>> /\ answers = {}
    /\ drawn = NoTasks /\ drawnCols = {} /\ loading = TRUE
    /\ armed = {}
    /\ resync = [timer |-> FALSE, running |-> FALSE, queued |-> FALSE, fresh |-> TRUE]
    /\ drains = [by \in Drains |-> IF by = "load" THEN {"meta", "pages"} ELSE {}]
    /\ drag = 0 /\ moves = 0
    /\ owed = FALSE /\ skipped = FALSE /\ restored = FALSE
    /\ overtaken = FALSE /\ latest = [t \in TaskIds |-> 0] /\ latestCols = {}
    /\ acts = 0

Acts == acts < MaxActs /\ acts' = acts + 1

-----------------------------------------------------------------------------
(* The server *)

\* emitToBoard reaches the sockets that are in the room.
Emitted(event) == IF room THEN Append(wire, event) ELSE wire

ServerAlone == UNCHANGED <<room, link, screen, armed, resync, drains, drag, moves, lapses>>

Stamped(t) == [stamp EXCEPT ![t] = @ + 1]

\* Another member creates, edits, moves or deletes a task.  An id is used once.
RemoteTask == \E t \in TaskIds, lane \in BoardLanes :
    /\ Acts /\ columnSet # {}
    /\ stamp' = Stamped(t)
    /\ \/ /\ t \notin DOMAIN rows /\ stamp[t] = 0
          /\ rows' = [s \in DOMAIN rows \cup {t} |->
                        IF s = t THEN [lane |-> lane, text |-> stamp'[t]] ELSE rows[s]]
          /\ placed' = [placed EXCEPT ![t] = stamp'[t]]
          /\ wire' = Emitted([kind |-> "created", task |-> t, at |-> stamp'[t]])
       \/ /\ t \in DOMAIN rows /\ lane = rows[t].lane
          /\ rows' = [rows EXCEPT ![t].text = stamp'[t]] /\ UNCHANGED placed
          /\ wire' = Emitted([kind |-> "updated", task |-> t, at |-> stamp'[t]])
       \/ /\ t \in DOMAIN rows /\ lane # rows[t].lane
          /\ rows' = [rows EXCEPT ![t].lane = lane]
          /\ placed' = [placed EXCEPT ![t] = stamp'[t]]
          /\ wire' = Emitted([kind |-> "moved", task |-> t, lane |-> lane, own |-> FALSE,
                               at |-> stamp'[t]])
       \/ /\ t \in DOMAIN rows /\ lane = rows[t].lane
          /\ rows' = [s \in DOMAIN rows \ {t} |-> rows[s]] /\ UNCHANGED placed
          /\ wire' = Emitted([kind |-> "deleted", task |-> t, at |-> stamp'[t]])
    /\ ServerAlone /\ UNCHANGED <<columnSet, asked, answers>>

RemoteColumn ==
    /\ Acts
    /\ columnSet' = columnSet \cup {acts'}
    /\ wire' = Emitted([kind |-> "columns"])
    /\ ServerAlone /\ UNCHANGED <<cards, asked, answers>>

\* A page is keyed on the task id, and names the next cursor while there are more.
PageAfter(cursor) ==
    LET rest == {t \in DOMAIN rows : t > cursor}
        page == {t \in rest : Cardinality({s \in rest : s =< t}) =< TaskPage}
        last == CHOOSE t \in page : \A s \in page : s =< t
    IN  [tasks |-> [t \in page |-> rows[t]],
         next |-> IF page = rest THEN 0 ELSE last]

Replied(r, message) == asked' = asked \ {r} /\ answers' = answers \cup {message}

AnswerRead == \E r \in asked :
    /\ \/ /\ r.kind = "page"
          /\ Replied(r, [kind |-> "page", by |-> r.by, first |-> r.after = 0, at |-> stamp,
                          tasks |-> PageAfter(r.after).tasks, next |-> PageAfter(r.after).next])
       \/ /\ r.kind = "meta"
          /\ Replied(r, [kind |-> "meta", by |-> r.by, columns |-> columnSet])
       \/ /\ r.kind = "columns"
          /\ Replied(r, [kind |-> "columnList", columns |-> columnSet])
       \/ /\ r.kind = "task" /\ r.task \in DOMAIN rows
          /\ Replied(r, [kind |-> "task", task |-> r.task, row |-> rows[r.task], at |-> stamp[r.task]])
       \/ /\ r.kind = "task" /\ r.task \notin DOMAIN rows    \* 404, which the refetch swallows
          /\ asked' = asked \ {r} /\ UNCHANGED answers
    /\ ServerAlone /\ UNCHANGED <<cards, columnSet, wire, acts>>

\* The move of a task that is gone is a 404; it may be refused for other reasons too.
AnswerMove == \E r \in asked :
    /\ r.kind = "move"
    /\ \/ /\ r.task \in DOMAIN rows
          /\ rows' = [rows EXCEPT ![r.task].lane = r.lane]
          /\ stamp' = Stamped(r.task)
          /\ placed' = [placed EXCEPT ![r.task] = stamp'[r.task]]
          /\ wire' = Emitted([kind |-> "moved", task |-> r.task, lane |-> r.lane, own |-> TRUE,
                               at |-> stamp'[r.task]])
          /\ Replied(r, [kind |-> "accepted", task |-> r.task, row |-> rows'[r.task],
                          at |-> stamp'[r.task]])
       \/ /\ Replied(r, [kind |-> "refused", move |-> r])
          /\ UNCHANGED <<cards, wire>>
    /\ ServerAlone /\ UNCHANGED <<columnSet, acts>>

\* A column moved, or the default columns asked for: 409 when there are columns already.
AnswerColumns == \E r \in asked :
    /\ r.kind \in {"columnMove", "seed"}
    /\ IF r.kind = "seed" /\ columnSet # {}
       THEN Replied(r, [kind |-> "conflict"]) /\ UNCHANGED <<columnSet, wire>>
       ELSE /\ columnSet' = columnSet \cup {r.change}
            /\ wire' = Emitted([kind |-> "columns"])
            /\ Replied(r, [kind |-> "columnList", columns |-> r.basis \cup {r.change}])
    /\ ServerAlone /\ UNCHANGED <<cards, acts>>

\* onBoardJoin: the socket enters the room and the join is acknowledged.
AcceptJoin ==
    /\ link = "open" /\ ~room
    /\ room' = TRUE
    /\ wire' = Append(wire, [kind |-> "ack"])
    /\ UNCHANGED <<cards, columnSet, asked, answers, link, screen, armed, resync, drains, drag, moves,
                   lapses, acts>>

-----------------------------------------------------------------------------
(* The connection *)

\* The socket is enabled once the board is painted.
Connect ==
    /\ link = "down" /\ ~loading
    /\ link' = "open"
    /\ UNCHANGED <<serverSide, asked, wire, answers, screen, armed, resync, drains, drag, moves, lapses,
                   acts>>

Disconnect ==
    /\ link # "down" /\ Acts
    /\ link' = "down" /\ room' = FALSE
    /\ wire' = <<>>
    /\ UNCHANGED <<cards, columnSet, asked, answers, screen, armed, resync, drains, drag, moves,
                   lapses>>

-----------------------------------------------------------------------------
(* Timers *)

\* The refetch of a task, coalesced per task.
FireUpsert == \E t \in armed :
    /\ armed' = armed \ {t}
    /\ asked' = asked \cup {[kind |-> "task", task |-> t]}
    /\ UNCHANGED <<serverSide, wire, answers, link, screen, resync, drains, drag, moves, lapses, acts>>

\* reload: the frame and the pages again.  What was dropped, put back or overtaken before is
\* read anew.
StartDrain(by) ==
    /\ asked' = asked \cup DrainCalls(by)
    /\ drains' = [drains EXCEPT ![by] = {"meta", "pages"}]
    /\ skipped' = FALSE /\ restored' = FALSE /\ overtaken' = FALSE
    /\ UNCHANGED <<latest, latestCols>>

FireResync ==
    /\ resync.timer
    /\ resync' = [timer |-> FALSE, running |-> TRUE, queued |-> FALSE, fresh |-> TRUE]
    /\ StartDrain("resync")
    /\ owed' = FALSE
    /\ UNCHANGED <<serverSide, wire, answers, link, screen, armed, drag, moves, acts>>

\* Whether three seconds have passed since the last drain began is settled when it is asked.
Aged(r) == {r, [r EXCEPT !.fresh = FALSE]}

\* requestResync: dropped after a recent drain, queued behind a running one, or debounced.
Requested(r) ==
    IF r.fresh THEN r
    ELSE IF r.running THEN [r EXCEPT !.queued = TRUE]
    ELSE [r EXCEPT !.timer = TRUE]

\* Slip: what was queued is forgotten when the drain ends.
ForgetQueued(r) == [r EXCEPT !.running = FALSE, !.queued = FALSE]

\* The end of runResync.
Ended(r) ==
    LET over == [r EXCEPT !.running = FALSE, !.queued = FALSE]
    IN  IF r.queued THEN Requested(over) ELSE over

-----------------------------------------------------------------------------
(* Receiving *)

\* The next event of the socket.
Next1 == Head(wire)
Received(kind) ==
    /\ wire # <<>> /\ Next1.kind = kind /\ wire' = Tail(wire)
    /\ UNCHANGED <<serverSide, answers, acts>>

\* Any answer that is under way.
Delivered(message, kind) ==
    /\ message.kind = kind /\ answers' = answers \ {message}
    /\ UNCHANGED <<serverSide, wire, acts>>

Put(t, row) == [s \in DOMAIN drawn \cup {t} |-> IF s = t THEN row ELSE drawn[s]]

\* Data of a task as it was after its change n; it is late if something newer was received.
Heard(t, n) == latest' = [latest EXCEPT ![t] = IF n > @ THEN n ELSE @]
Late(t, n) == n < latest[t]

\* The same of the columns.
ColumnsShown(columns) ==
    /\ drawnCols' = columns
    /\ latestCols' = latestCols \cup columns
    /\ overtaken' = (overtaken \/ ~(latestCols \subseteq columns))

\* Slip: every page replaces the board.
ReplaceWithPage(message) == message.tasks

\* The first page replaces the board; later ones add the tasks it does not show.
Merged(message) ==
    IF message.first THEN message.tasks
    ELSE [t \in DOMAIN drawn \cup DOMAIN message.tasks |->
            IF t \in DOMAIN drawn THEN drawn[t] ELSE message.tasks[t]]

\* Clearing `loading' counts as a drain.
Painted(r) == IF loading /\ ~loading' THEN [r EXCEPT !.fresh = TRUE] ELSE r

\* A drain is over when the frame and the last page have come.
Settle(by, part) ==
    /\ drains' = [drains EXCEPT ![by] = @ \ {part}]
    /\ IF by = "resync" /\ drains[by] = {part}
       THEN \E r \in Aged(resync) : resync' = Ended(r)
       ELSE resync' = Painted(resync)

\* The tasks a page decides: a first page those up to its cursor, whether it has them or not,
\* a later one those it adds.  What lies behind a first page's cursor is off the screen until
\* something later than that page has it.
Decides(message) ==
    IF message.first THEN {t \in TaskIds : message.next = 0 \/ t =< message.next}
    ELSE DOMAIN message.tasks \ DOMAIN drawn

ReceivePage == \E message \in answers :
    /\ Delivered(message, "page")
    /\ drawn' = Merged(message)
    /\ latest' = [t \in TaskIds |->
                  IF (message.first \/ t \in Decides(message)) /\ message.at[t] > latest[t]
                  THEN message.at[t] ELSE latest[t]]
    /\ overtaken' = (overtaken \/ \E t \in Decides(message) : Late(t, message.at[t]))
    /\ loading' = (loading /\ "meta" \in drains["load"])
    /\ IF message.next = 0
       THEN Settle(message.by, "pages") /\ UNCHANGED asked
       ELSE /\ asked' = asked \cup {[kind |-> "page", by |-> message.by, after |-> message.next]}
            /\ resync' = Painted(resync)
            /\ UNCHANGED drains
    /\ UNCHANGED <<link, drawnCols, armed, drag, moves, owed, skipped, restored, latestCols>>

\* The board is revealed once the frame and the first page of the load have both come.
FirstPageDue ==
    \/ \E r \in asked : r.kind = "page" /\ r.after = 0
    \/ \E m \in answers : m.kind = "page" /\ m.first

ReceiveMeta == \E message \in answers :
    /\ Delivered(message, "meta")
    /\ ColumnsShown(message.columns)
    /\ loading' = (loading /\ FirstPageDue)
    /\ Settle(message.by, "meta")
    /\ UNCHANGED <<asked, link, drawn, armed, drag, moves, owed, skipped, restored, latest>>

ReceiveColumnList == \E message \in answers :
    /\ Delivered(message, "columnList")
    /\ ColumnsShown(message.columns)
    /\ UNCHANGED <<asked, link, drawn, loading, armed, resync, drains, drag, moves, owed, skipped,
                   restored, latest>>

ReceiveTask == \E message \in answers :
    /\ Delivered(message, "task")
    /\ drawn' = Put(message.task, message.row)
    /\ Heard(message.task, message.at)
    /\ overtaken' = (overtaken \/ Late(message.task, message.at))
    /\ UNCHANGED <<asked, link, drawnCols, loading, armed, resync, drains, drag, moves, owed, skipped,
                   restored, latestCols>>

\* The room is joined: onResync.
ReceiveAck ==
    /\ Received("ack")
    /\ link' = "joined"
    /\ \E r \in Aged(resync) :
         /\ resync' = Requested(r)
         /\ owed' = (owed \/ ~r.fresh)
         /\ skipped' = (skipped \/ r.fresh)
    /\ UNCHANGED <<asked, screen, armed, drains, drag, moves, restored, overtaken, latest, latestCols>>

\* onTaskCreated, onTaskUpdated: a refetch, unless a creation is of a task already shown.
ReceiveChange ==
    /\ (Received("created") \/ Received("updated"))
    /\ armed' = IF Next1.kind = "created" /\ Next1.task \in DOMAIN drawn
                THEN armed ELSE armed \cup {Next1.task}
    /\ UNCHANGED <<asked, link, screen, resync, drains, drag, moves, lapses>>

\* onTaskMoved: the payload is applied; another's move ends a drag and fetches an unknown task.
ReceiveMoved ==
    /\ Received("moved")
    /\ LET t == Next1.task IN
         /\ drawn' = IF t \in DOMAIN drawn THEN [drawn EXCEPT ![t].lane = Next1.lane] ELSE drawn
         /\ armed' = IF Next1.own \/ t \in DOMAIN drawn THEN armed ELSE armed \cup {t}
         /\ drag' = IF Next1.own THEN drag ELSE 0
         /\ Heard(t, Next1.at)
    /\ UNCHANGED <<asked, link, drawnCols, loading, resync, drains, moves, owed, skipped, restored,
                   overtaken, latestCols>>

ReceiveDeleted ==
    /\ Received("deleted")
    /\ drawn' = [t \in DOMAIN drawn \ {Next1.task} |-> drawn[t]]
    /\ Heard(Next1.task, Next1.at)
    /\ UNCHANGED <<asked, link, drawnCols, loading, armed, resync, drains, drag, moves, owed, skipped,
                   restored, overtaken, latestCols>>

ReceiveColumns ==
    /\ Received("columns")
    /\ asked' = asked \cup {[kind |-> "columns"]}
    /\ UNCHANGED <<link, screen, armed, resync, drains, drag, moves, lapses>>

-----------------------------------------------------------------------------
(* What the user does *)

StartDrag == \E t \in DOMAIN drawn :
    /\ ~loading /\ drag = 0
    /\ drag' = t
    /\ acts < MaxActs
    /\ UNCHANGED <<serverSide, asked, wire, answers, link, screen, armed, resync, drains, moves, lapses,
                   acts>>

\* onDragEnd and commitTaskMove; a drop on nothing, or where the task was, does nothing.
Drop == \E lane \in BoardLanes :
    /\ drag # 0
    /\ drag' = 0
    /\ IF drag \notin DOMAIN drawn \/ drawn[drag].lane = lane
       THEN UNCHANGED <<asked, moves, drawn, acts>>
       ELSE /\ Acts
            /\ moves' = moves + 1
            /\ drawn' = [drawn EXCEPT ![drag].lane = lane]
            /\ asked' = asked \cup {[kind |-> "move", task |-> drag, lane |-> lane,
                                     generation |-> moves + 1, previous |-> drawn]}
    /\ UNCHANGED <<serverSide, wire, answers, link, drawnCols, loading, armed, resync, drains, lapses>>

\* The answer to a move is shown only where the task is.
ReceiveAccepted == \E message \in answers :
    /\ Delivered(message, "accepted")
    /\ drawn' = IF message.task \in DOMAIN drawn THEN Put(message.task, message.row) ELSE drawn
    /\ Heard(message.task, message.at)
    /\ overtaken' = (overtaken \/ (message.task \in DOMAIN drawn /\ Late(message.task, message.at)))
    /\ UNCHANGED <<asked, link, drawnCols, loading, armed, resync, drains, drag, moves, owed, skipped,
                   restored, latestCols>>

\* The latest move puts its snapshot back; an older one reads the board again.
ReceiveRefused == \E message \in answers :
    /\ Delivered(message, "refused")
    /\ IF message.move.generation = moves
       THEN /\ drawn' = message.move.previous
            /\ restored' = TRUE
            /\ UNCHANGED <<asked, drains, skipped, overtaken, latest, latestCols>>
       ELSE StartDrain("undo") /\ UNCHANGED drawn
    /\ UNCHANGED <<link, drawnCols, loading, armed, resync, drag, moves, owed>>

\* moveColumn sends the neighbours and shows the new order when it is accepted; seedDefaults is
\* offered on a board that shows no column.
AskColumns ==
    /\ ~loading /\ Acts
    /\ asked' = asked \cup {[kind |-> IF drawnCols = {} THEN "seed" ELSE "columnMove",
                             basis |-> drawnCols, change |-> acts']}
    /\ UNCHANGED <<serverSide, wire, answers, link, screen, armed, resync, drains, drag, moves, lapses>>

ReceiveConflict == \E message \in answers :
    /\ Delivered(message, "conflict")
    /\ StartDrain("undo")
    /\ UNCHANGED <<link, screen, armed, resync, drag, moves, owed>>

-----------------------------------------------------------------------------

ClientReceives ==
    \/ ReceivePage \/ ReceiveMeta \/ ReceiveColumnList \/ ReceiveTask \/ ReceiveAck
    \/ ReceiveChange \/ ReceiveMoved \/ ReceiveDeleted \/ ReceiveColumns
    \/ ReceiveAccepted \/ ReceiveRefused \/ ReceiveConflict

ClientNext ==
    \/ RemoteTask \/ RemoteColumn
    \/ AnswerRead \/ AnswerMove \/ AnswerColumns \/ AcceptJoin
    \/ Connect \/ Disconnect
    \/ FireUpsert \/ FireResync
    \/ ClientReceives
    \/ StartDrag \/ Drop \/ AskColumns

ClientSpec == ClientInit /\ [][ClientNext]_clientVars

-----------------------------------------------------------------------------
(* Properties *)

\* Joined, with nothing under way.
AtRest ==
    link = "joined" /\ asked = {} /\ wire = <<>> /\ answers = {} /\ armed = {} /\ ~resync.timer

(***************************************************************************)
(* Once it has joined and nothing is under way, the browser shows the board *)
(* the server has, whatever others did meanwhile, before or after the       *)
(* connection was lost, during a drain or a drag, and in whatever order     *)
(* answers came beside the events.  Left out are the resync a join drops    *)
(* after a recent drain, the snapshot a refused move puts back, and an      *)
(* answer shown over something newer about the same task, or the columns:   *)
(* the code compares nothing with what it shows.  Each is made good by the  *)
(* next drain.                                                              *)
(***************************************************************************)
BoardCatchesUp ==
    AtRest /\ ~skipped /\ ~restored /\ ~overtaken => drawn = rows /\ drawnCols = columnSet

(***************************************************************************)
(* A join is answered with a drain that begins after it, although resyncs   *)
(* are coalesced, and wait for one that is running: one that is queued is   *)
(* not forgotten.                                                           *)
(***************************************************************************)
JoinsAreAnswered == owed ~> ~owed

=============================================================================
