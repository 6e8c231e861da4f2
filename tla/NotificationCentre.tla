--------------------------- MODULE NotificationCentre ---------------------------
(***************************************************************************)
(* One user's notifications in one tab (apps/web/components/notification):  *)
(* the bell with its badge and its dropdown, the notifications page that    *)
(* mounts beside it, the one socket both share (lib/socket.ts), and the     *)
(* poll that stands in for it.  On the server NotificationService writes    *)
(* the rows and says "your unread count changed" after each commit.  The    *)
(* database deletes the rows of a task with the task, and nobody is told.   *)
(*                                                                         *)
(* A read is served and answered in one step; a mark-read is committed in   *)
(* one step and answered in a later one, so its own signal can overtake it. *)
(***************************************************************************)
EXTENDS Integers, FiniteSets

CONSTANTS
    Notices,           \* ids of the user's notifications, larger ones newer
    NoticePage,        \* PAGE_LIMIT
    Attempts,          \* RECONNECT_ATTEMPTS
    NoticeActs         \* bound: new notifications, and what the user and the network do

ASSUME NotificationCentreAssumption ==
    /\ Notices \subseteq Nat \ {0} /\ IsFiniteSet(Notices)
    /\ NoticePage \in Nat \ {0} /\ Attempts \in Nat \ {0} /\ NoticeActs \in Nat

VARIABLES
    notices,     \* Notification rows: those there are, and whether each is read
    cascaded,    \* the ids of those that were deleted with their task
    subscribed,  \* is the socket in the user's room?
    signals,     \* notification:unread-changed on their way
    socket,      \* "up", "retrying" or, attempts exhausted, "cooling"
    tries,       \* attempts made in this backoff
    holders,     \* who holds the room in roomHolders: the bell, the page
    visible,     \* document.visibilityState
    bell,        \* [connected, count]: the badge
    menu,        \* [open, items, loading]: the dropdown
    list,        \* [on, filter, items, cursor, loading, more, joined]: the page
    pendings,    \* what the tab waits for
    wronged,     \* why the badge may be wrong until it is read again: "no", or the read
                 \* "failed", the tab "corrected" it, or a row was deleted with its "task"
    noticeActs

noticeVars == <<notices, cascaded, subscribed, signals, socket, tries, holders, visible, bell, menu, list,
                pendings, wronged, noticeActs>>

Unread == Cardinality({n \in DOMAIN notices : ~notices[n]})
Filters == {"all", "unread"}

NoList == [on |-> FALSE, filter |-> "all", items |-> {}, cursor |-> [after |-> 0, filter |-> "all"],
           loading |-> TRUE, more |-> FALSE, joined |-> FALSE]

\* The reads an effect aborts, of which there is never more than one of a kind.
Call(what) == [what |-> what, who |-> "bell", id |-> 0, filter |-> "all"]
Restarted(what, filter) ==
    {c \in pendings : c.what # what} \cup {[Call(what) EXCEPT !.filter = filter]}

NoticeInit ==
    /\ \E S \in SUBSET Notices : notices = [n \in S |-> FALSE]
    /\ cascaded = {}
    /\ subscribed = FALSE /\ signals = 0
    /\ socket = "retrying" /\ tries = 0
    /\ holders = {"bell"} /\ visible = TRUE
    /\ bell = [connected |-> FALSE, count |-> 0]
    /\ menu = [open |-> FALSE, items |-> {}, loading |-> TRUE]
    /\ list = NoList
    /\ pendings = {Call("count")}
    /\ wronged = "no" /\ noticeActs = 0

NoticeAct == noticeActs < NoticeActs /\ noticeActs' = noticeActs + 1
Server == <<notices, cascaded, subscribed, signals>>
Link == <<socket, tries>>
Views == <<bell, menu, list>>

\* emitUnreadChanged, after the commit, reaches the room.
Signalled == signals' = IF subscribed THEN signals + 1 ELSE signals

-----------------------------------------------------------------------------
(* Refreshing *)

\* refreshKey: the badge reads again, the rows only while the dropdown is on screen.
Bumped(calls) ==
    {c \in calls : c.what # "count" /\ ~(c.what = "menu" /\ menu.open)}
        \cup {Call("count")} \cup (IF menu.open THEN {Call("menu")} ELSE {})

BellRefreshes == menu' = IF menu.open THEN [menu EXCEPT !.loading = TRUE] ELSE menu

\* The page reads its first page again, unless it is appending another.
ListHears == list.on /\ ~list.more

Reread(calls) ==
    {c \in calls : c.what # "page"} \cup {[Call("page") EXCEPT !.filter = list.filter]}

-----------------------------------------------------------------------------
(* The socket *)

Joining(who) == [Call("join") EXCEPT !.who = who]

\* `connect`: every mounted hook asks for the room.
ConnectSucceeds ==
    /\ socket = "retrying"
    /\ socket' = "up" /\ tries' = 0
    /\ pendings' = pendings \cup {Joining(who) : who \in holders}
    /\ UNCHANGED <<Server, holders, visible, Views, wronged, noticeActs>>

ConnectFails ==
    /\ socket = "retrying"
    /\ tries' = (tries + 1) % Attempts
    /\ socket' = IF tries' = 0 THEN "cooling" ELSE "retrying"
    /\ UNCHANGED <<Server, holders, visible, Views, pendings, wronged, noticeActs>>

CooledDown ==
    /\ socket = "cooling"
    /\ socket' = "retrying"
    /\ UNCHANGED <<Server, tries, holders, visible, Views, pendings, wronged, noticeActs>>

\* The room goes with the connection, and so do signals, joins and their answers.  A badge
\* that was fed by the room is read again.
Dropped ==
    /\ NoticeAct /\ socket = "up"
    /\ socket' = "retrying" /\ subscribed' = FALSE /\ signals' = 0
    /\ bell' = [bell EXCEPT !.connected = FALSE]
    /\ pendings' = LET left == {c \in pendings : c.what # "join"} IN
                   IF bell.connected THEN {c \in left : c.what # "count"} \cup {Call("count")} ELSE left
    /\ UNCHANGED <<notices, cascaded, tries, holders, visible, menu, list, wronged>>

\* The room is joined, and what was missed without it is read; of the page's first join its
\* first load has taken care.
JoinAcknowledged(c) ==
    /\ c.what = "join"
    /\ subscribed' = TRUE
    /\ IF c.who = "bell"
       THEN /\ bell' = [bell EXCEPT !.connected = TRUE]
            /\ BellRefreshes /\ UNCHANGED list
            /\ pendings' = Bumped(pendings \ {c})
       ELSE /\ list' = [list EXCEPT !.joined = TRUE, !.loading = @ \/ (list.joined /\ ListHears)]
            /\ pendings' = IF list.joined /\ ListHears THEN Reread(pendings \ {c}) ELSE pendings \ {c}
            /\ UNCHANGED <<bell, menu>>

\* Refused or without an answer: nothing asks again before the next connection.
JoinRefused(c) ==
    /\ c.what = "join"
    /\ pendings' = pendings \ {c}
    /\ UNCHANGED <<subscribed, Views>>

JoinEnds == \E c \in pendings :
    /\ JoinAcknowledged(c) \/ JoinRefused(c)
    /\ UNCHANGED <<notices, cascaded, signals, Link, holders, visible, wronged, noticeActs>>

SignalArrives ==
    /\ signals > 0
    /\ signals' = signals - 1
    /\ BellRefreshes
    /\ list' = [list EXCEPT !.loading = @ \/ ListHears]
    /\ pendings' = IF ListHears THEN Reread(Bumped(pendings)) ELSE Bumped(pendings)
    /\ UNCHANGED <<notices, cascaded, subscribed, Link, holders, visible, bell, wronged, noticeActs>>

\* The interval, and the return of a hidden tab.  A read takes less than the interval.
Poll ==
    /\ ~bell.connected /\ visible
    /\ Call("count") \notin pendings
    /\ pendings' = pendings \cup {Call("count")}
    /\ UNCHANGED <<Server, Link, holders, visible, Views, wronged, noticeActs>>

ChangeVisibility ==
    /\ NoticeAct
    /\ visible' = ~visible
    /\ pendings' = IF visible' /\ ~bell.connected THEN Restarted("count", "all") ELSE pendings
    /\ UNCHANGED <<Server, Link, holders, Views, wronged>>

-----------------------------------------------------------------------------
(* Changes made elsewhere *)

Notified == \E n \in Notices \ DOMAIN notices :
    /\ NoticeAct /\ \A m \in DOMAIN notices \cup cascaded : m < n
    /\ notices' = [m \in DOMAIN notices \cup {n} |-> m # n /\ notices[m]]
    /\ Signalled
    /\ UNCHANGED <<cascaded, subscribed, Link, holders, visible, Views, pendings, wronged>>

\* In another tab.
ReadElsewhere == \E n \in DOMAIN notices :
    /\ NoticeAct /\ ~notices[n]
    /\ notices' = [notices EXCEPT ![n] = TRUE]
    /\ Signalled
    /\ UNCHANGED <<cascaded, subscribed, Link, holders, visible, Views, pendings, wronged>>

\* A task is deleted, or the column it is in, and the foreign key takes its notifications with
\* it: the count moves with nothing said.
NoticesCascade == \E S \in SUBSET DOMAIN notices \ {{}} :
    /\ NoticeAct
    /\ notices' = [n \in DOMAIN notices \ S |-> notices[n]]
    /\ cascaded' = cascaded \cup S
    /\ wronged' = IF wronged = "no" /\ \E n \in S : ~notices[n] THEN "task" ELSE wronged
    /\ UNCHANGED <<subscribed, signals, Link, holders, visible, Views, pendings>>

-----------------------------------------------------------------------------
(* What the user does *)

UserAlone == UNCHANGED <<Server, Link, visible, bell, wronged>>

\* A closed dropdown aborts its read and keeps its rows.
ToggleMenu ==
    /\ NoticeAct
    /\ menu' = [menu EXCEPT !.open = ~@, !.loading = @ \/ ~menu.open]
    /\ pendings' = IF menu.open THEN {c \in pendings : c.what # "menu"} ELSE Restarted("menu", "all")
    /\ UserAlone /\ UNCHANGED <<holders, list>>

OpenList ==
    /\ NoticeAct /\ ~list.on
    /\ list' = [NoList EXCEPT !.on = TRUE]
    /\ holders' = holders \cup {"page"}
    /\ pendings' = Restarted("page", "all") \cup (IF socket = "up" THEN {Joining("page")} ELSE {})
    /\ UserAlone /\ UNCHANGED menu

\* Slip: every hook that unmounts leaves the room.
LeftByAll(remaining) == TRUE

\* releaseRoom: the room is left when the last holder lets go.
Left(remaining) == remaining = {}

\* The reads of the page go with it; a mark-read goes on.
CloseList ==
    /\ NoticeAct /\ list.on
    /\ list' = NoList
    /\ holders' = holders \ {"page"}
    /\ subscribed' = (subscribed /\ ~Left(holders'))
    /\ pendings' = {c \in pendings : c.what \notin {"page", "more"} /\ c # Joining("page")}
    /\ UNCHANGED <<notices, cascaded, signals, Link, visible, bell, menu, wronged>>

ChangeFilter ==
    /\ NoticeAct /\ list.on
    /\ \E filter \in Filters \ {list.filter} :
         /\ list' = [list EXCEPT !.filter = filter, !.loading = TRUE]
         /\ pendings' = Restarted("page", filter)
    /\ UserAlone /\ UNCHANGED <<holders, menu>>

\* The next page is of the filter on screen, and goes on from the cursor there.
LoadMoreNotices ==
    /\ NoticeAct /\ list.on /\ ~list.more /\ list.cursor.after # 0
    /\ list' = [list EXCEPT !.more = TRUE]
    /\ pendings' = pendings \cup {[Call("more") EXCEPT !.who = "page", !.filter = list.filter,
                                                      !.id = list.cursor.after]}
    /\ UserAlone /\ UNCHANGED <<holders, menu>>

\* What a row shows decides whether opening it marks it read.
OpenNotice == \E who \in {"bell", "page"} :
    LET shown == IF who = "bell" THEN IF menu.open /\ ~menu.loading THEN menu.items ELSE {}
                 ELSE IF list.on /\ ~list.loading THEN list.items ELSE {} IN
    /\ NoticeAct
    /\ \E i \in shown :
         /\ ~i.read
         /\ pendings' = pendings \cup {[Call("read") EXCEPT !.who = who, !.id = i.id]}
    /\ UserAlone /\ UNCHANGED <<holders, menu, list>>

MarkAll == \E who \in {"bell", "page"} :
    /\ NoticeAct
    /\ IF who = "bell" THEN menu.open /\ bell.count # 0
       ELSE list.on /\ \E i \in list.items : ~i.read
    /\ pendings' = pendings \cup {[Call("read-all") EXCEPT !.who = who]}
    /\ UserAlone /\ UNCHANGED <<holders, menu, list>>

-----------------------------------------------------------------------------
(* Answers *)

\* A page of the rows below `after`, newest first; 0 is the top.
PageOf(filter, after) ==
    LET rest == {n \in DOMAIN notices : (after = 0 \/ n < after) /\ (filter = "all" \/ ~notices[n])} IN
    {n \in rest : Cardinality({m \in rest : m > n}) < NoticePage}

Rows(filter, after) ==
    {[id |-> n, read |-> notices[n], of |-> filter] : n \in PageOf(filter, after)}

\* The last row of the page, while there are more behind it.
CursorAfter(filter, after) ==
    LET page == PageOf(filter, after)
        last == CHOOSE n \in page : \A m \in page : n <= m IN
    [filter |-> filter,
     after |-> IF page # {} /\ PageOf(filter, last) # {} THEN last ELSE 0]

CountAnswered(c) ==
    /\ c.what = "count"
    /\ bell' = [bell EXCEPT !.count = Unread] /\ wronged' = "no"
    /\ UNCHANGED <<menu, list>>

\* keepStaleOnError: the number stays.
CountFailed(c) ==
    /\ c.what = "count"
    /\ wronged' = IF wronged = "corrected" THEN wronged ELSE "failed"
    /\ UNCHANGED Views

MenuAnswered(c) ==
    /\ c.what = "menu"
    /\ menu' = [menu EXCEPT !.items = Rows("all", 0), !.loading = FALSE]
    /\ UNCHANGED <<bell, list, wronged>>

ListAnswered(c) ==
    /\ c.what = "page"
    /\ list' = [list EXCEPT !.items = Rows(c.filter, 0), !.cursor = CursorAfter(c.filter, 0),
                            !.loading = FALSE]
    /\ UNCHANGED <<bell, menu, wronged>>

\* A read that fails takes the rows with it.
RowsFailed(c) ==
    /\ c.what \in {"menu", "page"}
    /\ menu' = IF c.what = "menu" THEN [menu EXCEPT !.items = {}, !.loading = FALSE] ELSE menu
    /\ list' = IF c.what = "page"
               THEN [list EXCEPT !.items = {}, !.cursor.after = 0, !.loading = FALSE] ELSE list
    /\ UNCHANGED <<bell, wronged>>

MoreAnswered(c) ==
    /\ c.what = "more"
    /\ \/ list' = [list EXCEPT !.items = @ \cup Rows(c.filter, c.id),
                               !.cursor = CursorAfter(c.filter, c.id), !.more = FALSE]
       \/ list' = [list EXCEPT !.more = FALSE]
    /\ UNCHANGED <<bell, menu, wronged>>

Answer == \E c \in pendings :
    /\ \/ CountAnswered(c) \/ CountFailed(c) \/ MenuAnswered(c) \/ ListAnswered(c) \/ RowsFailed(c)
       \/ MoreAnswered(c)
    /\ pendings' = pendings \ {c}
    /\ UNCHANGED <<Server, Link, holders, visible, noticeActs>>

\* markRead and markAllRead say so only when the count moved.  A row that was deleted cannot
\* be marked: 404.
Marked == \E c \in pendings :
    /\ \/ c.what = "read" /\ c.id \in DOMAIN notices /\ notices' = [notices EXCEPT ![c.id] = TRUE]
       \/ c.what = "read-all" /\ notices' = [n \in DOMAIN notices |-> TRUE]
    /\ IF notices' # notices THEN Signalled ELSE UNCHANGED signals
    /\ pendings' = (pendings \ {c}) \cup {[c EXCEPT !.what = IF @ = "read" THEN "was-read" ELSE "all-were"]}
    /\ UNCHANGED <<cascaded, subscribed, Link, holders, visible, Views, wronged, noticeActs>>

AsRead(items, ids) == {IF i.id \in ids THEN [i EXCEPT !.read = TRUE] ELSE i : i \in items}

\* The tab corrects what it shows without asking again: its rows, and for the bell the badge.
Corrected == \E c \in pendings :
    /\ c.what \in {"was-read", "all-were"}
    /\ LET ids == IF c.what = "was-read" THEN {c.id} ELSE Notices
           count == IF c.what = "all-were" \/ bell.count = 0 THEN 0 ELSE bell.count - 1 IN
       IF c.who = "bell"
       THEN /\ menu' = [menu EXCEPT !.items = AsRead(@, ids),
                                    !.open = @ /\ c.what = "all-were"]
            /\ bell' = [bell EXCEPT !.count = count]
            /\ wronged' = IF count # Unread THEN "corrected" ELSE wronged
            /\ UNCHANGED list
       ELSE /\ list' = [list EXCEPT !.items = AsRead(@, ids)]
            /\ UNCHANGED <<bell, menu, wronged>>
    /\ pendings' = {d \in pendings : d # c /\ (d.what = "menu" => menu'.open)}
    /\ UNCHANGED <<Server, Link, holders, visible, noticeActs>>

\* Nothing was marked, and the tab says so.
MarkFailed == \E c \in pendings :
    /\ c.what \in {"read", "read-all"}
    /\ menu' = IF c.who = "bell" /\ c.what = "read" THEN [menu EXCEPT !.open = FALSE] ELSE menu
    /\ pendings' = {d \in pendings : d # c /\ (d.what = "menu" => menu'.open)}
    /\ UNCHANGED <<Server, Link, holders, visible, bell, list, wronged, noticeActs>>

NoticeNext ==
    \/ ConnectSucceeds \/ ConnectFails \/ CooledDown \/ Dropped \/ JoinEnds \/ SignalArrives
    \/ Poll \/ ChangeVisibility
    \/ Notified \/ ReadElsewhere \/ NoticesCascade
    \/ ToggleMenu \/ OpenList \/ CloseList \/ ChangeFilter \/ LoadMoreNotices \/ OpenNotice \/ MarkAll
    \/ Answer \/ Marked \/ Corrected \/ MarkFailed

NoticeSpec == NoticeInit /\ [][NoticeNext]_noticeVars

-----------------------------------------------------------------------------
(* Properties *)

NoticeTypeOK ==
    /\ DOMAIN notices \subseteq Notices \ cascaded
    /\ subscribed => socket = "up"
    /\ signals \in 0..NoticeActs * 2
    /\ socket \in {"up", "retrying", "cooling"} /\ tries \in 0..Attempts - 1
    /\ holders = {"bell"} \cup (IF list.on THEN {"page"} ELSE {})
    /\ bell.count \in 0..Cardinality(Notices)
    /\ bell.connected => subscribed
    /\ \A what \in {"count", "menu", "page"} : Cardinality({c \in pendings : c.what = what}) <= 1
    /\ (\E c \in pendings : c.what = "menu") => menu.open
    /\ (\E c \in pendings : c.what = "page") => list.on

\* "The one thing it must not say wrongly": while the tab is looked at, the badge of the bell
\* comes to the number of unread notifications, through lost connections, refused rooms and
\* a page that comes and goes in the same room.  Three things leave it wrong until it is read
\* again: a read that fails, a correction made without asking that lands after the count it
\* anticipates, and the deletion of a task with an unread notification, which sends no signal
\* while a connected bell does not poll.
BadgeSettles == []<>(~visible \/ bell.count = Unread \/ wronged # "no")

\* "nextCursor has to move with the items it was issued for, or load more pages off a filter
\* the user already changed": the rows of the page, and where more of them are taken from,
\* belong to the filter on screen.
ListIsOfItsFilter ==
    list.on /\ ~list.loading =>
        /\ \A i \in list.items : i.of = list.filter
        /\ list.cursor.after # 0 => list.cursor.filter = list.filter

=============================================================================
