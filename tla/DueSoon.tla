-------------------------------- MODULE DueSoon --------------------------------
(***************************************************************************)
(* The scan that reminds people of due dates: DueSoonWorker.runScan         *)
(* (apps/api/src/notification/due-soon.worker.ts), run by a job queue that   *)
(* retries, in any number of API processes.                                 *)
(*                                                                         *)
(* A scan walks the tasks due in the next Window by keyset pages.  For each *)
(* page it reads which (task, user) pairs have had their reminder, inserts  *)
(* the others in a second statement, and signals the users once, after the  *)
(* last page.  Two scans, and a reader who marks a reminder read in         *)
(* between, meet only the unique index on unread reminders.                 *)
(***************************************************************************)
EXTENDS Integers, FiniteSets

CONSTANTS
    Scanners,      \* processes that may run the job at the same time
    DueTasks,      \* ids of tasks
    Assignees,     \* users
    Window,        \* DUE_WINDOW_MS, in ticks: how far ahead, and how soon again
    PageSize,      \* SCAN_BATCH_SIZE
    Attempts,      \* JOB_ATTEMPTS
    LastTick,      \* bound: the clock stops here
    MaxFaults,     \* bound: statements that fail
    MaxDueEdits    \* bound: what users do to due dates and assignees, and readings

ASSUME DueAssumption ==
    /\ DueTasks \subseteq Nat \ {0}
    /\ IsFiniteSet(Scanners) /\ IsFiniteSet(DueTasks) /\ IsFiniteSet(Assignees)
    /\ {Window, PageSize, Attempts} \subseteq Nat \ {0}
    /\ {LastTick, MaxFaults, MaxDueEdits} \subseteq Nat

VARIABLES
    clock,       \* the time, in ticks
    dueDate,     \* Task.dueDate of the tasks there are; 0 for none
    assignees,   \* TaskAssignee rows: a set of <<task, user>>
    reminders,   \* due_soon notifications: [task, user, read, at]
    running,     \* the scanners that exist; the others are spare
    scan,        \* each scanner: the statement it is at and what it has read
    unheard,     \* users with an unread signal their browser has still to act on
    counted,     \* the number of unread reminders each user's browser shows
    faults,      \* statements that have failed
    dueEdits     \* what users have done

dueVars == <<clock, dueDate, assignees, reminders, running, scan, unheard, counted, faults, dueEdits>>

NoScan == [at |-> "idle", now |-> 0, cursor |-> <<0, 0>>, page |-> {}, rows |-> {}, told |-> {},
           tries |-> 0]

DueTypeOK ==
    /\ clock \in 0..LastTick
    /\ DOMAIN dueDate \subseteq DueTasks /\ \A t \in DOMAIN dueDate : dueDate[t] \in 0..LastTick + Window
    /\ assignees \subseteq (DOMAIN dueDate) \X Assignees
    /\ reminders \subseteq [task : DueTasks, user : Assignees, read : BOOLEAN, at : 0..LastTick]
    /\ running \subseteq Scanners
    /\ \A s \in Scanners :
          /\ scan[s].at \in {"idle", "page", "check", "insert", "signal", "retry"}
          /\ scan[s].rows \subseteq DueTasks \X Assignees
          /\ scan[s].told \subseteq Assignees
          /\ scan[s].tries \in 0..Attempts - 1
    /\ unheard \subseteq Assignees
    /\ counted \in [Assignees -> Nat]
    /\ faults \in 0..MaxFaults /\ dueEdits \in 0..MaxDueEdits

DueInit ==
    /\ clock = 0
    /\ dueDate \in [DueTasks -> {1, Window}]
    /\ assignees \in {DueTasks \X {u} : u \in Assignees} \cup {DueTasks \X Assignees}
    /\ reminders = {}
    /\ running \in SUBSET Scanners \ {{}}
    /\ scan = [s \in Scanners |-> NoScan]
    /\ unheard = {} /\ counted = [u \in Assignees |-> 0]
    /\ faults \in 0..MaxFaults /\ dueEdits \in 0..MaxDueEdits

UnreadOf(u) == Cardinality({r \in reminders : r.user = u /\ ~r.read})

\* The page query: the tasks due in (now, now + Window] with an assignee, behind the cursor.
Follows(t, cursor) == dueDate[t] > cursor[1] \/ (dueDate[t] = cursor[1] /\ t > cursor[2])
DueFrom(now, cursor) ==
    {t \in DOMAIN dueDate : /\ now < dueDate[t] /\ dueDate[t] =< now + Window
                        /\ \E u \in Assignees : <<t, u>> \in assignees
                        /\ Follows(t, cursor)}
PageAt(now, cursor) ==
    LET all == DueFrom(now, cursor)
    IN  {t \in all : Cardinality({o \in all : Follows(t, <<dueDate[o], o>>)}) < PageSize}

\* The row order of the query puts a task without an equal last.
LastOfPage(page) == CHOOSE p \in page : \A q \in page : q[1] < p[1] \/ (q[1] = p[1] /\ q[2] =< p[2])

Step(s, e) == scan' = [scan EXCEPT ![s] = e]
Elsewhere == UNCHANGED <<clock, dueDate, assignees, running, unheard, counted, dueEdits>>

\* On to the next page; a page that is not full is the last.
TurnPage(s, told) ==
    LET e == scan[s]
    IN  Step(s, IF Cardinality(e.page) < PageSize
                THEN [e EXCEPT !.at = "signal", !.told = told]
                ELSE [e EXCEPT !.at = "page", !.told = told, !.cursor = LastOfPage(e.page)])

-----------------------------------------------------------------------------
(* One run *)

\* The scheduler's tick, or a further attempt, which begins from the first page.
StartScan(s) ==
    /\ s \in running
    /\ scan[s].at \in {"idle", "retry"}
    /\ Step(s, [NoScan EXCEPT !.at = "page", !.now = clock, !.tries = scan[s].tries])
    /\ Elsewhere /\ UNCHANGED <<reminders, faults>>

\* The page carries the due dates it was ordered by, and the assignees with it.
ReadPage(s) ==
    LET e == scan[s]
        page == PageAt(e.now, e.cursor)
    IN  /\ e.at = "page"
        /\ Step(s, IF page = {}
                   THEN [e EXCEPT !.at = "signal"]
                   ELSE [e EXCEPT !.at = "check", !.page = {<<dueDate[t], t>> : t \in page},
                                  !.rows = {p \in assignees : p[1] \in page}])
        /\ Elsewhere /\ UNCHANGED <<reminders, faults>>

\* Slip: a reminder that has been read does not count, however young it is.
SkipUnreadOnly(s) ==
    {p \in scan[s].rows : \E r \in reminders : <<r.task, r.user>> = p /\ ~r.read}

\* findAlreadyNotified: unread, or younger than the window.
AlreadyNotified(s) ==
    {p \in scan[s].rows : \E r \in reminders :
        <<r.task, r.user>> = p /\ (~r.read \/ r.at >= scan[s].now - Window)}

CheckPairs(s) ==
    LET rows == scan[s].rows \ AlreadyNotified(s)
    IN  /\ scan[s].at = "check"
        /\ IF rows = {}
           THEN TurnPage(s, scan[s].told)
           ELSE Step(s, [scan[s] EXCEPT !.at = "insert", !.rows = rows])
        /\ Elsewhere /\ UNCHANGED <<reminders, faults>>

\* Slip: the insert does not skip what another scanner has inserted.
InsertedAnyway(s) ==
    {[task |-> p[1], user |-> p[2], read |-> FALSE, at |-> clock] : p \in scan[s].rows}

\* createMany with skipDuplicates, against the unique index on unread reminders.
InsertedRows(s) ==
    {[task |-> p[1], user |-> p[2], read |-> FALSE, at |-> clock] :
        p \in {p \in scan[s].rows : ~\E r \in reminders : <<r.task, r.user>> = p /\ ~r.read}}

\* A failed run is tried again until its attempts are spent; what it would have signalled is lost.
FailRun(s) ==
    Step(s, IF scan[s].tries + 1 < Attempts
            THEN [NoScan EXCEPT !.at = "retry", !.tries = scan[s].tries + 1]
            ELSE NoScan)

InsertReminders(s) ==
    LET e == scan[s]
        new == InsertedRows(s)
        users == {p[2] : p \in e.rows}
    IN  /\ e.at = "insert"
        /\ IF \E p \in e.rows : p[1] \notin DOMAIN dueDate
           THEN FailRun(s) /\ UNCHANGED reminders
           ELSE /\ reminders' = reminders \cup new
                /\ TurnPage(s, IF new = {} THEN e.told ELSE e.told \cup users)
        /\ Elsewhere /\ UNCHANGED faults

\* A statement fails, an insert perhaps after its commit.
FaultyStatement(s) ==
    /\ scan[s].at \in {"page", "check", "insert"}
    /\ faults < MaxFaults
    /\ faults' = faults + 1
    /\ FailRun(s)
    /\ \/ UNCHANGED reminders
       \/ /\ scan[s].at = "insert" /\ \A p \in scan[s].rows : p[1] \in DOMAIN dueDate
          /\ reminders' = reminders \cup InsertedRows(s)
    /\ Elsewhere

SignalRecipients(s) ==
    /\ scan[s].at = "signal"
    /\ unheard' = unheard \cup scan[s].told
    /\ Step(s, NoScan)
    /\ UNCHANGED <<clock, dueDate, assignees, reminders, running, counted, faults, dueEdits>>

-----------------------------------------------------------------------------
(* What goes on around it *)

EditDue ==
    /\ dueEdits < MaxDueEdits
    /\ dueEdits' = dueEdits + 1
    /\ \/ \E t \in DOMAIN dueDate : /\ dueDate' \in {[dueDate EXCEPT ![t] = d] : d \in {0, clock + 1, clock + Window}}
                                /\ UNCHANGED <<assignees, reminders>>
       \/ \E t \in DOMAIN dueDate, u \in Assignees :
             /\ assignees' \in {assignees \cup {<<t, u>>}, assignees \ {<<t, u>>}}
             /\ UNCHANGED <<dueDate, reminders>>
       \/ \E t \in DOMAIN dueDate :
             /\ dueDate' = [o \in DOMAIN dueDate \ {t} |-> dueDate[o]]
             /\ assignees' = {p \in assignees : p[1] # t}
             /\ reminders' = {r \in reminders : r.task # t}
    /\ UNCHANGED <<clock, running, scan, unheard, counted, faults>>

\* NotificationService.markRead, with its own signal.
ReadReminder == \E r \in reminders :
    /\ ~r.read
    /\ dueEdits < MaxDueEdits
    /\ dueEdits' = dueEdits + 1
    /\ reminders' = (reminders \ {r}) \cup {[r EXCEPT !.read = TRUE]}
    /\ unheard' = unheard \cup {r.user}
    /\ UNCHANGED <<clock, dueDate, assignees, running, scan, counted, faults>>

CountAgain(u) ==
    /\ u \in unheard
    /\ unheard' = unheard \ {u}
    /\ counted' = [counted EXCEPT ![u] = UnreadOf(u)]
    /\ UNCHANGED <<clock, dueDate, assignees, reminders, running, scan, faults, dueEdits>>

DueTick ==
    /\ clock < LastTick
    /\ clock' = clock + 1
    /\ UNCHANGED <<dueDate, assignees, reminders, running, scan, unheard, counted, faults, dueEdits>>

ScanStep(s) ==
    \/ StartScan(s) \/ ReadPage(s) \/ CheckPairs(s) \/ InsertReminders(s) \/ SignalRecipients(s)

DueNext ==
    \/ \E s \in Scanners : ScanStep(s) \/ FaultyStatement(s)
    \/ EditDue \/ ReadReminder \/ DueTick
    \/ \E u \in Assignees : CountAgain(u)

DueSpec == DueInit /\ [][DueNext]_dueVars

-----------------------------------------------------------------------------
(* Properties *)

(***************************************************************************)
(* No user has two unread reminders of one task, whatever scanners and      *)
(* readers do between a scan's two statements: the partial unique index     *)
(* behind createMany's skipDuplicates keeps them apart.  A single scanner   *)
(* reminds a user again only when the reminder they have read is older than *)
(* the window, however its runs fail and are tried again:                   *)
(* findAlreadyNotified.                                                     *)
(***************************************************************************)
RemindersSpaced ==
    \A r, q \in reminders :
        r # q /\ r.task = q.task /\ r.user = q.user =>
            /\ r.read \/ q.read
            /\ Cardinality(running) = 1 /\ r.at =< q.at => r.at + Window < q.at

=============================================================================
