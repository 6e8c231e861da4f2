-------------------------------- MODULE Insights --------------------------------
(***************************************************************************)
(* What one workspace's history is read for, and how it is forgotten: the   *)
(* dashboard's throughput (DashboardService), the activation funnel         *)
(* (ActivationService) with the usage pings it needs, and the nightly       *)
(* cleanup of expired rows (CleanupWorker), which deletes the very rows the *)
(* figures are computed from.                                               *)
(***************************************************************************)
EXTENDS Integers, FiniteSets, Sequences

CONSTANTS
    Visitors,         \* users
    Lanes,            \* columns of a board
    DayTicks,         \* ticks of the clock in a UTC day
    WeekDays,         \* ACTIVATION_WINDOW_DAYS
    ThroughputDays,   \* THROUGHPUT_DAYS
    ActivityDays,     \* bound: the ACTIVITY_RETENTION_DAYS an operator may set
    NoticeDays,       \* NOTIFICATION_RETENTION_DAYS
    RowBatch,        \* CLEANUP_BATCH_SIZE
    MaxBatches,       \* MAX_BATCHES_PER_TABLE
    CleanupAttempts,  \* JOB_ATTEMPTS
    StartHistory,     \* activity rows earlier days may have left
    StartOddments,    \* sessions, verifications and notifications there are at the start
    LastHour,         \* bound: the clock stops here
    MaxDeeds,         \* bound: what users do
    MaxSweepFaults    \* bound: statements of the cleanup that fail

HistoryRows == [user : Visitors, type : {"task.created", "task.moved"}, at : Int, lane : Lanes,
                completed : BOOLEAN]
PingRows == [user : Visitors, kind : {"board_view", "dashboard_view"}, day : Int, at : 0..LastHour]
OddRows == [table : {"Session", "Verification", "Notification"}, stamp : Int]

ASSUME InsightsAssumption ==
    /\ {DayTicks, WeekDays, ThroughputDays, RowBatch, MaxBatches, CleanupAttempts} \subseteq Nat \ {0}
    /\ {LastHour, MaxDeeds, MaxSweepFaults, NoticeDays} \subseteq Nat
    /\ ActivityDays \subseteq Nat
    /\ StartHistory \subseteq SUBSET HistoryRows /\ StartOddments \subseteq SUBSET OddRows

VARIABLES
    hour,        \* the time, in ticks
    keepDays,    \* ACTIVITY_RETENTION_DAYS; 0 keeps for ever
    present,     \* WorkspaceMember rows
    lanes,       \* Column rows: the completed ones, the others, and those that are gone
    history,     \* Activity rows: [user, type, at, lane, completed]
    pings,       \* UsagePing rows: [user, kind, day, at]
    oddments,    \* Session, Verification and read Notification rows: [table, stamp]
    retention,   \* the cleanup job: the table and batch it is at, and its `now'
    deeds,       \* what users have done
    sweepFaults  \* statements that have failed

insightVars == <<hour, keepDays, present, lanes, history, pings, oddments, retention, deeds, sweepFaults>>

Tables == <<"Session", "Verification", "Notification", "Activity", "UsagePing">>
NoSweep == [table |-> 0, pass |-> 0, now |-> 0, tries |-> 0]

InsightTypeOK ==
    /\ hour \in 0..LastHour
    /\ keepDays \in ActivityDays
    /\ present \subseteq Visitors
    /\ lanes \in [Lanes -> {"COMPLETED", "other", "gone"}]
    /\ history \subseteq HistoryRows /\ pings \subseteq PingRows /\ oddments \subseteq OddRows
    /\ retention.table \in 0..Len(Tables) /\ retention.pass \in 0..MaxBatches - 1
    /\ retention.tries \in 0..CleanupAttempts - 1
    /\ deeds \in 0..MaxDeeds /\ sweepFaults \in 0..MaxSweepFaults

InsightInit ==
    /\ hour = 0
    /\ keepDays \in ActivityDays
    /\ present = Visitors
    /\ lanes \in [Lanes -> {"COMPLETED", "other"}]
    /\ history \in StartHistory
    /\ pings = {}
    /\ oddments \in StartOddments
    /\ retention = NoSweep
    /\ deeds = 0 /\ sweepFaults = 0

-----------------------------------------------------------------------------
(* The figures *)

\* utcDayStart, and the window of emptyThroughputSeries, which ends with today.
DayStart(t) == (t \div DayTicks) * DayTicks
ThroughputSince(t) == DayStart(t) - (ThroughputDays - 1) * DayTicks

\* countCompletedMovesByDay: the column is COMPLETED now, or was when the move was recorded.
CountsAsCompleted(a) == lanes[a.lane] = "COMPLETED" \/ a.completed

CompletedOn(t, day) ==
    {a \in history : /\ a.type = "task.moved" /\ a.at >= ThroughputSince(t)
                     /\ DayStart(a.at) = day /\ CountsAsCompleted(a)}
CreatedOn(t, day) ==
    {a \in history : a.type = "task.created" /\ a.at >= ThroughputSince(t) /\ DayStart(a.at) = day}

Throughput(t) ==
    [day \in {ThroughputSince(t) + i * DayTicks : i \in 0..ThroughputDays - 1} |->
        [created |-> CreatedOn(t, day), completed |-> CompletedOn(t, day)]]

\* The funnel's rolling week: a ping's day is compared with the day the window begins in.
WeekSince(t) == t - WeekDays * DayTicks
BoardViewers(t) ==
    {p.user : p \in {p \in pings : p.kind = "board_view" /\ p.day >= DayStart(WeekSince(t))}}

\* northStar: the traces of the week, joined back to current membership.
ActiveMembers(t) ==
    present \cap ({a.user : a \in {a \in history : a.at >= WeekSince(t)}}
                    \cup {p.user : p \in {p \in pings : p.day >= DayStart(WeekSince(t))}})

NorthStar(t) ==
    [team |-> Cardinality(present) >= 2,
     active |-> ActiveMembers(t) # {},
     activeTeam |-> Cardinality(ActiveMembers(t)) >= 2 /\ Cardinality(present) >= 2]

\* What looks back a number of days from now.
Figures(t) == <<Throughput(t), BoardViewers(t), NorthStar(t)>>

\* The funnel's all-time steps, countActivityActors and countUsagePingUsers without a day: the
\* rows of each.  board.created and invitation.* are counted as task.created is.
Steps == {"first_task_created", "first_drag", "task_completed", "dashboard_viewed"}
Traces(step) ==
    CASE step = "first_task_created" -> {a \in history : a.type = "task.created"}
      [] step = "first_drag" -> {a \in history : a.type = "task.moved"}
      [] step = "task_completed" -> {a \in history : a.type = "task.moved" /\ CountsAsCompleted(a)}
      [] step = "dashboard_viewed" -> {p \in pings : p.kind = "dashboard_view"}

\* COUNT(DISTINCT "userId") of them.
EverDid(step) == {r.user : r \in Traces(step)}

-----------------------------------------------------------------------------
(* What users do *)

Deed ==
    /\ deeds < MaxDeeds
    /\ deeds' = deeds + 1
    /\ UNCHANGED <<hour, keepDays, oddments, retention, sweepFaults>>

\* A move records the category its column had.
MoveCard == \E u \in present, l \in Lanes, type \in {"task.created", "task.moved"} :
    /\ lanes[l] # "gone"
    /\ Deed
    /\ history' = history \cup {[user |-> u, type |-> type, at |-> hour, lane |-> l,
                                 completed |-> type = "task.moved" /\ lanes[l] = "COMPLETED"]}
    /\ UNCHANGED <<present, lanes, pings>>

\* ColumnService.update of the category, and remove.
ChangeLane == \E l \in Lanes, to \in {"COMPLETED", "other", "gone"} :
    /\ lanes[l] \notin {"gone", to}
    /\ Deed
    /\ lanes' = [lanes EXCEPT ![l] = to]
    /\ UNCHANGED <<present, history, pings>>

\* recordQuietly: one row per user, kind and UTC day; a failed insert is swallowed.
LookAtBoard == \E u \in present, kind \in {"board_view", "dashboard_view"} :
    /\ Deed
    /\ pings' \in {pings,
                   IF \E p \in pings : p.user = u /\ p.kind = kind /\ p.day = DayStart(hour)
                   THEN pings
                   ELSE pings \cup {[user |-> u, kind |-> kind, day |-> DayStart(hour), at |-> hour]}}
    /\ UNCHANGED <<present, lanes, history>>

\* The rows a member leaves behind stay.
LeaveTeam == \E u \in present :
    /\ Deed
    /\ present' = present \ {u}
    /\ UNCHANGED <<lanes, history, pings>>

PassHour ==
    /\ hour < LastHour
    /\ hour' = hour + 1
    /\ UNCHANGED <<keepDays, present, lanes, history, pings, oddments, retention, deeds, sweepFaults>>

-----------------------------------------------------------------------------
(* The cleanup *)

\* Slip: today is counted as one of the days that are kept.
CutoffNextDay(t, days) == t - (days - 1) * DayTicks

CutoffFor(t, days) == t - days * DayTicks

\* The rows of a table the policy no longer keeps; 0 days keeps them for ever.
Expired(table, t) ==
    CASE table \in {"Session", "Verification"} -> {o \in oddments : o.table = table /\ o.stamp < t}
      [] table = "Notification" ->
            {o \in oddments : NoticeDays # 0 /\ o.table = table /\ o.stamp < CutoffFor(t, NoticeDays)}
      [] table = "Activity" -> {a \in history : keepDays # 0 /\ a.at < CutoffFor(t, keepDays)}
      [] table = "UsagePing" -> {p \in pings : keepDays # 0 /\ p.at < CutoffFor(t, keepDays)}

UsersAlone == UNCHANGED <<hour, keepDays, present, lanes, deeds>>

\* A run, or a further attempt at one, begins with the first table.
BeginSweep ==
    /\ retention.table = 0
    /\ retention' = [retention EXCEPT !.table = 1, !.pass = 0, !.now = hour]
    /\ UsersAlone /\ UNCHANGED <<history, pings, oddments, sweepFaults>>

\* A short batch, or the ceiling, ends a table; the last table ends the run.
NextBatch(full) ==
    IF full /\ retention.pass + 1 < MaxBatches
    THEN [retention EXCEPT !.pass = @ + 1]
    ELSE IF retention.table = Len(Tables) THEN NoSweep ELSE [retention EXCEPT !.table = @ + 1, !.pass = 0]

\* deleteInBatches: one statement, any RowBatch rows of those that are expired.
DeleteBatch ==
    /\ retention.table # 0
    /\ LET expired == Expired(Tables[retention.table], retention.now)
       IN  \E batch \in SUBSET expired :
              /\ \/ Cardinality(batch) = RowBatch
                 \/ batch = expired /\ Cardinality(expired) < RowBatch
              /\ history' = history \ batch
              /\ pings' = pings \ batch
              /\ oddments' = oddments \ batch
              /\ retention' = NextBatch(Cardinality(batch) = RowBatch)
    /\ UsersAlone /\ UNCHANGED sweepFaults

\* A statement fails; the whole run is tried again, until its attempts are spent.
FailSweep ==
    /\ retention.table # 0
    /\ sweepFaults < MaxSweepFaults
    /\ sweepFaults' = sweepFaults + 1
    /\ retention' = [NoSweep EXCEPT !.tries = (retention.tries + 1) % CleanupAttempts]
    /\ UsersAlone /\ UNCHANGED <<history, pings, oddments>>

InsightNext ==
    \/ MoveCard \/ ChangeLane \/ LookAtBoard \/ LeaveTeam \/ PassHour
    \/ BeginSweep \/ DeleteBatch \/ FailSweep

InsightSpec == InsightInit /\ [][InsightNext]_insightVars

-----------------------------------------------------------------------------
(* Properties *)

(***************************************************************************)
(* The cleanup changes no figure of the last days, if activity is kept for  *)
(* longer than the days the dashboard and the funnel look back: the cutoff  *)
(* is an instant while their windows begin at midnight, so a retention of   *)
(* as many days as the week has is one too short.  The steps the funnel     *)
(* counts from the beginning do shrink with it, but by nobody whose last    *)
(* trace is still within the days that are kept, and not at all where       *)
(* activity is kept for ever.                                               *)
(***************************************************************************)
SweepKeepsFigures ==
    [][ retention' # retention /\ hour' = hour
        => /\ keepDays = 0 \/ (keepDays > WeekDays /\ keepDays >= ThroughputDays)
              => Figures(hour)' = Figures(hour)
           /\ \A step \in Steps :
                 /\ EverDid(step)' \subseteq EverDid(step)
                 /\ \A r \in Traces(step) :
                       r.user \notin EverDid(step)'
                       => keepDays # 0 /\ r.at < hour - keepDays * DayTicks]_insightVars

=============================================================================
