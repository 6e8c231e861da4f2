# Kurultay: a TLA+ verification

Kurultay is a task board for teams: a NestJS API (`apps/api`) over PostgreSQL and Prisma, with
Better Auth's organization plugin for workspaces, Socket.io for live updates, BullMQ for its
nightly and hourly jobs, a backup sidecar (`scripts/backup.sh`) and a Next.js client
(`apps/web`). These modules model the parts where several requests, jobs, browsers or processes
meet on the same rows, rooms, files or screen; TLC checks them on small instances and TLAPS
proves the main invariants for every value of the constants.

## 1. The system

| Component | State it keeps | Operations | What is hard about it | What makes it correct |
|---|---|---|---|---|
| Task ordering (`task`, `common/position`) | `Task.columnId`, `Task.position` | create, move, remove, edit | concurrent inserts into one gap, respreads that write many rows, locks taken in different orders, stale sibling reads | distinct positions; a request changes the place of one task only; it lands where it was asked to; every request ends |
| Boards and columns (`board`) | `Board`, `Column.position` | found, rename, delete; create, defaults, move, edit, delete of columns | a column deleted while tasks arrive; the board's lock against the foreign keys of tasks | distinct positions; a column lands beside the one it was dropped at; every request ends; no task lost with a column |
| Checklists (`task/checklist*`) | positions of lists and items | create, edit, move, remove | locked appends, unlocked moves, no respread; events sent after the commit | appends distinct; a move lands behind the row it names; watchers catch up |
| Assignees, labels, comments, activity (`task`, `label`, `comment`, `activity`) | link rows, `Activity` | add, remove, post, delete | checks outside the write's transaction, events and signals after it | the feed matches the rows; watchers and badges catch up |
| Attachments, storage, retention of files, backups | `Attachment` rows, files, dumps | upload, detach, cascade, sweep, dump, restore | two stores without a common transaction; crashes; a sweep that races uploads | a row has its bytes; bytes without a row go away; a restore finds its files |
| Retention of rows, dashboard, activation | `Activity`, `Session`, ... | nightly batches, throughput, funnel, pings | a cutoff that is an instant beside windows that begin at midnight; counts without a window; ceilings and retries | a cleanup changes no figure of the last days |
| Workspaces, members, invitations | `Workspace`, `WorkspaceMember`, `WorkspaceInvitation` | found, dissolve, remove, change role, leave, invite, revoke, accept | checks and writes in different statements, the writes inside an external plugin; mails that fail or hang | always an owner; audit rows and answers that are true |
| Account deletion (`account`, its dialog) | `User.deletedAt`, all rows of the user, names in others' comments | preview, decide, delete | decisions older than the memberships; erasures that overlap; cookies that outlive sessions | every workspace is settled; a tombstone has no membership; the name is gone |
| Realtime | rooms of each socket | join, leave, evict, emit | a join's check and its entry are apart; evictions follow commits | who is not a member hears nothing |
| Notifications, due-soon scan | `Notification` rows | create, mark read, hourly scan | two-statement idempotency, signals after the last page | one unread reminder per task and user, none too soon |
| Trello import | rows of a new board | read, plan, write, report | chunks of one transaction, a report that is the only copy | all or nothing, and nothing skipped in silence |
| Guards and request pipeline | throttle counters, the request | origin, body, firewall, limits, session, membership, role, validation | each reads its own state while that changes | a GUEST changes nothing |
| Web: board, task panel, notifications | optimistic rows, lists, counters | drags, reads, events, resyncs, polls | answers, events and aborted reads in any order; lost connections | each converges to what the server has, and shows nothing of another task |
| Web: sign-in, workspace shell, invitations | session cookie, addresses of pages, active workspace | redirects, mailed links, switching, members screen | a parameter dropped on one of many ways; late answers after a switch | an invitation is not lost; a list is of the workspace shown |
| Mail, health, telemetry, OpenAPI, shared packages, deployment | little or none | | | |

They interact through PostgreSQL rows (foreign keys and cascades included), through socket rooms
(a write to a membership is followed by an eviction, a write to a board by an event), through the
attachment directory (uploads, the sweep and the sidecar) and through settings the sidecar and
the sweep share. `PROJECT.json` lists the hazards of each, line by line.

## 2. Modules

| Module | Models | Composed in |
|---|---|---|
| `Positions` | `fractional-index.ts`, `apply-insertion.ts`: midpoint, exhausted gaps, respread, neighbours and slots, as operators on a function from ids to positions | `TaskOrder`, `ColumnOrder`, `Checklists` |
| `MCPositions` | one list, one writer, against the sequence of a person dragging rows | `MCBoards` |
| `BoardLists` | abstract specification: columns hold ordered lists, a step moves, adds or takes one task, or drops a column | refined by `TaskOrder` |
| `TaskOrder` | `TaskService.create`, `move`, `remove` and `ColumnService.remove`, statement by statement under READ COMMITTED | `MCTaskOrder` |
| `ColumnOrder` | `BoardService`, `ColumnService`, and the locks of `TaskService.create` that meet theirs | `MCBoards` |
| `Checklists` | `ChecklistService`, `ChecklistItemService`, one protocol a level apart | `MCBoards` |
| `TaskLinks` | `TaskAssigneeService`, `TaskLabelService`, `LabelService`, `CommentService`, `NotificationService` | `MCBoards` |
| `BoardClient` | `useBoardData`, `useBoardRealtime`, `useBoardMutations`, the drag | `MCBoards` |
| `DueSoon` | `DueSoonWorker.runScan` in several processes | `MCServices` |
| `Insights` | `DashboardService`, `ActivationService`, usage pings, `CleanupWorker`'s tables | `MCServices` |
| `Invitations` | `WorkspaceInvitationService`, its mails, the invitee | `MCServices` |
| `AttachmentStore` | `AttachmentService.createFile` and `remove`, `CleanupWorker.sweepOrphanFiles`, the sidecar's rotation | `MCServices`, `MCAttachmentStore` |
| `TrelloImport` | the reader, the planner, the writer, the dialog | `MCServices` |
| `Erasure` | `AccountDeletionService.deleteAccount` on the text others keep: redaction, payloads, heir | `MCServices`, `MCErasureNames` |
| `Farewell` | the dialog of a deletion, its preview, and the request over all the person's workspaces | `MCServices` |
| `Membership` | `WorkspaceService`, `WorkspaceMemberService`, `acceptInvitation`, `AccountDeletionService`, the room joins of `RealtimeGateway`, for one workspace | `MCMembership` |
| `RequestPipeline` | the routes with their guards and limits, and what a request passes before its handler | `MCClient` |
| `TaskPanel` | `useApiResource`, `useTaskAttachments`, `useTaskChecklists`, `useTaskMetadata` | `MCClient` |
| `NotificationCentre` | the bell, its menu, the page and the socket they share | `MCClient` |
| `AuthScreens` | `middleware.ts`, the sign-in, sign-up, confirmation and invitation screens | `MCClient` |
| `WorkspaceShell` | `WorkspaceProvider`, `AppShell`, the members screen | `MCClient`, by itself |
| `PositionsProofs`, `TaskOrderProofs`, `AttachmentStoreProofs`, `MembershipProofs`, `FarewellProofs` | theorems about the module each is named after | |
| `BoardProofs` | theorems about `MCPositions`, `Checklists`, `TaskLinks`, `ColumnOrder`, `BoardClient` and `BoardsSpec` | extends `MCBoards` |
| `ServicesProofs` | theorems about `Invitations`, `DueSoon`, `TrelloImport`, `Insights`, `Erasure` and `ServicesSpec` | extends `MCServices` |
| `ClientProofs` | theorems about `RequestPipeline`, `AuthScreens`, `WorkspaceShell`, `TaskPanel`, `NotificationCentre` and `ClientsSpec` | extends `MCClient` |

`MCBoards`, `MCServices` and `MCClient` each put several components into one specification. The
components share no state there, so a variable `part` says which of them a behaviour is of, and
the others rest in an initial state: the state graph is the disjoint sum of theirs and what is
checked of each is what would be checked of it alone. Components that do interact are composed
inside one module: tasks with the removal of columns (`TaskOrder`), columns with the creation of
tasks (`ColumnOrder`), links with notifications, feed and watchers (`TaskLinks`), memberships with
rooms and erasures (`Membership`), uploads with sweep and dumps (`AttachmentStore`), figures with
the cleanup of their rows (`Insights`), a browser with a server others write to (`BoardClient`,
`TaskPanel`, `NotificationCentre`).

Operators commented `Slip:` are bugs one could make in the code. No specification uses them; they
serve to confirm that the properties notice.

### 2.1 Lists: TaskOrder, ColumnOrder, Checklists

`TaskOrder`: `home` and `pos` are the committed `columnId` and `position` of each task, `columns`
the committed `Column` rows. For each client: `pc`, the statement it is at; `request`, its DTO;
`siblings`, what `findMany` returned it; `locked`, the rows it has written and not committed;
`waiting`, the rows of its batch still to write. A transaction's writes become visible in its
commit step, which computes them from `siblings`, as the code does.

| Code | Actions |
|---|---|
| `create` | `BeginCreate`, `LockColumn` (`FOR UPDATE`), `ReadSiblings` (404 for a neighbour that is gone), `SpreadRow`*, `CommitCreate` (the insert's foreign key refuses a deleted column) |
| `move` | `BeginMove`, `LockColumn`, `ReadSiblings`, `WriteOwnRow` (404, 409), `SpreadRow`*, `CommitMove` |
| `remove` | `BeginRemove`, `DeleteTask` |
| `ColumnService.remove` | `BeginDrop`, `CountTasks` (409), `DeleteColumn`, `CascadeRow`*, `CommitDrop` |
| PostgreSQL, Prisma | `EndDeadlock`, `LoseConnection` (also the five-second limit of an interactive transaction) |

`ColumnOrder`: a statement names the rows it has to lock (`want`), `LockRow` takes them one at a
time, and the statement goes on when none is left; `BreakDeadlock` is PostgreSQL's detector. The
board's row is among them, since `FOR UPDATE` on it and the foreign keys' `FOR KEY SHARE` exclude
each other. `Checklists`: a row is a checklist of the task or an item of a checklist; an append
is `AddRow`, `LockParent`, `ReadLast`, `InsertRow`, a move `MoveRow`, `ReadSiblings`, `PlaceRow`
without a lock; `Announce` is the event after a commit, `Refetch` a watcher's answer to it.

Positions are integers in a unit no larger than half of `MIN_GAP`, so that halving a gap rounds
in the last place; `Gap = MinGap = 2` makes a neighbour one apart an exhausted gap, and every
other insertion between two rows exhausts one. Float64 is not modelled: that a gap above 1e-6 always
has a midpoint is true up to positions of about 2^32.

### 2.2 What hangs on a task: TaskLinks

Checks on members and labels are steps of their own; the transaction that follows is one step,
since what it locks is only what it writes. After it come `SignalUsers` (one for every user whose
unread count changed) and `AnnounceTask`; a user's browser answers with `Recount`, a watcher's
with `ReadAgain`. `LeaveWorkspace` and `RemoveTask` cascade as the schema says. `EraseAccount` is what
the deletion of an account does to these rows: it takes the assignments away with no activity for
them, no event and no signal (`struck` remembers whose), and its `User` row stays. `ForgetActivity`
is the cleanup's deletion of old activity (`forgotten` is the bag of it). The feed is a bag of
what happened to what: who did it is not compared with anything. A transaction that writes several
rows gives each an id of its own out of the next unused ones, in whatever order (`IdsFor`).

### 2.3 AttachmentStore and Insights

`AttachmentStore`: `upload[f]` is where the request that uploads `f` is, `disk` the keys with
bytes, `rows` the keys a committed row claims, `age` and `unclaimed` clocks, `sweep`, `old`,
`left`, `batch`, `removed` the nightly run, `dumps`, `taking` and `due` the sidecar. `createFile`
is `WriteBytes`, `CommitRow` or `FailRow` and `RemoveBytes`; `remove` and the cascades are
`DeleteRows`; a run is `StartSweep`, `ListFile`*, `CheckClaims`, `UnlinkOrphan`*, `EndBatch`. The
cutoff of a run is a moment, so what is older than it is decided when the run starts (`old`).
`ListFile` may find that an entry's file is gone, and then the `stat` may fail and the run with
it. A dump knows the uploads committed before it began.

`Insights`: the clock counts hours, `DayTicks` of them a day. `BeginSweep` takes the cutoffs,
`DeleteBatch` deletes up to `RowBatch` rows of a table, up to `MaxBatches` times, and goes on to
the next table; `FailSweep` is a statement that fails and the attempts the queue gives the job.
`LookAtBoard` and the funnel read what is left: `Figures` is what looks back a number of days, and
`EverDid` the people each of the funnel's all-time steps counts, out of the rows there are (`Traces`).

### 2.4 Membership, Invitations, Farewell, Erasure

`Membership`: `exists`, `role`, `invites` are the rows of one workspace, `deleted` the users with
`deletedAt`, `rooms` those with a socket in a room of the workspace, `req` each request in
flight: operation, caller, target, the role the guards resolved, the role read, the role replaced,
and its step. Reads (`ReadMember`, `CountOwners`, `ListMemberships`, `MatchDispositions`,
`ReadHeir`) and writes (`WriteMember`, `Found`, `Dissolve`, `Accept`, `Erase`) are separate steps,
and so are the audit row (`Record`), the eviction (`Evict`) and the two halves of a join
(`CheckMembership`, `EnterRoom`). The plugin is external: `Permitted` is what it requires of a
caller's row at its write, and `PluginRechecks` says whether it counts the owners again in one
step with it, which nothing under `src/` guarantees. `StaleSessions` is Better Auth's cookie cache
(five minutes). GUEST is merged into MEMBER: none of these handlers tells them apart.

`Invitations`: `Invite` is the service's check, `CancelStale` and `PluginCreate` the plugin's two
writes, `SendInvitationEmail` the hook that mails, `CheckRole` and `RecordOffer` what the service
does with the answer; `Revoke`, `CancelInvitation`; `OpenInvitation`, `PluginAccept`,
`RecordAcceptance`. `Farewell`: the dialog reads a `Preview`, holds `decisions`, and `Confirm`s;
the request is `ListMine`, `Match` (against a partition it computes itself), one transaction of
`Settle`*, `RecordFarewells`, `CommitFarewell`, and `EvictFrom`*; `Join`, `Leave`, `Promote`,
`StepDown`, `Dissolve` are everybody else. `Erasure`: `ReadRemarks`, `RewriteRemark`*,
`TurnRemarks` page through the comments; a row one transaction wrote is waited for by the other.

### 2.5 The browser: BoardClient, TaskPanel, NotificationCentre, AuthScreens, WorkspaceShell

Each has the browser's state in one record or a few variables, named after the `useState`s and
`useRef`s they stand for, and the server as the rows others change. A request is answered in one
step, or in `BoardClient` served in one and delivered in another. There the events are a queue
(`wire`), as one socket delivers them, and the answers a set (`answers`), served and delivered in any
order among each other and beside the events; each carries the change of the task it was read after
(`stamp`), by which the history variables `latest` and `overtaken` tell when something older was shown
over something newer, which the code does not compare. Effects that React runs after a render (a read
begun, one aborted, a redirect) belong to the step that changes what they depend on: `Show` in
`WorkspaceShell`, `Rendered` in `TaskPanel`. In `NotificationCentre` the bell and the page hold one
room by a count of holders; `NoticesCascade` is the deletion of a task with its notifications; `ConnectFails`, `CooledDown` and `Poll` are the backoff and what stands
in for it. `RequestPipeline` has every route of the controllers with the guard and the limit its
decorators give it, and a step for each stage, between which session and membership change.

### 2.6 DueSoon and TrelloImport

`DueSoon`: `StartScan`, `ReadPage`, `CheckPairs` (which pairs had their reminder),
`InsertReminders` (skipping those the partial unique index refuses), `SignalRecipients` after the
last page; `FaultyStatement` fails one of them and the queue tries again. `TrelloImport`: an entry
keeps what decides its fate (readable, archived, named, what it points at); `ReadAndPlan`,
`WriteChunk`*, `CommitImport` or `FailImport`, and the dialog that shows the report.

## 3. What is checked

| Run | Instance | Shows |
|---|---|---|
| `task_order` | 2 clients, 2 columns, 4 tasks, exhausted gaps | `TypeOK`; `DistinctPositions`; `ListsImplemented` (refinement of `BoardLists`); `NeighboursAreKept`; `EveryRequestEnds`, crossing respreads included |
| `boards` | 2 requests at a time on columns, checklists or links, an erased account and forgotten activity among the links; one list of 4 rows; one browser with two tasks and pages of one | `BoardsTypeOK`; `PositionsDistinct`, `ReadsBackAsAsked`, `ColumnsLandBeside`, `MovesLandBehind` (orders); `WatchersCatchUp`, `LinksCatchUp`, `BadgesCatchUp`, `FeedMatchesRows`, `BoardCatchesUp` (who looks sees what there is); `EveryColumnRequestEnds`, `JoinsAreAnswered` (liveness) |
| `services` | 2 scanners; 3 users of a board and tables of two rows with batches of one; 2 inviters and 1 address; 2 files with backup settings at zero and one crash; exports with one entry or section of every sort that is skipped; 2 erasures, 2 comments, pages of one; a deletion over 2 workspaces | `ServicesTypeOK`; `RemindersSpaced`, `SweepKeepsFigures`, `OffersAreAsRecorded`, `RowsHaveBytes`, `OrphansAreSwept`, `ImportsAreWhole`, `RedactionMissesNone`, `EveryErasureEnds`, `EveryTeamIsSettled` |
| `client` | 2 tasks, 2 notifications, 1 invitation, 2 workspaces, 1 request with one change of session or membership on its way | `ClientsTypeOK`; `ReadsStayHome`, `MissingIsAnAnswer`, `PanelSettles` (the panel); `BadgeSettles` (notifications); `InvitationNotLost`; `QueueIsOfActiveSpace`; `GuestsOnlyRead` |
| `membership_alone` | 3 users, 1 request at a time, all operations | `TypeOK`; `AlwaysAnOwner` and `AuditedChangesAreReal` by the API's own checks, without help from the plugin |
| `membership_pairs` | 3 users, 2 requests: remove, leave, erase | `NoTombstoneMembers`; `RoomsFollowMembership` |

Runs in which TLC finds what a comment or document of the repository rules out:

| Run | Property | Disagreement |
|---|---|---|
| `column_drop` | `ColumnsLeaveEmpty` | counting and deleting in one READ COMMITTED transaction does not keep a task from arriving in between (`column.service.ts:318`) |
| `attachment_slow_dump` | `NoKeptDumpDisowns` | `BACKUP_KEEP x BACKUP_INTERVAL` is not how long a dump is restorable: the sidecar sleeps after the dump (`backup.sh:37`) |
| `erasure_names` | `NamesStayGone` | two erasures that overlap on a comment: the second writes back the body it read (ADR 0026) |
| `membership_erase` | `AlwaysAnOwner` | two co-owners erased at once leave a workspace ownerless (ADR 0026) |
| `notifications_filter` | `ListIsOfItsFilter` | "load more" answers after the filter was changed (`notifications-list.tsx:49`) |
| `shell_role` | `RoleIsOfActiveSpace` | a late answer of a switch writes its role beside a workspace created since (`workspace-provider.tsx:38`) |

`attachment_slow_dump` starts from the favourable case in everything else: no failing dump and
uploads that take no time. With `DumpTime = 0` as well the property holds; a failed dump
(`BackupsFail`) or an upload that straddles a dump (`UploadTime > 0`) also breaks it, since the
window has no margin.

### Bounds, and why they are enough

* Two clients, requests, scanners or inviters: every race here is between two parties (a reader
  and a writer, two writers of one gap, two respreads); locks are per row, so a third waits for
  one of the two. What does not depend on the number is proved for any number.
* `task_order`: two columns are a move's origin and its target; the target needs two tasks to
  have a gap, and one more to move into it. `MaxRequests = 2`: each client serves one, from
  boards (`StartBoards`) on which an earlier history has left an exhausted gap.
* `boards`: `MaxColumnOps`, `MaxChecklistOps` and `MaxLinkOps` are 2 for the same reason, from
  an empty board and one with gaps exhausted and not. `Reach = 8` cuts `MCPositions` where a list
  has drifted further; all shapes of up to four rows, exhausted and not, are below it.
  `linksBegun` counts the rows that are forgotten as well as the requests. The browser starts with no
  task or with the later of two, `TaskPage = 1` makes two tasks two pages, and `MaxActs = 2` allows two
  of: a change by others, a lost connection, a drag. Two changes of one task are enough for the later
  to be shown before the earlier.
* `services`: ticks of a window, a day or a lifetime are one or two, since comparisons with them
  have three outcomes. A batch, a page and a ceiling of one or two make two rows several of each.
  A file older than the grace window stays so, hence `age` stops there. One crash or fault: a
  second is another run's. `MaxStirs = 2`: a change before and one after the preview.
* `client`: `PanelActs = 3`, `NoticeActs = 3`: open one thing, change it, open another. Two
  attempts of a backoff (`Attempts`) are a first and a last. `MaxSwitches = 1`: the owner of a
  workspace creates another and goes back before all the answers are in; the invariant of the shell
  is also proved for any number of switches. Limits of one or two requests a window are reached by one.
* Three users in `Membership`: an actor, a target and a witness; with one founder and one invitee,
  or two owners.

Deadlock checking is off: models end when their bound on requests, acts or crashes is used up,
and a membership model stops when nobody is left.

### Fairness

* `TaskOrder!FairSpec`, `ColumnFairness`, `ErasureFairness`: weak fairness of each request's own
  statements and of PostgreSQL's deadlock detector; no request has to arrive and no connection
  has to fail. Locks are granted to someone eventually because holders go on; with the bound on
  requests nobody can be overtaken for ever.
* `AttachmentStore!FairSpec`: time passes, dumps due are taken, requests get their answer, and the
  nightly job starts and goes on (BullMQ's repeatable job and its retries).
* The browsers: requests are answered (an error is an answer), what was sent arrives, timers fire
  (the debounce of a resync, the poll, the end of a cool-down). `BadgeSettles` also assumes strong
  fairness of `ConnectSucceeds`: a reconnection tried for ever succeeds some day. Users are under
  no obligation.

## 4. What is proved

| Theorem | For every | Argument |
|---|---|---|
| `PositionsProofs!SlotTaken` | list with distinct positions, slot, `Gap >= MinGap >= 2` | respread: ranks are strictly monotone; else the midpoint of a gap of two or more lies strictly inside |
| `TaskOrderProofs!TypesKept` | board, number of clients, columns, tasks | part of the invariant below |
| `TaskOrderProofs!PositionsStayDistinct` | same | *distinct positions* |
| `TaskOrderProofs!TransactionsKeepLists` | same | `ListsImplemented`: *transactions implement lists* |
| `TaskOrderProofs!TasksLandBeside` | same | `NeighboursAreKept`: same invariant, and where a commit places its row among those it read |
| `BoardProofs!AppendsStayDistinct`, `WatchersSeeEveryChange`, `MovesLand` | starting lists, writers, rows | *checklists* |
| `BoardProofs!LinksAreAnnounced`, `CountsAreSignalled`, `FeedStaysTrue` | people, labels, requests | *links* |
| `BoardProofs!ColumnsLand` | starting columns, editors, gaps | *columns* |
| `BoardProofs!ListReadsBack` | rows, gaps, insertions | *reading back* |
| `BoardProofs!BrowserCatchesUp` | tasks, pages, changes, lost connections, orders of answers | *the browser catches up* |
| `BoardProofs!PositionsStayDistinct`, `BoardsTyped` | all of the above | an invariant of each component, and of the others that they rest (`EachComponent`) |
| `AttachmentStoreProofs!StoreTypesKept` | number of files, settings, crashes | types are inductive with the clamp of `age` |
| `AttachmentStoreProofs!NoBrokenDownloads` | same, if `~AcksLost` | *no broken downloads* |
| `MembershipProofs!MemberTypesKept` | users, clients, flags | with `AllSuited`: a write gives a member only a role its operation may give |
| `MembershipProofs!TombstonesStayOut` | same, if nobody founds or accepts | writes touch rows that are there, an erasure empties its own, an heir has one |
| `MembershipProofs!OwnedWithoutErasure` | same, if the plugin recounts and nobody is erased | more than one owner before the write leaves another after it |
| `MembershipProofs!OwnedOneAtATime` | users, flags, operations, erasures included, one request at a time | *an owner, one at a time* |
| `MembershipProofs!RoomsFollow` | same, if audit rows can be written and nobody founds, accepts or joins | *rooms follow memberships* |
| `MembershipProofs!ChangesAreReal` | users, flags, operations, one request at a time | what is to be recorded was read and differs from what is written (`ChangesAhead`) |
| `FarewellProofs!FarewellTypesKept` | workspaces, people, changes meanwhile | types, and that only what the request alone owns is left to settle |
| `FarewellProofs!FarewellSettles` | same | *every team is settled* |
| `ServicesProofs!OffersStayTrue` | inviters, addresses, ids, faults | *offers* |
| `ServicesProofs!RemindersStaySpaced` | processes, tasks, window, page, faults | *reminders* |
| `ServicesProofs!ImportsStayWhole` | exports, chunk size, retries | *imports* |
| `ServicesProofs!FiguresStay` | visitors, rows, days, batches, faults | *figures* |
| `ServicesProofs!ErasureRedacts` | people, comments, page, steps | *redaction* |
| `ServicesProofs!ServicesTyped` | all of the above, files, settings, workspaces | *types of the services* |
| `ClientProofs!GuestsNeverWrite` | limits, deployments, requests, turns | every list of routes is harmless (`WritesAskForRoles`); past the guards `call.role` is one the caller has held and one the route asks for (`LetThrough`) |
| `ClientProofs!InvitationStays` | accounts, links, steps | *the way to an invitation* |
| `ClientProofs!QueueStaysHome` | workspaces, switches | *the list of the active workspace* |
| `ClientProofs!PanelStaysHome`, `MissingWasSaid` | tasks, page, steps | *the panel of a task* |
| `ClientProofs!ClientsTyped` | all of the above, notifications, tabs' reads and signals | *types of the browser* |

*Distinct positions.* `DistinctPositions` alone is not inductive: a commit writes positions
computed from rows read statements ago. The invariant adds that at most one client holds a
column (`ColumnExclusive`) and one a row (`RowExclusive`), that what a client read is a list with
distinct positions that still holds every row of its column, where it still is (`SlotRead`, the
hypotheses of `SlotTaken`), that the rows it has written are its own or of its column, and that a
respread has written or still has to write every row of the column (`RowsWritten`), and that tasks are in
columns that exist (`HomesExist`, the foreign key). Each action preserves each part; the commits
use `SlotTaken`.

*Transactions implement lists.* The refinement maps the order of `BoardLists` to the pairs of tasks
of a column by position. From the same invariant, a commit of a move or a create is its `Put`: the
rows of the column keep their order and the one placed is after exactly the rows of the slots before
its own (`PlacedSlot`, `PlacedPuts`). A deletion is `Take`. A column's deletion is `Drop`, because the
cascade has locked all it holds and a request to drop names no task of its own (`RowsWritten`). No
other statement changes what is committed.

*No broken downloads.* `RowsHaveBytes` needs: an upload in flight is younger than `UploadTime`
(`UploadsAreYoung`), a row belongs to a stored upload (`RowsAreStored`), what a batch holds is
older than the grace window and was not in flight when it was listed (`BatchIsOld`), and what is
left of it after the query is claimed by no row (`BatchIsUnclaimed`). An upload cannot commit
between query and unlink because it would have to be older than `MinGrace`, and `UploadTime <
MinGrace` is the assumption the code makes (a transaction of seconds, a floor of a day). If the
answer to a COMMIT can be lost, `createFile`'s catch unlinks the bytes of a live row, so the
theorem excludes it, and so does the run.

*Rooms follow memberships.* `RoomsFollowMembership` needs to know that the request which took a
membership away has not evicted yet: a removal evicts before it records, a departure records
before it evicts (`Leaving`, `EvictionsAhead`). An erasure that read no membership evicts nobody,
so it must lose none when it commits (`NothingToLose`), which is why nobody may accept an invitation
between its read and its commit.

*Every team is settled.* The invariant says what the request has read as long as nobody has come
between: what it counted are the memberships there are (`AsCounted`), its sole-owned workspaces are
those without another owner, and each one it is done with is to be deleted or has an heir who is
still a member (`AsSettled`), and at the commit none is left and all that survive are to be evicted
(`AsCommitted`). With `OneFarewell` (a second request cannot start, the account is gone only once
its own request has committed), the commit gives every workspace an owner or no member
(`CommitSettles`); `Departed` is then kept by the evictions and by others who join, leave and step
down. The slip `AloneIn` breaks `AnotherOwns`, the one fact about counting that the commit needs.

*Checklists.* `ListsInv`: an append that has locked its parent holds it until it inserts, unless the
parent is gone, in which case its foreign key refuses it (`OneHolder`, `Relied`); so the end of the
list it read is still the end of the rows that were never moved, whatever moves, edits and deletions
go on without a lock. What a watcher does not show yet is announced or has its event still to come
(`Unannounced`). `MovesLand` needs in addition only that a move writes between the rows it read.

*Links.* `LinksInv`: a user's count differs from the rows only while the request that changed it has
its signal ahead (`CountsOwed`), what a watcher does not show is announced or about to be
(`LinksOwed`), and rows and feed agree at every commit since one transaction writes both
(`FeedMatchesRows`, by how a bag grows). Notifications keep one owner each (`NotesOwned`), and a label
a request is about to insert is not there yet (`LabelsFresh`). An erasure takes the account's
notifications and its assignment, and remembers the assignment in `struck` in the same step; what
retention takes from the feed it adds to `forgotten`, so what was ever recorded does not change.

*Columns.* `ColumnsInv`: a row is held by one request (`LocksHeld`); past its locks a creation, a
move or a seeding holds the board's row, or the board is gone, and the list it has read is still the
list of the board (`BoardHeld`, `ListRead`), since whatever adds a column or moves one has to hold
that row as well; a founding is alone with a board nobody else knows of (`Founding`). Then the slot
of `SlotTaken` is free and lies where the request asked.

*Reading back.* `OrderInv`: the list has distinct positions, and the sequence names each of its rows
once, in the order of their positions. The rows ahead of the slot a request names are the first
ones of the sequence, as many as `insertionIndex` says (`RowsAheadFirst`); by `SlotTaken` the row
put at that index is then in order again, respread or not (`RowInSlot`, `InSlotInOrder`); and what
is in order is what a query returns, since the index of a row is its rank (`InOrderReadsBack`).

*An owner, one at a time.* Where the caller or the member written is an owner, the count of owners the
request read is still the count there is (`Counted`); it refuses to take the only one away, and an
erasure dissolves the workspace or has an heir, who is still a member when the transfer is written.

*Offers.* `InvitesInv`: rows keep the role they were created with; what a request is to record is
of a row with the role it asked for, and the outcome it has seen is that of the mail it sent itself
(`OfferHonest`).

*Reminders.* `RemindersInv`: `OneUnread` is the partial unique index. `Apart`, that two reminders of
one task and user are further apart than the window, holds where one process scans (`Alone`): what
`findAlreadyNotified` answered is then still so when the rows are inserted (`StillDue`).

*Imports.* `ImportInv`: while the transaction is open, the rows that are staged together with those
in the chunks left to write are the rows of the plan, and no chunk is empty (`PlanInHand`). A board that
committed has them all, with an activity row that counts them; the report is that of such a board.
That the report and the board account for every list, card and checklist once is arithmetic on the
plan alone: what is skipped has one reason each, and a reason is given to what is not live.

*Figures.* `SweepInv` says that a sweep's `now` is of the past and that a ping's day does not begin
after the ping. A batch then takes only rows older than `now` less the days that are kept
(`BatchIsExpired`), and these are older than the days either figure looks back on
(`ExpiredIsUnseen`). The funnel's window begins at midnight, up to a day before the instant a week
ago: that is why its retention has to be a day longer than its week. The all-time steps have no window:
a batch uncounts those people whose every trace of a step is in it, and by `BatchIsExpired` each of
these is older than the days that are kept.

*Redaction.* `RedactionInv`: what an erasure has read of a comment, and what it has written,
agrees with the comment about everybody not yet erased, since only a person's own commit takes the
name out and each writes back the body it read (`AgreesOn`). A comment that was there at the start and
still shows the name is then rewritten, beyond the cursor, still to do on this page, or behind a full
page (`Redacted`). The step that matters reads a page: the rows of rank at most the page's size are,
if any row is left out, as many as the page and all below it (`PageIsLowest`, from `RankGrows` and
`HighestIs`), so an erasure that stops at a page that is not full has left nothing out. The
invariant speaks of `u` while `u` is not erased: what a later erasure puts back is the
finding of `erasure_names`.

*Types of the services.* What the invariants above do not give: the attempts of a scan and the times
of reminders stay in their ranges (`DueRest`), and the row of an heir an erasure has promoted is held
until the transfer commits, so the heir's own erasure does not get past its membership meanwhile
(`ErasureRest`, `HeirsHeld`): an owner a team has is a member.

*The way to an invitation.* `InvitationInv`: whoever is after the invitation is at it or at a form
whose `next` is the invitation, and a mailed link that was asked for at the invitation leads there
(`LinksLead`).

*The browser catches up.* `ClientInv` has two layers. What the browser was told is true of some time
(`Truths`): a row that was read or answered after change n of its task is right in every field that
has not changed since, a page has every task of the server or leaves it to the next page, the moves
announced end with the one that put the task where it is. And what is shown and not as the server
has it is on its way (`AllComing`): a task missing is announced, to be fetched again, or on a page
that is asked for or answered (`Presence`); a field that differs is in an answer late enough, announced, or under a
move of this browser (`Field`); a task deleted is announced or left out by a first page that comes
(`Gone`). Answers are a set and the events a sequence, so every case holds whichever arrives first;
when an answer is shown over newer data, `overtaken` says so. Unless a drain is to begin, or one of
the excused cases is pending (`Renewing`), a step leaves each of these ways or takes it to its end;
and when that ends, a drain has just asked for everything (`RenewingEnds`, with `JoinsInOrder` and
`DrainsEnd`: what a drain waits for is asked for or answered). At rest there are no ways left.

*The list of the active workspace.* `ShellInv`: the members screen is mounted only with the pages
and about the workspace of the tab (`ScreenInv`), pages are down during a bootstrap (`BootInv`), and
what was listed exists (`BornInv`). If the list holds, or is about to be given, a row of another
workspace, then the session is about to be read again, or the latest switch has yet to be taken or
refused, or it was refused and the tab has no manager's role (`StrayInv`).

*The panel of a task.* `PanelInv`: a read in flight that has not been aborted is for what is wanted
now; a write that began from a list that was the task's own brings the list of that task
(`BasesHome`); so what is shown is the task's own, unless a write strayed. The panel keeps `gone` only
from an answer about the task of its address.

*Types of the browser.* Besides `PanelInv`, `ShellInv` and `InvitationInv`: signals on the wire and
marks whose signal is still owed are no more than the acts there were (`SignalsInv`), a tab has one
read of a kind under way (`CallsInv`), its room is held by the bell and by the page while that is
open (`LinkInv`), the files and comments of a task are numbered from one on (`ServerInv`, `Numbered`),
and the throttler has counted no request twice, nor one that has yet to pass it (`CountInv`).

Two statements changed because their proofs failed, and TLC confirmed the counterexamples on
larger bounds. `QueueIsOfActiveSpace` speaks of managers: a refused switch leaves another
workspace's row in the list of somebody who has no role there, who is not shown the list
(`members-settings.tsx:164`). `ReadsStayHome` also excuses an upload that began from a list which
had strayed already, and answers after a fresh read.

Assumptions on the constants (`GapAssumption`, `TaskOrderAssumption`, `AttachmentAssumption`,
`MembershipAssumption` and their like in the other modules) say what the code's constants satisfy:
start boards, columns and checklists have distinct positions, a workspace starts with an owner,
invitees are not members, batches and ceilings are not zero, comments have positive ids and mention
only ids they carry, and rows of history are of the kinds the tables hold; people, processes,
the tasks of a board and of a scan, and the entries of a file are finitely many, and the boards and
lists a browser or a person starts from are such (`StartBoards`, `Ids`). Reservations in a theorem's statement (`~AcksLost`, `Ops \cap
...`) exclude what section 5 says the code does not give.

Every invariant and every action property a passing run checks is a theorem. Out of the prover's
reach is liveness: `EveryRequestEnds`, `EveryColumnRequestEnds`,
`JoinsAreAnswered`, `OrphansAreSwept`, `EveryErasureEnds`, `PanelSettles` and `BadgeSettles`. They
rest on fairness, hence on ENABLED.

## 5. Known limits of what holds

What a property excuses, because the code does not give it. Each was met while modelling:

* Members and rooms. `RoomsFollowMembership` is checked without joins among the pairs: a join that
  read the membership before a departure enters the room after the eviction
  (`realtime.gateway.ts:155`). A `leave` whose audit row fails evicts nobody
  (`AuditFails = FALSE` in the pairs). `NoTombstoneMembers` is checked, and proved, without
  founding and accepting: an account that is being erased can accept an invitation
  (`workspace-invitation.service.ts:351`) or found a workspace (`workspace.service.ts:131`). Two
  concurrent changes of one role are both audited. A member who leaves keeps their assignments
  when one is written after the check (`task-assignee.service.ts:22`).
* Account deletion. Changes of the membership between the request's own reads and its commit are
  excused in `Farewell` (`crossed`): a co-owner's departure there strands the workspace
  (`membership_erase` is its sharpest form), a membership gained there leaves no `account.deleted`
  row and keeps its socket in the room. The audit row of a transfer names an heir who may be
  erasing their own account, `member.removed` and `member.left` rows can be written after the
  payloads were scrubbed, and a comment drafted with the name before the erasure can be posted
  after it. The dialog keeps its decisions across reopening: an heir no longer offered is submitted
  while the select shows none, and refused by the server (`delete-account-dialog.tsx:75`).
* Attachments. The grace window runs from the upload, not from the deletion of the row
  (`cleanup.worker.ts:520`, against `development.md:1070`). A download reads the row and opens the
  bytes afterwards (`attachment-download.service.ts:36`). `AcksLost = FALSE`, see above.
* Positions. A checklist move into an exhausted gap ties with its neighbour, and `MovesLandBehind`
  excuses it: these lists are never respread. `task.move` builds its activity payload from a read before
  its transaction (`task.service.ts:305`).
* Assignees and the feed. An erasure records no `unassigned` (`account-deletion.service.ts:413`): the
  feed then shows one assignment more than removals, and `FeedMatchesRows` says that it does; nor does
  it send an event, so `LinksCatchUp` leaves out whom it struck. `FeedMatchesRows` counts what was ever
  recorded: the cleanup deletes old activity of tasks that are still there (`cleanup.worker.ts:384`). An assignment whose check of the member came before an erasure is written
  after it and stays, to an account that is gone (`task-assignee.service.ts:29`, against
  `account-deletion.service.ts:411`).
* Jobs. Signals of the first pages of a due-soon scan are lost when a later page fails for the last
  time (`due-soon.worker.ts:188`). The all-time steps of the funnel shrink with any finite retention
  (`activation.service.ts:180`, `:218`); `SweepKeepsFigures` says by whom, and only the figures of the
  last days stay.
* Board. A refused move puts an old snapshot back, and a resync asked for right after a drain is
  dropped. An answer can be shown over something newer: a single-task read over a later event or
  read (`use-board-realtime.ts:73`), the answer of one's own move over a later one of others
  (`use-board-mutations.ts:72`), a page or a list of columns over events since. `BoardCatchesUp`
  leaves the three cases out (`restored`, `skipped`, `overtaken`); each lasts until the next drain. The
  page among them is what the comment on the drain rules out: a later page, read before a deletion
  and received after it, puts the task back (`use-board-data.ts:128`, against `:109`). Dialogs append
  what they created without looking whether an event brought it first (`board-view.tsx:344`).
* Task panel. A write is not aborted and may land in the list of the task opened since
  (`use-task-attachments.ts:173`); one's own comment can be shown twice
  (`task-metadata-panel.tsx:227`).
* Notifications. A badge anticipated twice is wrong until the next read (`use-notification-menu.ts:105`),
  and so is one that counted a notification deleted with its task, which sends no signal, while a
  connected bell does not poll (`schema.prisma:467`, `use-notification-unread.ts:98`);
  a signal during "load more" is ignored (`notifications-list.tsx:75`); an acknowledgement of the
  join of a connection lost since counts for the new one (`use-notification-socket.ts:82`).
* Sign-in. The link of the first confirmation mail names no way back, so confirming by it loses the
  invitation until its own link is opened again; the invitation's screen keeps "confirm first" until
  remounted (`invite-accept-view.tsx:48`); an acceptance whose `setActive` is lost shows an error
  (`invite-accept-view.tsx:101`).
* Shell. A session whose active workspace its person was removed from fails every bootstrap, "Retry"
  included (`workspace-provider.tsx:81`). After a first workspace is created a bootstrap can send
  its person back to the form (`workspace-provider.tsx:113`).

## 6. What is left out

* Field edits, activity payloads and socket payloads: single-row writes that no property here
  reads. Positions wider than a 53-bit mantissa. Wording, layout, forms and their validation.
* Link attachments on the server, MIME sniffing, the archive of the files, restores as an action
  (the dumps kept stand for what could be restored).
* Parsing of mentions, reading and paging the feed, search, filters of the board, the drag of columns.
* The Redis adapter between several instances of the API; Better Auth, BullMQ, Prisma and PostgreSQL
  but for what the code relies on.
* In the shell: renaming, the dialogs that change a role or remove a member, a `setActive` that
  fails, and the refetch of the session when the window gains focus.
* Mail templates, probes, telemetry, generated documents, shared types, end-to-end tests and
  deployment files: no state of the domain.

## 7. Plan

Done: the modules of section 2, in the order lists, files, memberships, links, jobs, import,
erasures, browser; the theorems of section 4. Next:

1. A margin under which `NoKeptDumpDisowns` holds, as a theorem with that hypothesis.
2. Column drags and filters in `BoardClient`, and a composition of it with `Checklists`' watchers.
3. The lemmas liveness rests on that are not temporal: which request a waiting one waits for, and
   what decreases with each of its steps.
