# Formal model of the team management backend

TLA+ modules, TLC runs and TLAPS proofs for the backend in `src/` (NestJS, Prisma, PostgreSQL, with a
desktop agent that reports activity). `src/src/...` below is the application's own `src` directory.

## 1. The system

Every endpoint is a service method: a sequence of awaited Prisma calls. **No method opens a transaction**
and the schema has no unique constraint on "open" rows, so what a method has checked may no longer hold
when it writes, and a failure in the middle leaves the calls already made in place. That is the main hazard
of this code and the reason why the task timer is modelled twice: once with one action per handler (what
the handlers promise when requests do not overlap), once with one action per database call. Activity,
authentication and the directory are modelled call by call from the start; the projections by handler.

| Component | State it keeps | Operations | Interacts with | Correct when |
|---|---|---|---|---|
| Task timer (`task-time-tracking`) | `TaskTimeLog`, `TaskBreak`, `Task.personStatus` | start, pause, resume, switch; operations of a task; reports | tasks (status, cascade), users (cascade) | one session per person, breaks match the status, credited minutes match the time worked, closed sessions are final |
| Tasks (`tasks`) | `Task`, note history, documents | create, update, remove, notes, alert and deadline computation, document upload | task timer, users, Cloudinary | note history has every note, alerts agree with the deadline, status changes are stamped |
| Projections (`projections`) | `Projection`, `ProjectionOperation`, `ProjectionAction` | create, update, cancel, the employee's actions (accept, reject, request time, switch, resume, complete), operation timers | projection timer, notifications | a person works on one project, completed work stays completed, closed logs are final, an operation is completed once |
| Projection timer (`time-tracking`) | `TimeLog`, `Break` | start, pause, resume, daily statistics | projections | one session per person, breaks match the status |
| Notifications (`notifications`) | `Notification` | create, read, dismiss, delete | written by projections and timers | never goes back from dismissed to read |
| Authentication (`auth`) | token hashes, OTP, lockout counters in `User` | register, login, OTP, refresh, logout, password reset and change | mailer, users | lockout counts every failure, a refresh token is used once, a password change ends all sessions |
| Users (`users`) | `User` | approve, reject, activate, role, employee code, reset password, remove | everything that refers to users | removal is complete or refused, other people's work is left alone |
| Activity ingest (`activity` service) | in-memory event buffer and configuration cache; `ActivityEvent`, `HourlyStats`, devices | log events and batches, periodic flush, configuration updates, hourly aggregation, heartbeats, device tokens | agents over HTTP, cron, users | no accepted event is lost or stored twice, a configuration change takes effect, statistics count every event |
| Desktop agent (`activity/agent-index.js`) | in-memory buffer, disk queue, tokens | track, flush, replay, heartbeat, shutdown | activity ingest | events survive crashes and restarts, each is delivered |
| Attendance (`attendance`) | `Attendance` | check in, check out, availability | users | one record per person and day |
| Teams, leaves | `Team`, members, `Leave` | create, edit, review | users | - |
| Reports (`reports`) | none | read-only sums over tasks | tasks | same alert rules as tasks |
| Mailer, guards, Prisma service, bootstrap, setup package of the agent | none or process state | - | - | - |
| Schema and migrations, `scripts/`, backup and restore, `fix-historical-tasks.js` | - | maintenance outside the running system | - | - |

Behaviours that are hard here: overlapping requests (double clicks, two tabs, the agent and the web client),
administrators editing or deleting rows under a running request, partial failure inside a handler, timers
that several handlers may close, rounding of every break to whole minutes, flush cycles that overlap,
a cache filled by a reader while a writer invalidates it, an agent that is killed, goes offline or replays
its queue.

The hazards, each at the line where it bites and with the properties that would catch it, are in
`PROJECT.json` under `hazards`.

## 2. Plan

In this order, the most important behaviour first. Each module has its constants as parameters with named
assumptions, one action per operation, and no `RECURSIVE` operator, so that it can be proved about.

| # | Modules | What they are for | State |
|---|---|---|---|
| 1 | `Rows`, `WorkSession`, `TaskTimerUnits`, `TaskTimer`, `TaskTimerProofs` | the task timer, handler by handler, with time; it implements `WorkSession`; proved for all constants | done |
| 2 | `TaskTimerSteps`, `TaskTimerStepsProofs` | the same handlers call by call: overlapping requests, failures, administrators in between; served one at a time they implement `TaskTimer`; all of it proved for any number of requests | done |
| 3 | `OperationDesk`, `ProjectionWork` | projections, operations and the two services that write the same time logs; they implement `OperationDesk` | done |
| 4 | `ProjectionWorkProofs` | the invariants of `ProjectionWork` and the refinement, for all constants | done |
| 5 | `ActivityIngest`, `ActivityIngestProofs`, `ActivityStats`, `ActivityStatsProofs` | the server's event buffer: overlapping flushes, failing inserts, the configuration cache against invalidation, restarts; what is made of the events: hourly rows, dashboard, administrator's view; the safety of both proved | done |
| 6 | `ActivityAgent`, `ActivityAgentProofs` | the desktop agent and the server it talks to: memory, queue file, replay against flush, crash, lost and late answers, heartbeat, shutdown; its safety proved | done |
| 7 | `AuthSession`, `AuthSessionProofs` | login with its counter, the code of the mail, refresh rotation and reuse, new passwords, logout, call by call; counter, ended sessions and codes proved | done |
| 8 | `Directory`, `DirectoryProofs` | accounts and the rows that name them: registration, profile, approval, removal, tasks, teams, devices, attendance of the day; all properties proved | done |
| 9 | `SessionClock` | minutes of a projection's time log: three closers that round differently | open |
| 10 | `ProjectionSteps` | the projection handlers call by call: lost update in REQUEST_TIME, an operation added between the count and the automatic completion | open |
| 11 | `TaskBoard`, `Notifications` | note history and alerts of tasks, status of a notification | open |

Every safety property that a passing run checks is proved; liveness is not (section 11). Theorems worth proving
next are those of modules 9 to 11, when these are written.

## 3. Modules

### Task timer

`TaskTimer` models `src/src/task-time-tracking/task-time-tracking.service.ts` and the handlers of
`tasks.service.ts` and `users.service.ts` that touch the rows it works on.

| In the module | In the code |
|---|---|
| `task`, `log` (partial functions from id to row) | `Task` (assignee and `personStatus`), `TaskTimeLog` with its `TaskBreak` rows |
| `openBreaks`, `breaks`, `breakMinutes`, `breakTicks` of a log | the break rows: those with no `endTime`; their number; the sum of `duration`; the sum of their true lengths (not stored: there to say how accurate the stored minutes are) |
| `now` | `new Date()`, in ticks; `TicksPerMinute` (60000 in the code), `TicksPerSecond` (1000) and `SecondsPerMinute` (60) are parameters here |
| `StartTimer`, `PauseTimer`, `ResumeTimer`, `SwitchTimer` | the endpoints of the same names |
| `CreateTask`, `UpdateTask`, `RemoveTask`, `RemoveUser` | the parts of `TasksService` and `UsersService` that change these tables; `RemoveUser` may stop after its first call |
| `RoundMinutes`, `AtLeastZero` (`TaskTimerUnits`), `RoundSeconds` | `Math.round(ms / 60000)`, `Math.max(0, ...)`, `Math.round(ms / 1000)` |
| `Insert`, `Delete` (`Rows`) | row creation; deletion with its cascade |

`TaskTimerSteps` has the same tables and a record `req[r]` for every request being served: its program
counter, what it has read and what it will write. One action is one awaited Prisma call. `Fail` is a call
that throws (or a server that restarts): what was written stays. `Overlap` says which requests may overlap.
Administrators act between any two calls (`Administer`): they create, edit and remove tasks, and remove people in
two steps, the assignments first, then the account (`DeleteAccount`), which takes its sessions with it, so that a request
halfway through finds its row gone or its insert refused.

`WorkSession` is what a timer promises: a person is idle or works on one item, running or paused, and moves
from item to item only by way of being idle. `TaskTimer` implements it with `at` computed from the open
sessions; a person with two open sessions would be in a mode that `WorkSession` does not have.

`ElapsedSeconds` is the elapsed time that `getCurrentTimer` and the lists of sessions show (`computeElapsedSeconds`):
the session rounded to whole seconds, less the whole minutes of its breaks. `ReportedMinutes` are the minutes of a
session in `getAdminTimeReport`. Both are worked out from the row when somebody asks; `ShownAccurate` relates them
to each other and to the time worked at any moment, whatever the two roundings do.

### Projections

`ProjectionWork` models `src/src/projections/projection.service.ts` and
`src/src/time-tracking/time-tracking.service.ts`, which write the same `TimeLog` rows.

| In the module | In the code |
|---|---|
| `projections`, `operations` | `Projection` (employee and status), `ProjectionOperation` (projection and status) |
| `logs`, `lastLog` | `TimeLog` rows with their `Break` rows; the last id handed out. Ids grow with `sessionStart`, so `orderBy sessionStart desc` is the largest id |
| `breaks` of a log | one boolean a break, in the order of `startTime`: is it open |
| `CreateProjection` ... `DeleteOperation` | the admin's endpoints, with the cascades of the schema |
| `Accept`, `Reject`, `SwitchProjection`, `CompleteProjection`, `ResumeIncomplete` | the cases of `handleEmployeeAction`, with `finalizeOpenTimeLogForProjection` (`Finalize`) |
| `StartTimeLog`, `PauseTimeLog`, `ResumeTimeLog` | `TimeTrackingService` |
| `StartOperationTimer`, ... `CompleteOperationTimer` | the operation timers, with `closeOpenTimers` |
| `FindFirst`, `FoundOpen` | `findFirst` without `orderBy`: any row that matches |

`sessionEnd` is left out of these logs because every update that sets it also sets `status`. Left out as
well: dates and minutes, titles, `REQUEST_TIME`, the action history and notifications.

`OperationDesk` is what the operation timers promise together: an employee works on at most one operation,
nobody else works on it, and a finished operation is not worked on until it is withdrawn.

### Activity ingest

`ActivityIngest` models the intake of `src/src/activity/activity.service.ts`. The server is one thread, so
one action is what it does between two awaits.

| In the module | In the code |
|---|---|
| `keys`, `entry`, `content` | `eventBuffer`: the users in the map in order of insertion, the array each entry holds, what is in an array. Arrays have an identity, because a flush keeps hold of the one it drained while the map may come to hold another |
| `cycle[c]` | a run of `flushEventBuffer`: user, array, drained batch, the users its iterator has still to visit. The interval starts one every ten seconds whether or not the last has ended |
| `StartCycle`, `Commit`, `Return`, `Throw` | the loop up to its first `createMany`; the database stores the batch; the call returns and the loop goes on; the call throws, before or after it was stored |
| `LogBatch` ... `RejectBatch` | `logActivityBatch` and `getOrCreateMonitoringConfig`: from the cache, or read, or created |
| `ToggleEmployeeMonitoring`, `UpdateMonitoringConfig`, `InvalidateCache`, `UpdateFails` | the upsert, then the deletion of the cache entry, or a failure in between |
| `Refused` | events that no insert takes: a fraction or an overflow in an `Int` column, an account that is gone. `createMany` is one statement, so `Commit` is for batches without one; a batch with one goes back whole, and is drained whole again (`HeldUp`) |
| `ExpireCache`, `Restart` | the entry is older than five minutes; the process starts again, with its memory empty |
| `copies`, `sent`, `unsure`, `excused`, `crossed` | rows per event; the rest is history, to say why something happened |

Left out: what an event contains, working hours (a setting is on or off), the order of events in an array.

`ActivityStats` takes the day of one user. `Happens` and `Store` put an event into the world and, later, into
the table; `AggregateHour`, `WriteSummary` and `AggregationFails` are `aggregateHourlyStats`, which reads once
and then writes one row per task; `LiveIdle`, `LiveCount`, `TrackedMinutes` and `TotalIdle` are
`getTodayActivityDashboard`; `ShownCount` is `getAdminEmployeeSummary`. That view counts days in two ways: the hours
of the dashboard and of the rows are those of the server's clock, but which day is today, and of which day a row
is, it decides in Asia/Kolkata. The model has the server's day, and `IndiaAhead`, by which the clock of India is
ahead of it (`DateInIndia`): from then on it is the next day there. A query is a range of days (`Queries`: the server's
day, that and the next, the next alone). `StoredCount` are the rows in the range, `LiveShown` says of which hours the
view adds what the dashboard has. The loop that cuts an idle interval
at the hours is modelled by what it adds to each hour (`IdleInHour`). `DashboardIdle` compares it with a
definition that knows no intervals: a tick is idle when the last event before it is at least the threshold
ago. Keys, clicks and moves are counted alike and told apart no further.

### Desktop agent

`ActivityAgent` models `src/src/activity/agent-index.js` and the part of the server that hears from it.

| In the module | In the code |
|---|---|
| `phase` | the process: off, signing in, running, in its shutdown handler |
| `buffer`, `flight` | `eventBuffer`; the batch `flushEvents` is waiting for (`isFlushing`) |
| `disk`, `replay` | the queue file; the run of `replayDiskQueue` with what it read and the chunks left |
| `ReadDiskQueue`, `PersistFails`, `ClearFails`, `WriteBackFails` | the file helpers swallow every error: a file that cannot be read counts as empty and is overwritten by the next append, one that cannot be written stays as it was or is cut off (`WriteFails`), one that cannot be deleted is replayed again at the next start |
| `FlushArrives`, `FlushAnswered`, `FlushFails` | the request is handled; the agent sees it answered or failed. A request that the agent gave up may still arrive (`late`, `LateArrives`) or never (`NetworkDrops`) |
| `beats`, `Heartbeat`, `RecordHeartbeat`, `Shutdown`, `RecordOffline`, `StaleTimeout` | heartbeats on their way; the presence of the user as the server records it, and the five minutes after which it counts for nothing |
| `page`, `TogglePage`, `PageHeartbeat`, `RecordBrowserHeartbeat` | the user's web client, open or not, which reports him present on its own (`recordBrowserHeartbeat`), whether or not there is an agent |
| `Exit`, `Kill`, `KillInWrite` | the end of the process, in an orderly way, at any moment, or while it writes the queue file |

`handled` counts how often the server took an event. What the server does with it then is `ActivityIngest`;
the two share no state but the request, and each treats the other as an environment that may fail at any
moment, so they are checked apart.

### Authentication

`AuthSession` models `src/src/auth/auth.service.ts` and `resetUserPassword` of the users' service. `account` is
the row of a user: failed attempts, lock, one-time code, reset code, and whether a refresh token is stored.
`req[r]` is a request with what it has read. Each handler is cut at its database calls: `LoginRead`,
`LoginFail`, `LoginReset`, `LoginOtp`; `VerifyRead`, `VerifyClear`, `VerifyStore`; `RefreshRead`,
`RefreshStore`, `RefreshRevoke`; `Logout`, `ForgotPassword`; `ResetRead`, `ResetStore`; `ChangeRead`, `ChangeStore`.
Whether a password is right is left open, and so is whether an older refresh token still compares equal to
the stored hash, which the code leaves to bcrypt. Times are left out but for their order: a lock, a code
and a reset token run out at any moment (`ExpireLock`, `ExpireOtp`, `ExpireReset`). An attempt count is reset
by the code when the lock is set, so `fails` stays below the maximum. The history `wrong` counts the wrong passwords
on its own, up to the maximum and until a reset or the end of the lock, and reads neither `fails` nor `locked`: what
`LockoutExact` compares the lock with.

### Directory

`Directory` models accounts and the rows that name them: `users.service.ts`, `register` and `updateProfile` of
`auth.service.ts`, `teams.service.ts`, check-in and check-out of `attendance.service.ts`, leaves as far as they
keep an account, task assignment, who works for whom in a projection, and the device tokens of
`activity.service.ts`. Partial functions `accounts`, `tasks`, `teams`, `devices` and the set `projections` are
the tables; the unique keys and foreign keys of the schema are guards of the writes and the effect of a deletion
(`Acceptable`, `Restricted`, `Cascade`). `removeUser` and `rejectUser` make the same calls: `RemoveUser`,
`RemoveUnassign`, and `RemoveDelete`, which the database refuses while attendance or leave rows name the
account, or projections it created (`createdByAdmin`, which restricts; the projections it works on go with it).
`SetEmpcode` stores a code, or clears it when it is empty or missing. `today[u]` holds the attendance records of
the day, `kept` those users whom older records or leaves keep. `behind` of a request says that another write
overtook what it had looked up.

## 4. Runs

Every run checks for deadlock too. Model values of a kind are interchangeable, hence the symmetry in the
runs without liveness.

| Run | Instance | Shows |
|---|---|---|
| `task_timer` | 2 employees, 1 task, 2 sessions, 2 breaks each, clock 0..6, 4 ticks a minute, 2 a second | the invariants of section 5, the elapsed seconds shown and the minutes reported, closed sessions are frozen, `TaskTimer` implements `WorkSession` |
| `timer_serial` | 2 employees, 1 task, 2 sessions, one request at a time | the sequences of calls do what the actions of `TaskTimer` do in one step (`ImplementsTaskTimer`) |
| `timer_people` | 2 employees, 2 tasks, 2 sessions, 2 requests of different people, an admin at any moment | one open session each; every session nobody is working on is in order |
| `timer_any` | 1 employee, 2 sessions, 2 overlapping requests, any call may fail | open sessions never outnumber overlapping requests; a session that has ended never counts as open again |
| `projection_work` | 2 employees, 2 projections, 2 operations, 3 logs, 1 break each | one operation timer each, timed operations are in progress, nothing is logged on a projection before it is taken up, only `SWITCH_PROJECTION` can stack a second log, `OperationDesk` is implemented |
| `projection_breaks` | 1 employee, 2 projections, 1 operation, 3 logs, 2 breaks each | a paused log is in the break begun last, however the pauses and resumes of both services are mixed; completed logs are frozen |
| `activity_ingest` | 1 user, 2 of 3 events, one of which the database refuses, 1 batch, 2 overlapping flushes, 1 update at a time | the map and its arrays are in order; an event is stored twice only after a write reported failed, and forgotten only by a restart or an overlapping flush; a stale cache entry has a known reason; accepted events reach the database, are forgotten, or wait with the refused one; monitoring switched off for good ends |
| `activity_stats` | 3 hours of 4 ticks, 2 tasks, 3 events, threshold 2 ticks, 2 ticks a minute, India 6 ticks ahead | the dashboard's idle time is the idle time, hour by hour and in total; hourly rows stay within it; the administrator's view of the server's day shows every event once but for late ones, missing rows and, after midnight in India, the running hour or a second copy of the stored ones |
| `activity_agent` | 2 events, sent by two, replayed one by one, a file that may fail, an agent and a page | where an event can be lost or handled twice, that memory is flushed while the user works as long as no request hangs for ever, that a user whose agent and page are gone ends up offline |
| `auth_session` | 1 account (an administrator's), 2 requests, 2 codes, 2 attempts | without overlap the account is locked exactly after the last wrong password it allows, and with it going on still locks it; an ended session stays ended unless a token was about to be stored; codes are used once unless presented by overlapping requests |
| `directory` | 2 accounts, 2 email addresses, 1 employee code, 1 task, projections of any two people, 2 teams and names, 1 device, 2 requests | rows name accounts that exist; the look before a write suffices unless overtaken; one attendance record a day unless check-ins overlap; no agent is signed in for an account that is gone |
| `agent_queue` | as `activity_agent` | ends with a counterexample, see below |

Bounds, and why they are enough. Two employees suffice wherever a property speaks of one person against
another, and the handlers look only at the caller's own rows. Two sessions let one be finished and one
open, or two be open by mistake; three logs in `ProjectionWork` let a person have two open and open a third,
which is what its handlers tell apart (closing the newest, the only or all of them). Two breaks allow one
closed and one open, or two open at once. Four ticks a minute make a length of one tick round down and
of two round up; two ticks a second and two seconds a minute make a session of one tick round to a second, so that
seconds and minutes round differently; six ticks hold a session with two breaks on both sides of that. The clock stands still in
`TaskTimerSteps`: nothing stated there depends on a duration. `AdminStatuses` holds the statuses from which
an edit can wake, finish or shelve a projection; setting `PENDING` or `REJECTED` by hand on a projection
with logs makes `UntouchedUntilTaken` false at once, and the invariant says so. The bounds `MaxLogs`,
`MaxBreaks`, `MaxTime`, `LogIds` and `Requests` cut off only longer histories of the same handlers.

Two flushes are the fewest that overlap, and two events let one be drained while the other arrives; users meet
only in the order in which a flush visits them, so the run has one. Which two of the three events are sent is
open: two the database can take, or one of them and the one it refuses. Two
events also let the agent hold one in memory and one on disk, or one in the chunk being sent and one in the
rest. Three hours let an idle interval cover a whole hour between two others; with four ticks an hour and two a
minute both roundings happen, and `TicksPerMinute` and the threshold are small so that three events make every
kind of gap. Midnight in India falls in the middle of the second hour: one hour has begun before it and ended
after it, one lies before and one after; in the proofs it may fall anywhere. Two attempts and two requests let
an account be locked by overlapping and by successive failures. In `Directory` two accounts are what unique keys
and a removal under a request need. A behaviour there is about one `area` (profiles, work and attendance,
projections, teams, devices), chosen in `Init`, besides registration, approval and removal, which all of them
have: two requests in different areas touch no common row but the account itself, so the sum of the areas loses
only pairs of requests that cannot see each other.

### Disagreements between comments and code

`agent_queue` is a run that TLC ends with a counterexample; `PROJECT.json` quotes the line under `findings`.

| Run | The comment | The code |
|---|---|---|
| `agent_queue` | events that fail to send survive on disk (`agent-index.js:15`) | `replayDiskQueue` deletes or overwrites the queue file with what it read before its requests; what a failing flush appended meanwhile goes with it. `OnDiskIsSafe` shows that this, a crash during a write and a file that cannot be read or written are the only ways |

The following were met while modelling. They are behaviours of the modules above, and the properties that hold
are stated around them.

| The comment | The code |
|---|---|
| one active session at a time across all tasks (`task-time-tracking.service.ts:30`) | the check and the insert are two calls; two overlapping starts of one employee both pass the check (`RaceIsBounded` says how many sessions can result) |
| the task moves to IN_PROGRESS if it was NOT_STARTED (`:63`) | the status was read two calls earlier; a DONE set in between is overwritten |
| the session is completed when the admin marks the task DONE (`:194`) | nothing calls `completeTimerForTask` |
| close the open break (`:134`) | `switchTimer` sums the breaks from rows read before, and a pause that arrives in between keeps its break open in the completed session |
| only one active or paused session at a time (`time-tracking.service.ts:63`) | `SWITCH_PROJECTION` closes the log of the projection switched from, not the one that runs; no overlap is needed (`OnlySwitchStacksLogs`) |
| a completed projection cannot be updated (`projection.service.ts:136`) | `RESUME_INCOMPLETE` sets the projection of another open log to INCOMPLETE whatever its status (`:537`), and puts aside one of several |
| completing an operation timer closes any open break (`:924`) | `pauseOperationTimer` accepts a paused log, so two breaks are open and one of them is closed |
| events concurrent with a write are not lost (`activity.service.ts:237`) | true of one flush; a flush that ends while an earlier one of the same user waits deletes the entry whose array the earlier one will put its events back into (`ForgottenOnlyByOverlap`) |
| the next request picks up a new configuration immediately (`updateMonitoringConfig`) | a request that read the row before the update fills the cache after it was invalidated; the old setting stays for five minutes (`StaleForAReason`, `OffTakesEffect`) |
| live rows are added only when they are not yet persisted (`activity.service.ts:1069`) | `storedTodayHours` has the rows whose date in Asia/Kolkata is today there, while the live hours are those of the server's day. On a server in UTC (the Dockerfile sets no zone) after 18:30 a query of the two days has every stored hour before 19:00 twice, as a row and live, and a query of the server's day alone omits the running hour. `ShownComplete` says what is shown once whatever the time |
| events in memory are flushed to disk in the shutdown handler (`agent-index.js:530`) | the handler sets `isShuttingDown` first, and `flushEvents` returns at once (`MemoryLostOnlyAtExit`) |

Also seen: `completeOperationTimer` applied to a plain log completes it and then throws, because the log has no
operation; `setEmpcode` stores an empty string for a code of zeros without looking it up, so a second such
account is refused by the unique key (an empty or missing code becomes NULL); a batch with an event that a
column refuses is put back whole and blocks everything the same user sends until the server is restarted
(`activity.service.ts:263`); `node-fetch` is called without a timeout, so a request that hangs keeps
`isFlushing` true and the agent sends nothing more until it is started again (`agent-index.js:567`);
`removeUser` and `rejectUser` catch PostgreSQL's error codes, which Prisma does not throw, after the tasks have
lost both their people; `combineDateTime` takes the UTC date of a local midnight.

And races that no property denies, because nothing prevents them; the properties named leave out what they happen to:
a refresh that has passed its check stores a new token after a logout or a new password (`EndedSessionStaysEnded`, unless
`crossed`); a one-time code or reset token is looked up by two requests before either clears it (`CodesUsedOnce`,
unless `shared`); two check-ins find no record of the day and create two (`OneRecordPerDay`, unless `doubled`); an email
address or employee code is taken between the look and the write, and the unique key's error reaches the client
untranslated (`ChecksSuffice`, unless `behind`); a resume let in before a switch sets a session that has ended active
again (`EndedStaysEnded` is about its end only), and a call that fails after a break was created leaves an active
session with an open break.

## 5. Properties and proofs of the task timer

`TaskTimerProofs` proves for every value of the constants, from the assumptions `NullAssumption`,
`BoundsAssumption`, `TicksAssumption` and `SecondsAssumption` (a minute is an even number of seconds) only:

| Theorem | Says |
|---|---|
| `TypeCorrect` | `Spec => []TypeOK` |
| `SessionsNeverOverlap` | sessions of one employee are disjoint in time, so at most one is open |
| `BreaksDisciplined` | status, end and open breaks of a session agree |
| `CreditIsAccurate` | credited minutes differ from the time worked by at most half a minute for the session and each break |
| `ShownIsAccurate` | elapsed seconds and reported minutes agree to half a minute, and the seconds with the time worked to half a minute for each closed break and half a second |
| `CompletedSessionsFrozen` | no step changes a completed session |
| `TimerKeepsPromise` | `TaskTimer` implements `WorkSession` |

They rest on one inductive invariant,

    IInv == TypeOK /\ BreakDiscipline /\ AccountingInv /\ CreditAccurate /\ SessionsDisjoint

None of the parts but `TypeOK` is inductive on its own. `SessionsDisjoint` needs that an open session ends
after every other one, which follows from `SessionTimes` (nothing lies in the future) and from
`BreakDiscipline` (a session without an end is open, so `startTimer` would have found it). `CreditAccurate`
is about finished sessions; what makes it true is a bound on the rounding of the breaks closed so far while
the session is open (`BreakRounding`), and that the breaks fit into the session (`SessionTimes`), without
which clamping at zero could hide any error. `BreakRounding` counts closed breaks by the status, so it needs
`BreakDiscipline`. The parts are checked by TLC in `task_timer`, then proved: `Init` establishes them, one
lemma per kind of change (a session begun, paused, resumed, closed; rows deleted; the clock) preserves them,
and `IInv` implies each stated property. The refinement is proved action by action: each maps to one action of
`WorkSession` or to a stutter, with `SessionsDisjoint` making the open session of a person unique.

`ShownIsAccurate` needs one more invariant, `CreditStored`: a completed row holds exactly the credit computed
from the end and the breaks it still has. Then what is reported is the same function of the row before and after
completion, and the rest is arithmetic: clamping at zero brings two numbers no further apart
(`AtLeastZeroBound`) and commutes with changing minutes to seconds or ticks (`AtLeastZeroTimes`). That the seconds shown
and the minutes reported still agree to half a minute, although each is rounded from the ticks on its own, is because half a
minute is a whole number of seconds: rounding to seconds does not cross it (`WholeUnits`).

`TypeCorrect`, `WorkTypeCorrect` and `CopiedIdsAgree` (section 6) are proved and no longer checked by a run of
their own: the runs spend their time on the properties that rest on them.

### Call by call

`TaskTimerStepsProofs` proves the following of `TaskTimerSteps`, for any number of people and of requests at
work. It adds to the assumptions above that the requests are finitely many (`RequestsAssumption`), that `Null`
is not a break (`NoBreakAssumption`), and that `Overlap` and `Failures` have one of their values
(`OverlapAssumption`, `FailuresAssumption`).

| Theorem | When | Says |
|---|---|---|
| `StepsSound` | always | rows and requests are well typed, and a request works on a session of the person it is served for |
| `RaceBounded` | always | nobody has more open sessions than requests are served at once (`RaceIsBounded`) |
| `EndIsFinal` | always | no write takes away the end of a session (`EndedStaysEnded`) |
| `OneSessionEach` | `Overlap # "any"` | a person whose requests do not overlap has one open session, whatever others do and whichever calls fail (`OneOpenSession`) |
| `SettledInOrder` | `Overlap # "any"`, no failures | rows on which nobody is at work agree in status, end and breaks (`SettledDiscipline`) |
| `StepsImplementTaskTimer` | `Overlap = "none"`, no failures | the calls implement the handlers of `TaskTimer` (`ImplementsTaskTimer`) |

The conditions are those of the runs `timer_any`, `timer_people` and `timer_serial`, and they are needed: TLC
finds a counterexample to each of the last three properties when the condition on `Overlap` or, for
the last two, that on failures is dropped.

A handler is several steps here, so the proof first sorts the steps by what they do (`Kind`): a request
arrives, goes on without writing, updates the row of its session, creates one, or an administrator changes tasks
and people. `Sound` is kept by each kind. The rest is one invariant for each condition:

- `Counted`: the open sessions of a person and the requests that found none and are about to create one are
  together no more than there are requests, and finitely many. A request is counted from the moment it
  has passed the check, not from the insert, which is what makes the bound inductive.
- `OneAtATime`: one request of each person, at most one open session, and none while a request is about to create
  one (`PassedFindsNone`). The last is what the check of `startTimer` is worth if nobody else writes in between.
- `RowsInOrder`: what a row looks like to the request at work on it, step by step (`InWork`: for instance, once
  `resumeTimer` has closed the break the row is still "paused" and has no break open), and that every row that
  nobody is halfway through is `Settled`. A failure between two writes breaks it, hence the condition.

For the refinement a handler takes effect with its last write: until then `SettledLog` shows its row as it was
(`TakenBack`, `OpenAgain`). The clock stands still in this module, so a break has no length and closing it, or
opening it again, moves no minutes (`RoundZero`); what depends on durations is proved of `TaskTimer`. `Serial`
is the conjunction of the above with `Alone`: at most one request is busy, and what it has read is what is
stored. Each last write maps to the action of its handler, and each other step of a request to a stutter.

## 6. Properties and proofs of the projections

`ProjectionWorkProofs` proves for every value of the constants, from `OperationAssumption` (NULL is not the
id of an operation), `AdminAssumption` (an edit sets a status of the enumeration) and `LogAssumption` (the
bounds are natural numbers):

| Theorem | Says |
|---|---|
| `WorkTypeCorrect` | `Spec => []TypeOK` |
| `CopiedIdsAgree` | the projection and employee ids copied into a log agree with the rows they came from, whatever is deleted under a running timer |
| `PausedLogsInBreak` | a paused log is in the break begun last |
| `OneOperationAtATime` | nobody times two operations |
| `TimedInProgress` | an operation with an open log is in progress |
| `CompletedLogsStay` | a completed log changes only by losing an operation that is deleted |
| `UntakenUntouched` | if admins set neither `PENDING` nor `REJECTED` by hand, nothing is logged on a projection before it is taken up |
| `WorkKeepsDesk` | `ProjectionWork` implements `OperationDesk` |
| `OnlySwitchStacks` | only `SWITCH_PROJECTION` takes an employee from at most one open log to two |

The handlers are many and alike, so the proof does not go through them one by one for every property. It
first shows, handler by handler, that each request of an employee is a `WorkStep`: the rows stay, each
of the employee's own logs makes a `LogStep` (a completed one is untouched, one that was ended is not opened
again, a paused one is in its last break), the logs of others stay as they are, and at most one log is new,
open, with the ids of rows just looked up. Everything else is then proved of a `WorkStep` and of the admin's
actions. The inductive invariant (`InvHolds`) is

    Inv == TypeOK /\ RowsAgree /\ PausedInBreak /\ OneOperationTimer /\ TimedOperationInProgress

`RowsAgree` and `PausedInBreak` are inductive with `TypeOK`. `OneOperationTimer` is kept by
`startOperationTimer` because `closeOpenTimers` ends every open log of the employee, those the plain timer
or a switch has stacked included. `TimedOperationInProgress` is kept by `completeOperationTimer` because the
operation that becomes `COMPLETED` is timed by no other log: not by the employee (`OneOperationTimer`) and
not by anybody else (`RowsAgree`: the logs of an operation belong to its projection's employee).

`UntakenUntouched` and the action properties use `Inv` as a lemma. `UntouchedUntilTaken` needs in addition
that a projection once taken up stays taken up; this is what an admin's edit to `PENDING` would break, hence
its condition. The refinement maps a start to `Start`, a completion to `Finish`, a deletion to `Withdraw`, and
every other request to `Leave` or to a stutter.

## 7. Properties and proofs of the activity intake and the agent

`ActivityIngestProofs` proves the safety properties of `ActivityIngest` for any finite numbers of users and of
flushes at work (`SmallAssumption`), and any events, requests and updates. `OwnerAssumption` says that an event
is of one user, `RefusedAssumption` that the refused ones are events, `NoneAssumption` that `Nobody` and
`NoArray` are neither users nor arrays.

| Theorem | Says |
|---|---|
| `BufferInOrder` | the map, the arrays and what each flush holds agree, and no event is in two of these places at once (`HeldOnce`, a part of `BufferInv`) |
| `EventsStoredOnce` | an event is in the table twice only after a write that was reported failed (`StoredOnce`) |
| `StaleOnlyForAReason` | a cached setting differs from the stored one only for a reason (`StaleForAReason`) |
| `ForgottenOnlyOverlapped` | only a restart, or the end of a flush that overlapped another of the same user, loses an accepted event (`ForgottenOnlyByOverlap`) |

The invariant follows an event from the request to the table:

    IInv == BufferOK /\ RestTyped /\ RequestsOK /\ HistoryOK

`BufferOK` says that the map holds each user once, with an array of his own (`MapOK`), that a flush which was not
overlapped holds the array of the map (`CyclesOK`), that no event is in two arrays or batches (`Apart`), and
that what is still in one was not stored, but by a write in doubt (`CountedOK`). `StoredOnce` is about the table
only, and needs `Apart`: two flushes that hold one event would both insert it. The end of one insert and the
beginning of the next are one step of the code (`FlushNext`, the loop up to its next `createMany`), which chooses the
user to go on with by the order of the map; so the parts are stated for any map and any set of flushes, and the
lemma `FlushNextCases` divides the step in two. That an array is free for a new user is a matter of
counting: there are as many as users and flushes, and each of these holds at most one (`UnusedArray`).

`ActivityAgentProofs` proves the safety properties of `ActivityAgent` for any finite set of events and any sizes
of a flush and of a chunk (`EventsAssumption`, `SizeAssumption`).

| Theorem | Says |
|---|---|
| `EventsHandledOnce` | the server handles an event once, unless the agent lost sight of a request, was stopped in a replay, or could not rewrite or delete the queue file after one (`HandledOnce`) |
| `DiskIsSafe` | what leaves the queue file unsent was appended during a replay, or the agent was killed while it wrote, or the file could not be read or written (`OnDiskIsSafe`) |
| `MemoryIsSafe` | what is lost from memory is lost when the process ends or the queue cannot be written (`MemoryLostOnlyAtExit`) |

The invariant says that an event the agent has not lost sight of is in one place, memory, flight, disk or a late
request (`OnePlace`), that a chunk is part of what is left of the queue that was read, and that part of the
file (`ReplayInOrder`), that what the agent takes for handled is handled (`AnsweredHandled`), and that what it
means to send is not (`UnsentUnhandled`). A file that stays although its chunks were answered puts them among the `unsure`,
as does a request the agent gives up. `HandledOnce` is not inductive without the last: the queue file keeps the
chunks a replay has sent until the replay is over, and only the replay knows which they are.

`ActivityStatsProofs` proves the three invariants of `ActivityStats` for any set of tasks, any number of events,
hours of any length, any threshold, any resolution of the clock and midnight in India at any time of the server's day
(`ClockAssumption`, `ThresholdAssumption`, `TicksAssumption`, `IndiaAssumption`).

| Theorem | Says |
|---|---|
| `DashboardExact` | the dashboard's idle minutes of an hour are its idle ticks, rounded; their total exceeds the time tracked by the rounding only (`DashboardIdle`) |
| `SummaryBounded` | an hourly row stays within its hour, and within the dashboard when it is about all events of the hour (`SummaryWithinDashboard`) |
| `ShownIsComplete` | a query with the server's day in it shows every event of an hour without late events or failed writes once: of the hours that began on what is today in India when the query holds that day, and else of the hours summed up (`ShownComplete`) |

The invariant is about the job that reads an hour once and writes its rows one by one, while events go on
being stored:

    IInv == TypeOK /\ EventsOK /\ JobsOK /\ RowsOK /\ NoneMissing

Where nothing came late, what the job has read is still what the table has of the hour (`JobsOK`), a row counts
exactly the events of its task (`RowsOK`), and where no write failed either, each event has its row or its task
is still to be written (`NoneMissing`). `ShownComplete` follows for a job that is over: an hour with rows shows what
these count, any other what the dashboard has, and the condition on the dates is what keeps the two from being added
or both left out. It would not be inductive alone.

What remains is arithmetic. The code adds up intervals, the property counts ticks; the bridge is that a sum of
sizes of disjoint sets is the size of their union (`SumOfParts`). Each event owns the ticks from the threshold
after it to the next event (`Part`), these are disjoint, and together they are the idle ticks (`PartsAreIdle`);
cutting them at the hours keeps that (`IdleSum`, `LiveIdleIs`), and the other algorithm, that of the hourly job,
owns a subset of the same ticks (`IdleOfGroupIs`). The sum itself is a fold, that is a recursive function on
sets: `SumsExist` and `SumsAgree` show that there is exactly one function that satisfies the recursion, and
`SumUnfolds` takes one element off. The induction over the set is the lemma `SmallestSet`: of the sets that are
counterexamples one is smallest.

## 8. Properties and proofs of the directory

`DirectoryProofs` proves the four properties of `Directory` for any accounts, rows and codes, any finite number of
requests (`SmallAssumption`), and any mix of topics: `Areas` is a set of sets of topics, one of which a
behaviour is about, so the theorems hold of all topics at a time, which no run can afford (`AreaAssumption`,
and `NullAssumption` for the values that stand for NULL).

| Theorem | Says |
|---|---|
| `RowsNameAccounts` | whoever a row names exists, and no two accounts or teams share a key (`NamesExist`) |
| `LooksSuffice` | what a request looked up still holds when it writes, unless another write overtook it (`ChecksSuffice`) |
| `OneRecordADay` | a second record of a day needs check-ins of one user that overlapped (`OneRecordPerDay`) |
| `SignInsCurrent` | an agent is signed in for an active account, with a device revoked at most since it was read (`SignInCurrent`) |

    IInv == PeopleOK /\ RowsOK /\ DaysOK /\ RequestsOK /\ LookedOK /\ SigningOK /\ OnceOK

The first three are `NamesExist` (`DaysOK` is about the rows that keep an account, attendance and leaves as well as the
projections it created), the next two say of each request what it holds and what it has made sure of at the
step it has come to, `SigningOK` the same for the two reads of a sign-in. `NamesExist` is not inductive: a row
written for an account that was read before names somebody only if the account is still there, or the
foreign key refuses it. The proof gives each write the requests it leaves valid: `NoTakers` (it took no
key), `SameSignIns` (no device or active account changed to a request's harm), `SameDays` (records are
added, not removed), and one lemma for each says that what requests have looked up is then as good as before. A
write that does take a key marks the requests behind it, and those promise nothing. `OnceOK` counts the
records of a day with the check-ins that passed the look, as `Counted` does for sessions.

## 9. Properties and proofs of authentication

`AuthSessionProofs` proves three properties of `AuthSession` for any number of users, of requests served at the
same time, of codes, and any limit of attempts above zero (`AttemptsAssumption`, `AdminsAssumption`,
`NoneAssumption`). None is inductive: each speaks of what is stored, and is broken by what a request has
read before and is about to write.

`EndedSessionsStayEnded`. `EndedInv` adds that no request of an account whose session ended, undisturbed, is
between the comparison of a refresh token and the storing of a new one. `End` puts an account among the
`crossed` when such a request, or the check of a code, is under way at the end; afterwards no new refresh begins,
since `RefreshRead` needs a session. What is left, and ends the promise, is a code that is verified.

`LockoutIsExact`. `CounterInv` says of an account outside `mixed` that it is locked exactly when `wrong`, the wrong
passwords counted independently of the code, is `MaxFailedAttempts`; that the stored count is zero while it is locked and
else `wrong`; and that at most one request is about to write the counter, which has read the count and the lock as they
still are. A login that begins beside another one, and a reset beside a login, put the account into `mixed`; only a reset
with no login beside it takes it out again. So the exclusion is no wider than the race of line 135: an account whose
attempts come one after the other is locked from the last wrong password it allows, not before and not later, until
the lock runs out or is taken away, whatever other accounts do, whichever requests fail half way, and although code
checks, refreshes and password changes of the same account run in between.

`CodesUsedOnce`. `CodesOK` adds where a code can be: stored in one column of one account (`CodesApart`), or in
the hands of a request that has presented it, in which case it is stored at most where that request read it, and
not at all once its tokens are to be stored (`CodesPresented`). A code that no two requests presented at a
time is in the hands of one, and after it was accepted it is in no place from which it could be presented
again (`CodesSpent`). Codes are drawn anew from those in no place, as random ones are but for a coincidence.

All three rest on `WellTyped`: `TypeOK`, and that a request being served is somebody's.

## 10. Fairness

The timers, the projections and the directory state no fairness and no liveness. Everything there happens
because somebody sends a request: nothing in the code obliges an employee to end a session.

`ActivityIngest`: a request and an update that have begun end, with success or failure (a promise settles);
`setInterval` starts a flush again and again whenever a run is free; a call of `createMany` returns or throws;
cache entries grow old with the clock. These are weak. The strong one, `SF(CommitEvent)`, says that a batch
which the database can take is not refused forever when it is tried again and again: without it a database that is down for
good keeps every event in memory. Of a batch with a refused event nothing of the kind is assumed, for it never is stored;
`EventuallyStored` allows it to hold up events of the same user, and no others. `EventuallyStored` and `OffTakesEffect`
rest on these and on nothing about users or administrators.

`ActivityAgent`: the flush timer ticks, a heartbeat on its way arrives or is dropped, what the agent gave up arrives at some
time or is dropped, and the stamp of the last sign of life grows old. Of the agent's own requests nothing is assumed:
`node-fetch` sets no timeout, so one may hang for as long as the agent runs. `FlushedWhileActive` has it as a premise that
this does not happen. Nothing obliges the user to type, the agent to be started or the network to work.

`AuthSession`: a request that is being served comes to an end. That wrong passwords go on is the premise of
`GuessingLocks`, not an assumption.

## 11. What is only model-checked, and what is not modelled

Liveness and `ENABLED` are out of the prover's reach, so `EventuallyStored`, `OffTakesEffect`,
`FlushedWhileActive`, `ShownOffline` and `GuessingLocks` are model-checked only, on the instances of section 4.
All other properties that the runs check and find true are theorems. The run that ends with a counterexample
(`agent_queue`) has no theorem, of course. The library's induction theorems take an operator as
a parameter, which the provers cannot instantiate; the proofs that need induction (the sums of `ActivityStats`)
go by a smallest counterexample instead.

Abstractions that hold for all modules: cryptography, validation of request bodies, who may call an endpoint
(the action of a handler is the handler as its role calls it), texts, logging, mail, the format of answers. Reads that
change nothing are not actions. The database is taken to do each Prisma call atomically and in some order,
with the foreign-key actions of `schema.prisma`.

Not modelled yet, and planned (section 2): the minutes of projection logs and `allocatedMinutes`, projection
handlers call by call, notifications, note history and alerts of tasks.

Not modelled within modelled components: working hours as clock times and the reports over several days
(activity), held keys and renewed sign-in (agent), hashes and signatures (authentication), roles and
assignable flags (users, which no modelled rule reads), availability from the records of an external service
(attendance, parsed and never stored), sums of the reports.

Not to be modelled: documents, mail, the installer, and the maintenance scripts (input and output, or outside
the running system); the status of a leave (any value may be stored at any time); guards, Prisma service and
bootstrap (no state).
