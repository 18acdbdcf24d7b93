----------------------------- MODULE TaskTimer -----------------------------
(***************************************************************************)
(* The task timer of TaskTimeTrackingService, with the operations of       *)
(* TasksService and UsersService that touch the rows it works on.          *)
(*                                                                         *)
(* The two tables are partial functions (see Rows): DOMAIN task and        *)
(* DOMAIN log are the rows that exist.                                     *)
(*                                                                         *)
(* Every handler is one action here, as when requests do not overlap.      *)
(* TaskTimerSteps breaks the same handlers at each database call.          *)
(***************************************************************************)
EXTENDS Integers, Rows, TaskTimerUnits

CONSTANTS Employees,     \* users who are assigned tasks
          Tasks,         \* ids of tasks
          LogIds,        \* ids of time logs (one log is one session)
          MaxTime,       \* bound: the clock stops here
          MaxBreaks,     \* bound: breaks in one session
          TicksPerSecond,     \* 1000 in the code
          SecondsPerMinute,   \* 60 in the code
          Null           \* SQL NULL

ASSUME NullAssumption == Null \notin Employees /\ Null \notin Nat
ASSUME BoundsAssumption == MaxTime \in Nat /\ MaxBreaks \in Nat
ASSUME SecondsAssumption ==
  /\ TicksPerSecond \in Nat \ {0} /\ SecondsPerMinute \in Nat \ {0}
  /\ SecondsPerMinute = 2 * (SecondsPerMinute \div 2)
  /\ TicksPerMinute = TicksPerSecond * SecondsPerMinute

VARIABLES task,          \* Task rows: who is assigned, and personStatus
          log,           \* TaskTimeLog rows, each with its TaskBreak rows
          now            \* the clock, in ticks

vars == <<task, log, now>>

PersonStatus == {"NOT_STARTED", "IN_PROGRESS", "STUCK", "DONE"}

Task == [assignee : Employees \cup {Null}, personStatus : PersonStatus]

(***************************************************************************)
(* The breaks of a session: those still open, numbered in the order they   *)
(* were begun; how many were ever begun; and of the closed ones the sum of *)
(* their duration column, in minutes, and of their true lengths in ticks.  *)
(* (The true lengths are not stored; they are there to state how good the  *)
(* stored minutes are.)                                                    *)
(***************************************************************************)
Break == [no : Nat, start : Nat]

TimeLog == [task : Tasks, employee : Employees,
            status : {"active", "paused", "completed"},
            sessionStart : Nat, sessionEnd : Nat \cup {Null},
            actualDuration : Nat,
            openBreaks : SUBSET Break, breaks : Nat,
            breakMinutes : Nat, breakTicks : Nat]

TypeOK ==
  /\ DOMAIN task \subseteq Tasks
  /\ task \in [DOMAIN task -> Task]
  /\ DOMAIN log \subseteq LogIds
  /\ log \in [DOMAIN log -> TimeLog]
  /\ now \in Nat

Init ==
  /\ task = [t \in {} |-> {}]
  /\ log = [l \in {} |-> {}]
  /\ now = 0
-----------------------------------------------------------------------------
(* Queries *)

IsOpen(r) == r.status \in {"active", "paused"} /\ r.sessionEnd = Null

\* Mutant: only running sessions are looked for, paused ones are forgotten.
OpenSessions_ActiveOnly(e) ==
  {l \in DOMAIN log : log[l].employee = e /\ log[l].status = "active"}

OpenSessions(e) == {l \in DOMAIN log : log[l].employee = e /\ IsOpen(log[l])}

LogsOfTask(t) == {l \in DOMAIN log : log[l].task = t}

LogsOfEmployee(e) == {l \in DOMAIN log : log[l].employee = e}
-----------------------------------------------------------------------------
(* Time logs *)

NewLog(e, t) ==
  [task |-> t, employee |-> e, status |-> "active", sessionStart |-> now,
   sessionEnd |-> Null, actualDuration |-> 0, openBreaks |-> {},
   breaks |-> 0, breakMinutes |-> 0, breakTicks |-> 0]

BeginBreak(r) ==
  [r EXCEPT !.openBreaks = @ \cup {[no |-> r.breaks + 1, start |-> now]},
            !.breaks = @ + 1]

CloseBreak(r, b) ==
  [r EXCEPT !.openBreaks = @ \ {b},
            !.breakMinutes = @ + RoundMinutes(now - b.start),
            !.breakTicks = @ + (now - b.start)]

\* The break that orderBy startTime desc, take 1 finds, when it is still open.
LatestIfOpen(r) == {b \in r.openBreaks : b.no = r.breaks}

\* What is left of r when one of the breaks B, if there is any, is closed.
CloseOneOf(r, B) == IF B = {} THEN {r} ELSE {CloseBreak(r, b) : b \in B}

\* Mutant: the breaks are not subtracted.
Complete_Gross(r) ==
  [r EXCEPT !.sessionEnd = now, !.status = "completed",
            !.actualDuration = AtLeastZero(RoundMinutes(now - r.sessionStart))]

Complete(r) ==
  [r EXCEPT !.sessionEnd = now, !.status = "completed",
            !.actualDuration =
                AtLeastZero(RoundMinutes(now - r.sessionStart) - r.breakMinutes)]
-----------------------------------------------------------------------------
(* What is shown of a session while it lasts, and after *)

EndOrNow(r) == IF r.sessionEnd = Null THEN now ELSE r.sessionEnd

\* Math.round(d / 1000)
RoundSeconds(d) == (2 * d + TicksPerSecond) \div (2 * TicksPerSecond)

\* The length of the session in whole seconds, less the stored minutes of the
\* closed breaks.  An open break counts as work until it is closed.
ElapsedSeconds(r) ==
  AtLeastZero(RoundSeconds(EndOrNow(r) - r.sessionStart) - SecondsPerMinute * r.breakMinutes)

\* Mutant: a session is summed up as if it still ran.
ReportedMinutes_Running(r) ==
  AtLeastZero(RoundMinutes(now - r.sessionStart) - r.breakMinutes)

\* The minutes of a session in the administrator's report.
ReportedMinutes(r) ==
  IF r.status = "completed" THEN r.actualDuration
    ELSE AtLeastZero(RoundMinutes(now - r.sessionStart) - r.breakMinutes)
-----------------------------------------------------------------------------
(* The timer endpoints *)

\* Mutant: whether a session is open already is not looked up.
StartTimer_Unchecked(e, t) ==
  /\ t \in DOMAIN task /\ task[t].assignee = e /\ task[t].personStatus # "DONE"
  /\ \E l \in LogIds \ DOMAIN log : log' = Insert(log, l, NewLog(e, t))
  /\ task' = [task EXCEPT ![t].personStatus = "IN_PROGRESS"]
  /\ UNCHANGED now

\* An employee starts the timer of a task assigned to them.
StartTimer(e, t) ==
  /\ t \in DOMAIN task
  /\ task[t].assignee = e
  /\ task[t].personStatus # "DONE"
  /\ OpenSessions(e) = {}
  /\ \E l \in LogIds \ DOMAIN log : log' = Insert(log, l, NewLog(e, t))
  /\ task' = IF task[t].personStatus = "NOT_STARTED"
               THEN [task EXCEPT ![t].personStatus = "IN_PROGRESS"]
               ELSE task
  /\ UNCHANGED now

\* The remaining endpoints name a time log of the caller's own.
PauseTimer(e, l) ==
  /\ l \in LogsOfEmployee(e)
  /\ log[l].status = "active"
  /\ log[l].breaks < MaxBreaks
  /\ log' = [log EXCEPT ![l] = [BeginBreak(@) EXCEPT !.status = "paused"]]
  /\ UNCHANGED <<task, now>>

ResumeTimer(e, l) ==
  /\ l \in LogsOfEmployee(e)
  /\ log[l].status = "paused"
  /\ \E r \in CloseOneOf(log[l], LatestIfOpen(log[l])) :
        log' = [log EXCEPT ![l] = [r EXCEPT !.status = "active"]]
  /\ UNCHANGED <<task, now>>

\* Mutants: the open break is not closed first; a completed session is not
\* refused.
SwitchTimer_BreakLeftOpen(e, l) ==
  /\ l \in LogsOfEmployee(e)
  /\ log[l].status # "completed"
  /\ log' = [log EXCEPT ![l] = Complete(@)]
  /\ UNCHANGED <<task, now>>

SwitchTimer_Unguarded(e, l) ==
  /\ l \in LogsOfEmployee(e)
  /\ \E r \in CloseOneOf(log[l], log[l].openBreaks) :
        log' = [log EXCEPT ![l] = Complete(r)]
  /\ UNCHANGED <<task, now>>

\* Leaving a session for another task: the session is closed for good.
SwitchTimer(e, l) ==
  /\ l \in LogsOfEmployee(e)
  /\ log[l].status # "completed"
  /\ \E r \in CloseOneOf(log[l], log[l].openBreaks) :
        log' = [log EXCEPT ![l] = Complete(r)]
  /\ UNCHANGED <<task, now>>
-----------------------------------------------------------------------------
(* Task and user administration, as far as it touches these tables *)

CreateTask(t, e) ==
  /\ t \in Tasks \ DOMAIN task
  /\ task' = Insert(task, t, [assignee |-> e, personStatus |-> "NOT_STARTED"])
  /\ UNCHANGED <<log, now>>

\* Any status may be set from any other; open sessions are left alone.
UpdateTask(t, s) ==
  /\ t \in DOMAIN task
  /\ task' = [task EXCEPT ![t].personStatus = s]
  /\ UNCHANGED <<log, now>>

\* The time logs of a task go with it.
RemoveTask(t) ==
  /\ t \in DOMAIN task
  /\ task' = Delete(task, {t})
  /\ log' = Delete(log, LogsOfTask(t))
  /\ UNCHANGED now

\* A user is removed: first every task they are assigned to or have allotted
\* loses both its assignee and its allotter, then the user row is deleted,
\* and their time logs with it.  Other tables may still refer to the user, in
\* which case the delete is refused and only the first step has happened.
RemoveUser(e) ==
  /\ \E allotted \in SUBSET DOMAIN task :
        task' = [t \in DOMAIN task |->
                   IF task[t].assignee = e \/ t \in allotted
                     THEN [task[t] EXCEPT !.assignee = Null] ELSE task[t]]
  /\ log' \in {log, Delete(log, LogsOfEmployee(e))}
  /\ UNCHANGED now

Tick ==
  /\ now < MaxTime
  /\ now' = now + 1
  /\ UNCHANGED <<task, log>>

Next ==
  \/ \E e \in Employees, t \in Tasks : StartTimer(e, t) \/ CreateTask(t, e)
  \/ \E e \in Employees, l \in LogIds :
        PauseTimer(e, l) \/ ResumeTimer(e, l) \/ SwitchTimer(e, l)
  \/ \E t \in Tasks, s \in PersonStatus : UpdateTask(t, s)
  \/ \E t \in Tasks : RemoveTask(t)
  \/ \E e \in Employees : RemoveUser(e)
  \/ Tick

Spec == Init /\ [][Next]_vars
-----------------------------------------------------------------------------
(* Properties *)

\* "Enforce one active session at a time across all tasks": two sessions of
\* one employee never overlap in time, so in particular at most one is open.
Precedes(r, s) == r.sessionEnd # Null /\ r.sessionEnd <= s.sessionStart

SessionsDisjoint ==
  \A k, l \in DOMAIN log :
     k # l /\ log[k].employee = log[l].employee =>
        Precedes(log[k], log[l]) \/ Precedes(log[l], log[k])

\* A session that runs has no break open, a paused one has exactly one and
\* it is its latest, a completed one has none and has ended.  (Nothing in
\* the handlers relates status, sessionEnd and the break rows but the order
\* of their guards.)
BreakDiscipline ==
  \A l \in DOMAIN log :
     /\ log[l].status = "active" => log[l].openBreaks = {}
     /\ log[l].status = "paused" =>
          \E b \in log[l].openBreaks : log[l].openBreaks = {b} /\ b.no = log[l].breaks
     /\ log[l].status = "completed" <=> log[l].sessionEnd # Null
     /\ log[l].status = "completed" => log[l].openBreaks = {}

\* The minutes credited to a finished session differ from the time really
\* worked (the session less its breaks) by at most half a minute for the
\* session and half a minute for each break: rounding the session and every
\* break on their own, and clamping at zero, loses no more than that.
Worked(r) == (r.sessionEnd - r.sessionStart) - r.breakTicks

CreditAccurate ==
  \A l \in DOMAIN log :
     log[l].status = "completed" =>
       /\ Worked(log[l]) >= 0
       /\ 2 * (TicksPerMinute * log[l].actualDuration - Worked(log[l]))
            <= TicksPerMinute * (log[l].breaks + 1)
       /\ 2 * (Worked(log[l]) - TicksPerMinute * log[l].actualDuration)
            <= TicksPerMinute * (log[l].breaks + 1)

\* What CreditAccurate rests on while a session is still open.  Sessions lie
\* in the past, breaks lie inside their session and one after another ...
SessionTimes ==
  \A l \in DOMAIN log : LET r == log[l] IN
     /\ r.sessionStart + r.breakTicks <= now
     /\ \A b \in r.openBreaks : r.sessionStart + r.breakTicks <= b.start /\ b.start <= now
     /\ r.sessionEnd # Null => /\ r.sessionEnd <= now
                              /\ r.sessionStart + r.breakTicks <= r.sessionEnd

\* ... and the minutes stored for the closed breaks are off by at most half a
\* minute for each of them.
ClosedBreaks(r) == IF r.status = "paused" THEN r.breaks - 1 ELSE r.breaks

BreakRounding ==
  \A l \in DOMAIN log : LET r == log[l] IN
     /\ ClosedBreaks(r) >= 0
     /\ 2 * (TicksPerMinute * r.breakMinutes - r.breakTicks)
           <= TicksPerMinute * ClosedBreaks(r)
     /\ 2 * (r.breakTicks - TicksPerMinute * r.breakMinutes)
           <= TicksPerMinute * ClosedBreaks(r)

AccountingInv == SessionTimes /\ BreakRounding

\* The seconds employees see of a session and the minutes the report says of it
\* agree to half a minute although both are rounded, before and after the
\* session is completed; and the seconds are off from the time worked by at
\* most half a minute for each closed break and half a second, if a break that
\* is still open counts as work (as it does in the code).
ShownAccurate ==
  \A l \in DOMAIN log :
     LET r == log[l]
         worked == (EndOrNow(r) - r.sessionStart) - r.breakTicks
         shown == TicksPerSecond * ElapsedSeconds(r)
         reported == TicksPerMinute * ReportedMinutes(r)
     IN  /\ 2 * (shown - worked) <= TicksPerMinute * ClosedBreaks(r) + TicksPerSecond
         /\ 2 * (worked - shown) <= TicksPerMinute * ClosedBreaks(r) + TicksPerSecond
         /\ 2 * (reported - shown) <= TicksPerMinute
         /\ 2 * (shown - reported) <= TicksPerMinute

\* A finished session is a record for the reports: while it exists no
\* operation changes it.
ClosedFrozen ==
  [][\A l \in DOMAIN log \cap DOMAIN log' :
        log[l].status = "completed" => log'[l] = log[l]]_vars

-----------------------------------------------------------------------------
(* Task timers keep the promise of WorkSession. *)

\* Somebody with two open sessions would be doing nothing WorkSession knows of.
at == [e \in Employees |->
         IF OpenSessions(e) = {} THEN [item |-> Null, mode |-> "idle"]
         ELSE IF \A k, l \in OpenSessions(e) : k = l
         THEN LET l == CHOOSE l \in OpenSessions(e) : TRUE
              IN  [item |-> log[l].task, mode |-> log[l].status]
         ELSE [item |-> Null, mode |-> "two sessions"]]

Promise == INSTANCE WorkSession WITH People <- Employees, Items <- Tasks, NoItem <- Null

\* Seen from outside, every step of the timer begins, pauses, resumes or ends
\* one session of an idle or working person, or changes nothing.
KeepsPromise == Promise!SessionSpec
=============================================================================
