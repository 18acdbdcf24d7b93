--------------------------- MODULE TaskTimerSteps ---------------------------
(***************************************************************************)
(* The handlers of TaskTimer as the server runs them: each is a sequence   *)
(* of awaited database calls with no transaction around them, and other    *)
(* requests run in between.  A request that is being served is a record in *)
(* req: where it stands, whose it is, and what it has read.  It appears    *)
(* with its first read and disappears with its answer.                     *)
(*                                                                         *)
(* The clock stands still: nothing said here depends on a duration, and so *)
(* the read that only sums up the closed breaks is not a step.             *)
(***************************************************************************)
EXTENDS TaskTimer, FiniteSets

CONSTANTS Requests,      \* bound: requests served at the same time
          Overlap,       \* which requests may overlap: "none", those of
                         \* different "people" (everyone waits for an answer
                         \* before asking again), or "any"
          Failures       \* may a database call fail, ending its request?

ASSUME RequestsAssumption == IsFiniteSet(Requests)
ASSUME OverlapAssumption == Overlap \in {"none", "people", "any"}
ASSUME FailuresAssumption == Failures \in BOOLEAN
ASSUME NoBreakAssumption == Null \notin Break    \* NULL is not a row

VARIABLE req

stepVars == <<task, log, now, req>>

Free == [pc |-> "free", emp |-> Null, task |-> Null, log |-> Null,
         brk |-> Null, wasNotStarted |-> FALSE]

PC == {"free", "start.find", "start.create", "start.status",
       "pause.break", "pause.status", "resume.break", "resume.status",
       "switch.find", "switch.break", "switch.close"}

StepsTypeOK ==
  /\ TypeOK
  /\ req \in [Requests -> [pc : PC, emp : Employees \cup {Null},
                           task : Tasks \cup {Null}, log : LogIds \cup {Null},
                           brk : Break \cup {Null}, wasNotStarted : BOOLEAN]]

StepsInit == Init /\ req = [r \in Requests |-> Free]

Busy == {r \in Requests : req[r].pc # "free"}

MayArrive(r, e) ==
  /\ r \notin Busy
  /\ Overlap = "none" => Busy = {}
  /\ Overlap = "people" => \A q \in Busy : req[q].emp # e

Answer(r) == req' = [req EXCEPT ![r] = Free]

Continue(r, pc) == req' = [req EXCEPT ![r].pc = pc]

\* Update of the row of r's own time log; Prisma throws when it is gone.
UpdateLog(r, row) ==
  /\ req[r].log \in DOMAIN log
  /\ log' = [log EXCEPT ![req[r].log] = row]

LogIsGone(r) == req[r].log \notin DOMAIN log /\ Answer(r) /\ UNCHANGED log

\* Closing a break that somebody else has closed writes its row again.
CloseIfOpen(row, b) == IF b \in row.openBreaks THEN CloseBreak(row, b) ELSE row
-----------------------------------------------------------------------------
(* startTimer: read the task, look for an open session, create the time    *)
(* log, and, if the task was not started when it was read, update it.      *)

\* Mutant: the task is moved whatever its status was, unless it is already in
\* progress.
StartRead_MovesAny(r, e, t) ==
  /\ MayArrive(r, e)
  /\ t \in DOMAIN task
  /\ task[t].assignee = e
  /\ task[t].personStatus # "DONE"
  /\ req' = [req EXCEPT ![r] =
       [Free EXCEPT !.pc = "start.find", !.emp = e, !.task = t,
                    !.wasNotStarted = task[t].personStatus # "IN_PROGRESS"]]
  /\ UNCHANGED <<task, log, now>>

StartRead(r, e, t) ==
  /\ MayArrive(r, e)
  /\ t \in DOMAIN task
  /\ task[t].assignee = e
  /\ task[t].personStatus # "DONE"
  /\ req' = [req EXCEPT ![r] =
       [Free EXCEPT !.pc = "start.find", !.emp = e, !.task = t,
                    !.wasNotStarted = task[t].personStatus = "NOT_STARTED"]]
  /\ UNCHANGED <<task, log, now>>

\* Mutant: what findFirst returns is ignored.
StartFind_NotChecked(r) ==
  /\ req[r].pc = "start.find"
  /\ Continue(r, "start.create")
  /\ UNCHANGED <<task, log, now>>

StartFind(r) ==
  /\ req[r].pc = "start.find"
  /\ IF OpenSessions(req[r].emp) = {} THEN Continue(r, "start.create") ELSE Answer(r)
  /\ UNCHANGED <<task, log, now>>

\* Ids are not given to a new row while a request still holds them.
FreshLogIds == LogIds \ (DOMAIN log \cup {req[r].log : r \in Requests})

StartCreate(r) ==
  /\ req[r].pc = "start.create"
  /\ \/ \E l \in FreshLogIds :
          /\ req[r].task \in DOMAIN task
          /\ log' = Insert(log, l, NewLog(req[r].emp, req[r].task))
          /\ IF req[r].wasNotStarted
               THEN req' = [req EXCEPT ![r].pc = "start.status", ![r].log = l]
               ELSE Answer(r)
     \/ /\ req[r].task \notin DOMAIN task \/ FreshLogIds = {}
        /\ Answer(r)
        /\ UNCHANGED log
  /\ UNCHANGED <<task, now>>

StartStatus(r) ==
  /\ req[r].pc = "start.status"
  /\ task' = IF req[r].task \in DOMAIN task
               THEN [task EXCEPT ![req[r].task].personStatus = "IN_PROGRESS"] ELSE task
  /\ Answer(r)
  /\ UNCHANGED <<log, now>>
-----------------------------------------------------------------------------
(* pauseTimer: read the time log, create a break, update the status.       *)

PauseRead(r, e, l) ==
  /\ MayArrive(r, e)
  /\ l \in LogsOfEmployee(e)
  /\ log[l].status = "active"
  /\ log[l].breaks < MaxBreaks
  /\ req' = [req EXCEPT ![r] = [Free EXCEPT !.pc = "pause.break", !.emp = e, !.log = l]]
  /\ UNCHANGED <<task, log, now>>

PauseBreak(r) ==
  /\ req[r].pc = "pause.break"
  /\ \/ UpdateLog(r, BeginBreak(log[req[r].log])) /\ Continue(r, "pause.status")
     \/ LogIsGone(r)
  /\ UNCHANGED <<task, now>>

PauseStatus(r) ==
  /\ req[r].pc = "pause.status"
  /\ \/ UpdateLog(r, [log[req[r].log] EXCEPT !.status = "paused"]) /\ Answer(r)
     \/ LogIsGone(r)
  /\ UNCHANGED <<task, now>>
-----------------------------------------------------------------------------
(* resumeTimer: read the time log with its latest break, close the break   *)
(* if it was open, update the status.                                      *)

ResumeRead(r, e, l) ==
  /\ MayArrive(r, e)
  /\ l \in LogsOfEmployee(e)
  /\ log[l].status = "paused"
  /\ \/ \E b \in LatestIfOpen(log[l]) :
          req' = [req EXCEPT ![r] = [Free EXCEPT !.pc = "resume.break", !.emp = e,
                                                 !.log = l, !.brk = b]]
     \/ /\ LatestIfOpen(log[l]) = {}
        /\ req' = [req EXCEPT ![r] = [Free EXCEPT !.pc = "resume.status", !.emp = e,
                                                  !.log = l]]
  /\ UNCHANGED <<task, log, now>>

ResumeBreak(r) ==
  /\ req[r].pc = "resume.break"
  /\ \/ /\ UpdateLog(r, CloseIfOpen(log[req[r].log], req[r].brk))
        /\ Continue(r, "resume.status")
     \/ LogIsGone(r)
  /\ UNCHANGED <<task, now>>

\* Mutant: the update writes back the whole row as it was read, not only the
\* status; the row of a paused session has no end.
ResumeStatus_WholeRow(r) ==
  /\ req[r].pc = "resume.status"
  /\ \/ /\ UpdateLog(r, [log[req[r].log] EXCEPT !.status = "active", !.sessionEnd = Null])
        /\ Answer(r)
     \/ LogIsGone(r)
  /\ UNCHANGED <<task, now>>

ResumeStatus(r) ==
  /\ req[r].pc = "resume.status"
  /\ \/ UpdateLog(r, [log[req[r].log] EXCEPT !.status = "active"]) /\ Answer(r)
     \/ LogIsGone(r)
  /\ UNCHANGED <<task, now>>
-----------------------------------------------------------------------------
(* switchTimer: read the time log, look for one open break, close it,      *)
(* complete the log.                                                       *)

SwitchRead(r, e, l) ==
  /\ MayArrive(r, e)
  /\ l \in LogsOfEmployee(e)
  /\ log[l].status # "completed"
  /\ req' = [req EXCEPT ![r] = [Free EXCEPT !.pc = "switch.find", !.emp = e, !.log = l]]
  /\ UNCHANGED <<task, log, now>>

\* Mutant: the open break is not looked for.
SwitchFind_Skipped(r) ==
  /\ req[r].pc = "switch.find"
  /\ Continue(r, "switch.close")
  /\ UNCHANGED <<task, log, now>>

SwitchFind(r) ==
  /\ req[r].pc = "switch.find"
  /\ \/ /\ req[r].log \in DOMAIN log
        /\ \E b \in log[req[r].log].openBreaks :
             req' = [req EXCEPT ![r].pc = "switch.break", ![r].brk = b]
     \/ /\ req[r].log \in DOMAIN log => log[req[r].log].openBreaks = {}
        /\ Continue(r, "switch.close")
  /\ UNCHANGED <<task, log, now>>

SwitchBreak(r) ==
  /\ req[r].pc = "switch.break"
  /\ \/ /\ UpdateLog(r, CloseIfOpen(log[req[r].log], req[r].brk))
        /\ Continue(r, "switch.close")
     \/ LogIsGone(r)
  /\ UNCHANGED <<task, now>>

SwitchClose(r) ==
  /\ req[r].pc = "switch.close"
  /\ \/ UpdateLog(r, Complete(log[req[r].log])) /\ Answer(r)
     \/ LogIsGone(r)
  /\ UNCHANGED <<task, now>>
-----------------------------------------------------------------------------
(* A database call fails: the request is answered with an error and what   *)
(* it has already written stays.  A restart of the server fails them all.  *)

Fail(r) ==
  /\ Failures
  /\ r \in Busy
  /\ Answer(r)
  /\ UNCHANGED <<task, log, now>>

-----------------------------------------------------------------------------
(* Administration.  The handlers of tasks and the first call of removeUser *)
(* make one call that changes the tables seen here, so each is one step.   *)

AdministerTasks ==
  /\ \/ \E t \in Tasks \ {req[r].task : r \in Requests}, e \in Employees : CreateTask(t, e)
     \/ \E t \in Tasks, s \in PersonStatus : UpdateTask(t, s)
     \/ \E t \in Tasks : RemoveTask(t)
     \/ \E e \in Employees : RemoveUser(e) /\ UNCHANGED log
  /\ UNCHANGED req

\* The last call of removeUser deletes the row of the user, under requests of
\* the user's own perhaps.  Their time logs go with it, and tasks assigned since
\* the first call lose their assignee.  Whoever is about to open a session has
\* nobody to open it for: the insert will be refused.
DeleteAccount(e) ==
  /\ task' = [t \in DOMAIN task |-> [task[t] EXCEPT !.assignee = IF @ = e THEN Null ELSE @]]
  /\ log' = Delete(log, LogsOfEmployee(e))
  /\ req' = [r \in Requests |->
               IF req[r].emp = e /\ req[r].pc \in {"start.find", "start.create"}
                 THEN Free ELSE req[r]]
  /\ UNCHANGED now

Administer ==
  /\ Overlap = "none" => Busy = {}
  /\ AdministerTasks \/ \E e \in Employees : DeleteAccount(e)

Arrive ==
  \E r \in Requests, e \in Employees :
     \/ \E t \in Tasks : StartRead(r, e, t)
     \/ \E l \in LogIds : PauseRead(r, e, l) \/ ResumeRead(r, e, l) \/ SwitchRead(r, e, l)

Serve(r) ==
  \/ StartFind(r) \/ StartCreate(r) \/ StartStatus(r)
  \/ PauseBreak(r) \/ PauseStatus(r)
  \/ ResumeBreak(r) \/ ResumeStatus(r)
  \/ SwitchFind(r) \/ SwitchBreak(r) \/ SwitchClose(r)

StepsNext ==
  \/ Arrive
  \/ \E r \in Requests : Serve(r) \/ Fail(r)
  \/ Administer

StepsSpec == StepsInit /\ [][StepsNext]_stepVars
-----------------------------------------------------------------------------
(* Properties *)

\* "Enforce one active session at a time across all tasks."
OneOpenSession == \A e \in Employees : Cardinality(OpenSessions(e)) <= 1

\* A session on which no request of its employee is at work is running with
\* no break open, or paused with its latest break open and no other, or
\* completed with none; an administrator's request may be at work at any time.
SettledDiscipline ==
  StepsTypeOK /\ \A l \in DOMAIN log :
     (\A r \in Busy : req[r].emp # log[l].employee) =>
        LET open == log[l].openBreaks IN
        /\ log[l].status = "paused" =>
             \E b \in open : open = {b} /\ b.no = log[l].breaks
        /\ log[l].status # "paused" => open = {}
        /\ log[l].status = "completed" <=> log[l].sessionEnd # Null

\* However requests overlap and fail, the check before the insert bounds the
\* damage: an employee has never more sessions open than requests were being
\* served at once, counting those that have passed the check and not inserted.
PassedCheck(e) == {r \in Busy : req[r].pc = "start.create" /\ req[r].emp = e}

RaceIsBounded ==
  \A e \in Employees :
     Cardinality(OpenSessions(e)) + Cardinality(PassedCheck(e)) <= Cardinality(Requests)

\* A session that has ended stays ended: a request that read it before its end
\* may still change its status, but it never counts as open again.
EndedStaysEnded ==
  [][\A l \in DOMAIN log \cap DOMAIN log' :
        log[l].sessionEnd # Null => log'[l].sessionEnd # Null]_stepVars

-----------------------------------------------------------------------------
(* When requests do not overlap and do not fail, these steps implement     *)
(* TaskTimer.  A request takes effect with its last write: until then what *)
(* it has already written is undone in the refinement mapping.             *)

Undone(r) ==
  LET l == req[r].log IN
  CASE req[r].pc = "start.status" -> Delete(log, {l})
    [] req[r].pc = "pause.status" ->
         [log EXCEPT ![l].breaks = @ - 1,
                     ![l].openBreaks = {b \in @ : b.no # log[l].breaks}]
    [] req[r].pc \in {"resume.status", "switch.close"} /\ req[r].brk # Null ->
         [log EXCEPT ![l].openBreaks = @ \cup {req[r].brk}]
    [] OTHER -> log

SettledLog == IF Busy = {} THEN log ELSE Undone(CHOOSE r \in Busy : TRUE)

Atomic == INSTANCE TaskTimer WITH log <- SettledLog

\* Served one after the other, the requests do to the tables what the actions
\* of TaskTimer do in one step.
ImplementsTaskTimer == Atomic!Spec
=============================================================================
