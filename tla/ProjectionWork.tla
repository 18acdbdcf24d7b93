--------------------------- MODULE ProjectionWork ---------------------------
(***************************************************************************)
(* Projections (tasks assigned by an admin with a time budget), their      *)
(* operations, and the time logs that two services write: ProjectionService *)
(* (employee actions and operation timers) and TimeTrackingService (the    *)
(* plain timer of a projection).                                           *)
(*                                                                         *)
(* Each handler is one action: requests do not overlap here.  Dates,       *)
(* minutes, titles, notifications and the action history are left out; a   *)
(* log's breaks are kept in the order they were begun, each as whether it  *)
(* is still open.  sessionEnd is NULL exactly while status is active or    *)
(* paused: every update that sets one sets the other.                      *)
(***************************************************************************)
EXTENDS Naturals, Sequences, Rows

CONSTANTS Employees,
          Projections,   \* ids of projections
          Operations,    \* ids of projection operations
          MaxLogs,       \* bound: time logs ever created
          MaxBreaks,     \* bound: breaks in one log
          AdminStatuses, \* the statuses an admin's edit may set
          NoOperation    \* SQL NULL in TimeLog.operationId

ProjectionStatus ==
  {"PENDING", "ACCEPTED", "IN_PROGRESS", "COMPLETED", "REJECTED", "INCOMPLETE"}

ASSUME OperationAssumption == NoOperation \notin Operations
ASSUME AdminAssumption == AdminStatuses \subseteq ProjectionStatus
ASSUME LogAssumption == MaxLogs \in Nat /\ MaxBreaks \in Nat

VARIABLES projections,   \* Projection rows
          operations,    \* ProjectionOperation rows
          logs,          \* TimeLog rows, each with its Break rows
          lastLog        \* the id of the newest time log (autoincrement)

vars == <<projections, operations, logs, lastLog>>

Projection == [employee : Employees, status : ProjectionStatus]

Operation == [projection : Projections,
              status : {"PENDING", "IN_PROGRESS", "COMPLETED"}]

\* breaks[i] says whether the i-th break begun is still open.
TimeLog == [projection : Projections, operation : Operations \cup {NoOperation},
            employee : Employees, status : {"active", "paused", "completed"},
            breaks : Seq(BOOLEAN)]

TypeOK ==
  /\ DOMAIN projections \subseteq Projections
  /\ projections \in [DOMAIN projections -> Projection]
  /\ DOMAIN operations \subseteq Operations
  /\ operations \in [DOMAIN operations -> Operation]
  /\ lastLog \in 0..MaxLogs
  /\ DOMAIN logs \subseteq 1..lastLog
  /\ logs \in [DOMAIN logs -> TimeLog]

Init ==
  /\ projections = [p \in {} |-> {}]
  /\ operations = [o \in {} |-> {}]
  /\ logs = [l \in {} |-> {}]
  /\ lastLog = 0
-----------------------------------------------------------------------------
(* Queries and updates *)

\* The rows a findFirst without orderBy may return: any one, if there is one.
FindFirst(S) == IF S = {} THEN {{}} ELSE {{x} : x \in S}

WithStatus(table, keys, s) ==
  [k \in DOMAIN table |->
     IF k \in keys THEN [table[k] EXCEPT !.status = s] ELSE table[k]]

IsOpen(r) == r.status \in {"active", "paused"}

OpenLogs(e) == {l \in DOMAIN logs : logs[l].employee = e /\ IsOpen(logs[l])}

OpenLogsOn(e, ps) == {l \in OpenLogs(e) : logs[l].projection \in ps}

\* findFirst, orderBy sessionStart desc: later logs have larger ids.
Latest(ls) == {l \in ls : \A k \in ls : k <= l}

IsAssigned(e, p) == p \in DOMAIN projections /\ projections[p].employee = e

IsActive(p) == projections[p].status \in {"ACCEPTED", "IN_PROGRESS"}

OperationsOf(p) == {o \in DOMAIN operations : operations[o].projection = p}

OwnLog(e, l) == l \in DOMAIN logs /\ logs[l].employee = e
-----------------------------------------------------------------------------
(* Time logs *)

NewLog(e, p, o) ==
  [projection |-> p, operation |-> o, employee |-> e, status |-> "active",
   breaks |-> << >>]

\* table with a new log r in it; the ids are handed out in order.
Create(table, r) ==
  /\ lastLog < MaxLogs
  /\ lastLog' = lastLog + 1
  /\ logs' = Insert(table, lastLog + 1, r)

Pause(r) == [r EXCEPT !.status = "paused", !.breaks = Append(@, TRUE)]

\* The break begun last is ended, if it is still open.
EndLatest(breaks) ==
  IF breaks = << >> THEN breaks ELSE [breaks EXCEPT ![Len(breaks)] = FALSE]

\* Break i is one that a search for an open break may find.
FoundOpen(breaks, i) ==
  \/ i \in DOMAIN breaks /\ breaks[i]
  \/ \A j \in DOMAIN breaks : ~breaks[j]

EndAt(breaks, i) == [j \in DOMAIN breaks |-> breaks[j] /\ j # i]

\* Break i is ended and the log gets status s.
LeaveBreak(r, s, i) == [r EXCEPT !.status = s, !.breaks = EndAt(@, i)]

EndAll(breaks) == [i \in DOMAIN breaks |-> FALSE]

\* Mutant: the break is ended and the log stays paused.
Resume_StaysPaused(r) == [r EXCEPT !.breaks = EndLatest(@)]

Resume(r) == [r EXCEPT !.status = "active", !.breaks = EndLatest(@)]

\* finalizeOpenTimeLogForProjection, for at most one projection: its newest
\* open log is completed and all breaks of that log are ended.
Finalize(e, ps) ==
  [l \in DOMAIN logs |->
     IF l \in Latest(OpenLogsOn(e, ps))
       THEN [logs[l] EXCEPT !.status = "completed", !.breaks = EndAll(@)]
       ELSE logs[l]]

\* Mutant: only running timers are closed, paused ones are forgotten.
CloseOpenTimers_ActiveOnly(e, found) ==
  [l \in DOMAIN logs |->
     IF l \in OpenLogs(e) /\ logs[l].status = "active"
       THEN [logs[l] EXCEPT !.status = "completed"] ELSE logs[l]]

\* closeOpenTimers: every open log of e is completed; of the breaks of each
\* log l, the one found open, found[l], is ended.
CloseOpenTimers(e, found) ==
  [l \in DOMAIN logs |->
     IF l \in OpenLogs(e)
       THEN LeaveBreak(logs[l], "completed", found[l]) ELSE logs[l]]
-----------------------------------------------------------------------------
(* Admins: projections and their operations *)

\* For an active employee; whether the account is active is not modelled.
CreateProjection(e) ==
  /\ \E p \in Projections \ DOMAIN projections :
       projections' = Insert(projections, p, [employee |-> e, status |-> "PENDING"])
  /\ UNCHANGED <<operations, logs, lastLog>>

UpdateProjection(p, s) ==
  /\ p \in DOMAIN projections
  /\ projections[p].status # "COMPLETED"
  /\ projections' = WithStatus(projections, {p}, s)
  /\ UNCHANGED <<operations, logs, lastLog>>

\* Rows go with everything that refers to them (onDelete: Cascade).
DeleteProjections(ps) ==
  /\ projections' = Delete(projections, ps)
  /\ operations' = Delete(operations, UNION {OperationsOf(p) : p \in ps})
  /\ logs' = Delete(logs, {l \in DOMAIN logs : logs[l].projection \in ps})
  /\ UNCHANGED lastLog

CancelProjection(p) ==
  /\ p \in DOMAIN projections
  /\ DeleteProjections({p})

\* UsersService.removeUser, as far as these tables go.  (Time logs belong to
\* the employee of their projection, so the cascade through TimeLog.employee
\* removes no others.)
RemoveUser(e) == DeleteProjections({p \in Projections : IsAssigned(e, p)})

\* One operation (addOperation) or several (bulkAddOperations).
AddOperations(p, os) ==
  /\ p \in DOMAIN projections
  /\ operations' = [o \in DOMAIN operations \cup os |->
                      IF o \in os THEN [projection |-> p, status |-> "PENDING"]
                                   ELSE operations[o]]
  /\ UNCHANGED <<projections, logs, lastLog>>

\* TimeLog.operation is onDelete: SetNull.
DeleteOperation(o) ==
  /\ o \in DOMAIN operations
  /\ operations' = Delete(operations, {o})
  /\ logs' = [l \in DOMAIN logs |->
                IF logs[l].operation = o
                  THEN [logs[l] EXCEPT !.operation = NoOperation]
                  ELSE logs[l]]
  /\ UNCHANGED <<projections, lastLog>>
-----------------------------------------------------------------------------
(* Employees: actions on a projection (handleEmployeeAction) *)

\* One other active projection, if there is one, is put aside first.
Accept(e, p) ==
  /\ IsAssigned(e, p)
  /\ projections[p].status = "PENDING"
  /\ \E qs \in FindFirst({q \in Projections \ {p} : IsAssigned(e, q) /\ IsActive(q)}) :
       /\ logs' = Finalize(e, qs)
       /\ projections' = WithStatus(WithStatus(projections, qs, "INCOMPLETE"),
                                    {p}, "ACCEPTED")
  /\ UNCHANGED <<operations, lastLog>>

\* Mutant: whatever is not finished may still be rejected.
Reject_Late(e, p) ==
  /\ IsAssigned(e, p)
  /\ projections[p].status # "COMPLETED"
  /\ projections' = WithStatus(projections, {p}, "REJECTED")
  /\ UNCHANGED <<operations, logs, lastLog>>

Reject(e, p) ==
  /\ IsAssigned(e, p)
  /\ projections[p].status = "PENDING"
  /\ projections' = WithStatus(projections, {p}, "REJECTED")
  /\ UNCHANGED <<operations, logs, lastLog>>

SwitchProjection(e, p, q) ==
  /\ IsAssigned(e, p)
  /\ IsActive(p)
  /\ q # p
  /\ IsAssigned(e, q)
  /\ projections[q].status \notin {"COMPLETED", "REJECTED"}
  /\ Create(Finalize(e, {p}), NewLog(e, q, NoOperation))
  /\ projections' = WithStatus(WithStatus(projections, {p}, "INCOMPLETE"),
                               {q}, "IN_PROGRESS")
  /\ UNCHANGED operations

CompleteProjection(e, p) ==
  /\ IsAssigned(e, p)
  /\ IsActive(p)
  /\ logs' = Finalize(e, {p})
  /\ projections' = WithStatus(projections, {p}, "COMPLETED")
  /\ UNCHANGED <<operations, lastLog>>

\* One other projection with an open log, whatever its status, is put aside;
\* the newest open log of p goes on, or p gets a new one.
ResumeIncomplete(e, p) ==
  /\ IsAssigned(e, p)
  /\ projections[p].status = "INCOMPLETE"
  /\ \E qs \in FindFirst({logs[l].projection : l \in OpenLogs(e)} \ {p}) :
       /\ projections' = WithStatus(WithStatus(projections, qs, "INCOMPLETE"),
                                    {p}, "IN_PROGRESS")
       /\ IF OpenLogsOn(e, {p}) = {}
            THEN Create(Finalize(e, qs), NewLog(e, p, NoOperation))
            ELSE /\ logs' = [l \in DOMAIN logs |->
                               IF l \in Latest(OpenLogsOn(e, {p})) /\ logs[l].status = "paused"
                                 THEN Resume(logs[l])
                                 ELSE Finalize(e, qs)[l]]
                 /\ UNCHANGED lastLog
  /\ UNCHANGED operations
-----------------------------------------------------------------------------
(* Employees: the plain timer (TimeTrackingService) *)

\* Mutant: only a second timer for the same projection is refused.
StartTimeLog_SameOnly(e, p) ==
  /\ IsAssigned(e, p)
  /\ projections[p].status \in {"PENDING", "ACCEPTED", "IN_PROGRESS", "INCOMPLETE"}
  /\ OpenLogsOn(e, {p}) = {}
  /\ Create(logs, NewLog(e, p, NoOperation))
  /\ projections' = WithStatus(projections, {p}, "IN_PROGRESS")
  /\ UNCHANGED operations

StartTimeLog(e, p) ==
  /\ IsAssigned(e, p)
  /\ projections[p].status \in {"PENDING", "ACCEPTED", "IN_PROGRESS", "INCOMPLETE"}
  /\ OpenLogs(e) = {}
  /\ Create(logs, NewLog(e, p, NoOperation))
  /\ projections' = WithStatus(projections, {p}, "IN_PROGRESS")
  /\ UNCHANGED operations

PauseTimeLog(e, l) ==
  /\ OwnLog(e, l)
  /\ logs[l].status = "active"
  /\ Len(logs[l].breaks) < MaxBreaks
  /\ logs' = [logs EXCEPT ![l] = Pause(@)]
  /\ UNCHANGED <<projections, operations, lastLog>>

ResumeTimeLog(e, l) ==
  /\ OwnLog(e, l)
  /\ logs[l].status = "paused"
  /\ logs' = [logs EXCEPT ![l] = Resume(@)]
  /\ UNCHANGED <<projections, operations, lastLog>>
-----------------------------------------------------------------------------
(* Employees: the operation timers; they take any open log of the employee *)

\* Mutant: an operation that was completed may be started again.
MayBeTimed_Again(o) == IsActive(operations[o].projection)

MayBeTimed(o) ==
  /\ IsActive(operations[o].projection)
  /\ operations[o].status # "COMPLETED"

StartOperationTimer(e, o) ==
  /\ o \in DOMAIN operations
  /\ LET p == operations[o].projection
     IN  /\ IsAssigned(e, p)
         /\ MayBeTimed(o)
         /\ \E found \in [OpenLogs(e) -> 1..MaxBreaks] :
              /\ \A l \in OpenLogs(e) : FoundOpen(logs[l].breaks, found[l])
              /\ Create(CloseOpenTimers(e, found), NewLog(e, p, o))
         /\ operations' = WithStatus(operations, {o}, "IN_PROGRESS")
         /\ projections' = WithStatus(projections, {p}, "IN_PROGRESS")

\* Mutant: it is not checked that the timer is still open.
PauseOperationTimer_Closed(e, l) ==
  /\ OwnLog(e, l)
  /\ Len(logs[l].breaks) < MaxBreaks
  /\ logs' = [logs EXCEPT ![l] = Pause(@)]
  /\ UNCHANGED <<projections, operations, lastLog>>

\* Unlike PauseTimeLog, this also takes a log that is paused already.
PauseOperationTimer(e, l) ==
  /\ l \in OpenLogs(e)
  /\ Len(logs[l].breaks) < MaxBreaks
  /\ logs' = [logs EXCEPT ![l] = Pause(@)]
  /\ UNCHANGED <<projections, operations, lastLog>>

ResumeOperationTimer(e, l) ==
  /\ l \in OpenLogs(e)
  /\ logs[l].status = "paused"
  /\ \E i \in 1..MaxBreaks :
       /\ FoundOpen(logs[l].breaks, i)
       /\ logs' = [logs EXCEPT ![l] = LeaveBreak(@, "active", i)]
  /\ UNCHANGED <<projections, operations, lastLog>>

\* The log is completed before the operation is looked at: for a log without
\* one the update of the operation throws, and the log stays completed.
CompleteOperationTimer(e, l) ==
  /\ l \in OpenLogs(e)
  /\ \E i \in 1..MaxBreaks :
       /\ FoundOpen(logs[l].breaks, i)
       /\ logs' = [logs EXCEPT ![l] = LeaveBreak(@, "completed", i)]
  /\ operations' = WithStatus(operations, {logs[l].operation}, "COMPLETED")
  /\ projections' =
       IF /\ logs[l].operation # NoOperation
          /\ \A o \in OperationsOf(logs[l].projection) : operations'[o].status = "COMPLETED"
         THEN WithStatus(projections, {logs[l].projection}, "COMPLETED")
         ELSE projections
  /\ UNCHANGED lastLog
-----------------------------------------------------------------------------
AdminNext ==
  \/ \E e \in Employees : CreateProjection(e) \/ RemoveUser(e)
  \/ \E p \in Projections, s \in AdminStatuses : UpdateProjection(p, s)
  \/ \E p \in Projections : CancelProjection(p)
  \/ \E p \in Projections :
       \E os \in SUBSET (Operations \ DOMAIN operations) \ {{}} : AddOperations(p, os)
  \/ \E o \in Operations : DeleteOperation(o)

EmployeeNext ==
  \E e \in Employees :
    \/ \E p \in Projections : \/ Accept(e, p) \/ Reject(e, p)
                              \/ CompleteProjection(e, p) \/ ResumeIncomplete(e, p)
                              \/ StartTimeLog(e, p)
    \/ \E p, q \in Projections : SwitchProjection(e, p, q)
    \/ \E o \in Operations : StartOperationTimer(e, o)
    \/ \E l \in 1..MaxLogs : \/ PauseTimeLog(e, l) \/ ResumeTimeLog(e, l)
                            \/ PauseOperationTimer(e, l)
                            \/ ResumeOperationTimer(e, l)
                            \/ CompleteOperationTimer(e, l)

Next == AdminNext \/ EmployeeNext

Spec == Init /\ [][Next]_vars
-----------------------------------------------------------------------------
(* What holds *)

\* A log for an operation belongs to that operation's projection, and a log's
\* employee is the one its projection is assigned to, although the services
\* copy these ids from whatever row they looked up (projection, target
\* projection, operation) and operations and projections may be deleted.
RowsAgree ==
  /\ \A o \in DOMAIN operations : operations[o].projection \in DOMAIN projections
  /\ \A l \in DOMAIN logs :
       /\ logs[l].projection \in DOMAIN projections
       /\ logs[l].employee = projections[logs[l].projection].employee
       /\ logs[l].operation # NoOperation =>
            /\ logs[l].operation \in DOMAIN operations
            /\ logs[l].projection = operations[logs[l].operation].projection

\* A paused log has an open break, and it is the one begun last: whichever
\* of the three resumes ends it, through whichever service it was paused.
PausedInBreak ==
  \A l \in DOMAIN logs :
    logs[l].status = "paused" =>
      logs[l].breaks # << >> /\ logs[l].breaks[Len(logs[l].breaks)]

\* However plain and operation timers are mixed, an employee has at most one
\* open log that is for an operation.
OneOperationTimer ==
  \A e \in Employees : \A k, l \in OpenLogs(e) :
    logs[k].operation # NoOperation /\ logs[l].operation # NoOperation => k = l

\* Time is only ever running on an operation that is in progress: none is
\* completed, or still pending, while a log is open for it.
TimedOperationInProgress ==
  \A l \in DOMAIN logs :
    IsOpen(logs[l]) /\ logs[l].operation # NoOperation =>
      operations[logs[l].operation].status = "IN_PROGRESS"

\* No time is ever logged on a projection that was not taken up: as long as
\* the admin does not set these statuses by hand, a pending or rejected
\* projection has no log, and no operation of it was begun.
UntouchedUntilTaken ==
  \A p \in DOMAIN projections :
    projections[p].status \in {"PENDING", "REJECTED"} =>
      /\ \A l \in DOMAIN logs : logs[l].projection # p
      /\ \A o \in OperationsOf(p) : operations[o].status = "PENDING"

\* A completed log is history: no timer endpoint, switch or completion touches
\* it again; it is only deleted, or loses its operation when that is deleted.
CompletedLogsFrozen ==
  [][\A l \in DOMAIN logs : logs[l].status = "completed" /\ l \in DOMAIN logs' =>
       \/ logs'[l] = logs[l]
       \/ /\ logs'[l] = [logs[l] EXCEPT !.operation = NoOperation]
          /\ logs[l].operation \notin DOMAIN operations']_vars

\* The single-project rule that startTimeLog enforces, one employee at a time.
AtMostOneOpen(e) == \A k, l \in OpenLogs(e) : k = l

\* The rule can only be lost by SWITCH_PROJECTION, which closes the log of the
\* projection switched from and not the one that is running: no other call
\* opens a log on top of the only one an employee has.
OnlySwitchStacksLogs ==
  [][\A e \in Employees :
       AtMostOneOpen(e) /\ ~AtMostOneOpen(e)' =>
         \E p, q \in Projections : SwitchProjection(e, p, q)]_vars

\* The timers of operations keep the promise of OperationDesk.
Desk == INSTANCE OperationDesk WITH
  running <- [e \in Employees |-> {logs[l].operation : l \in OpenLogs(e)} \ {NoOperation}],
  done <- {o \in DOMAIN operations : operations[o].status = "COMPLETED"}

KeepsDesk == Desk!Spec
=============================================================================
