------------------------ MODULE ProjectionWorkProofs ------------------------
(***************************************************************************)
(* Theorems about ProjectionWork, for every set of employees, projections  *)
(* and operations, every bound, and every set of statuses an admin may set *)
(* (but for UntouchedUntilTaken).                                          *)
(***************************************************************************)
EXTENDS ProjectionWork, SequenceTheorems, TLAPS

-----------------------------------------------------------------------------
(* One time log *)

InBreak(r) ==
  r.status = "paused" => r.breaks # << >> /\ r.breaks[Len(r.breaks)]

\* What the services may do to a log that exists: it stays what it is a log
\* of, it is not opened again, once completed it is left alone, and when it is
\* paused it is in a break.
LogStep(r, s) ==
  /\ s \in TimeLog
  /\ s.projection = r.projection
  /\ s.operation = r.operation
  /\ s.employee = r.employee
  /\ IsOpen(s) => IsOpen(r)
  /\ r.status = "completed" => s = r
  /\ InBreak(r) => InBreak(s)

\* Ending breaks and beginning one leaves a sequence of booleans, in which a
\* break just begun is the last one and open.
LEMMA BreaksTyped ==
  ASSUME NEW b \in Seq(BOOLEAN)
  PROVE  /\ EndLatest(b) \in Seq(BOOLEAN)
         /\ EndAll(b) \in Seq(BOOLEAN)
         /\ \A i : EndAt(b, i) \in Seq(BOOLEAN)
         /\ Append(b, TRUE) \in Seq(BOOLEAN)
         /\ Append(b, TRUE) # << >>
         /\ Append(b, TRUE)[Len(Append(b, TRUE))]
<1>1. Len(b) \in Nat /\ DOMAIN b = 1..Len(b) /\ b \in [1..Len(b) -> BOOLEAN]
  BY LenProperties
<1>2. ASSUME NEW f \in [1..Len(b) -> BOOLEAN]
      PROVE  f \in Seq(BOOLEAN)
  BY <1>1
<1>3. EndLatest(b) \in Seq(BOOLEAN)
  BY <1>1, <1>2 DEF EndLatest
<1>4. EndAll(b) \in Seq(BOOLEAN)
  BY <1>1, <1>2 DEF EndAll
<1>5. ASSUME NEW i PROVE EndAt(b, i) \in Seq(BOOLEAN)
  BY <1>1, <1>2 DEF EndAt
<1>6. Append(b, TRUE) \in Seq(BOOLEAN) /\ Len(Append(b, TRUE)) = Len(b) + 1
      /\ Append(b, TRUE)[Len(b) + 1] = TRUE
  BY AppendProperties
<1>7. Append(b, TRUE) # << >>
  BY AppendProperties
<1> QED BY <1>3, <1>4, <1>5, <1>6, <1>7

\* A log left alone.
LEMMA SameLog ==
  ASSUME NEW r \in TimeLog
  PROVE  LogStep(r, r)
BY DEF LogStep

\* An open log is given another status and other breaks: paused only within a
\* break.
LEMMA OpenLogStep ==
  ASSUME NEW r \in TimeLog, IsOpen(r), NEW s \in {"active", "paused", "completed"},
         NEW b \in Seq(BOOLEAN), s = "paused" => b # << >> /\ b[Len(b)]
  PROVE  LET q == [r EXCEPT !.status = s, !.breaks = b]
         IN  LogStep(r, q) /\ q.status = s
<1> DEFINE q == [r EXCEPT !.status = s, !.breaks = b]
<1>1. q \in TimeLog
  BY DEF TimeLog
<1>2. /\ q.projection = r.projection /\ q.operation = r.operation
      /\ q.employee = r.employee /\ q.status = s /\ q.breaks = b
  BY DEF TimeLog
<1> HIDE DEF q
<1>3. LogStep(r, q) /\ q.status = s
  BY <1>1, <1>2 DEF LogStep, InBreak, IsOpen
<1> QED BY <1>3 DEF q

\* pauseTimeLog and pauseOperationTimer; the three ways to resume or close.
LEMMA LogEndpoints ==
  ASSUME NEW r \in TimeLog, IsOpen(r)
  PROVE  /\ LogStep(r, Pause(r))
         /\ LogStep(r, Resume(r))
         /\ \A i : /\ LogStep(r, LeaveBreak(r, "active", i))
                   /\ LogStep(r, LeaveBreak(r, "completed", i))
                   /\ LeaveBreak(r, "completed", i).status = "completed"
         /\ LET q == [r EXCEPT !.status = "completed", !.breaks = EndAll(@)]
            IN  LogStep(r, q) /\ q.status = "completed"
<1>1. r.breaks \in Seq(BOOLEAN)
  BY DEF TimeLog
<1>2. LogStep(r, Pause(r))
  <2> DEFINE b == Append(r.breaks, TRUE)
  <2>1. b \in Seq(BOOLEAN) /\ b # << >> /\ b[Len(b)]
    BY <1>1, BreaksTyped
  <2> HIDE DEF b
  <2>2. LogStep(r, [r EXCEPT !.status = "paused", !.breaks = b])
    BY <2>1, OpenLogStep
  <2> QED BY <2>2 DEF Pause, b
<1>3. LogStep(r, Resume(r))
  <2> DEFINE b == EndLatest(r.breaks)
  <2>1. b \in Seq(BOOLEAN)
    BY <1>1, BreaksTyped
  <2> HIDE DEF b
  <2>2. LogStep(r, [r EXCEPT !.status = "active", !.breaks = b])
    BY <2>1, OpenLogStep
  <2> QED BY <2>2 DEF Resume, b
<1>4. ASSUME NEW i
      PROVE  /\ LogStep(r, LeaveBreak(r, "active", i))
             /\ LogStep(r, LeaveBreak(r, "completed", i))
             /\ LeaveBreak(r, "completed", i).status = "completed"
  <2> DEFINE b == EndAt(r.breaks, i)
  <2>1. b \in Seq(BOOLEAN)
    BY <1>1, BreaksTyped
  <2> HIDE DEF b
  <2>2. LogStep(r, [r EXCEPT !.status = "active", !.breaks = b])
    BY <2>1, OpenLogStep
  <2>3. LET q == [r EXCEPT !.status = "completed", !.breaks = b]
        IN  LogStep(r, q) /\ q.status = "completed"
    BY <2>1, OpenLogStep
  <2> QED BY <2>2, <2>3 DEF b, LeaveBreak
<1>5. LET q == [r EXCEPT !.status = "completed", !.breaks = EndAll(@)]
      IN  LogStep(r, q) /\ q.status = "completed"
  <2> DEFINE b == EndAll(r.breaks)
  <2>1. b \in Seq(BOOLEAN)
    BY <1>1, BreaksTyped
  <2> HIDE DEF b
  <2>2. LET q == [r EXCEPT !.status = "completed", !.breaks = b]
        IN  LogStep(r, q) /\ q.status = "completed"
    BY <2>1, OpenLogStep
  <2> QED BY <2>2 DEF b
<1> QED BY <1>2, <1>3, <1>4, <1>5
-----------------------------------------------------------------------------
(* All time logs *)

\* What a request of e may turn the time logs into, but for a new log: each of
\* e's own makes a LogStep, those of other employees are left alone.
LogUpdate(e, t) ==
  /\ t \in [DOMAIN logs -> TimeLog]
  /\ \A l \in DOMAIN logs : LogStep(logs[l], t[l])
  /\ \A l \in DOMAIN logs : logs[l].employee # e => t[l] = logs[l]

\* A table that is built row by row is such an update.
LEMMA RowByRow ==
  ASSUME TypeOK, NEW e, NEW t, DOMAIN t = DOMAIN logs, t = [l \in DOMAIN logs |-> t[l]],
         \A l \in DOMAIN logs :
           t[l] # logs[l] => LogStep(logs[l], t[l]) /\ logs[l].employee = e
  PROVE  LogUpdate(e, t)
<1>1. \A l \in DOMAIN logs : logs[l] \in TimeLog
  BY DEF TypeOK
<1>2. \A l \in DOMAIN logs : LogStep(logs[l], t[l])
  BY <1>1, SameLog
<1>3. \A l \in DOMAIN logs : t[l] \in TimeLog
  BY <1>2 DEF LogStep
<1> QED BY <1>2, <1>3 DEF LogUpdate

\* finalizeOpenTimeLogForProjection only closes.
LEMMA FinalizeUpdates ==
  ASSUME TypeOK, NEW e, NEW ps
  PROVE  LogUpdate(e, Finalize(e, ps))
<1> DEFINE t == Finalize(e, ps)
<1>1. DOMAIN t = DOMAIN logs /\ t = [l \in DOMAIN logs |-> t[l]]
  BY DEF Finalize
<1>2. ASSUME NEW l \in DOMAIN logs, t[l] # logs[l]
      PROVE  LogStep(logs[l], t[l]) /\ logs[l].employee = e
  <2>1. l \in OpenLogs(e)
        /\ t[l] = [logs[l] EXCEPT !.status = "completed", !.breaks = EndAll(@)]
    BY <1>2 DEF Finalize, Latest, OpenLogsOn
  <2>2. logs[l] \in TimeLog /\ IsOpen(logs[l]) /\ logs[l].employee = e
    BY <2>1 DEF TypeOK, OpenLogs
  <2> QED BY <2>1, <2>2, LogEndpoints
<1> HIDE DEF t
<1>3. LogUpdate(e, t)
  BY <1>1, <1>2, RowByRow
<1> QED BY <1>3 DEF t

\* closeOpenTimers closes every open log of the employee.
LEMMA CloseOpenTimersUpdates ==
  ASSUME TypeOK, NEW e, NEW found
  PROVE  /\ LogUpdate(e, CloseOpenTimers(e, found))
         /\ \A l \in OpenLogs(e) : ~IsOpen(CloseOpenTimers(e, found)[l])
<1> DEFINE t == CloseOpenTimers(e, found)
<1>1. DOMAIN t = DOMAIN logs /\ t = [l \in DOMAIN logs |-> t[l]]
  BY DEF CloseOpenTimers
<1>2. ASSUME NEW l \in OpenLogs(e)
      PROVE  /\ LogStep(logs[l], t[l])
             /\ logs[l].employee = e
             /\ ~IsOpen(t[l])
  <2>1. t[l] = LeaveBreak(logs[l], "completed", found[l])
    BY DEF CloseOpenTimers, OpenLogs
  <2>2. logs[l] \in TimeLog /\ IsOpen(logs[l]) /\ logs[l].employee = e
    BY DEF TypeOK, OpenLogs
  <2>3. LogStep(logs[l], t[l]) /\ t[l].status = "completed"
    BY <2>1, <2>2, LogEndpoints
  <2> QED BY <2>2, <2>3 DEF IsOpen
<1>3. \A l \in DOMAIN logs : t[l] # logs[l] => l \in OpenLogs(e)
  BY DEF CloseOpenTimers
<1> HIDE DEF t
<1>4. LogUpdate(e, t)
  BY <1>1, <1>2, <1>3, RowByRow
<1> QED BY <1>2, <1>4 DEF t

\* The endpoints that name one log.
LEMMA OneLogUpdates ==
  ASSUME TypeOK, NEW e, NEW l \in DOMAIN logs, logs[l].employee = e,
         NEW r, LogStep(logs[l], r), NEW t, t = [logs EXCEPT ![l] = r]
  PROVE  LogUpdate(e, t)
<1>1. DOMAIN t = DOMAIN logs /\ t = [k \in DOMAIN logs |-> t[k]]
  BY DEF TypeOK
<1>2. \A k \in DOMAIN logs : t[k] = IF k = l THEN r ELSE logs[k]
  BY DEF TypeOK
<1>3. \A k \in DOMAIN logs :
        t[k] # logs[k] => LogStep(logs[k], t[k]) /\ logs[k].employee = e
  BY <1>2
<1>4. LogUpdate(e, t)
  BY ONLY <1>1, <1>3, RowByRow, TypeOK
<1> QED BY <1>4

\* Rows whose status is set keep everything else.
StatusesBecome(old, new, keys, s) ==
  /\ DOMAIN new = DOMAIN old
  /\ new \in [DOMAIN old -> Projection]
  /\ \A k \in DOMAIN old : /\ new[k].employee = old[k].employee
                          /\ new[k].status = IF k \in keys THEN s ELSE old[k].status

\* Setting the status of some projections leaves well-formed rows.
LEMMA ProjectionStatusRows ==
  ASSUME NEW old, old \in [DOMAIN old -> Projection], NEW keys, NEW s \in ProjectionStatus
  PROVE  StatusesBecome(old, WithStatus(old, keys, s), keys, s)
BY DEF StatusesBecome, WithStatus, Projection

\* The same of operations.
OperationsBecome(old, new, keys, s) ==
  /\ new \in [DOMAIN old -> Operation]
  /\ \A k \in DOMAIN old : /\ new[k].projection = old[k].projection
                          /\ new[k].status = IF k \in keys THEN s ELSE old[k].status

\* Setting the status of some operations leaves well-formed rows.
LEMMA OperationStatusRows ==
  ASSUME NEW old, old \in [DOMAIN old -> Operation], NEW keys,
         NEW s \in {"PENDING", "IN_PROGRESS", "COMPLETED"}
  PROVE  OperationsBecome(old, WithStatus(old, keys, s), keys, s)
BY DEF OperationsBecome, WithStatus, Operation
-----------------------------------------------------------------------------
(* The requests of employees, by what they do to the tables *)

KeepsRows ==
  /\ projections' \in [DOMAIN projections -> Projection]
  /\ \A p \in DOMAIN projections : projections'[p].employee = projections[p].employee
  /\ operations' \in [DOMAIN operations -> Operation]
  /\ \A o \in DOMAIN operations : operations'[o].projection = operations[o].projection

\* e's logs are updated to t, and there may be a new one, for o, or for no
\* operation.
WorkStep(e, o, t) ==
  /\ KeepsRows
  /\ LogUpdate(e, t)
  /\ \/ logs' = t /\ lastLog' = lastLog
     \/ \E p : /\ IsAssigned(e, p)
               /\ projections'[p].status = "IN_PROGRESS"
               /\ o # NoOperation =>
                    o \in DOMAIN operations /\ operations[o].projection = p
               /\ Create(t, NewLog(e, p, o))

\* No projection is untaken that was taken.
StaysTaken ==
  \A p \in DOMAIN projections :
    projections'[p].status \in {"PENDING", "REJECTED"} =>
      projections[p].status \in {"PENDING", "REJECTED"}

PlainStep(e) ==
  /\ \E t : WorkStep(e, NoOperation, t)
  /\ operations' = operations
  /\ StaysTaken

\* The employee's actions and the plain timer leave operations alone.
PlainAction(e) ==
  \/ \E p \in Projections : \/ Accept(e, p) \/ Reject(e, p)
                            \/ CompleteProjection(e, p) \/ ResumeIncomplete(e, p)
                            \/ StartTimeLog(e, p)
  \/ \E p, q \in Projections : SwitchProjection(e, p, q)
  \/ \E l \in 1..MaxLogs : \/ PauseTimeLog(e, l) \/ ResumeTimeLog(e, l)
                          \/ PauseOperationTimer(e, l)
                          \/ ResumeOperationTimer(e, l)

\* p is given status s and those of qs status r; no other status changes.
SetsStatus(p, s, qs, r) ==
  /\ KeepsRows
  /\ \A k \in DOMAIN projections :
       projections'[k].status = IF k = p THEN s ELSE IF k \in qs THEN r
                                ELSE projections[k].status

\* Setting the status of some projections and then of one, as the actions do
\* that put projections aside and go on with p.
LEMMA StatusesSet ==
  ASSUME TypeOK, UNCHANGED operations, NEW p, NEW qs, NEW s \in ProjectionStatus,
         NEW r \in ProjectionStatus,
         projections' = WithStatus(WithStatus(projections, qs, r), {p}, s)
  PROVE  SetsStatus(p, s, qs, r)
<1> DEFINE one == WithStatus(projections, qs, r)
           two == WithStatus(one, {p}, s)
<1>1. StatusesBecome(projections, one, qs, r)
  BY ProjectionStatusRows DEF TypeOK
<1>2. projections' = two
  OBVIOUS
<1> HIDE DEF one
<1>3. one \in [DOMAIN one -> Projection]
  BY ONLY <1>1 DEF StatusesBecome
<1>4. StatusesBecome(one, two, {p}, s)
  BY <1>3, ProjectionStatusRows
<1> HIDE DEF two
<1>5. operations' \in [DOMAIN operations -> Operation]
      /\ \A o \in DOMAIN operations : operations'[o].projection = operations[o].projection
  BY DEF TypeOK
<1> QED BY <1>1, <1>2, <1>4, <1>5 DEF KeepsRows, StatusesBecome, SetsStatus

\* The same for one status.
LEMMA StatusSet ==
  ASSUME TypeOK, UNCHANGED operations, NEW p, NEW s \in ProjectionStatus,
         projections' = WithStatus(projections, {p}, s)
  PROVE  SetsStatus(p, s, {}, s)
<1> DEFINE one == WithStatus(projections, {p}, s)
<1>1. StatusesBecome(projections, one, {p}, s)
  BY ProjectionStatusRows DEF TypeOK
<1>2. projections' = one
  OBVIOUS
<1> HIDE DEF one
<1>3. operations' \in [DOMAIN operations -> Operation]
      /\ \A o \in DOMAIN operations : operations'[o].projection = operations[o].projection
  BY DEF TypeOK
<1> QED BY <1>1, <1>2, <1>3 DEF KeepsRows, StatusesBecome, SetsStatus

\* Nothing but logs is written.
LEMMA NoStatusSet ==
  ASSUME TypeOK, UNCHANGED <<projections, operations>>
  PROVE  KeepsRows /\ StaysTaken
BY DEF TypeOK, KeepsRows, StaysTaken

\* The endpoints that name one log and do not start one.
LEMMA LogActionsPlain ==
  ASSUME TypeOK, NEW e \in Employees, NEW l \in 1..MaxLogs,
         \/ PauseTimeLog(e, l)
         \/ ResumeTimeLog(e, l)
         \/ PauseOperationTimer(e, l)
         \/ ResumeOperationTimer(e, l)
  PROVE  PlainStep(e)
<1>1. /\ l \in DOMAIN logs /\ logs[l].employee = e /\ IsOpen(logs[l])
      /\ UNCHANGED <<projections, operations, lastLog>>
  BY DEF PauseTimeLog, ResumeTimeLog, PauseOperationTimer, ResumeOperationTimer, OwnLog,
         OpenLogs, IsOpen
<1>2. logs[l] \in TimeLog
  BY <1>1 DEF TypeOK
<1>3. \E r : LogStep(logs[l], r) /\ logs' = [logs EXCEPT ![l] = r]
  <2>1. CASE PauseTimeLog(e, l) \/ PauseOperationTimer(e, l)
    BY <1>1, <1>2, <2>1, LogEndpoints DEF PauseTimeLog, PauseOperationTimer
  <2>2. CASE ResumeTimeLog(e, l)
    BY <1>1, <1>2, <2>2, LogEndpoints DEF ResumeTimeLog
  <2>3. CASE ResumeOperationTimer(e, l)
    BY <1>1, <1>2, <2>3, LogEndpoints DEF ResumeOperationTimer
  <2> QED BY <2>1, <2>2, <2>3
<1>4. LogUpdate(e, logs')
  BY <1>1, <1>3, OneLogUpdates
<1>5. KeepsRows /\ StaysTaken
  BY <1>1, NoStatusSet
<1> QED BY <1>1, <1>4, <1>5 DEF PlainStep, WorkStep

\* ACCEPT, REJECT and COMPLETE.
LEMMA ProjectionActionsPlain ==
  ASSUME TypeOK, NEW e \in Employees, NEW p \in Projections,
         \/ Accept(e, p)
         \/ Reject(e, p)
         \/ CompleteProjection(e, p)
  PROVE  PlainStep(e)
<1>1. p \in DOMAIN projections /\ UNCHANGED <<operations, lastLog>>
  BY DEF Accept, Reject, CompleteProjection, IsAssigned
<1>2. KeepsRows /\ StaysTaken
  <2>1. CASE Accept(e, p)
    <3>1. projections[p].status = "PENDING"
      BY <2>1 DEF Accept
    <3>2. PICK qs : projections' = WithStatus(WithStatus(projections, qs, "INCOMPLETE"),
                                              {p}, "ACCEPTED")
      BY <2>1 DEF Accept
    <3>3. "INCOMPLETE" \in ProjectionStatus /\ "ACCEPTED" \in ProjectionStatus
      BY DEF ProjectionStatus
    <3>4. SetsStatus(p, "ACCEPTED", qs, "INCOMPLETE")
      BY <1>1, <3>2, <3>3, StatusesSet
    <3> QED BY <3>4 DEF StaysTaken, SetsStatus
  <2>2. CASE Reject(e, p)
    <3>1. projections[p].status = "PENDING"
      BY <2>2 DEF Reject
    <3>2. projections' = WithStatus(projections, {p}, "REJECTED")
          /\ "REJECTED" \in ProjectionStatus
      BY <2>2 DEF Reject, ProjectionStatus
    <3>3. SetsStatus(p, "REJECTED", {}, "REJECTED")
      BY <1>1, <3>2, StatusSet
    <3> QED BY <3>1, <3>3 DEF StaysTaken, SetsStatus
  <2>3. CASE CompleteProjection(e, p)
    <3>1. projections' = WithStatus(projections, {p}, "COMPLETED")
          /\ "COMPLETED" \in ProjectionStatus
      BY <2>3 DEF CompleteProjection, ProjectionStatus
    <3>2. SetsStatus(p, "COMPLETED", {}, "COMPLETED")
      BY <1>1, <3>1, StatusSet
    <3> QED BY <3>2 DEF StaysTaken, SetsStatus
  <2> QED BY <2>1, <2>2, <2>3
<1>3. \E t : LogUpdate(e, t) /\ logs' = t
  <2>1. CASE \E ps : logs' = Finalize(e, ps)
    BY <2>1, FinalizeUpdates
  <2>2. CASE UNCHANGED logs
    <3>1. LogUpdate(e, logs)
      BY SameLog DEF LogUpdate, TypeOK
    <3> QED BY <2>2, <3>1
  <2> QED BY <2>1, <2>2 DEF Accept, Reject, CompleteProjection
<1> QED BY <1>1, <1>2, <1>3 DEF PlainStep, WorkStep

\* startTimeLog.
LEMMA StartTimeLogPlain ==
  ASSUME TypeOK, NEW e \in Employees, NEW p \in Projections, StartTimeLog(e, p)
  PROVE  PlainStep(e)
<1>1. /\ IsAssigned(e, p) /\ UNCHANGED operations
      /\ Create(logs, NewLog(e, p, NoOperation))
  BY DEF StartTimeLog
<1>2. projections' = WithStatus(projections, {p}, "IN_PROGRESS")
      /\ "IN_PROGRESS" \in ProjectionStatus
  BY DEF StartTimeLog, ProjectionStatus
<1>3. SetsStatus(p, "IN_PROGRESS", {}, "IN_PROGRESS")
  BY <1>1, <1>2, StatusSet
<1>4. StaysTaken /\ projections'[p].status = "IN_PROGRESS"
  BY <1>1, <1>3 DEF StaysTaken, IsAssigned, SetsStatus
<1>5. LogUpdate(e, logs)
  BY SameLog DEF LogUpdate, TypeOK
<1>6. WorkStep(e, NoOperation, logs)
  BY <1>1, <1>3, <1>4, <1>5 DEF WorkStep, SetsStatus
<1> QED BY <1>1, <1>4, <1>6 DEF PlainStep

\* SWITCH.
LEMMA SwitchPlain ==
  ASSUME TypeOK, NEW e \in Employees, NEW q \in Projections, NEW p \in Projections,
         SwitchProjection(e, q, p)
  PROVE  PlainStep(e)
<1>1. IsAssigned(e, p) /\ UNCHANGED operations
  BY DEF SwitchProjection
<1>2. PICK qs :
        /\ projections' = WithStatus(WithStatus(projections, qs, "INCOMPLETE"),
                                     {p}, "IN_PROGRESS")
        /\ Create(Finalize(e, qs), NewLog(e, p, NoOperation))
  BY DEF SwitchProjection
<1>3. /\ projections' = WithStatus(WithStatus(projections, qs, "INCOMPLETE"),
                                   {p}, "IN_PROGRESS")
      /\ "INCOMPLETE" \in ProjectionStatus /\ "IN_PROGRESS" \in ProjectionStatus
  BY <1>2 DEF ProjectionStatus
<1>4. SetsStatus(p, "IN_PROGRESS", qs, "INCOMPLETE")
  BY <1>1, <1>3, StatusesSet
<1>5. StaysTaken /\ projections'[p].status = "IN_PROGRESS"
  BY <1>1, <1>4 DEF StaysTaken, IsAssigned, SetsStatus
<1>6. WorkStep(e, NoOperation, Finalize(e, qs))
  BY <1>1, <1>2, <1>4, <1>5, FinalizeUpdates DEF WorkStep, SetsStatus
<1> QED BY <1>1, <1>5, <1>6 DEF PlainStep

\* RESUME_INCOMPLETE.
LEMMA ResumeIncompletePlain ==
  ASSUME TypeOK, NEW e \in Employees, NEW p \in Projections, ResumeIncomplete(e, p)
  PROVE  PlainStep(e)
<1>1. IsAssigned(e, p) /\ UNCHANGED operations
  BY DEF ResumeIncomplete
<1>2. PICK qs :
        /\ projections' = WithStatus(WithStatus(projections, qs, "INCOMPLETE"),
                                     {p}, "IN_PROGRESS")
        /\ IF OpenLogsOn(e, {p}) = {}
             THEN Create(Finalize(e, qs), NewLog(e, p, NoOperation))
             ELSE /\ logs' = [l \in DOMAIN logs |->
                                IF l \in Latest(OpenLogsOn(e, {p})) /\ logs[l].status = "paused"
                                  THEN Resume(logs[l])
                                  ELSE Finalize(e, qs)[l]]
                  /\ UNCHANGED lastLog
  BY DEF ResumeIncomplete
<1>3. /\ projections' = WithStatus(WithStatus(projections, qs, "INCOMPLETE"),
                                   {p}, "IN_PROGRESS")
      /\ "INCOMPLETE" \in ProjectionStatus /\ "IN_PROGRESS" \in ProjectionStatus
  BY <1>2 DEF ProjectionStatus
<1>4. SetsStatus(p, "IN_PROGRESS", qs, "INCOMPLETE")
  BY <1>1, <1>3, StatusesSet
<1>5. StaysTaken /\ projections'[p].status = "IN_PROGRESS"
  BY <1>1, <1>4 DEF StaysTaken, IsAssigned, SetsStatus
<1>6. LogUpdate(e, Finalize(e, qs))
  BY FinalizeUpdates
<1>7. CASE OpenLogsOn(e, {p}) = {}
  <2>1. WorkStep(e, NoOperation, Finalize(e, qs))
    BY <1>1, <1>2, <1>4, <1>5, <1>6, <1>7 DEF WorkStep, SetsStatus
  <2> QED BY <1>1, <1>5, <2>1 DEF PlainStep
<1>8. CASE OpenLogsOn(e, {p}) # {}
  <2>1. /\ DOMAIN logs' = DOMAIN logs /\ logs' = [l \in DOMAIN logs |-> logs'[l]]
        /\ lastLog' = lastLog
    BY <1>2, <1>8
  <2>2. ASSUME NEW l \in DOMAIN logs, logs'[l] # logs[l]
        PROVE  LogStep(logs[l], logs'[l]) /\ logs[l].employee = e
    <3>1. CASE l \in Latest(OpenLogsOn(e, {p})) /\ logs[l].status = "paused"
      <4>1. logs'[l] = Resume(logs[l]) /\ IsOpen(logs[l]) /\ logs[l].employee = e
        BY <1>2, <1>8, <3>1 DEF Latest, OpenLogsOn, OpenLogs
      <4>2. logs[l] \in TimeLog
        BY DEF TypeOK
      <4> QED BY <4>1, <4>2, LogEndpoints
    <3>2. CASE ~(l \in Latest(OpenLogsOn(e, {p})) /\ logs[l].status = "paused")
      <4>1. logs'[l] = Finalize(e, qs)[l]
        BY <1>2, <1>8, <3>2
      <4> QED BY <1>6, <2>2, <4>1 DEF LogUpdate
    <3> QED BY <3>1, <3>2
  <2>3. LogUpdate(e, logs')
    BY <2>1, <2>2, RowByRow
  <2>4. WorkStep(e, NoOperation, logs')
    BY <1>4, <2>1, <2>3 DEF WorkStep, SetsStatus
  <2> QED BY <1>1, <1>5, <2>4 DEF PlainStep
<1> QED BY <1>7, <1>8

\* Every plain action is a plain step.
LEMMA PlainActions ==
  ASSUME TypeOK, NEW e \in Employees, PlainAction(e)
  PROVE  PlainStep(e)
BY LogActionsPlain, ProjectionActionsPlain, StartTimeLogPlain, SwitchPlain,
   ResumeIncompletePlain DEF PlainAction

\* startOperationTimer: all logs of e are closed before the new one is created.
LEMMA StartOperationWorks ==
  ASSUME TypeOK, NEW e \in Employees, NEW o \in Operations, StartOperationTimer(e, o)
  PROVE  /\ \E t : WorkStep(e, o, t) /\ \A l \in OpenLogs(e) : ~IsOpen(t[l])
         /\ StaysTaken
         /\ lastLog + 1 \in DOMAIN logs' \ DOMAIN logs
         /\ o \in DOMAIN operations
         /\ operations[o].status # "COMPLETED"
         /\ IsAssigned(e, operations[o].projection)
         /\ projections'[operations[o].projection].status = "IN_PROGRESS"
         /\ \A k \in DOMAIN operations : operations'[k].status =
              IF k = o THEN "IN_PROGRESS" ELSE operations[k].status
<1> DEFINE p == operations[o].projection
<1>1. o \in DOMAIN operations /\ IsAssigned(e, p) /\ operations[o].status # "COMPLETED"
  BY DEF StartOperationTimer, MayBeTimed
<1>2. PICK found : Create(CloseOpenTimers(e, found), NewLog(e, p, o))
  BY DEF StartOperationTimer
<1> DEFINE t == CloseOpenTimers(e, found)
           os == {o}
           ps == {p}
<1>3. LogUpdate(e, t) /\ \A l \in OpenLogs(e) : ~IsOpen(t[l])
  BY CloseOpenTimersUpdates
<1>4. /\ operations' \in [DOMAIN operations -> Operation]
      /\ \A k \in DOMAIN operations :
           /\ operations'[k].projection = operations[k].projection
           /\ operations'[k].status = IF k = o THEN "IN_PROGRESS" ELSE operations[k].status
  <2>1. operations' = WithStatus(operations, os, "IN_PROGRESS")
    BY DEF StartOperationTimer
  <2> HIDE DEF os
  <2>2. operations \in [DOMAIN operations -> Operation]
    BY DEF TypeOK
  <2>3. OperationsBecome(operations, operations', os, "IN_PROGRESS")
    BY <2>1, <2>2, OperationStatusRows
  <2> QED BY <2>3 DEF os, OperationsBecome
<1>5. StatusesBecome(projections, projections', ps, "IN_PROGRESS")
  <2>1. projections' = WithStatus(projections, ps, "IN_PROGRESS")
    BY DEF StartOperationTimer
  <2> HIDE DEF ps
  <2>2. "IN_PROGRESS" \in ProjectionStatus /\ projections \in [DOMAIN projections -> Projection]
    BY DEF ProjectionStatus, TypeOK
  <2> QED BY <2>1, <2>2, ProjectionStatusRows
<1>6. KeepsRows /\ StaysTaken /\ projections'[p].status = "IN_PROGRESS"
  BY <1>1, <1>4, <1>5 DEF KeepsRows, StaysTaken, StatusesBecome, IsAssigned
<1> HIDE DEF t
<1>7. WorkStep(e, o, t)
  <2>1. Create(t, NewLog(e, p, o))
    BY <1>2 DEF t
  <2> QED BY <1>1, <1>3, <1>6, <2>1 DEF WorkStep
<1>8. lastLog + 1 \in DOMAIN logs' \ DOMAIN logs
  BY <1>2 DEF Create, Insert, TypeOK
<1> QED BY <1>1, <1>3, <1>4, <1>6, <1>7, <1>8

\* completeOperationTimer: of the operations only the one timed is completed.
LEMMA CompleteOperationWorks ==
  ASSUME TypeOK, NEW e \in Employees, NEW l \in 1..MaxLogs, CompleteOperationTimer(e, l)
  PROVE  /\ WorkStep(e, NoOperation, logs')
         /\ lastLog' = lastLog
         /\ DOMAIN logs' = DOMAIN logs
         /\ \A k \in DOMAIN logs : k # l => logs'[k] = logs[k]
         /\ l \in OpenLogs(e)
         /\ ~IsOpen(logs'[l])
         /\ StaysTaken
         /\ \A k \in DOMAIN operations : operations'[k].status =
              IF k = logs[l].operation THEN "COMPLETED" ELSE operations[k].status
<1>1. l \in OpenLogs(e) /\ lastLog' = lastLog
  BY DEF CompleteOperationTimer
<1>2. l \in DOMAIN logs /\ logs[l].employee = e /\ IsOpen(logs[l]) /\ logs[l] \in TimeLog
  BY <1>1 DEF OpenLogs, TypeOK
<1>3. PICK r : /\ logs' = [logs EXCEPT ![l] = r] /\ LogStep(logs[l], r)
               /\ r.status = "completed"
  BY <1>2, LogEndpoints DEF CompleteOperationTimer
<1>4. LogUpdate(e, logs')
  BY <1>2, <1>3, OneLogUpdates
<1>5. /\ DOMAIN logs' = DOMAIN logs
      /\ \A k \in DOMAIN logs : k # l => logs'[k] = logs[k]
      /\ ~IsOpen(logs'[l])
  BY <1>2, <1>3 DEF IsOpen, TypeOK
<1>6. /\ operations' \in [DOMAIN operations -> Operation]
      /\ \A k \in DOMAIN operations :
           /\ operations'[k].projection = operations[k].projection
           /\ operations'[k].status =
                IF k = logs[l].operation THEN "COMPLETED" ELSE operations[k].status
  <2> DEFINE os == {logs[l].operation}
  <2>1. operations' = WithStatus(operations, os, "COMPLETED")
    BY DEF CompleteOperationTimer
  <2> HIDE DEF os
  <2>2. operations \in [DOMAIN operations -> Operation]
    BY DEF TypeOK
  <2>3. OperationsBecome(operations, operations', os, "COMPLETED")
    BY <2>1, <2>2, OperationStatusRows
  <2> QED BY <2>3 DEF os, OperationsBecome
<1>7. \E ps : StatusesBecome(projections, projections', ps, "COMPLETED")
  <2>1. "COMPLETED" \in ProjectionStatus /\ projections \in [DOMAIN projections -> Projection]
    BY DEF ProjectionStatus, TypeOK
  <2>2. CASE projections' = projections
    <3>1. StatusesBecome(projections, projections, {}, "COMPLETED")
      BY <2>1 DEF StatusesBecome
    <3> QED BY <2>2, <3>1
  <2>3. CASE \E ps : projections' = WithStatus(projections, ps, "COMPLETED")
    BY <2>1, <2>3, ProjectionStatusRows
  <2> QED BY <2>2, <2>3 DEF CompleteOperationTimer
<1>8. KeepsRows /\ StaysTaken
  BY <1>6, <1>7 DEF KeepsRows, StaysTaken, StatusesBecome
<1> QED BY <1>1, <1>4, <1>5, <1>6, <1>8 DEF WorkStep
-----------------------------------------------------------------------------
(* The inductive invariant, employees' requests *)

Inv == /\ TypeOK
       /\ RowsAgree
       /\ PausedInBreak
       /\ OneOperationTimer
       /\ TimedOperationInProgress

\* The logs after a work step: the old ones as updated, and at most one new.
IsNewLog(l, e, o) ==
  /\ l = lastLog + 1
  /\ \E p : /\ IsAssigned(e, p)
            /\ projections'[p].status = "IN_PROGRESS"
            /\ o # NoOperation => o \in DOMAIN operations /\ operations[o].projection = p
            /\ logs'[l] = NewLog(e, p, o)

\* What a work step does to the logs: it loses none, every old one has made a
\* LogStep, and one that is new is open and carries the ids of rows that exist.
LEMMA LogsAfter ==
  ASSUME TypeOK, NEW e, NEW o, NEW t, WorkStep(e, o, t)
  PROVE  /\ DOMAIN logs \subseteq DOMAIN logs'
         /\ \A l \in DOMAIN logs : logs'[l] = t[l] /\ LogStep(logs[l], logs'[l])
         /\ \A l \in DOMAIN logs' \ DOMAIN logs : IsNewLog(l, e, o)
         /\ logs' = [l \in DOMAIN logs' |-> logs'[l]]
         /\ lastLog' \in 0..MaxLogs /\ DOMAIN logs' \subseteq 1..lastLog'
<1>1. /\ DOMAIN t = DOMAIN logs
      /\ t = [l \in DOMAIN logs |-> t[l]]
      /\ \A l \in DOMAIN logs : LogStep(logs[l], t[l])
  BY DEF WorkStep, LogUpdate
<1>2. DOMAIN logs \subseteq 1..lastLog /\ lastLog \in 0..MaxLogs /\ MaxLogs \in Nat
  BY LogAssumption DEF TypeOK
<1>3. CASE logs' = t /\ lastLog' = lastLog
  BY <1>1, <1>2, <1>3
<1>4. ASSUME NEW p, IsAssigned(e, p), projections'[p].status = "IN_PROGRESS",
             o # NoOperation => o \in DOMAIN operations /\ operations[o].projection = p,
             Create(t, NewLog(e, p, o))
      PROVE  /\ DOMAIN logs \subseteq DOMAIN logs'
             /\ \A l \in DOMAIN logs : logs'[l] = t[l]
             /\ \A l \in DOMAIN logs' \ DOMAIN logs : IsNewLog(l, e, o)
             /\ logs' = [l \in DOMAIN logs' |-> logs'[l]]
             /\ lastLog' \in 0..MaxLogs /\ DOMAIN logs' \subseteq 1..lastLog'
  <2> DEFINE n == lastLog + 1
             r == NewLog(e, p, o)
  <2>1. /\ logs' = [k \in DOMAIN logs \cup {n} |-> IF k = n THEN r ELSE t[k]]
        /\ lastLog' = n /\ lastLog < MaxLogs
    BY <1>1, <1>4 DEF Create, Insert
  <2>2. n \notin DOMAIN logs /\ n \in 1..MaxLogs
    BY <1>2, <2>1
  <2> HIDE DEF n, r
  <2>3. /\ DOMAIN logs' = DOMAIN logs \cup {n}
        /\ \A l \in DOMAIN logs : logs'[l] = t[l]
        /\ logs'[n] = r
        /\ logs' = [l \in DOMAIN logs' |-> logs'[l]]
    BY <2>1, <2>2
  <2>4. IsNewLog(n, e, o)
    BY <1>4, <2>3 DEF IsNewLog, n, r
  <2>5. lastLog' \in 0..MaxLogs /\ DOMAIN logs' \subseteq 1..lastLog'
    BY <1>2, <2>1, <2>2, <2>3 DEF n
  <2> QED BY <2>3, <2>4, <2>5
<1> QED BY <1>1, <1>3, <1>4 DEF WorkStep

\* A new log is well typed, open and not paused.
LEMMA NewLogTyped ==
  ASSUME TypeOK, NEW e \in Employees, NEW o \in Operations \cup {NoOperation},
         NEW l, IsNewLog(l, e, o)
  PROVE  /\ logs'[l] \in TimeLog
         /\ logs'[l].employee = e
         /\ logs'[l].operation = o
         /\ logs'[l].status = "active"
         /\ IsAssigned(e, logs'[l].projection)
         /\ o # NoOperation =>
              o \in DOMAIN operations /\ operations[o].projection = logs'[l].projection
<1>1. PICK p : /\ IsAssigned(e, p)
               /\ o # NoOperation => o \in DOMAIN operations /\ operations[o].projection = p
               /\ logs'[l] = NewLog(e, p, o)
  BY DEF IsNewLog
<1>2. p \in Projections
  BY <1>1 DEF IsAssigned, TypeOK
<1>3. << >> \in Seq(BOOLEAN)
  BY EmptySeq
<1>4. /\ NewLog(e, p, o) \in TimeLog
      /\ NewLog(e, p, o).employee = e /\ NewLog(e, p, o).operation = o
      /\ NewLog(e, p, o).status = "active" /\ NewLog(e, p, o).projection = p
  BY <1>2, <1>3 DEF NewLog, TimeLog
<1> QED BY <1>1, <1>4

\* What holds of the rows after any work step.
LEMMA WorkRowsInv ==
  ASSUME TypeOK, RowsAgree, PausedInBreak, NEW e \in Employees,
         NEW o \in Operations \cup {NoOperation}, NEW t, WorkStep(e, o, t)
  PROVE  TypeOK' /\ RowsAgree' /\ PausedInBreak'
<1>1. KeepsRows
  BY DEF WorkStep
<1>2. \A l \in DOMAIN logs' : logs'[l] \in TimeLog
  BY LogsAfter, NewLogTyped DEF LogStep
<1>3. TypeOK'
  <2>1. /\ DOMAIN projections' \subseteq Projections
        /\ projections' \in [DOMAIN projections' -> Projection]
        /\ DOMAIN operations' \subseteq Operations
        /\ operations' \in [DOMAIN operations' -> Operation]
    BY <1>1 DEF KeepsRows, TypeOK
  <2>2. logs' \in [DOMAIN logs' -> TimeLog]
    BY <1>2, LogsAfter
  <2> QED BY <2>1, <2>2, LogsAfter DEF TypeOK
<1>4. RowsAgree'
  <2>1. /\ DOMAIN projections' = DOMAIN projections
        /\ DOMAIN operations' = DOMAIN operations
        /\ \A p \in DOMAIN projections : projections'[p].employee = projections[p].employee
        /\ \A k \in DOMAIN operations : operations'[k].projection = operations[k].projection
    BY <1>1 DEF KeepsRows
  <2>2. \A k \in DOMAIN operations' : operations'[k].projection \in DOMAIN projections'
    BY <2>1 DEF RowsAgree
  <2>3. ASSUME NEW l \in DOMAIN logs'
        PROVE  /\ logs'[l].projection \in DOMAIN projections'
               /\ logs'[l].employee = projections'[logs'[l].projection].employee
               /\ logs'[l].operation # NoOperation =>
                    /\ logs'[l].operation \in DOMAIN operations'
                    /\ logs'[l].projection = operations'[logs'[l].operation].projection
    <3>1. CASE l \in DOMAIN logs
      BY <2>1, <3>1, LogsAfter DEF LogStep, RowsAgree
    <3>2. CASE l \notin DOMAIN logs
      BY <2>1, <3>2, LogsAfter, NewLogTyped DEF IsAssigned
    <3> QED BY <3>1, <3>2
  <2> QED BY <2>2, <2>3 DEF RowsAgree
<1>5. PausedInBreak'
  <2> SUFFICES ASSUME NEW l \in DOMAIN logs' PROVE InBreak(logs'[l])
    BY DEF PausedInBreak, InBreak
  <2>1. CASE l \in DOMAIN logs
    BY <2>1, LogsAfter DEF LogStep, PausedInBreak, InBreak
  <2>2. CASE l \notin DOMAIN logs
    BY <2>2, LogsAfter, NewLogTyped DEF InBreak
  <2> QED BY <2>1, <2>2
<1> QED BY <1>3, <1>4, <1>5

\* A log that is open after a work step was open before it, and was for the
\* same operation and employee, or it is the new one.
Timed(l, e, o) ==
  l \in DOMAIN logs /\ logs[l].employee = e /\ IsOpen(logs[l]) /\ logs[l].operation = o

\* A log that is timed after a work step, and is not new, was timed before it.
LEMMA OpenBefore ==
  ASSUME TypeOK, NEW e, NEW o, NEW t, WorkStep(e, o, t),
         NEW f, NEW x, NEW l, Timed(l, f, x)', l \in DOMAIN logs
  PROVE  Timed(l, f, x)
BY LogsAfter DEF Timed, LogStep

\* Every employee request that leaves the operations alone preserves Inv: a
\* log it opens carries no operation.
LEMMA PlainInv ==
  ASSUME Inv, NEW e \in Employees, PlainStep(e)
  PROVE  Inv'
<1>1. PICK t : WorkStep(e, NoOperation, t)
  BY DEF PlainStep
<1>2. TypeOK /\ operations' = operations
  BY DEF Inv, PlainStep
<1>3. TypeOK' /\ RowsAgree' /\ PausedInBreak'
  BY <1>1, WorkRowsInv DEF Inv
<1>4. ASSUME NEW f, NEW o, NEW l, Timed(l, f, o)', o # NoOperation
      PROVE  Timed(l, f, o)
  <2>1. l \in DOMAIN logs
    <3> SUFFICES ASSUME l \notin DOMAIN logs PROVE FALSE
      OBVIOUS
    <3>1. IsNewLog(l, e, NoOperation)
      BY <1>1, <1>2, <1>4, LogsAfter DEF Timed
    <3>2. logs'[l].operation = NoOperation
      BY <1>2, <3>1, NewLogTyped
    <3> QED BY <1>4, <3>2 DEF Timed
  <2> QED BY <1>1, <1>2, <1>4, <2>1, OpenBefore
<1>5. OneOperationTimer'
  <2> SUFFICES ASSUME NEW f \in Employees, NEW k \in OpenLogs(f)', NEW l \in OpenLogs(f)',
                      logs'[k].operation # NoOperation, logs'[l].operation # NoOperation
               PROVE  k = l
    BY DEF OneOperationTimer
  <2> PICK x, y : x = logs'[k].operation /\ y = logs'[l].operation
    OBVIOUS
  <2>1. Timed(k, f, x)' /\ Timed(l, f, y)'
    BY DEF Timed, OpenLogs
  <2>2. Timed(k, f, x) /\ Timed(l, f, y)
    BY <1>4, <2>1
  <2> QED BY <2>2 DEF Inv, OneOperationTimer, Timed, OpenLogs
<1>6. TimedOperationInProgress'
  <2> SUFFICES ASSUME NEW l \in DOMAIN logs', IsOpen(logs'[l]), logs'[l].operation # NoOperation
               PROVE  operations'[logs'[l].operation].status = "IN_PROGRESS"
    BY DEF TimedOperationInProgress
  <2> PICK f, x : f = logs'[l].employee /\ x = logs'[l].operation
    OBVIOUS
  <2>1. Timed(l, f, x)'
    BY DEF Timed
  <2>2. Timed(l, f, x)
    BY <1>4, <2>1
  <2> QED BY <1>2, <2>2 DEF Inv, TimedOperationInProgress, Timed
<1> QED BY <1>3, <1>5, <1>6 DEF Inv

\* startOperationTimer preserves Inv: nobody else has the operation's projection,
\* and the employee's own open logs are closed before the new one is created.
LEMMA StartOperationInv ==
  ASSUME Inv, NEW e \in Employees, NEW o \in Operations, StartOperationTimer(e, o)
  PROVE  Inv'
<1>1. TypeOK /\ o # NoOperation
  BY OperationAssumption DEF Inv
<1>2. PICK t : WorkStep(e, o, t) /\ \A l \in OpenLogs(e) : ~IsOpen(t[l])
  BY <1>1, StartOperationWorks
<1>3. /\ o \in DOMAIN operations
      /\ \A k \in DOMAIN operations : operations'[k].status =
           IF k = o THEN "IN_PROGRESS" ELSE operations[k].status
  BY <1>1, StartOperationWorks
<1>4. TypeOK' /\ RowsAgree' /\ PausedInBreak'
  BY <1>2, WorkRowsInv DEF Inv
<1>5. ASSUME NEW f, NEW x, NEW l, Timed(l, f, x)', l \in DOMAIN logs
      PROVE  Timed(l, f, x) /\ f # e
  <2>1. Timed(l, f, x)
    BY <1>1, <1>2, <1>5, OpenBefore
  <2>2. logs'[l] = t[l]
    BY <1>1, <1>2, <1>5, LogsAfter
  <2> QED BY <1>2, <1>5, <2>1, <2>2 DEF Timed, OpenLogs
<1>6. ASSUME NEW l \in DOMAIN logs' \ DOMAIN logs
      PROVE  l = lastLog + 1 /\ logs'[l].employee = e /\ logs'[l].operation = o
  <2>1. IsNewLog(l, e, o)
    BY <1>1, <1>2, LogsAfter
  <2>2. l = lastLog + 1
    BY <2>1 DEF IsNewLog
  <2> QED BY <1>1, <2>1, <2>2, NewLogTyped
<1>7. OneOperationTimer'
  <2> SUFFICES ASSUME NEW f \in Employees, NEW k \in OpenLogs(f)', NEW l \in OpenLogs(f)',
                      logs'[k].operation # NoOperation, logs'[l].operation # NoOperation
               PROVE  k = l
    BY DEF OneOperationTimer
  <2> PICK x, y : x = logs'[k].operation /\ y = logs'[l].operation
    OBVIOUS
  <2>1. Timed(k, f, x)' /\ Timed(l, f, y)'
    BY DEF Timed, OpenLogs
  <2>2. CASE k \in DOMAIN logs /\ l \in DOMAIN logs
    <3>1. Timed(k, f, x) /\ Timed(l, f, y)
      BY <1>5, <2>1, <2>2
    <3> QED BY <3>1 DEF Inv, OneOperationTimer, Timed, OpenLogs
  <2>3. CASE ~(k \in DOMAIN logs /\ l \in DOMAIN logs)
    BY <1>5, <1>6, <2>1, <2>3 DEF Timed
  <2> QED BY <2>2, <2>3
<1>8. TimedOperationInProgress'
  <2> SUFFICES ASSUME NEW l \in DOMAIN logs', IsOpen(logs'[l]), logs'[l].operation # NoOperation
               PROVE  operations'[logs'[l].operation].status = "IN_PROGRESS"
    BY DEF TimedOperationInProgress
  <2>1. CASE l \in DOMAIN logs
    <3> PICK f, x : f = logs'[l].employee /\ x = logs'[l].operation
      OBVIOUS
    <3>1. Timed(l, f, x)'
      BY DEF Timed
    <3>2. Timed(l, f, x)
      BY <1>5, <2>1, <3>1
    <3>3. logs'[l].operation \in DOMAIN operations
          /\ operations[logs'[l].operation].status = "IN_PROGRESS"
      BY <3>2 DEF Inv, RowsAgree, TimedOperationInProgress, Timed
    <3> QED BY <1>3, <3>3
  <2>2. CASE l \notin DOMAIN logs
    BY <1>3, <1>6, <2>2
  <2> QED BY <2>1, <2>2
<1> QED BY <1>4, <1>7, <1>8 DEF Inv

\* completeOperationTimer preserves Inv: with the log closed nobody times the
\* operation that becomes COMPLETED.
LEMMA CompleteOperationInv ==
  ASSUME Inv, NEW e \in Employees, NEW l \in 1..MaxLogs, CompleteOperationTimer(e, l)
  PROVE  Inv'
<1>1. TypeOK
  BY DEF Inv
<1>2. /\ WorkStep(e, NoOperation, logs')
      /\ DOMAIN logs' = DOMAIN logs
      /\ \A k \in DOMAIN logs : k # l => logs'[k] = logs[k]
      /\ l \in OpenLogs(e)
      /\ ~IsOpen(logs'[l])
      /\ \A k \in DOMAIN operations : operations'[k].status =
           IF k = logs[l].operation THEN "COMPLETED" ELSE operations[k].status
  BY <1>1, CompleteOperationWorks
<1>3. TypeOK' /\ RowsAgree' /\ PausedInBreak'
  BY <1>2, WorkRowsInv DEF Inv
<1>4. \A f : \A k \in OpenLogs(f)' : k # l /\ k \in OpenLogs(f) /\ logs'[k] = logs[k]
  BY <1>2 DEF OpenLogs
<1>5. OneOperationTimer'
  BY <1>4 DEF OneOperationTimer, Inv
<1>6. TimedOperationInProgress'
  <2> SUFFICES ASSUME NEW k \in DOMAIN logs', IsOpen(logs'[k]), logs'[k].operation # NoOperation
               PROVE  operations'[logs'[k].operation].status = "IN_PROGRESS"
    BY DEF TimedOperationInProgress
  <2>1. k \in DOMAIN logs /\ k # l /\ logs'[k] = logs[k]
    BY <1>2
  <2>2. /\ logs[k].operation \in DOMAIN operations
        /\ operations[logs[k].operation].status = "IN_PROGRESS"
    BY <2>1 DEF Inv, RowsAgree, TimedOperationInProgress
  <2>3. logs[k].operation # logs[l].operation
    <3> SUFFICES ASSUME logs[k].operation = logs[l].operation PROVE FALSE
      OBVIOUS
    <3>1. logs[k].employee = e
      BY <1>2, <2>1 DEF Inv, RowsAgree, OpenLogs
    <3>2. k \in OpenLogs(e)
      BY <2>1, <3>1 DEF OpenLogs
    <3> QED BY <1>2, <2>1, <3>2 DEF Inv, OneOperationTimer
  <2> QED BY <1>2, <2>1, <2>2, <2>3
<1> QED BY <1>3, <1>5, <1>6 DEF Inv
-----------------------------------------------------------------------------
(* The inductive invariant, admins' requests *)

\* What only concerns logs stays true of the logs that are left, when nothing
\* else becomes of them.
LEMMA LogsLeft ==
  ASSUME Inv, DOMAIN logs' \subseteq DOMAIN logs, \A l \in DOMAIN logs' : logs'[l] = logs[l]
  PROVE  PausedInBreak' /\ OneOperationTimer'
<1>1. PausedInBreak'
  BY DEF Inv, PausedInBreak
<1>2. \A e : \A l \in OpenLogs(e)' : l \in OpenLogs(e) /\ logs'[l] = logs[l]
  BY DEF OpenLogs
<1>3. OneOperationTimer'
  BY <1>2 DEF Inv, OneOperationTimer
<1> QED BY <1>1, <1>3

\* Creating a projection preserves Inv.
LEMMA CreateProjectionInv ==
  ASSUME Inv, NEW e \in Employees, CreateProjection(e)
  PROVE  Inv'
<1>1. PICK p \in Projections \ DOMAIN projections :
        projections' = Insert(projections, p, [employee |-> e, status |-> "PENDING"])
  BY DEF CreateProjection
<1>2. UNCHANGED <<operations, logs, lastLog>>
  BY DEF CreateProjection
<1>3. /\ DOMAIN projections' = DOMAIN projections \cup {p}
      /\ projections' \in [DOMAIN projections' -> Projection]
      /\ \A q \in DOMAIN projections : projections'[q] = projections[q]
  BY <1>1 DEF Insert, Inv, TypeOK, Projection, ProjectionStatus
<1>4. TypeOK'
  BY <1>1, <1>2, <1>3 DEF Inv, TypeOK
<1>5. RowsAgree'
  BY <1>2, <1>3 DEF Inv, RowsAgree
<1>6. PausedInBreak' /\ OneOperationTimer'
  BY <1>2, LogsLeft
<1>7. TimedOperationInProgress'
  BY <1>2 DEF Inv, TimedOperationInProgress
<1> QED BY <1>4, <1>5, <1>6, <1>7 DEF Inv

\* An admin's edit of a projection's status preserves Inv.
LEMMA UpdateProjectionInv ==
  ASSUME Inv, NEW p \in Projections, NEW s \in AdminStatuses, UpdateProjection(p, s)
  PROVE  Inv'
<1>1. UNCHANGED <<operations, logs, lastLog>>
  BY DEF UpdateProjection
<1>2. SetsStatus(p, s, {}, s)
  <2>1. projections' = WithStatus(projections, {p}, s) /\ s \in ProjectionStatus
    BY AdminAssumption DEF UpdateProjection
  <2> QED BY <1>1, <2>1, StatusSet DEF Inv
<1>3. /\ DOMAIN projections' = DOMAIN projections
      /\ projections' \in [DOMAIN projections' -> Projection]
      /\ \A q \in DOMAIN projections : projections'[q].employee = projections[q].employee
  BY <1>2 DEF SetsStatus, KeepsRows
<1>4. TypeOK'
  BY <1>1, <1>3 DEF Inv, TypeOK
<1>5. RowsAgree'
  BY <1>1, <1>3 DEF Inv, RowsAgree
<1>6. PausedInBreak' /\ OneOperationTimer'
  BY <1>1, LogsLeft
<1>7. TimedOperationInProgress'
  BY <1>1 DEF Inv, TimedOperationInProgress
<1> QED BY <1>4, <1>5, <1>6, <1>7 DEF Inv

\* Adding operations to a projection preserves Inv.
LEMMA AddOperationsInv ==
  ASSUME Inv, NEW p \in Projections, NEW os \in SUBSET (Operations \ DOMAIN operations),
         AddOperations(p, os)
  PROVE  Inv'
<1>1. UNCHANGED <<projections, logs, lastLog>> /\ p \in DOMAIN projections
  BY DEF AddOperations
<1>2. /\ DOMAIN operations' = DOMAIN operations \cup os
      /\ operations' \in [DOMAIN operations' -> Operation]
      /\ \A o \in DOMAIN operations : operations'[o] = operations[o]
      /\ \A o \in os : operations'[o].projection = p
  BY <1>1 DEF AddOperations, Inv, TypeOK, Operation
<1>3. TypeOK'
  BY <1>1, <1>2 DEF Inv, TypeOK
<1>4. RowsAgree'
  BY <1>1, <1>2 DEF Inv, RowsAgree
<1>5. PausedInBreak' /\ OneOperationTimer'
  BY <1>1, LogsLeft
<1>6. TimedOperationInProgress'
  BY <1>1, <1>2 DEF Inv, TimedOperationInProgress, RowsAgree
<1> QED BY <1>3, <1>4, <1>5, <1>6 DEF Inv

\* Deleting projections, with the cascades to operations and logs, preserves Inv.
LEMMA DeleteProjectionsInv ==
  ASSUME Inv, NEW ps, DeleteProjections(ps)
  PROVE  Inv'
<1>1. /\ DOMAIN projections' = DOMAIN projections \ ps
      /\ projections' \in [DOMAIN projections' -> Projection]
      /\ \A p \in DOMAIN projections' : projections'[p] = projections[p]
  BY DEF DeleteProjections, Delete, Inv, TypeOK
<1>2. /\ DOMAIN operations' = {o \in DOMAIN operations : operations[o].projection \notin ps}
      /\ operations' = [o \in DOMAIN operations' |-> operations[o]]
  BY DEF DeleteProjections, Delete, OperationsOf
<1>3. /\ DOMAIN logs' = {l \in DOMAIN logs : logs[l].projection \notin ps}
      /\ logs' = [l \in DOMAIN logs' |-> logs[l]]
      /\ lastLog' = lastLog
  BY DEF DeleteProjections, Delete
<1>4. TypeOK'
  BY <1>1, <1>2, <1>3 DEF Inv, TypeOK
<1>5. RowsAgree'
  BY <1>1, <1>2, <1>3 DEF Inv, RowsAgree
<1>6. PausedInBreak' /\ OneOperationTimer'
  BY <1>3, LogsLeft
<1>7. TimedOperationInProgress'
  BY <1>2, <1>3, <1>5 DEF Inv, TimedOperationInProgress, RowsAgree
<1> QED BY <1>4, <1>5, <1>6, <1>7 DEF Inv

\* Deleting an operation, which sets it to NULL in its logs, preserves Inv.
LEMMA DeleteOperationInv ==
  ASSUME Inv, NEW o \in Operations, DeleteOperation(o)
  PROVE  Inv'
<1>1. UNCHANGED <<projections, lastLog>>
  BY DEF DeleteOperation
<1>2. /\ DOMAIN operations' = DOMAIN operations \ {o}
      /\ operations' = [k \in DOMAIN operations' |-> operations[k]]
  BY DEF DeleteOperation, Delete
<1>3. /\ DOMAIN logs' = DOMAIN logs
      /\ logs' = [l \in DOMAIN logs |-> logs'[l]]
      /\ \A l \in DOMAIN logs :
           /\ logs'[l] \in TimeLog
           /\ logs'[l].projection = logs[l].projection
           /\ logs'[l].employee = logs[l].employee
           /\ logs'[l].status = logs[l].status
           /\ logs'[l].breaks = logs[l].breaks
           /\ logs'[l].operation = IF logs[l].operation = o THEN NoOperation
                                   ELSE logs[l].operation
  BY DEF DeleteOperation, Inv, TypeOK, TimeLog
<1>4. TypeOK'
  BY <1>1, <1>2, <1>3 DEF Inv, TypeOK
<1>5. RowsAgree'
  BY <1>1, <1>2, <1>3 DEF Inv, RowsAgree
<1>6. PausedInBreak'
  BY <1>3 DEF Inv, PausedInBreak
<1>7. OneOperationTimer'
  BY <1>3 DEF Inv, OneOperationTimer, OpenLogs, IsOpen
<1>8. TimedOperationInProgress'
  BY <1>2, <1>3, <1>5 DEF Inv, TimedOperationInProgress, RowsAgree, IsOpen
<1> QED BY <1>4, <1>5, <1>6, <1>7, <1>8 DEF Inv
-----------------------------------------------------------------------------
(* The theorems on the invariant *)

\* The empty tables satisfy Inv.
LEMMA InitInv == Init => Inv
<1> SUFFICES ASSUME Init PROVE Inv
  OBVIOUS
<1>1. DOMAIN projections = {} /\ DOMAIN operations = {} /\ DOMAIN logs = {} /\ lastLog = 0
  BY DEF Init
<1>2. /\ projections \in [DOMAIN projections -> Projection]
      /\ operations \in [DOMAIN operations -> Operation]
      /\ logs \in [DOMAIN logs -> TimeLog]
  BY <1>1 DEF Init
<1>3. TypeOK
  BY <1>1, <1>2, LogAssumption DEF TypeOK
<1>4. RowsAgree /\ PausedInBreak /\ OneOperationTimer /\ TimedOperationInProgress
  BY <1>1 DEF RowsAgree, PausedInBreak, OneOperationTimer, TimedOperationInProgress, OpenLogs
<1> QED BY <1>3, <1>4 DEF Inv

\* Some projections are deleted.
Deletes == \E ps : DeleteProjections(ps)

\* Each disjunct of Next is a step of one of these kinds.
LEMMA StepKinds ==
  ASSUME Inv, Next
  PROVE  \/ \E e \in Employees : PlainStep(e)
         \/ \E e \in Employees, o \in Operations : StartOperationTimer(e, o)
         \/ \E e \in Employees, l \in 1..MaxLogs : CompleteOperationTimer(e, l)
         \/ \E e \in Employees : CreateProjection(e)
         \/ \E p \in Projections, s \in AdminStatuses : UpdateProjection(p, s)
         \/ \E p \in Projections : \E os \in SUBSET (Operations \ DOMAIN operations) :
               AddOperations(p, os)
         \/ Deletes
         \/ \E o \in Operations : DeleteOperation(o)
<1>1. CASE EmployeeNext
  <2>1. PICK e \in Employees :
          \/ PlainAction(e)
          \/ \E o \in Operations : StartOperationTimer(e, o)
          \/ \E l \in 1..MaxLogs : CompleteOperationTimer(e, l)
    BY <1>1 DEF EmployeeNext, PlainAction
  <2> QED BY <2>1, PlainActions DEF Inv
<1>2. CASE AdminNext
  BY <1>2 DEF AdminNext, Deletes, CancelProjection, RemoveUser
<1> QED BY <1>1, <1>2 DEF Next

\* Inv is inductive.
LEMMA NextInv == Inv /\ [Next]_vars => Inv'
<1> SUFFICES ASSUME Inv, [Next]_vars PROVE Inv'
  OBVIOUS
<1>1. CASE Next
  BY <1>1, StepKinds, PlainInv, StartOperationInv, CompleteOperationInv, CreateProjectionInv,
     UpdateProjectionInv, AddOperationsInv, DeleteProjectionsInv, DeleteOperationInv DEF Deletes
<1>2. CASE UNCHANGED vars
  BY <1>2 DEF vars, Inv, TypeOK, RowsAgree, PausedInBreak, OneOperationTimer, OpenLogs,
              TimedOperationInProgress
<1> QED BY <1>1, <1>2

\* Every reachable state of the projections and their timers satisfies Inv.
THEOREM InvHolds == Spec => []Inv
BY InitInv, NextInv, PTL DEF Spec

\* Type correctness of projections, operations and time logs.
THEOREM WorkTypeCorrect == Spec => []TypeOK
<1>1. Inv => TypeOK
  BY DEF Inv
<1> QED BY <1>1, InvHolds, PTL

\* However operations and projections are deleted under running timers, the ids
\* that the services copy into a time log go on agreeing with the rows they
\* were copied from.
THEOREM CopiedIdsAgree == Spec => []RowsAgree
<1>1. Inv => RowsAgree
  BY DEF Inv
<1> QED BY <1>1, InvHolds, PTL

\* Whichever of the five pauses and resumes of both services are mixed, a
\* paused log is in the break begun last.
THEOREM PausedLogsInBreak == Spec => []PausedInBreak
<1>1. Inv => PausedInBreak
  BY DEF Inv
<1> QED BY <1>1, InvHolds, PTL

\* startOperationTimer closes every open log of the employee (closeOpenTimers):
\* nobody ever times two operations at once.
THEOREM OneOperationAtATime == Spec => []OneOperationTimer
<1>1. Inv => OneOperationTimer
  BY DEF Inv
<1> QED BY <1>1, InvHolds, PTL

\* While a log is open for an operation, that operation is in progress: it is
\* neither completed under it nor set back.
THEOREM TimedInProgress == Spec => []TimedOperationInProgress
<1>1. Inv => TimedOperationInProgress
  BY DEF Inv
<1> QED BY <1>1, InvHolds, PTL
-----------------------------------------------------------------------------
(* Completed logs *)

FrozenStep ==
  \A l \in DOMAIN logs : logs[l].status = "completed" /\ l \in DOMAIN logs' =>
    \/ logs'[l] = logs[l]
    \/ /\ logs'[l] = [logs[l] EXCEPT !.operation = NoOperation]
       /\ logs[l].operation \notin DOMAIN operations'

\* No request of an employee writes a completed log.
LEMMA WorkFreezes ==
  ASSUME TypeOK, NEW e, NEW o, NEW t, WorkStep(e, o, t)
  PROVE  FrozenStep
BY LogsAfter DEF LogStep, FrozenStep

\* A completed log is a record for the statistics: nothing changes it but the
\* deletion of its operation, which takes the operation from it.
THEOREM CompletedLogsStay == Spec => CompletedLogsFrozen
<1>1. Inv /\ [Next]_vars => [FrozenStep]_vars
  <2> SUFFICES ASSUME Inv, Next PROVE FrozenStep
    OBVIOUS
  <2>1. ASSUME NEW e \in Employees, PlainStep(e) PROVE FrozenStep
    BY <2>1, WorkFreezes DEF PlainStep, Inv
  <2>2. ASSUME NEW e \in Employees, NEW o \in Operations, StartOperationTimer(e, o)
        PROVE  FrozenStep
    BY <2>2, StartOperationWorks, WorkFreezes DEF Inv
  <2>3. ASSUME NEW e \in Employees, NEW l \in 1..MaxLogs, CompleteOperationTimer(e, l)
        PROVE  FrozenStep
    BY <2>3, CompleteOperationWorks, WorkFreezes DEF Inv
  <2>4. ASSUME UNCHANGED logs PROVE FrozenStep
    BY <2>4 DEF FrozenStep
  <2>5. ASSUME NEW ps, DeleteProjections(ps) PROVE FrozenStep
    BY <2>5 DEF DeleteProjections, Delete, FrozenStep
  <2>6. ASSUME NEW o \in Operations, DeleteOperation(o) PROVE FrozenStep
    BY <2>6 DEF DeleteOperation, Delete, FrozenStep
  <2> QED BY <2>1, <2>2, <2>3, <2>4, <2>5, <2>6, StepKinds
          DEF CreateProjection, UpdateProjection, AddOperations, Deletes
<1> QED BY <1>1, InvHolds, PTL DEF Spec, CompletedLogsFrozen, FrozenStep
-----------------------------------------------------------------------------
(* Projections nobody has taken up *)

Untaken(p) == p \in DOMAIN projections /\ projections[p].status \in {"PENDING", "REJECTED"}

\* For an employee's request: nothing new is untaken, no log is begun on what
\* is, and no operation of it is touched.
LEMMA WorkTakes ==
  ASSUME Inv, UntouchedUntilTaken, NEW e \in Employees,
         NEW o \in Operations \cup {NoOperation}, NEW t, WorkStep(e, o, t), StaysTaken,
         \A k \in DOMAIN operations : operations'[k].status # operations[k].status =>
           projections'[operations[k].projection].status \notin {"PENDING", "REJECTED"}
  PROVE  UntouchedUntilTaken'
<1>1. /\ DOMAIN projections' = DOMAIN projections
      /\ DOMAIN operations' = DOMAIN operations
      /\ \A k \in DOMAIN operations : operations'[k].projection = operations[k].projection
  BY DEF WorkStep, KeepsRows
<1> SUFFICES ASSUME NEW p \in DOMAIN projections', Untaken(p)'
             PROVE  /\ \A l \in DOMAIN logs' : logs'[l].projection # p
                    /\ \A k \in DOMAIN operations' :
                         operations'[k].projection = p => operations'[k].status = "PENDING"
  BY DEF UntouchedUntilTaken, OperationsOf, Untaken
<1>2. Untaken(p)
  BY <1>1 DEF StaysTaken, Untaken
<1>3. ASSUME NEW l \in DOMAIN logs' PROVE logs'[l].projection # p
  <2>1. CASE l \in DOMAIN logs
    BY <1>2, <2>1, LogsAfter DEF LogStep, UntouchedUntilTaken, Untaken, Inv
  <2>2. CASE l \notin DOMAIN logs
    <3>1. IsNewLog(l, e, o)
      BY <2>2, LogsAfter DEF Inv
    <3>2. PICK q : projections'[q].status = "IN_PROGRESS" /\ logs'[l] = NewLog(e, q, o)
      BY <3>1 DEF IsNewLog
    <3>3. logs'[l].projection = q
      BY <3>2 DEF NewLog
    <3> QED BY <3>2, <3>3 DEF Untaken
  <2> QED BY <2>1, <2>2
<1>4. ASSUME NEW k \in DOMAIN operations', operations'[k].projection = p
      PROVE  operations'[k].status = "PENDING"
  BY <1>1, <1>2, <1>4 DEF UntouchedUntilTaken, Untaken, OperationsOf
<1> QED BY <1>3, <1>4

\* As long as an admin sets neither PENDING nor REJECTED by hand, no time is
\* ever logged on a projection that was not taken up, and no operation of it
\* begun: accepting, starting, switching and resuming all write the status in
\* the same request that creates the log.
THEOREM UntakenUntouched ==
  ASSUME AdminStatuses \cap {"PENDING", "REJECTED"} = {}
  PROVE  Spec => []UntouchedUntilTaken
<1>1. Init => UntouchedUntilTaken
  <2> SUFFICES ASSUME Init PROVE UntouchedUntilTaken
    OBVIOUS
  <2>1. DOMAIN projections = {}
    BY DEF Init
  <2> QED BY <2>1 DEF UntouchedUntilTaken
<1>2. Inv /\ UntouchedUntilTaken /\ [Next]_vars => UntouchedUntilTaken'
  <2> SUFFICES ASSUME Inv, UntouchedUntilTaken, Next \/ UNCHANGED vars
               PROVE  UntouchedUntilTaken'
    OBVIOUS
  <2>1. ASSUME NEW e \in Employees, PlainStep(e) PROVE UntouchedUntilTaken'
    BY <2>1, WorkTakes DEF PlainStep
  <2>2. ASSUME NEW e \in Employees, NEW o \in Operations, StartOperationTimer(e, o)
        PROVE  UntouchedUntilTaken'
    <3>1. PICK t : WorkStep(e, o, t)
      BY <2>2, StartOperationWorks DEF Inv
    <3>2. /\ StaysTaken /\ projections'[operations[o].projection].status = "IN_PROGRESS"
          /\ \A k \in DOMAIN operations : operations'[k].status =
               IF k = o THEN "IN_PROGRESS" ELSE operations[k].status
      BY <2>2, StartOperationWorks DEF Inv
    <3>3. \A k \in DOMAIN operations : operations'[k].status # operations[k].status =>
            projections'[operations[k].projection].status \notin {"PENDING", "REJECTED"}
      <4> SUFFICES ASSUME NEW k \in DOMAIN operations,
                          operations'[k].status # operations[k].status
                   PROVE  projections'[operations[k].projection].status = "IN_PROGRESS"
        OBVIOUS
      <4> QED BY <3>2
    <3> QED BY <3>1, <3>2, <3>3, WorkTakes
  <2>3. ASSUME NEW e \in Employees, NEW l \in 1..MaxLogs, CompleteOperationTimer(e, l)
        PROVE  UntouchedUntilTaken'
    <3>1. /\ WorkStep(e, NoOperation, logs') /\ StaysTaken /\ l \in OpenLogs(e)
          /\ \A k \in DOMAIN operations : operations'[k].status =
               IF k = logs[l].operation THEN "COMPLETED" ELSE operations[k].status
      BY <2>3, CompleteOperationWorks DEF Inv
    <3>2. \A k \in DOMAIN operations : operations'[k].status # operations[k].status =>
            projections'[operations[k].projection].status \notin {"PENDING", "REJECTED"}
      <4> SUFFICES ASSUME NEW k \in DOMAIN operations, k = logs[l].operation
                   PROVE  projections'[operations[k].projection].status \notin {"PENDING", "REJECTED"}
        BY <3>1
      <4>1. l \in DOMAIN logs /\ k # NoOperation
        BY <3>1, OperationAssumption DEF OpenLogs, Inv, TypeOK
      <4>2. logs[l].projection = operations[k].projection
            /\ operations[k].projection \in DOMAIN projections
        BY <4>1 DEF Inv, RowsAgree
      <4>3. projections[operations[k].projection].status \notin {"PENDING", "REJECTED"}
        BY <4>1, <4>2 DEF UntouchedUntilTaken
      <4> QED BY <3>1, <4>2, <4>3 DEF StaysTaken
    <3> QED BY <3>1, <3>2, WorkTakes
  <2>4. ASSUME NEW e \in Employees, CreateProjection(e) PROVE UntouchedUntilTaken'
    BY <2>4 DEF CreateProjection, Insert, UntouchedUntilTaken, OperationsOf, Inv, RowsAgree
  <2>5. ASSUME NEW p \in Projections, NEW s \in AdminStatuses, UpdateProjection(p, s)
        PROVE  UntouchedUntilTaken'
    <3>1. UNCHANGED <<operations, logs>> /\ SetsStatus(p, s, {}, s)
      BY <2>5, StatusSet, AdminAssumption DEF UpdateProjection, Inv
    <3>2. s \notin {"PENDING", "REJECTED"}
      OBVIOUS
    <3> QED BY <3>1, <3>2 DEF SetsStatus, KeepsRows, UntouchedUntilTaken, OperationsOf
  <2>6. ASSUME NEW p \in Projections, NEW os \in SUBSET (Operations \ DOMAIN operations),
               AddOperations(p, os)
        PROVE  UntouchedUntilTaken'
    BY <2>6 DEF AddOperations, UntouchedUntilTaken, OperationsOf
  <2>7. ASSUME NEW ps, DeleteProjections(ps) PROVE UntouchedUntilTaken'
    BY <2>7 DEF DeleteProjections, Delete, UntouchedUntilTaken, OperationsOf
  <2>8. ASSUME NEW o \in Operations, DeleteOperation(o) PROVE UntouchedUntilTaken'
    <3>1. /\ projections' = projections
          /\ DOMAIN operations' \subseteq DOMAIN operations
          /\ \A k \in DOMAIN operations' : operations'[k] = operations[k]
      BY <2>8 DEF DeleteOperation, Delete
    <3>2. /\ DOMAIN logs' = DOMAIN logs
          /\ \A l \in DOMAIN logs : logs'[l].projection = logs[l].projection
      BY <2>8 DEF DeleteOperation, Inv, TypeOK, TimeLog
    <3> QED BY <3>1, <3>2 DEF UntouchedUntilTaken, OperationsOf
  <2>9. CASE UNCHANGED vars
    BY <2>9 DEF vars, UntouchedUntilTaken, OperationsOf
  <2> QED BY <2>1, <2>2, <2>3, <2>4, <2>5, <2>6, <2>7, <2>8, <2>9, StepKinds DEF Deletes
<1> QED BY <1>1, <1>2, InvHolds, PTL DEF Spec
-----------------------------------------------------------------------------
(* ProjectionWork implements OperationDesk *)

\* What the refinement mapping shows.
RunningOf(e) == {logs[l].operation : l \in OpenLogs(e)} \ {NoOperation}

Running == [e \in Employees |-> RunningOf(e)]

Finished == {o \in DOMAIN operations : operations[o].status = "COMPLETED"}

\* An employee is shown with an operation exactly when an open log is for it.
LEMMA ShownIfTimed ==
  \A e, o : o \in RunningOf(e) <=> o # NoOperation /\ \E l : Timed(l, e, o)
BY DEF RunningOf, OpenLogs, Timed

\* The same after a step.
LEMMA ShownIfTimedPrimed ==
  \A e, o : o \in RunningOf(e)' <=> o # NoOperation /\ \E l : Timed(l, e, o)'
BY DEF RunningOf, OpenLogs, Timed

\* There is at most one operation to show.
LEMMA OneShown ==
  ASSUME Inv, NEW e \in Employees, NEW x \in RunningOf(e), NEW y \in RunningOf(e)
  PROVE  x = y
BY DEF Inv, OneOperationTimer, RunningOf

\* A plain request of e, and a completion of a plain log, is seen as e leaving
\* the operation, or not at all.
LEMMA WorkIsLeave ==
  ASSUME Inv, Inv', NEW e \in Employees, NEW t, WorkStep(e, NoOperation, t),
         Finished' = Finished
  PROVE  [Desk!Next]_<<Running, Finished>>
<1>1. TypeOK
  BY DEF Inv
<1>2. ASSUME NEW f, NEW o, NEW l, Timed(l, f, o)', o # NoOperation
      PROVE  Timed(l, f, o)
  <2>1. l \in DOMAIN logs
    <3> SUFFICES ASSUME l \notin DOMAIN logs PROVE FALSE
      OBVIOUS
    <3>1. IsNewLog(l, e, NoOperation)
      BY <1>1, <1>2, LogsAfter DEF Timed
    <3>2. logs'[l].operation = NoOperation
      BY <1>1, <3>1, NewLogTyped
    <3> QED BY <1>2, <3>2 DEF Timed
  <2> QED BY <1>1, <1>2, <2>1, OpenBefore
<1>3. ASSUME NEW f \in Employees, f # e
      PROVE  RunningOf(f)' = RunningOf(f)
  <2>1. \A o : o \in RunningOf(f)' => o \in RunningOf(f)
    BY <1>2, ShownIfTimed, ShownIfTimedPrimed
  <2>2. ASSUME NEW o, NEW l, Timed(l, f, o) PROVE Timed(l, f, o)'
    <3>1. t[l] = logs[l] /\ l \in DOMAIN logs
      BY <1>3, <2>2 DEF WorkStep, LogUpdate, Timed
    <3>2. logs'[l] = logs[l] /\ l \in DOMAIN logs'
      BY <1>1, <3>1, LogsAfter
    <3> QED BY <2>2, <3>2 DEF Timed
  <2>3. \A o : o \in RunningOf(f) => o \in RunningOf(f)'
    BY <2>2, ShownIfTimed, ShownIfTimedPrimed
  <2> QED BY <2>1, <2>3
<1>4. RunningOf(e)' \subseteq RunningOf(e)
  BY <1>2, ShownIfTimed, ShownIfTimedPrimed
<1>5. CASE RunningOf(e)' = RunningOf(e)
  BY <1>3, <1>5 DEF Running
<1>6. CASE RunningOf(e)' # RunningOf(e)
  <2>1. RunningOf(e)' = {}
    BY <1>4, <1>6, OneShown
  <2>2. Running' = [Running EXCEPT ![e] = {}]
    BY <1>3, <2>1 DEF Running
  <2>3. Desk!Leave(e)
    BY <2>2 DEF Desk!Leave, Running, RunningOf, Finished
  <2> QED BY <2>3 DEF Desk!Next
<1> QED BY <1>5, <1>6

\* startOperationTimer is seen as the start of the operation.
LEMMA StartIsStart ==
  ASSUME Inv, Inv', NEW e \in Employees, NEW o \in Operations, StartOperationTimer(e, o)
  PROVE  Desk!Start(e, o)
<1>1. TypeOK /\ o # NoOperation
  BY OperationAssumption DEF Inv
<1>2. PICK t : WorkStep(e, o, t) /\ \A l \in OpenLogs(e) : ~IsOpen(t[l])
  BY <1>1, StartOperationWorks
<1>3. /\ lastLog + 1 \in DOMAIN logs' \ DOMAIN logs
      /\ o \in DOMAIN operations /\ operations[o].status # "COMPLETED"
      /\ IsAssigned(e, operations[o].projection)
      /\ \A k \in DOMAIN operations : operations'[k].status =
           IF k = o THEN "IN_PROGRESS" ELSE operations[k].status
  BY <1>1, StartOperationWorks
<1>4. ASSUME NEW l \in DOMAIN logs' \ DOMAIN logs PROVE Timed(l, e, o)'
  <2>1. IsNewLog(l, e, o)
    BY <1>1, <1>2, LogsAfter
  <2>2. logs'[l].employee = e /\ logs'[l].operation = o /\ logs'[l].status = "active"
    BY <1>1, <2>1, NewLogTyped
  <2> QED BY <2>2 DEF Timed, IsOpen
<1>5. ASSUME NEW f, NEW x, NEW l, Timed(l, f, x)'
      PROVE  IF f = e THEN x = o ELSE Timed(l, f, x)
  <2>1. CASE l \in DOMAIN logs
    <3>1. Timed(l, f, x) /\ logs'[l] = t[l]
      BY <1>1, <1>2, <1>5, <2>1, OpenBefore, LogsAfter
    <3> QED BY <1>2, <1>5, <3>1 DEF Timed, OpenLogs
  <2>2. CASE l \notin DOMAIN logs
    BY <1>4, <1>5, <2>2 DEF Timed
  <2> QED BY <2>1, <2>2
<1>6. RunningOf(e)' = {o}
  <2>1. o \in RunningOf(e)'
    BY <1>1, <1>3, <1>4, ShownIfTimedPrimed
  <2>2. \A x : x \in RunningOf(e)' => x = o
    BY <1>5, ShownIfTimedPrimed
  <2> QED BY <2>1, <2>2
<1>7. ASSUME NEW f \in Employees, f # e
      PROVE  RunningOf(f)' = RunningOf(f) /\ o \notin RunningOf(f)
  <2>1. \A x : x \in RunningOf(f)' => x \in RunningOf(f)
    BY <1>5, <1>7, ShownIfTimed, ShownIfTimedPrimed
  <2>2. ASSUME NEW x, NEW l, Timed(l, f, x) PROVE Timed(l, f, x)'
    <3>1. t[l] = logs[l] /\ l \in DOMAIN logs
      BY <1>2, <1>7, <2>2 DEF WorkStep, LogUpdate, Timed
    <3>2. logs'[l] = logs[l] /\ l \in DOMAIN logs'
      BY <1>1, <1>2, <3>1, LogsAfter
    <3> QED BY <2>2, <3>2 DEF Timed
  <2>3. \A x : x \in RunningOf(f) => x \in RunningOf(f)'
    BY <2>2, ShownIfTimed, ShownIfTimedPrimed
  <2>4. o \notin RunningOf(f)
    <3> SUFFICES ASSUME NEW l, Timed(l, f, o) PROVE FALSE
      BY ShownIfTimed
    <3>1. logs[l].employee = projections[operations[o].projection].employee
      BY <1>1 DEF Timed, Inv, RowsAgree
    <3> QED BY <1>3, <1>7, <3>1 DEF IsAssigned, Timed
  <2> QED BY <2>1, <2>3, <2>4
<1>8. Finished' = Finished /\ o \notin Finished
  <2>1. DOMAIN operations' = DOMAIN operations
    BY <1>2 DEF WorkStep, KeepsRows
  <2> QED BY <1>3, <2>1 DEF Finished
<1>9. Running' = [Running EXCEPT ![e] = {o}]
  BY <1>6, <1>7 DEF Running
<1>10. \A f \in Employees \ {e} : o \notin Running[f]
  BY <1>7 DEF Running
<1> QED BY <1>8, <1>9, <1>10 DEF Desk!Start, Running, RunningOf, Finished

\* completeOperationTimer is seen as finishing the operation the log is for; for
\* a log without one nothing is seen.
LEMMA CompleteIsFinish ==
  ASSUME Inv, Inv', NEW e \in Employees, NEW l \in 1..MaxLogs, CompleteOperationTimer(e, l)
  PROVE  [Desk!Next]_<<Running, Finished>>
<1> PICK o : o = logs[l].operation
  OBVIOUS
<1>1. /\ WorkStep(e, NoOperation, logs')
      /\ DOMAIN logs' = DOMAIN logs
      /\ \A k \in DOMAIN logs : k # l => logs'[k] = logs[k]
      /\ l \in OpenLogs(e)
      /\ ~IsOpen(logs'[l])
      /\ \A k \in DOMAIN operations : operations'[k].status =
           IF k = o THEN "COMPLETED" ELSE operations[k].status
  BY CompleteOperationWorks DEF Inv
<1>2. DOMAIN operations' = DOMAIN operations
  BY <1>1 DEF WorkStep, KeepsRows
<1>3. CASE o = NoOperation
  <2>1. o \notin DOMAIN operations
    BY <1>3, OperationAssumption DEF Inv, TypeOK
  <2>2. Finished' = Finished
    BY <1>1, <1>2, <2>1 DEF Finished
  <2> QED BY <1>1, <2>2, WorkIsLeave
<1>4. CASE o # NoOperation
  <2>1. o \in DOMAIN operations /\ Timed(l, e, o)
    BY <1>1, <1>4 DEF Inv, RowsAgree, OpenLogs, Timed
  <2>2. o \in RunningOf(e)
    BY <1>4, <2>1, ShownIfTimed
  <2>3. RunningOf(e) = {o}
    BY <2>2, OneShown
  <2>4. RunningOf(e)' = {}
    <3> SUFFICES ASSUME NEW x, x \in RunningOf(e)' PROVE FALSE
      OBVIOUS
    <3>1. PICK k : x # NoOperation /\ Timed(k, e, x)'
      BY ShownIfTimedPrimed
    <3>2. k # l /\ k \in OpenLogs(e) /\ logs[k].operation = x
      BY <1>1, <3>1 DEF Timed, OpenLogs
    <3> QED BY <1>1, <1>4, <3>1, <3>2 DEF Inv, OneOperationTimer
  <2>5. ASSUME NEW f \in Employees, f # e PROVE RunningOf(f)' = RunningOf(f)
    <3>1. OpenLogs(f)' = OpenLogs(f)
      BY <1>1, <2>5 DEF OpenLogs
    <3>2. \A k \in OpenLogs(f) : logs'[k] = logs[k]
      BY <1>1, <2>5 DEF OpenLogs
    <3> QED BY <3>1, <3>2 DEF RunningOf
  <2>6. Finished' = Finished \cup {o}
    BY <1>1, <1>2, <2>1 DEF Finished
  <2>7. Running' = [Running EXCEPT ![e] = {}] /\ Running[e] = {o}
    BY <2>3, <2>4, <2>5 DEF Running
  <2>8. Desk!Finish(e)
    BY <2>6, <2>7 DEF Desk!Finish, Running, RunningOf, Finished
  <2> QED BY <2>8 DEF Desk!Next
<1> QED BY <1>3, <1>4

\* Deletions withdraw operations, and nothing else is seen of them.
LEMMA DeleteIsWithdraw ==
  ASSUME Inv, Inv', NEW os \in SUBSET Operations,
         DOMAIN operations' = DOMAIN operations \ os,
         \A k \in DOMAIN operations' : operations'[k] = operations[k],
         \A f \in Employees : RunningOf(f)' = RunningOf(f) \ os
  PROVE  Desk!Withdraw(os)
<1>1. Running' = [f \in Employees |-> Running[f] \ os]
  BY DEF Running
<1>2. Finished' = Finished \ os
  BY DEF Finished
<1> QED BY <1>1, <1>2 DEF Desk!Withdraw, Running, RunningOf, Finished

\* Deleting projections withdraws their operations from the desk.
LEMMA DeleteProjectionsMaps ==
  ASSUME Inv, Inv', NEW ps, DeleteProjections(ps)
  PROVE  Desk!Next
<1> PICK os : os = UNION {OperationsOf(p) : p \in ps}
  OBVIOUS
<1>1. os = {o \in DOMAIN operations : operations[o].projection \in ps}
      /\ os \in SUBSET Operations
  BY DEF OperationsOf, Inv, TypeOK
<1>2. DOMAIN operations' = DOMAIN operations \ os
      /\ \A k \in DOMAIN operations' : operations'[k] = operations[k]
  BY DEF DeleteProjections, Delete
<1>3. /\ DOMAIN logs' = {l \in DOMAIN logs : logs[l].projection \notin ps}
      /\ \A l \in DOMAIN logs' : logs'[l] = logs[l]
  BY DEF DeleteProjections, Delete
<1>4. ASSUME NEW f \in Employees PROVE RunningOf(f)' = RunningOf(f) \ os
  <2>1. ASSUME NEW x, x # NoOperation, NEW l, Timed(l, f, x)'
        PROVE  x \notin os /\ Timed(l, f, x)
    BY <1>1, <1>3, <2>1 DEF Timed, Inv, RowsAgree
  <2>2. ASSUME NEW x, x # NoOperation, x \notin os, NEW l, Timed(l, f, x)
        PROVE  Timed(l, f, x)'
    BY <1>1, <1>3, <2>2 DEF Timed, Inv, RowsAgree
  <2>3. \A x : x \in RunningOf(f)' <=> x \in RunningOf(f) /\ x \notin os
    BY <2>1, <2>2, ShownIfTimed, ShownIfTimedPrimed
  <2> QED BY <2>3
<1>5. Desk!Withdraw(os)
  BY <1>1, <1>2, <1>4, DeleteIsWithdraw
<1> QED BY <1>1, <1>5 DEF Desk!Next

\* Deleting one operation withdraws it from the desk.
LEMMA DeleteOperationMaps ==
  ASSUME Inv, Inv', NEW o \in Operations, DeleteOperation(o)
  PROVE  Desk!Next
<1> DEFINE os == {o}
<1>1. os \in SUBSET Operations
  OBVIOUS
<1>2. DOMAIN operations' = DOMAIN operations \ os
      /\ \A k \in DOMAIN operations' : operations'[k] = operations[k]
  BY DEF DeleteOperation, Delete
<1>3. /\ DOMAIN logs' = DOMAIN logs
      /\ \A l \in DOMAIN logs :
           /\ logs'[l].employee = logs[l].employee
           /\ logs'[l].status = logs[l].status
           /\ logs'[l].operation = IF logs[l].operation \in os THEN NoOperation
                                   ELSE logs[l].operation
  BY DEF DeleteOperation, Inv, TypeOK, TimeLog
<1> HIDE DEF os
<1>4. ASSUME NEW f \in Employees PROVE RunningOf(f)' = RunningOf(f) \ os
  <2>1. ASSUME NEW x, x # NoOperation, NEW l, Timed(l, f, x)'
        PROVE  x \notin os /\ Timed(l, f, x)
    BY <1>3, <2>1 DEF Timed, IsOpen
  <2>2. ASSUME NEW x, x # NoOperation, x \notin os, NEW l, Timed(l, f, x)
        PROVE  Timed(l, f, x)'
    BY <1>3, <2>2 DEF Timed, IsOpen
  <2>3. \A x : x \in RunningOf(f)' <=> x \in RunningOf(f) /\ x \notin os
    BY <2>1, <2>2, ShownIfTimed, ShownIfTimedPrimed
  <2> QED BY <2>3
<1>5. Desk!Withdraw(os)
  BY <1>1, <1>2, <1>4, DeleteIsWithdraw
<1> QED BY <1>1, <1>5 DEF Desk!Next

\* The operation timers implement OperationDesk: whatever plain timers, switches,
\* admins and deletions do in between, an employee works on one operation at a
\* time, nobody else on the same one, and a finished operation is not worked on
\* until it is withdrawn.
THEOREM WorkKeepsDesk == Spec => KeepsDesk
<1>1. Init => Desk!Init
  <2> SUFFICES ASSUME Init PROVE Desk!Init
    OBVIOUS
  <2>1. DOMAIN logs = {} /\ DOMAIN operations = {}
    BY DEF Init
  <2>2. \A e \in Employees : RunningOf(e) = {}
    BY <2>1 DEF RunningOf, OpenLogs
  <2>3. Finished = {}
    BY <2>1 DEF Finished
  <2> QED BY <2>2, <2>3 DEF Desk!Init, RunningOf, Finished
<1>2. Inv /\ Inv' /\ [Next]_vars => [Desk!Next]_<<Running, Finished>>
  <2> SUFFICES ASSUME Inv, Inv', Next \/ UNCHANGED vars
               PROVE  [Desk!Next]_<<Running, Finished>>
    OBVIOUS
  <2>1. ASSUME NEW e \in Employees, PlainStep(e)
        PROVE  [Desk!Next]_<<Running, Finished>>
    <3>1. Finished' = Finished
      BY <2>1 DEF PlainStep, Finished
    <3> QED BY <2>1, <3>1, WorkIsLeave DEF PlainStep
  <2>2. ASSUME NEW e \in Employees, NEW o \in Operations, StartOperationTimer(e, o)
        PROVE  Desk!Next
    BY <2>2, StartIsStart DEF Desk!Next
  <2>3. ASSUME NEW e \in Employees, NEW l \in 1..MaxLogs, CompleteOperationTimer(e, l)
        PROVE  [Desk!Next]_<<Running, Finished>>
    BY <2>3, CompleteIsFinish
  <2>4. ASSUME UNCHANGED <<operations, logs>>
        PROVE  UNCHANGED <<Running, Finished>>
    BY <2>4 DEF Running, RunningOf, OpenLogs, Finished
  <2>5. ASSUME NEW p \in Projections, NEW os \in SUBSET (Operations \ DOMAIN operations),
               AddOperations(p, os)
        PROVE  UNCHANGED <<Running, Finished>>
    <3>1. UNCHANGED logs /\ Finished' = Finished
      BY <2>5 DEF AddOperations, Finished
    <3> QED BY <3>1 DEF Running, RunningOf, OpenLogs
  <2>6. ASSUME NEW ps, DeleteProjections(ps) PROVE Desk!Next
    BY <2>6, DeleteProjectionsMaps
  <2>7. ASSUME NEW o \in Operations, DeleteOperation(o) PROVE Desk!Next
    BY <2>7, DeleteOperationMaps
  <2> QED BY <2>1, <2>2, <2>3, <2>4, <2>5, <2>6, <2>7, StepKinds
          DEF CreateProjection, UpdateProjection, Deletes, vars
<1> QED BY <1>1, <1>2, InvHolds, PTL
        DEF Spec, KeepsDesk, Desk!Spec, Desk!deskVars, Running, RunningOf, Finished
-----------------------------------------------------------------------------
(* The single-project rule is lost by switching only *)

\* A work step leaves an employee with at most one open log if it opens none for
\* that employee, or has closed the others.
LEMMA OneKept ==
  ASSUME TypeOK, NEW e \in Employees, NEW o \in Operations \cup {NoOperation}, NEW t,
         WorkStep(e, o, t), NEW f \in Employees, AtMostOneOpen(f),
         \/ f # e
         \/ lastLog' = lastLog
         \/ \A l \in OpenLogs(e) : ~IsOpen(logs'[l])
  PROVE  AtMostOneOpen(f)'
<1> SUFFICES ASSUME NEW k \in OpenLogs(f)', NEW l \in OpenLogs(f)' PROVE k = l
  BY DEF AtMostOneOpen
<1>1. /\ k \in DOMAIN logs' /\ logs'[k].employee = f /\ IsOpen(logs'[k])
      /\ l \in DOMAIN logs' /\ logs'[l].employee = f /\ IsOpen(logs'[l])
  BY DEF OpenLogs
<1>2. ASSUME NEW m \in DOMAIN logs, logs'[m].employee = f, IsOpen(logs'[m])
      PROVE  m \in OpenLogs(f)
  BY <1>2, LogsAfter DEF OpenLogs, LogStep
<1>3. ASSUME NEW m \in DOMAIN logs' \ DOMAIN logs
      PROVE  m = lastLog + 1 /\ logs'[m].employee = e /\ lastLog' # lastLog
  <2>1. IsNewLog(m, e, o)
    BY LogsAfter
  <2>2. m = lastLog + 1
    BY <2>1 DEF IsNewLog
  <2>3. lastLog' # lastLog
    BY <2>2, LogsAfter DEF TypeOK
  <2> QED BY <2>1, <2>2, <2>3, NewLogTyped
<1>4. CASE k \in DOMAIN logs /\ l \in DOMAIN logs
  BY <1>1, <1>2, <1>4 DEF AtMostOneOpen
<1>5. CASE k \notin DOMAIN logs /\ l \notin DOMAIN logs
  BY <1>1, <1>3, <1>5
<1>6. ASSUME NEW m \in OpenLogs(f), IsOpen(logs'[m]), NEW n \in OpenLogs(f)', n \notin DOMAIN logs
      PROVE  FALSE
  BY <1>3, <1>6 DEF OpenLogs
<1> QED BY <1>1, <1>2, <1>4, <1>5, <1>6

StackStep ==
  \A e \in Employees :
    AtMostOneOpen(e) /\ ~AtMostOneOpen(e)' =>
      \E p, q \in Projections : SwitchProjection(e, p, q)

\* RESUME_INCOMPLETE closes the only log there is, or opens none.
LEMMA ResumeIncompleteKeepsOne ==
  ASSUME TypeOK, NEW e \in Employees, NEW p \in Projections, ResumeIncomplete(e, p),
         AtMostOneOpen(e)
  PROVE  lastLog' = lastLog \/ \A l \in OpenLogs(e) : ~IsOpen(logs'[l])
<1>1. PICK qs \in FindFirst({logs[l].projection : l \in OpenLogs(e)} \ {p}) :
        IF OpenLogsOn(e, {p}) = {}
          THEN Create(Finalize(e, qs), NewLog(e, p, NoOperation))
          ELSE lastLog' = lastLog
  BY DEF ResumeIncomplete
<1> SUFFICES ASSUME OpenLogsOn(e, {p}) = {}, NEW l \in OpenLogs(e)
             PROVE  ~IsOpen(logs'[l])
  BY <1>1
<1>2. OpenLogs(e) = {l} /\ logs[l].projection # p
  BY DEF AtMostOneOpen, OpenLogsOn
<1>3. qs = {logs[l].projection}
  BY <1>1, <1>2 DEF FindFirst
<1>4. OpenLogsOn(e, qs) = {l}
  BY <1>2, <1>3 DEF OpenLogsOn
<1>5. l \in DOMAIN logs /\ l \in 1..lastLog /\ lastLog \in Nat
  BY DEF OpenLogs, TypeOK
<1>6. l \in Latest(OpenLogsOn(e, qs))
  BY <1>4, <1>5 DEF Latest
<1>7. Finalize(e, qs)[l] = [logs[l] EXCEPT !.status = "completed", !.breaks = EndAll(@)]
  BY <1>5, <1>6 DEF Finalize
<1>8. logs[l] \in TimeLog /\ IsOpen(logs[l])
  BY DEF OpenLogs, TypeOK
<1>9. Finalize(e, qs)[l].status = "completed"
  BY <1>7, <1>8, LogEndpoints
<1>10. logs'[l] = Finalize(e, qs)[l]
  <2>1. DOMAIN Finalize(e, qs) = DOMAIN logs /\ l # lastLog + 1
    BY <1>5 DEF Finalize
  <2> QED BY <1>1, <1>5, <2>1 DEF Create, Insert
<1> QED BY <1>9, <1>10 DEF IsOpen

\* When requests do not overlap, no handler but SWITCH_PROJECTION takes an employee
\* from at most one open log to two.
THEOREM OnlySwitchStacks == Spec => OnlySwitchStacksLogs
<1>1. Inv /\ [Next]_vars => [StackStep]_vars
  <2> SUFFICES ASSUME Inv, Next PROVE StackStep
    OBVIOUS
  <2> USE DEF Inv
  <2>1. ASSUME NEW e \in Employees, PlainAction(e) PROVE StackStep
    <3> SUFFICES ASSUME NEW f \in Employees, AtMostOneOpen(f), ~AtMostOneOpen(f)'
                 PROVE  \E p, q \in Projections : SwitchProjection(f, p, q)
      BY DEF StackStep
    <3>1. PICK t : WorkStep(e, NoOperation, t)
      BY <2>1, PlainActions DEF PlainStep
    <3>2. f = e /\ lastLog' # lastLog /\ ~\A l \in OpenLogs(e) : ~IsOpen(logs'[l])
      BY <3>1, OneKept
    <3>3. ~\E p \in Projections : StartTimeLog(e, p)
      BY <3>2 DEF StartTimeLog
    <3>4. ~\E p \in Projections : ResumeIncomplete(e, p)
      BY <3>2, ResumeIncompleteKeepsOne
    <3>5. \E p, q \in Projections : SwitchProjection(e, p, q)
      BY <2>1, <3>2, <3>3, <3>4
         DEF PlainAction, Accept, Reject, CompleteProjection, PauseTimeLog, ResumeTimeLog,
             PauseOperationTimer, ResumeOperationTimer
    <3> QED BY <3>2, <3>5
  <2>2. ASSUME NEW e \in Employees, NEW o \in Operations, StartOperationTimer(e, o)
        PROVE  StackStep
    <3>1. PICK t : WorkStep(e, o, t) /\ \A l \in OpenLogs(e) : ~IsOpen(t[l])
      BY <2>2, StartOperationWorks
    <3>2. \A l \in OpenLogs(e) : ~IsOpen(logs'[l])
      BY <3>1, LogsAfter DEF OpenLogs
    <3> QED BY <3>1, <3>2, OneKept DEF StackStep
  <2>3. ASSUME NEW e \in Employees, NEW l \in 1..MaxLogs, CompleteOperationTimer(e, l)
        PROVE  StackStep
    <3>1. WorkStep(e, NoOperation, logs') /\ lastLog' = lastLog
      BY <2>3, CompleteOperationWorks
    <3> QED BY <3>1, OneKept DEF StackStep
  <2>4. ASSUME \A f \in Employees : OpenLogs(f)' \subseteq OpenLogs(f) PROVE StackStep
    BY <2>4 DEF StackStep, AtMostOneOpen
  <2>5. ASSUME UNCHANGED logs PROVE StackStep
    BY <2>4, <2>5 DEF OpenLogs
  <2>6. ASSUME NEW ps, DeleteProjections(ps) PROVE StackStep
    BY <2>4, <2>6 DEF DeleteProjections, Delete, OpenLogs
  <2>7. ASSUME NEW o \in Operations, DeleteOperation(o) PROVE StackStep
    <3>1. DOMAIN logs' = DOMAIN logs
      BY <2>7 DEF DeleteOperation
    <3>2. \A l \in DOMAIN logs :
            logs'[l].employee = logs[l].employee /\ logs'[l].status = logs[l].status
      BY <2>7 DEF DeleteOperation, TypeOK, TimeLog
    <3>3. \A f \in Employees : OpenLogs(f)' \subseteq OpenLogs(f)
      BY <3>1, <3>2 DEF OpenLogs, IsOpen
    <3> QED BY <2>4, <3>3
  <2>8. CASE EmployeeNext
    BY <2>1, <2>2, <2>3, <2>8 DEF EmployeeNext, PlainAction
  <2>9. CASE AdminNext
    BY <2>5, <2>6, <2>7, <2>9
       DEF AdminNext, CreateProjection, UpdateProjection, AddOperations, CancelProjection,
           RemoveUser
  <2> QED BY <2>8, <2>9 DEF Next
<1> QED BY <1>1, InvHolds, PTL DEF Spec, OnlySwitchStacksLogs, StackStep
=============================================================================
