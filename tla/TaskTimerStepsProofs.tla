------------------------ MODULE TaskTimerStepsProofs ------------------------
(***************************************************************************)
(* Theorems about TaskTimerSteps: what holds of the task timer however     *)
(* requests overlap and fail, and what holds when each person waits for an *)
(* answer before asking again.                                             *)
(***************************************************************************)
EXTENDS TaskTimerSteps, TaskTimerProofs, FiniteSetTheorems

-----------------------------------------------------------------------------
(* The inductive invariants.                                               *)

\* A row of the log, whoever has written it.
RowSound(row) ==
  /\ row \in TimeLog
  /\ row.sessionStart <= now
  /\ \A b \in row.openBreaks : b.start <= now
  /\ row.status = "completed" => row.sessionEnd # Null

\* What a request that has come to a step holds.
Request == [pc : PC, emp : Employees \cup {Null}, task : Tasks \cup {Null},
            log : LogIds \cup {Null}, brk : Break \cup {Null}, wasNotStarted : BOOLEAN]

WithoutLog == {"free", "start.find", "start.create"}

RequestSound(x) ==
  /\ x \in Request
  /\ x.pc # "free" => x.emp \in Employees
  /\ x.pc \in {"start.find", "start.create", "start.status"} => x.task \in Tasks
  /\ x.pc \notin WithoutLog /\ x.log \in DOMAIN log => log[x.log].employee = x.emp

Sound ==
  /\ TypeOK
  /\ \A l \in DOMAIN log : RowSound(log[l])
  /\ req \in [Requests -> Request]
  /\ \A r \in Requests : RequestSound(req[r])

\* RaceIsBounded, and that there is something to count.
Counted ==
  \A e \in Employees :
    /\ IsFiniteSet(OpenSessions(e))
    /\ Cardinality(OpenSessions(e)) + Cardinality(PassedCheck(e)) <= Cardinality(Requests)

\* While everyone waits for an answer: one request of each, and one session.
OneEach == \A r, q \in Busy : req[r].emp = req[q].emp => r = q

AtMostOneOpen == \A e \in Employees : \A k, l \in OpenSessions(e) : k = l

PassedFindsNone == \A r \in Requests : req[r].pc = "start.create" => OpenSessions(req[r].emp) = {}

OneAtATime == OneEach /\ AtMostOneOpen /\ PassedFindsNone

\* A row on which nobody is at work.
Settled(row) ==
  /\ row.status = "paused" => \E b \in row.openBreaks : row.openBreaks = {b} /\ b.no = row.breaks
  /\ row.status # "paused" => row.openBreaks = {}
  /\ row.status = "completed" <=> row.sessionEnd # Null

\* A row between the two writes of a request.
Midway == {"pause.status", "resume.status", "switch.close"}

InWork(x, row) ==
  /\ x.pc \in {"pause.break", "resume.break", "switch.find", "switch.break", "start.status"} =>
       Settled(row)
  /\ x.pc = "pause.break" => row.status = "active"
  /\ x.pc = "resume.break" => row.status = "paused" /\ x.brk \in row.openBreaks
  /\ x.pc = "switch.find" => row.status # "completed"
  /\ x.pc = "switch.break" => row.status # "completed" /\ x.brk \in row.openBreaks
  /\ x.pc \in Midway => row.sessionEnd = Null
  /\ x.pc = "pause.status" =>
       /\ row.status = "active"
       /\ \E b \in row.openBreaks : row.openBreaks = {b} /\ b.no = row.breaks
  /\ x.pc = "resume.status" => row.status = "paused" /\ row.openBreaks = {}
  /\ x.pc = "switch.close" => row.status # "completed" /\ row.openBreaks = {}

RowsInOrder ==
  /\ \A r \in Requests :
       req[r].pc \notin WithoutLog /\ req[r].log \in DOMAIN log => InWork(req[r], log[req[r].log])
  /\ \A l \in DOMAIN log :
       (\A r \in Requests : req[r].pc \in Midway => req[r].log # l) => Settled(log[l])

-----------------------------------------------------------------------------
(* What a handler writes to a row.                                         *)

Written(row, s) ==
  \/ s = row
  \/ s = BeginBreak(row)
  \/ \E b \in row.openBreaks : s = CloseBreak(row, b)
  \/ s = Complete(row)
  \/ \E st \in {"active", "paused"} : s = [row EXCEPT !.status = st]

\* It stays a sound row of the same employee, and what has ended stays ended.
LEMMA WrittenRow ==
  ASSUME NEW row, NEW s, now \in Nat, RowSound(row), Written(row, s)
  PROVE  /\ RowSound(s) /\ s.employee = row.employee
         /\ row.sessionEnd # Null => s.sessionEnd # Null
         /\ IsOpen(s) => IsOpen(row)
<1>1. row \in TimeLog /\ row.sessionStart <= now /\ \A b \in row.openBreaks : b.start <= now
  BY DEF RowSound
<1>2. CASE s = row
  BY <1>2
<1>3. CASE s = BeginBreak(row)
  <2> DEFINE b == [no |-> row.breaks + 1, start |-> now]
           B == row.openBreaks \cup {b}
  <2>1. b \in Break /\ b.start = now
    BY <1>1 DEF Break, TimeLog
  <2>2. B \in SUBSET Break /\ row.breaks + 1 \in Nat /\ \A c \in B : c.start <= now
    BY <1>1, <2>1 DEF TimeLog
  <2>3. s = [row EXCEPT !.openBreaks = B, !.breaks = row.breaks + 1]
    BY <1>3 DEF BeginBreak
  <2> HIDE DEF b, B
  <2>4. /\ s \in TimeLog /\ s.employee = row.employee /\ s.sessionEnd = row.sessionEnd
        /\ s.status = row.status /\ s.sessionStart = row.sessionStart /\ s.openBreaks = B
    BY <1>1, <2>2, <2>3 DEF TimeLog
  <2> QED BY <1>1, <2>2, <2>4 DEF RowSound, IsOpen
<1>4. ASSUME NEW b \in row.openBreaks, s = CloseBreak(row, b)
      PROVE  /\ RowSound(s) /\ s.employee = row.employee
             /\ row.sessionEnd # Null => s.sessionEnd # Null
             /\ IsOpen(s) => IsOpen(row)
  <2>1. s \in TimeLog
    BY <1>1, <1>4, CloseBreakIsTimeLog
  <2>2. /\ s.employee = row.employee /\ s.sessionEnd = row.sessionEnd
        /\ s.status = row.status /\ s.sessionStart = row.sessionStart
        /\ s.openBreaks = row.openBreaks \ {b}
    BY <1>1, <1>4 DEF CloseBreak, TimeLog
  <2> QED BY <1>1, <2>1, <2>2 DEF RowSound, IsOpen
<1>5. CASE s = Complete(row)
  <2>1. s \in TimeLog
    BY <1>1, <1>5, CompleteIsTimeLog
  <2>2. /\ s.employee = row.employee /\ s.sessionEnd = now /\ s.status = "completed"
        /\ s.sessionStart = row.sessionStart /\ s.openBreaks = row.openBreaks
    BY <1>1, <1>5 DEF Complete, TimeLog
  <2>3. now # Null
    BY NullAssumption
  <2> QED BY <1>1, <2>1, <2>2, <2>3 DEF RowSound, IsOpen
<1>6. ASSUME NEW st \in {"active", "paused"}, s = [row EXCEPT !.status = st]
      PROVE  /\ RowSound(s) /\ s.employee = row.employee
             /\ row.sessionEnd # Null => s.sessionEnd # Null
             /\ IsOpen(s) => IsOpen(row)
  <2>1. /\ s \in TimeLog /\ s.employee = row.employee /\ s.sessionEnd = row.sessionEnd
        /\ s.status = st /\ s.sessionStart = row.sessionStart /\ s.openBreaks = row.openBreaks
    BY <1>1, <1>6 DEF TimeLog
  <2>2. row.sessionEnd = Null => row.status \in {"active", "paused"}
    BY <1>1 DEF RowSound, TimeLog
  <2> QED BY <1>1, <2>1, <2>2 DEF RowSound, IsOpen
<1> QED BY <1>2, <1>3, <1>4, <1>5, <1>6 DEF Written

\* A new row.
LEMMA NewRow ==
  ASSUME NEW e \in Employees, NEW t \in Tasks, now \in Nat
  PROVE  /\ RowSound(NewLog(e, t)) /\ Settled(NewLog(e, t))
         /\ NewLog(e, t).employee = e /\ NewLog(e, t).sessionEnd = Null
         /\ IsOpen(NewLog(e, t))
BY DEF NewLog, RowSound, Settled, TimeLog, IsOpen

-----------------------------------------------------------------------------
(* How requests go on.                                                     *)

OnlyMoves(r) == req' \in [Requests -> Request] /\ \A q \in Requests \ {r} : req'[q] = req[q]

\* With its next call, for the person and the session it is about.
GoesOn(r) ==
  /\ req'[r].emp = req[r].emp /\ req'[r].task = req[r].task /\ req'[r].log = req[r].log
  /\ \/ req[r].pc = "start.find" /\ req'[r].pc = "start.create"
     \/ /\ req[r].pc \notin WithoutLog
        /\ req'[r].pc \in {"pause.status", "resume.status", "switch.break", "switch.close"}

Goes(r) == OnlyMoves(r) /\ (req'[r] = Free \/ GoesOn(r))

\* An answered request holds nothing.
LEMMA FreeFacts ==
  /\ Free \in Request /\ Free.pc = "free" /\ Free.log = Null /\ Free.emp = Null
  /\ RequestSound(Free)
BY DEF Free, Request, RequestSound, PC, WithoutLog

LEMMA AnswerFacts ==
  ASSUME req \in [Requests -> Request], NEW r \in Requests, Answer(r)
  PROVE  OnlyMoves(r) /\ req'[r] = Free /\ Goes(r)
BY FreeFacts DEF Answer, OnlyMoves, Goes

\* A request that goes on keeps what it holds.
LEMMA ContinueFacts ==
  ASSUME req \in [Requests -> Request], NEW r \in Requests, NEW pc \in PC, Continue(r, pc)
  PROVE  /\ OnlyMoves(r) /\ req'[r].pc = pc
         /\ req'[r].emp = req[r].emp /\ req'[r].task = req[r].task
         /\ req'[r].log = req[r].log /\ req'[r].brk = req[r].brk
<1> DEFINE x == [req[r] EXCEPT !.pc = pc]
<1>1. x \in Request /\ x.pc = pc /\ x.emp = req[r].emp /\ x.task = req[r].task
      /\ x.log = req[r].log /\ x.brk = req[r].brk
  BY DEF Request
<1>2. req' = [req EXCEPT ![r] = x]
  BY DEF Continue
<1> HIDE DEF x
<1> QED BY <1>1, <1>2 DEF OnlyMoves

\* Requests are sound after one has gone on and rows were written.
LEMMA GoesSound ==
  ASSUME Sound, NEW r \in Requests, Goes(r), now' = now, TypeOK',
         \A l \in DOMAIN log' : RowSound(log'[l]),
         DOMAIN log' \subseteq DOMAIN log,
         \A l \in DOMAIN log' : log'[l].employee = log[l].employee
  PROVE  Sound'
<1>1. \A l \in DOMAIN log' : RowSound(log[l])'
  BY DEF RowSound
<1>2. ASSUME NEW q \in Requests PROVE RequestSound(req[q])'
  <2>1. RequestSound(req[q]) /\ req'[q] \in Request
    BY DEF Sound, Goes, OnlyMoves
  <2>2. CASE req'[q] = req[q]
    BY <2>1, <2>2 DEF RequestSound
  <2>3. CASE q = r /\ req'[r] = Free
    BY <2>3, FreeFacts DEF RequestSound, WithoutLog
  <2>4. CASE q = r /\ GoesOn(r)
    BY <2>1, <2>4 DEF RequestSound, GoesOn, WithoutLog
  <2> QED BY <2>2, <2>3, <2>4 DEF Goes, OnlyMoves
<1> QED BY <1>1, <1>2 DEF Sound, Goes, OnlyMoves

\* Nothing but a request has changed, or a task as well.
LEMMA MoveSound ==
  ASSUME Sound, NEW r \in Requests, Goes(r), UNCHANGED <<log, now>>, TypeOK'
  PROVE  Sound'
BY GoesSound DEF Sound

\* A row was written: its session is no more open than before.
Writes(r, row) ==
  /\ UpdateLog(r, row) /\ Written(log[req[r].log], row)
  /\ UNCHANGED <<task, now>>

SessionsKept ==
  /\ \A e \in Employees : OpenSessions(e)' \subseteq OpenSessions(e)
  /\ \A l \in DOMAIN log \cap DOMAIN log' :
       log[l].sessionEnd # Null => log'[l].sessionEnd # Null

LEMMA WriteRows ==
  ASSUME Sound, NEW r \in Requests, NEW row, Writes(r, row)
  PROVE  /\ \A l \in DOMAIN log' : RowSound(log'[l]) /\ log'[l].employee = log[l].employee
         /\ DOMAIN log' = DOMAIN log /\ TypeOK' /\ SessionsKept
<1>1. /\ req[r].log \in DOMAIN log /\ log' = [log EXCEPT ![req[r].log] = row]
      /\ Written(log[req[r].log], row) /\ now \in Nat
  BY DEF Writes, UpdateLog, Sound, TypeOK
<1>2. \A l \in DOMAIN log : RowSound(log[l])
  BY DEF Sound
<1>3. /\ RowSound(row) /\ row.employee = log[req[r].log].employee
      /\ log[req[r].log].sessionEnd # Null => row.sessionEnd # Null
      /\ IsOpen(row) => IsOpen(log[req[r].log])
  BY <1>1, <1>2, WrittenRow
<1>4. /\ DOMAIN log' = DOMAIN log
      /\ \A l \in DOMAIN log : l # req[r].log => log'[l] = log[l]
      /\ log'[req[r].log] = row
  BY <1>1
<1>5. \A l \in DOMAIN log : /\ RowSound(log'[l]) /\ log'[l].employee = log[l].employee
                            /\ log[l].sessionEnd # Null => log'[l].sessionEnd # Null
                            /\ IsOpen(log'[l]) => IsOpen(log[l])
  BY <1>2, <1>3, <1>4
<1>6. SessionsKept
  BY <1>4, <1>5 DEF SessionsKept, OpenSessions
<1>7. TypeOK'
  <2>1. log' \in [DOMAIN log' -> TimeLog]
    BY <1>1, <1>4, <1>5 DEF RowSound
  <2> QED BY <1>4, <2>1 DEF Sound, TypeOK, Writes
<1> QED BY <1>4, <1>5, <1>6, <1>7

LEMMA WriteSound ==
  ASSUME Sound, NEW r \in Requests, NEW row, Writes(r, row), Goes(r)
  PROVE  Sound' /\ SessionsKept
<1>1. now' = now
  BY DEF Writes
<1> QED BY <1>1, WriteRows, GoesSound


-----------------------------------------------------------------------------
(* The kinds of step there are.                                            *)

\* A request arrives, with what its first read has found.
Arrives(r, x) ==
  /\ MayArrive(r, x.emp)
  /\ x.pc \in {"start.find", "pause.break", "resume.break", "resume.status", "switch.find"}
  /\ RequestSound(x)
  /\ x.pc # "start.find" =>
       x.log \in DOMAIN log /\ (Settled(log[x.log]) => InWork(x, log[x.log]))
  /\ req' = [req EXCEPT ![r] = x]
  /\ UNCHANGED <<task, log, now>>

\* A request goes on, or is answered, without having written to the time logs;
\* unless it has failed it does not stop between its writes.
KeptInOrder(r) ==
  req[r].pc \notin WithoutLog /\ req[r].log \in DOMAIN log /\ InWork(req[r], log[req[r].log]) =>
    req[r].pc \notin Midway /\ InWork(req'[r], log[req[r].log])

Moves(r) ==
  /\ Goes(r) /\ r \in Busy
  /\ req'[r].pc = "start.create" => OpenSessions(req[r].emp) = {}
  /\ Failures \/ KeptInOrder(r)
  /\ UNCHANGED <<log, now>> /\ TypeOK'

\* It writes the row of its session.
Updates(r, row) ==
  /\ Goes(r) /\ req[r].pc \notin WithoutLog
  /\ Writes(r, row)
  /\ InWork(req[r], log[req[r].log]) =>
       \/ req'[r] = Free /\ Settled(row)
       \/ req'[r].pc \in Midway /\ InWork(req'[r], row)

\* It creates its session.
Creates(r, l) ==
  /\ req[r].pc = "start.create" /\ l \in FreshLogIds
  /\ log' = Insert(log, l, NewLog(req[r].emp, req[r].task))
  /\ OnlyMoves(r)
  /\ \/ req'[r] = Free
     \/ /\ req'[r].pc = "start.status" /\ req'[r].log = l
        /\ req'[r].emp = req[r].emp /\ req'[r].task = req[r].task
  /\ UNCHANGED <<task, now>>

\* Rows are removed, or only tasks have changed; starts that are not to go on
\* have ended.
Administers ==
  /\ now' = now /\ TypeOK' /\ req' \in [Requests -> Request]
  /\ \A q \in Requests : req'[q] = req[q] \/ (req[q].pc \in WithoutLog /\ req'[q] = Free)
  /\ \/ log' = log
     \/ \E L : log' = Delete(log, L)

Kind ==
  \/ \E r \in Requests, x \in Request : Arrives(r, x)
  \/ \E r \in Requests : Moves(r)
  \/ \E r \in Requests, row \in TimeLog : Updates(r, row)
  \/ \E r \in Requests, l \in LogIds : Creates(r, l)
  \/ Administers

\* What a request reads of the rows is about a row of its own.
LEMMA ReadLog ==
  ASSUME Sound, NEW e, NEW l \in LogsOfEmployee(e)
  PROVE  l \in LogIds /\ l \in DOMAIN log /\ log[l].employee = e /\ log[l] \in TimeLog
BY DEF Sound, LogsOfEmployee, RowSound, TypeOK

LEMMA StartReadKind ==
  ASSUME Sound, NEW r \in Requests, NEW e \in Employees, NEW t \in Tasks, StartRead(r, e, t)
  PROVE  \E x \in Request : Arrives(r, x)
<1> DEFINE x == [Free EXCEPT !.pc = "start.find", !.emp = e, !.task = t,
                    !.wasNotStarted = task[t].personStatus = "NOT_STARTED"]
<1>1. x \in Request /\ x.pc = "start.find" /\ x.emp = e /\ x.task = t
  BY DEF Free, Request, PC
<1>2. MayArrive(r, e) /\ req' = [req EXCEPT ![r] = x] /\ UNCHANGED <<task, log, now>>
  BY DEF StartRead
<1> HIDE DEF x
<1>3. RequestSound(x)
  BY <1>1 DEF RequestSound, WithoutLog
<1> QED BY <1>1, <1>2, <1>3 DEF Arrives

LEMMA PauseReadKind ==
  ASSUME Sound, NEW r \in Requests, NEW e \in Employees, NEW l, PauseRead(r, e, l)
  PROVE  \E x \in Request : Arrives(r, x)
<1> DEFINE x == [Free EXCEPT !.pc = "pause.break", !.emp = e, !.log = l]
<1>1. /\ l \in LogIds /\ l \in DOMAIN log /\ log[l].employee = e
      /\ log[l] \in TimeLog /\ log[l].status = "active"
  BY ReadLog DEF PauseRead
<1>2. x \in Request /\ x.pc = "pause.break" /\ x.emp = e /\ x.log = l
  BY <1>1 DEF Free, Request, PC
<1>3. MayArrive(r, e) /\ req' = [req EXCEPT ![r] = x] /\ UNCHANGED <<task, log, now>>
  BY DEF PauseRead
<1> HIDE DEF x
<1>4. RequestSound(x)
  BY <1>1, <1>2 DEF RequestSound, WithoutLog
<1>5. Settled(log[l]) => InWork(x, log[l])
  BY <1>1, <1>2 DEF InWork, Midway
<1> QED BY <1>1, <1>2, <1>3, <1>4, <1>5 DEF Arrives

LEMMA ResumeReadKind ==
  ASSUME Sound, NEW r \in Requests, NEW e \in Employees, NEW l, ResumeRead(r, e, l)
  PROVE  \E x \in Request : Arrives(r, x)
<1>1. /\ l \in LogIds /\ l \in DOMAIN log /\ log[l].employee = e
      /\ log[l] \in TimeLog /\ log[l].status = "paused"
  BY ReadLog DEF ResumeRead
<1>2. MayArrive(r, e) /\ UNCHANGED <<task, log, now>>
  BY DEF ResumeRead
<1>3. ASSUME NEW b \in LatestIfOpen(log[l]),
             req' = [req EXCEPT ![r] = [Free EXCEPT !.pc = "resume.break", !.emp = e,
                                                    !.log = l, !.brk = b]]
      PROVE  \E x \in Request : Arrives(r, x)
  <2> DEFINE x == [Free EXCEPT !.pc = "resume.break", !.emp = e, !.log = l, !.brk = b]
  <2>1. b \in log[l].openBreaks /\ b \in Break
    BY <1>1 DEF LatestIfOpen, TimeLog
  <2>2. x \in Request /\ x.pc = "resume.break" /\ x.emp = e /\ x.log = l /\ x.brk = b
    BY <1>1, <2>1 DEF Free, Request, PC
  <2>3. req' = [req EXCEPT ![r] = x]
    BY <1>3
  <2> HIDE DEF x
  <2>4. RequestSound(x)
    BY <1>1, <2>2 DEF RequestSound, WithoutLog
  <2>5. Settled(log[l]) => InWork(x, log[l])
    BY <1>1, <2>1, <2>2 DEF InWork, Midway
  <2> QED BY <1>1, <1>2, <2>2, <2>3, <2>4, <2>5 DEF Arrives
<1>4. ASSUME LatestIfOpen(log[l]) = {},
             req' = [req EXCEPT ![r] = [Free EXCEPT !.pc = "resume.status", !.emp = e,
                                                    !.log = l]]
      PROVE  \E x \in Request : Arrives(r, x)
  <2> DEFINE x == [Free EXCEPT !.pc = "resume.status", !.emp = e, !.log = l]
  <2>1. x \in Request /\ x.pc = "resume.status" /\ x.emp = e /\ x.log = l
    BY <1>1 DEF Free, Request, PC
  <2>2. req' = [req EXCEPT ![r] = x]
    BY <1>4
  <2> HIDE DEF x
  <2>3. RequestSound(x)
    BY <1>1, <2>1 DEF RequestSound, WithoutLog
  <2>4. ~ Settled(log[l])
    BY <1>1, <1>4 DEF Settled, LatestIfOpen
  <2> QED BY <1>1, <1>2, <2>1, <2>2, <2>3, <2>4 DEF Arrives
<1> QED BY <1>3, <1>4 DEF ResumeRead

LEMMA SwitchReadKind ==
  ASSUME Sound, NEW r \in Requests, NEW e \in Employees, NEW l, SwitchRead(r, e, l)
  PROVE  \E x \in Request : Arrives(r, x)
<1> DEFINE x == [Free EXCEPT !.pc = "switch.find", !.emp = e, !.log = l]
<1>1. /\ l \in LogIds /\ l \in DOMAIN log /\ log[l].employee = e
      /\ log[l] \in TimeLog /\ log[l].status # "completed"
  BY ReadLog DEF SwitchRead
<1>2. x \in Request /\ x.pc = "switch.find" /\ x.emp = e /\ x.log = l
  BY <1>1 DEF Free, Request, PC
<1>3. MayArrive(r, e) /\ req' = [req EXCEPT ![r] = x] /\ UNCHANGED <<task, log, now>>
  BY DEF SwitchRead
<1> HIDE DEF x
<1>4. RequestSound(x)
  BY <1>1, <1>2 DEF RequestSound, WithoutLog
<1>5. Settled(log[l]) => InWork(x, log[l])
  BY <1>1, <1>2 DEF InWork, Midway
<1> QED BY <1>1, <1>2, <1>3, <1>4, <1>5 DEF Arrives

\* Answering, when nothing but the answer happens.
LEMMA AnswerKind ==
  ASSUME Sound, NEW r \in Busy, Answer(r), UNCHANGED <<task, log, now>>,
         \/ Failures
         \/ req[r].pc \in WithoutLog
         \/ req[r].log \notin DOMAIN log
  PROVE  Moves(r)
<1>1. r \in Requests /\ req'[r] = Free /\ Goes(r)
  BY AnswerFacts DEF Sound, Busy
<1>2. req'[r].pc # "start.create"
  BY <1>1, FreeFacts
<1>3. TypeOK'
  BY DEF Sound, TypeOK
<1> QED BY <1>1, <1>2, <1>3 DEF Moves, KeptInOrder

LEMMA StartFindKind ==
  ASSUME Sound, NEW r \in Requests, StartFind(r)
  PROVE  Moves(r)
<1>1. r \in Busy /\ req[r].pc = "start.find" /\ req[r].pc \in WithoutLog
  BY DEF StartFind, Busy, WithoutLog
<1>2. CASE Answer(r)
  BY <1>1, <1>2, AnswerKind DEF StartFind
<1>3. CASE OpenSessions(req[r].emp) = {} /\ Continue(r, "start.create")
  <2>1. "start.create" \in PC
    BY DEF PC
  <2>2. Goes(r)
    BY <1>1, <1>3, <2>1, ContinueFacts DEF Goes, GoesOn, Sound
  <2>3. TypeOK' /\ UNCHANGED <<log, now>>
    BY DEF StartFind, Sound, TypeOK
  <2> QED BY <1>1, <1>3, <2>2, <2>3 DEF Moves, KeptInOrder
<1> QED BY <1>2, <1>3 DEF StartFind

LEMMA StartCreateKind ==
  ASSUME Sound, NEW r \in Requests, StartCreate(r)
  PROVE  Moves(r) \/ \E l \in LogIds : Creates(r, l)
<1>1. /\ r \in Busy /\ req[r].pc = "start.create" /\ req[r].pc \in WithoutLog
      /\ UNCHANGED <<task, now>>
  BY DEF StartCreate, Busy, WithoutLog
<1>2. CASE Answer(r) /\ UNCHANGED log
  BY <1>1, <1>2, AnswerKind
<1>3. ASSUME NEW l \in FreshLogIds,
             log' = Insert(log, l, NewLog(req[r].emp, req[r].task)),
             IF req[r].wasNotStarted
               THEN req' = [req EXCEPT ![r].pc = "start.status", ![r].log = l]
               ELSE Answer(r)
      PROVE  \E k \in LogIds : Creates(r, k)
  <2>1. l \in LogIds
    BY DEF FreshLogIds
  <2>2. CASE Answer(r)
    <3>1. OnlyMoves(r) /\ req'[r] = Free
      BY <2>2, AnswerFacts DEF Sound
    <3> QED BY <1>1, <1>3, <2>1, <3>1 DEF Creates
  <2>3. CASE req' = [req EXCEPT ![r].pc = "start.status", ![r].log = l]
    <3> DEFINE x == [req[r] EXCEPT !.pc = "start.status", !.log = l]
    <3>1. req[r] \in Request /\ req \in [Requests -> Request]
      BY DEF Sound
    <3>2. /\ x \in Request /\ x.pc = "start.status" /\ x.log = l
          /\ x.emp = req[r].emp /\ x.task = req[r].task
      BY <2>1, <3>1 DEF Request, PC
    <3>3. req' = [req EXCEPT ![r] = x]
      BY <2>3, <3>1
    <3> HIDE DEF x
    <3>4. OnlyMoves(r) /\ req'[r] = x
      BY <3>1, <3>2, <3>3 DEF OnlyMoves
    <3> QED BY <1>1, <1>3, <2>1, <3>2, <3>4 DEF Creates
  <2> QED BY <1>3, <2>2, <2>3
<1> QED BY <1>2, <1>3 DEF StartCreate

LEMMA StartStatusKind ==
  ASSUME Sound, NEW r \in Requests, StartStatus(r)
  PROVE  Moves(r)
<1>1. /\ r \in Busy /\ req[r].pc = "start.status" /\ UNCHANGED <<log, now>> /\ Answer(r)
  BY DEF StartStatus, Busy
<1>2. Goes(r) /\ req'[r] = Free
  BY <1>1, AnswerFacts DEF Sound
<1>3. req'[r].pc # "start.create"
  BY <1>2, FreeFacts
<1>4. DOMAIN task' \subseteq Tasks /\ task' \in [DOMAIN task' -> Task]
  <2>1. task \in [DOMAIN task -> Task] /\ DOMAIN task \subseteq Tasks
    BY DEF Sound, TypeOK
  <2>2. "IN_PROGRESS" \in PersonStatus
    BY DEF PersonStatus
  <2>3. ASSUME req[r].task \in DOMAIN task
        PROVE  [task EXCEPT ![req[r].task].personStatus = "IN_PROGRESS"] \in [DOMAIN task -> Task]
    BY <2>1, <2>2, <2>3 DEF Task
  <2>4. CASE req[r].task \in DOMAIN task
    BY <2>1, <2>3, <2>4 DEF StartStatus
  <2>5. CASE req[r].task \notin DOMAIN task
    BY <2>1, <2>5 DEF StartStatus
  <2> QED BY <2>4, <2>5
<1>5. TypeOK'
  BY <1>1, <1>4 DEF Sound, TypeOK
<1>6. KeptInOrder(r)
  BY <1>1, <1>2, FreeFacts DEF KeptInOrder, InWork, Midway
<1> QED BY <1>1, <1>2, <1>3, <1>5, <1>6 DEF Moves

\* The row that is written has been read in the same call.
LEMMA OwnRow ==
  ASSUME Sound, NEW r \in Requests, NEW row, UpdateLog(r, row)
  PROVE  /\ log[req[r].log] \in TimeLog /\ RowSound(log[req[r].log])
         /\ req[r].log \in DOMAIN log
         /\ Written(log[req[r].log], row) => row \in TimeLog
<1>1. /\ req[r].log \in DOMAIN log /\ RowSound(log[req[r].log]) /\ now \in Nat
  BY DEF UpdateLog, Sound, TypeOK
<1>2. Written(log[req[r].log], row) => row \in TimeLog
  BY <1>1, WrittenRow DEF RowSound
<1> QED BY <1>1, <1>2 DEF RowSound

\* The log is gone: Prisma throws, and the request is answered.
LEMMA GoneKind ==
  ASSUME Sound, NEW r \in Requests, req[r].pc # "free", LogIsGone(r), UNCHANGED <<task, now>>
  PROVE  Moves(r)
<1>1. r \in Busy /\ Answer(r) /\ UNCHANGED <<task, log, now>> /\ req[r].log \notin DOMAIN log
  BY DEF LogIsGone, Busy
<1> QED BY <1>1, AnswerKind

\* A write after which the request goes on to its next one.
LEMMA FirstWriteKind ==
  ASSUME Sound, NEW r \in Requests, NEW row, NEW pc \in {"pause.status", "resume.status", "switch.close"},
         req[r].pc \notin WithoutLog, UpdateLog(r, row), Continue(r, pc), UNCHANGED <<task, now>>,
         Written(log[req[r].log], row),
         \A x \in Request : InWork(req[r], log[req[r].log]) /\ x.pc = pc => InWork(x, row)
  PROVE  \E s \in TimeLog : Updates(r, s)
<1>1. pc \in PC /\ pc \in Midway /\ req \in [Requests -> Request]
  BY DEF PC, Midway, Sound
<1>2. /\ OnlyMoves(r) /\ req'[r].pc = pc /\ req'[r] \in Request
      /\ req'[r].emp = req[r].emp /\ req'[r].task = req[r].task /\ req'[r].log = req[r].log
  BY <1>1, ContinueFacts DEF OnlyMoves
<1>3. Goes(r)
  BY <1>2 DEF Goes, GoesOn
<1>4. row \in TimeLog /\ Writes(r, row)
  BY OwnRow DEF Writes
<1> QED BY <1>1, <1>2, <1>3, <1>4 DEF Updates

\* A write with which the request is answered.
LEMMA LastWriteKind ==
  ASSUME Sound, NEW r \in Requests, NEW row,
         req[r].pc \notin WithoutLog, UpdateLog(r, row), Answer(r), UNCHANGED <<task, now>>,
         Written(log[req[r].log], row),
         InWork(req[r], log[req[r].log]) => Settled(row)
  PROVE  \E s \in TimeLog : Updates(r, s)
<1>1. Goes(r) /\ req'[r] = Free
  BY AnswerFacts DEF Sound
<1>2. row \in TimeLog /\ Writes(r, row)
  BY OwnRow DEF Writes
<1> QED BY <1>1, <1>2 DEF Updates

LEMMA PauseBreakKind ==
  ASSUME Sound, NEW r \in Requests, PauseBreak(r)
  PROVE  Moves(r) \/ \E s \in TimeLog : Updates(r, s)
<1>1. req[r].pc = "pause.break" /\ req[r].pc \notin WithoutLog /\ UNCHANGED <<task, now>>
  BY DEF PauseBreak, WithoutLog
<1>2. CASE LogIsGone(r)
  BY <1>1, <1>2, GoneKind
<1>3. CASE UpdateLog(r, BeginBreak(log[req[r].log])) /\ Continue(r, "pause.status")
  <2> DEFINE old == log[req[r].log]
             row == BeginBreak(old)
             b == [no |-> old.breaks + 1, start |-> now]
  <2>1. old \in TimeLog /\ Written(old, row)
    BY <1>3, OwnRow DEF Written
  <2>2. /\ row.openBreaks = old.openBreaks \cup {b} /\ row.breaks = old.breaks + 1
        /\ row.status = old.status /\ row.sessionEnd = old.sessionEnd
        /\ b.no = old.breaks + 1
    BY <2>1 DEF BeginBreak, TimeLog
  <2> HIDE DEF row, b
  <2>3. ASSUME InWork(req[r], old)
        PROVE  /\ row.openBreaks = {b} /\ b.no = row.breaks
               /\ row.status = "active" /\ row.sessionEnd = Null
    BY <1>1, <2>2, <2>3 DEF InWork, Settled
  <2>4. ASSUME NEW x \in Request, InWork(req[r], old), x.pc = "pause.status"
        PROVE  InWork(x, row)
    BY <2>3, <2>4 DEF InWork, Midway
  <2> HIDE DEF old
  <2>5. UpdateLog(r, row) /\ Written(log[req[r].log], row)
    BY <1>3, <2>1 DEF old, row
  <2>6. \A x \in Request : InWork(req[r], log[req[r].log]) /\ x.pc = "pause.status" => InWork(x, row)
    BY <2>4 DEF old
  <2> QED BY <1>1, <1>3, <2>5, <2>6, FirstWriteKind
<1> QED BY <1>1, <1>2, <1>3 DEF PauseBreak

\* Closing a break, for resumeTimer and switchTimer.
LEMMA CloseIfOpenRow ==
  ASSUME Sound, NEW r \in Requests, req[r].pc \in {"resume.break", "switch.break"},
         req[r].log \in DOMAIN log
  PROVE  LET old == log[req[r].log]
             row == CloseIfOpen(old, req[r].brk)
         IN  /\ Written(old, row)
             /\ InWork(req[r], old) =>
                  /\ row.openBreaks = {} /\ row.status = "paused" /\ row.sessionEnd = Null
<1> DEFINE old == log[req[r].log]
           b == req[r].brk
           row == CloseIfOpen(old, b)
<1>1. old \in TimeLog
  BY DEF Sound, RowSound
<1>2. Written(old, row)
  BY DEF CloseIfOpen, Written
<1>3. ASSUME InWork(req[r], old)
      PROVE  row.openBreaks = {} /\ row.status = "paused" /\ row.sessionEnd = Null
  <2>1. Settled(old) /\ b \in old.openBreaks
    BY <1>3 DEF InWork
  <2>2. old.status = "paused" /\ old.openBreaks = {b} /\ old.sessionEnd = Null
    BY <1>1, <2>1 DEF Settled
  <2>3. row = CloseBreak(old, b)
    BY <2>1 DEF CloseIfOpen
  <2> QED BY <1>1, <2>2, <2>3 DEF CloseBreak, TimeLog
<1> QED BY <1>2, <1>3

LEMMA ResumeBreakKind ==
  ASSUME Sound, NEW r \in Requests, ResumeBreak(r)
  PROVE  Moves(r) \/ \E s \in TimeLog : Updates(r, s)
<1>1. req[r].pc = "resume.break" /\ req[r].pc \notin WithoutLog /\ UNCHANGED <<task, now>>
  BY DEF ResumeBreak, WithoutLog
<1>2. CASE LogIsGone(r)
  BY <1>1, <1>2, GoneKind
<1>3. CASE UpdateLog(r, CloseIfOpen(log[req[r].log], req[r].brk)) /\ Continue(r, "resume.status")
  <2> DEFINE row == CloseIfOpen(log[req[r].log], req[r].brk)
  <2>1. /\ Written(log[req[r].log], row)
        /\ InWork(req[r], log[req[r].log]) =>
             row.openBreaks = {} /\ row.status = "paused" /\ row.sessionEnd = Null
    BY <1>1, <1>3, OwnRow, CloseIfOpenRow
  <2>2. UpdateLog(r, row)
    BY <1>3
  <2> HIDE DEF row
  <2>3. \A x \in Request : InWork(req[r], log[req[r].log]) /\ x.pc = "resume.status" => InWork(x, row)
    BY <2>1 DEF InWork, Midway
  <2> QED BY <1>1, <1>3, <2>1, <2>2, <2>3, FirstWriteKind
<1> QED BY <1>1, <1>2, <1>3 DEF ResumeBreak

LEMMA SwitchBreakKind ==
  ASSUME Sound, NEW r \in Requests, SwitchBreak(r)
  PROVE  Moves(r) \/ \E s \in TimeLog : Updates(r, s)
<1>1. req[r].pc = "switch.break" /\ req[r].pc \notin WithoutLog /\ UNCHANGED <<task, now>>
  BY DEF SwitchBreak, WithoutLog
<1>2. CASE LogIsGone(r)
  BY <1>1, <1>2, GoneKind
<1>3. CASE UpdateLog(r, CloseIfOpen(log[req[r].log], req[r].brk)) /\ Continue(r, "switch.close")
  <2> DEFINE row == CloseIfOpen(log[req[r].log], req[r].brk)
  <2>1. /\ Written(log[req[r].log], row)
        /\ InWork(req[r], log[req[r].log]) =>
             row.openBreaks = {} /\ row.status = "paused" /\ row.sessionEnd = Null
    BY <1>1, <1>3, OwnRow, CloseIfOpenRow
  <2>2. UpdateLog(r, row)
    BY <1>3
  <2> HIDE DEF row
  <2>3. \A x \in Request : InWork(req[r], log[req[r].log]) /\ x.pc = "switch.close" => InWork(x, row)
    BY <2>1 DEF InWork, Midway
  <2> QED BY <1>1, <1>3, <2>1, <2>2, <2>3, FirstWriteKind
<1> QED BY <1>1, <1>2, <1>3 DEF SwitchBreak

LEMMA PauseStatusKind ==
  ASSUME Sound, NEW r \in Requests, PauseStatus(r)
  PROVE  Moves(r) \/ \E s \in TimeLog : Updates(r, s)
<1>1. req[r].pc = "pause.status" /\ req[r].pc \notin WithoutLog /\ UNCHANGED <<task, now>>
  BY DEF PauseStatus, WithoutLog
<1>2. CASE LogIsGone(r)
  BY <1>1, <1>2, GoneKind
<1>3. CASE UpdateLog(r, [log[req[r].log] EXCEPT !.status = "paused"]) /\ Answer(r)
  <2> DEFINE row == [log[req[r].log] EXCEPT !.status = "paused"]
  <2>1. Written(log[req[r].log], row) /\ UpdateLog(r, row)
    BY <1>3 DEF Written
  <2>2. log[req[r].log] \in TimeLog
    BY <1>3, OwnRow
  <2>3. /\ row.openBreaks = log[req[r].log].openBreaks /\ row.breaks = log[req[r].log].breaks
        /\ row.sessionEnd = log[req[r].log].sessionEnd /\ row.status = "paused"
    BY <2>2 DEF TimeLog
  <2> HIDE DEF row
  <2>4. InWork(req[r], log[req[r].log]) => Settled(row)
    BY <1>1, <2>3 DEF InWork, Midway, Settled
  <2> QED BY <1>1, <1>3, <2>1, <2>4, LastWriteKind
<1> QED BY <1>1, <1>2, <1>3 DEF PauseStatus

LEMMA ResumeStatusKind ==
  ASSUME Sound, NEW r \in Requests, ResumeStatus(r)
  PROVE  Moves(r) \/ \E s \in TimeLog : Updates(r, s)
<1>1. req[r].pc = "resume.status" /\ req[r].pc \notin WithoutLog /\ UNCHANGED <<task, now>>
  BY DEF ResumeStatus, WithoutLog
<1>2. CASE LogIsGone(r)
  BY <1>1, <1>2, GoneKind
<1>3. CASE UpdateLog(r, [log[req[r].log] EXCEPT !.status = "active"]) /\ Answer(r)
  <2> DEFINE row == [log[req[r].log] EXCEPT !.status = "active"]
  <2>1. Written(log[req[r].log], row) /\ UpdateLog(r, row)
    BY <1>3 DEF Written
  <2>2. log[req[r].log] \in TimeLog
    BY <1>3, OwnRow
  <2>3. /\ row.openBreaks = log[req[r].log].openBreaks
        /\ row.sessionEnd = log[req[r].log].sessionEnd /\ row.status = "active"
    BY <2>2 DEF TimeLog
  <2> HIDE DEF row
  <2>4. InWork(req[r], log[req[r].log]) => Settled(row)
    BY <1>1, <2>3 DEF InWork, Midway, Settled
  <2> QED BY <1>1, <1>3, <2>1, <2>4, LastWriteKind
<1> QED BY <1>1, <1>2, <1>3 DEF ResumeStatus

LEMMA SwitchCloseKind ==
  ASSUME Sound, NEW r \in Requests, SwitchClose(r)
  PROVE  Moves(r) \/ \E s \in TimeLog : Updates(r, s)
<1>1. req[r].pc = "switch.close" /\ req[r].pc \notin WithoutLog /\ UNCHANGED <<task, now>>
  BY DEF SwitchClose, WithoutLog
<1>2. CASE LogIsGone(r)
  BY <1>1, <1>2, GoneKind
<1>3. CASE UpdateLog(r, Complete(log[req[r].log])) /\ Answer(r)
  <2> DEFINE row == Complete(log[req[r].log])
  <2>1. Written(log[req[r].log], row) /\ UpdateLog(r, row)
    BY <1>3 DEF Written
  <2>2. log[req[r].log] \in TimeLog
    BY <1>3, OwnRow
  <2>3. /\ row.openBreaks = log[req[r].log].openBreaks
        /\ row.sessionEnd = now /\ row.status = "completed"
    BY <2>2 DEF Complete, TimeLog
  <2>4. now # Null
    BY NullAssumption DEF Sound, TypeOK
  <2> HIDE DEF row
  <2>5. InWork(req[r], log[req[r].log]) => Settled(row)
    BY <1>1, <2>3, <2>4 DEF InWork, Midway, Settled
  <2> QED BY <1>1, <1>3, <2>1, <2>5, LastWriteKind
<1> QED BY <1>1, <1>2, <1>3 DEF SwitchClose

LEMMA SwitchFindKind ==
  ASSUME Sound, NEW r \in Requests, SwitchFind(r)
  PROVE  Moves(r)
<1>1. /\ req[r].pc = "switch.find" /\ req[r].pc \notin WithoutLog /\ r \in Busy
      /\ UNCHANGED <<task, log, now>>
  BY DEF SwitchFind, WithoutLog, Busy
<1>2. TypeOK' /\ req \in [Requests -> Request] /\ RequestSound(req[r])
  BY <1>1 DEF Sound, TypeOK
<1>3. ASSUME req[r].log \in DOMAIN log, NEW b \in log[req[r].log].openBreaks,
             req' = [req EXCEPT ![r].pc = "switch.break", ![r].brk = b]
      PROVE  Moves(r)
  <2> DEFINE x == [req[r] EXCEPT !.pc = "switch.break", !.brk = b]
  <2>1. b \in Break
    BY <1>3 DEF Sound, RowSound, TimeLog
  <2>2. /\ x \in Request /\ x.pc = "switch.break" /\ x.brk = b
        /\ x.emp = req[r].emp /\ x.task = req[r].task /\ x.log = req[r].log
    BY <1>2, <2>1 DEF Request, PC
  <2>3. req' = [req EXCEPT ![r] = x]
    BY <1>2, <1>3
  <2> HIDE DEF x
  <2>4. OnlyMoves(r) /\ req'[r] = x
    BY <1>2, <2>2, <2>3 DEF OnlyMoves
  <2>5. Goes(r)
    BY <1>1, <2>2, <2>4 DEF Goes, GoesOn
  <2>6. KeptInOrder(r)
    BY <1>1, <1>3, <2>2, <2>4 DEF KeptInOrder, InWork, Midway
  <2> QED BY <1>1, <1>2, <2>2, <2>4, <2>5, <2>6 DEF Moves
<1>4. ASSUME req[r].log \in DOMAIN log => log[req[r].log].openBreaks = {},
             Continue(r, "switch.close")
      PROVE  Moves(r)
  <2>1. "switch.close" \in PC
    BY DEF PC
  <2>2. OnlyMoves(r) /\ req'[r].pc = "switch.close" /\ Goes(r)
    BY <1>1, <1>2, <1>4, <2>1, ContinueFacts DEF Goes, GoesOn
  <2>3. ASSUME req[r].log \in DOMAIN log, InWork(req[r], log[req[r].log])
        PROVE  InWork(req'[r], log[req[r].log])
    <3>1. /\ log[req[r].log].status # "completed" /\ Settled(log[req[r].log])
          /\ log[req[r].log].openBreaks = {}
      BY <1>1, <1>4, <2>3 DEF InWork
    <3>2. log[req[r].log].sessionEnd = Null
      BY <3>1 DEF Settled
    <3> QED BY <2>2, <3>1, <3>2 DEF InWork, Midway
  <2>4. KeptInOrder(r)
    BY <1>1, <2>3 DEF KeptInOrder, Midway
  <2> QED BY <1>1, <1>2, <2>2, <2>4 DEF Moves
<1> QED BY <1>1, <1>3, <1>4 DEF SwitchFind

\* A database call fails.
LEMMA FailKind ==
  ASSUME Sound, NEW r \in Requests, Fail(r)
  PROVE  Moves(r)
BY AnswerKind DEF Fail

\* Administration changes the tables as it does in TaskTimer.
LEMMA AdministerKind ==
  ASSUME Sound, Administer
  PROVE  Administers
<1>1. TypeOK /\ req \in [Requests -> Request]
  BY DEF Sound
<1>2. ASSUME Next
      PROVE  DOMAIN task' \subseteq Tasks /\ task' \in [DOMAIN task' -> Task]
  BY <1>1, <1>2, TaskTyped
<1>3. ASSUME log' = log \/ \E L : log' = Delete(log, L)
      PROVE  DOMAIN log' \subseteq LogIds /\ log' \in [DOMAIN log' -> TimeLog]
  BY <1>1, <1>3 DEF TypeOK, Delete
<1>4. ASSUME Next, now' = now, req' = req, log' = log \/ \E L : log' = Delete(log, L)
      PROVE  Administers
  BY <1>1, <1>2, <1>3, <1>4 DEF Administers, TypeOK
<1>5. ASSUME NEW t \in Tasks, NEW e \in Employees, CreateTask(t, e), UNCHANGED req
      PROVE  Administers
  BY <1>4, <1>5 DEF Next, CreateTask
<1>6. ASSUME NEW t \in Tasks, NEW s \in PersonStatus, UpdateTask(t, s), UNCHANGED req
      PROVE  Administers
  BY <1>4, <1>6 DEF Next, UpdateTask
<1>7. ASSUME NEW t \in Tasks, RemoveTask(t), UNCHANGED req
      PROVE  Administers
  BY <1>4, <1>7 DEF Next, RemoveTask
<1>8. ASSUME NEW e \in Employees, RemoveUser(e), UNCHANGED log, UNCHANGED req
      PROVE  Administers
  BY <1>4, <1>8 DEF Next, RemoveUser
<1>9. ASSUME NEW e \in Employees, DeleteAccount(e)
      PROVE  Administers
  <2>1. DOMAIN task' \subseteq Tasks /\ task' \in [DOMAIN task' -> Task]
    <3>1. \A t \in DOMAIN task : [task[t] EXCEPT !.assignee = IF @ = e THEN Null ELSE @] \in Task
      BY <1>1 DEF TypeOK, Task
    <3> QED BY <1>1, <1>9, <3>1 DEF DeleteAccount, TypeOK
  <2>2. now' = now /\ log' = Delete(log, LogsOfEmployee(e))
    BY <1>9 DEF DeleteAccount
  <2>3. \A q \in Requests : req'[q] = req[q] \/ (req[q].pc \in WithoutLog /\ req'[q] = Free)
    BY <1>9 DEF DeleteAccount, WithoutLog
  <2>4. req' \in [Requests -> Request]
    BY <1>1, <1>9, FreeFacts DEF DeleteAccount
  <2> QED BY <1>1, <1>3, <2>1, <2>2, <2>3, <2>4 DEF Administers, TypeOK
<1> QED BY <1>5, <1>6, <1>7, <1>8, <1>9 DEF Administer, AdministerTasks

\* Every step is of one of these kinds.
LEMMA EveryStepHasKind ==
  ASSUME Sound, StepsNext
  PROVE  Kind
<1>1. CASE Arrive
  <2>1. PICK r \in Requests, e \in Employees :
          \/ \E t \in Tasks : StartRead(r, e, t)
          \/ \E l \in LogIds : PauseRead(r, e, l) \/ ResumeRead(r, e, l) \/ SwitchRead(r, e, l)
    BY <1>1 DEF Arrive
  <2>2. \E x \in Request : Arrives(r, x)
    BY <2>1, StartReadKind, PauseReadKind, ResumeReadKind, SwitchReadKind
  <2> QED BY <2>2 DEF Kind
<1>2. ASSUME NEW r \in Requests, Serve(r) \/ Fail(r)
      PROVE  Kind
  <2>1. \/ Moves(r)
        \/ \E s \in TimeLog : Updates(r, s)
        \/ \E l \in LogIds : Creates(r, l)
    <3>1. CASE StartFind(r) \/ StartCreate(r) \/ StartStatus(r)
      BY <3>1, StartFindKind, StartCreateKind, StartStatusKind
    <3>2. CASE PauseBreak(r) \/ PauseStatus(r)
      BY <3>2, PauseBreakKind, PauseStatusKind
    <3>3. CASE ResumeBreak(r) \/ ResumeStatus(r)
      BY <3>3, ResumeBreakKind, ResumeStatusKind
    <3>4. CASE SwitchFind(r) \/ SwitchBreak(r) \/ SwitchClose(r)
      BY <3>4, SwitchFindKind, SwitchBreakKind, SwitchCloseKind
    <3>5. CASE Fail(r)
      BY <3>5, FailKind
    <3> QED BY <1>2, <3>1, <3>2, <3>3, <3>4, <3>5 DEF Serve
  <2> QED BY <2>1 DEF Kind
<1>3. CASE Administer
  BY <1>3, AdministerKind DEF Kind
<1> QED BY <1>1, <1>2, <1>3 DEF StepsNext

-----------------------------------------------------------------------------
(* Sound is inductive.                                                     *)

LEMMA ArrivesSound ==
  ASSUME Sound, NEW r \in Requests, NEW x \in Request, Arrives(r, x)
  PROVE  Sound' /\ SessionsKept
<1>1. /\ RequestSound(x) /\ req' = [req EXCEPT ![r] = x] /\ UNCHANGED <<task, log, now>>
      /\ req \in [Requests -> Request]
  BY DEF Arrives, Sound
<1>2. TypeOK' /\ \A l \in DOMAIN log' : RowSound(log[l])'
  BY <1>1 DEF Sound, TypeOK, RowSound
<1>3. ASSUME NEW q \in Requests PROVE RequestSound(req[q])'
  <2>1. req'[q] = x \/ req'[q] = req[q]
    BY <1>1
  <2> QED BY <1>1, <2>1 DEF RequestSound, Sound
<1>4. SessionsKept
  BY <1>1 DEF SessionsKept, OpenSessions
<1> QED BY <1>1, <1>2, <1>3, <1>4 DEF Sound

LEMMA SameLogKept ==
  ASSUME UNCHANGED log
  PROVE  SessionsKept
BY DEF SessionsKept, OpenSessions

\* A session that was open but not ended, after rows were removed.
LEMMA AdministersSound ==
  ASSUME Sound, Administers
  PROVE  Sound' /\ SessionsKept
<1>1. now' = now /\ TypeOK' /\ req' \in [Requests -> Request]
  BY DEF Administers
<1>2. DOMAIN log' \subseteq DOMAIN log /\ \A l \in DOMAIN log' : log'[l] = log[l]
  BY DEF Administers, Delete
<1>3. \A l \in DOMAIN log' : RowSound(log[l])'
  BY <1>1, <1>2 DEF Sound, RowSound
<1>4. ASSUME NEW q \in Requests PROVE RequestSound(req[q])'
  <2>1. CASE req'[q] = req[q]
    BY <1>2, <2>1 DEF Sound, RequestSound
  <2>2. CASE req'[q] = Free
    BY <2>2, FreeFacts DEF RequestSound, WithoutLog
  <2> QED BY <2>1, <2>2 DEF Administers
<1>5. SessionsKept
  BY <1>2 DEF SessionsKept, OpenSessions
<1> QED BY <1>1, <1>3, <1>4, <1>5 DEF Sound

\* A new session is the only thing that changes in the time logs.
LEMMA CreatesRows ==
  ASSUME Sound, NEW r \in Requests, NEW l \in LogIds, Creates(r, l)
  PROVE  /\ req[r].emp \in Employees /\ req[r].task \in Tasks
         /\ l \notin DOMAIN log /\ \A q \in Requests : req[q].log # l
         /\ DOMAIN log' = DOMAIN log \cup {l}
         /\ \A k \in DOMAIN log : log'[k] = log[k]
         /\ RowSound(log'[l]) /\ Settled(log'[l]) /\ IsOpen(log'[l])
         /\ log'[l].employee = req[r].emp
         /\ UNCHANGED <<task, now>>
<1>1. req[r].emp \in Employees /\ req[r].task \in Tasks /\ now \in Nat
  BY DEF Sound, RequestSound, Creates, TypeOK
<1>2. l \notin DOMAIN log /\ \A q \in Requests : req[q].log # l
  BY DEF Creates, FreshLogIds
<1>3. /\ DOMAIN log' = DOMAIN log \cup {l} /\ log'[l] = NewLog(req[r].emp, req[r].task)
      /\ \A k \in DOMAIN log : log'[k] = log[k]
  BY <1>2 DEF Creates, Insert
<1> QED BY <1>1, <1>2, <1>3, NewRow DEF Creates

LEMMA CreatesSound ==
  ASSUME Sound, NEW r \in Requests, NEW l \in LogIds, Creates(r, l)
  PROVE  Sound'
<1>1. /\ OnlyMoves(r) /\ UNCHANGED <<task, now>> /\ req[r].pc = "start.create"
      /\ \/ req'[r] = Free
         \/ /\ req'[r].pc = "start.status" /\ req'[r].log = l
            /\ req'[r].emp = req[r].emp /\ req'[r].task = req[r].task
  BY DEF Creates
<1>2. \A k \in DOMAIN log' : RowSound(log'[k])
  BY CreatesRows DEF Sound
<1>3. TypeOK'
  <2>1. DOMAIN log' \subseteq LogIds
    BY CreatesRows DEF Sound, TypeOK
  <2>2. log' = [k \in DOMAIN log' |-> log'[k]]
    BY DEF Creates, Insert
  <2>3. \A k \in DOMAIN log' : log'[k] \in TimeLog
    BY <1>2 DEF RowSound
  <2>4. log' \in [DOMAIN log' -> TimeLog]
    BY <2>2, <2>3
  <2> QED BY <1>1, <2>1, <2>4 DEF Sound, TypeOK
<1>4. \A k \in DOMAIN log' : RowSound(log[k])'
  BY <1>1, <1>2 DEF RowSound
<1>5. /\ DOMAIN log' = DOMAIN log \cup {l} /\ \A k \in DOMAIN log : log'[k] = log[k]
      /\ req[r].emp \in Employees /\ req[r].task \in Tasks /\ log'[l].employee = req[r].emp
      /\ \A q \in Requests : req[q].log # l
  BY CreatesRows
<1>6. ASSUME NEW q \in Requests PROVE RequestSound(req[q])'
  <2>1. RequestSound(req[q]) /\ req'[q] \in Request
    BY <1>1 DEF Sound, OnlyMoves
  <2>2. CASE q # r
    <3>1. req'[q] = req[q] /\ req[q].log # l
      BY <1>1, <1>5, <2>2 DEF OnlyMoves
    <3>2. ASSUME req[q].pc \notin WithoutLog, req[q].log \in DOMAIN log'
          PROVE  log'[req[q].log].employee = req[q].emp
      BY <1>5, <2>1, <3>1, <3>2 DEF RequestSound
    <3> QED BY <2>1, <3>1, <3>2 DEF RequestSound
  <2>3. CASE req'[q] = Free
    BY <2>3, FreeFacts DEF RequestSound, WithoutLog
  <2>4. CASE q = r /\ req'[r] # Free
    BY <1>1, <1>5, <2>1, <2>4 DEF RequestSound
  <2> QED BY <2>2, <2>3, <2>4
<1> QED BY <1>1, <1>3, <1>4, <1>6 DEF Sound, OnlyMoves

LEMMA KindSound ==
  ASSUME Sound, Kind
  PROVE  /\ Sound'
         /\ SessionsKept \/ \E r \in Requests, l \in LogIds : Creates(r, l)
<1>1. ASSUME NEW r \in Requests, Moves(r) PROVE Sound' /\ SessionsKept
  BY <1>1, MoveSound, SameLogKept DEF Moves
<1>2. ASSUME NEW r \in Requests, NEW row \in TimeLog, Updates(r, row) PROVE Sound' /\ SessionsKept
  BY <1>2, WriteSound, WriteRows DEF Updates
<1> QED BY <1>1, <1>2, ArrivesSound, CreatesSound, AdministersSound DEF Kind

LEMMA InitSound == StepsInit => Sound /\ Counted /\ OneAtATime /\ RowsInOrder
<1> SUFFICES ASSUME StepsInit PROVE Sound /\ Counted /\ OneAtATime /\ RowsInOrder
  OBVIOUS
<1>1. /\ DOMAIN log = {} /\ TypeOK
      /\ \A r \in Requests : req[r] = Free /\ req[r].pc = "free"
      /\ req \in [Requests -> Request]
  BY FreeFacts DEF StepsInit, Init, TypeOK
<1>2. Sound
  BY <1>1, FreeFacts DEF Sound
<1>3. Busy = {} /\ \A e : OpenSessions(e) = {} /\ PassedCheck(e) = {}
  BY <1>1 DEF Busy, OpenSessions, PassedCheck
<1>4. Counted
  <2>1. Cardinality({}) = 0 /\ IsFiniteSet({}) /\ Cardinality(Requests) \in Nat
    BY FS_EmptySet, FS_CardinalityType, RequestsAssumption
  <2> QED BY <1>3, <2>1 DEF Counted
<1>5. OneAtATime
  BY <1>1, <1>3 DEF OneAtATime, OneEach, AtMostOneOpen, PassedFindsNone
<1>6. RowsInOrder
  BY <1>1 DEF RowsInOrder, WithoutLog
<1> QED BY <1>2, <1>4, <1>5, <1>6

LEMMA StutterKind ==
  ASSUME Sound, UNCHANGED stepVars
  PROVE  /\ Sound' /\ SessionsKept
         /\ Counted => Counted'
         /\ OneAtATime => OneAtATime'
         /\ RowsInOrder => RowsInOrder'
<1>1. UNCHANGED <<task, log, now, req>>
  BY DEF stepVars
<1>2. Administers
  BY <1>1 DEF Administers, Sound, TypeOK
<1>3. /\ \A e : OpenSessions(e)' = OpenSessions(e) /\ PassedCheck(e)' = PassedCheck(e)
      /\ Busy' = Busy
  BY <1>1 DEF OpenSessions, PassedCheck, Busy
<1>4. OneAtATime => OneAtATime'
  BY <1>1, <1>3 DEF OneAtATime, OneEach, AtMostOneOpen, PassedFindsNone
<1>5. RowsInOrder => RowsInOrder'
  BY <1>1 DEF RowsInOrder
<1>6. Counted => Counted'
  BY <1>3 DEF Counted
<1> QED BY <1>2, <1>4, <1>5, <1>6, AdministersSound

-----------------------------------------------------------------------------
(* Counted is preserved.                                                   *)

\* Sets no larger than before are still counted.
LEMMA FewerCounted ==
  ASSUME NEW A, NEW B, NEW C, NEW D, NEW n \in Nat, IsFiniteSet(A), IsFiniteSet(C),
         B \subseteq A, D \subseteq C, Cardinality(A) + Cardinality(C) <= n
  PROVE  IsFiniteSet(B) /\ Cardinality(B) + Cardinality(D) <= n
<1>1. /\ IsFiniteSet(B) /\ Cardinality(B) <= Cardinality(A)
      /\ IsFiniteSet(D) /\ Cardinality(D) <= Cardinality(C)
  BY FS_Subset
<1>2. /\ Cardinality(A) \in Nat /\ Cardinality(B) \in Nat
      /\ Cardinality(C) \in Nat /\ Cardinality(D) \in Nat
  BY <1>1, FS_CardinalityType
<1> QED BY <1>1, <1>2

\* Who has passed the check is one of the requests.
LEMMA PassedFinite ==
  ASSUME NEW e
  PROVE  IsFiniteSet(PassedCheck(e)) /\ Cardinality(PassedCheck(e)) <= Cardinality(Requests)
BY FS_Subset, RequestsAssumption DEF PassedCheck, Busy

\* Unless it is the request that goes on, nobody passes the check.
LEMMA NobodyPasses ==
  ASSUME NEW r \in Requests, OnlyMoves(r), NEW e \in Employees,
         req'[r].pc # "start.create" \/ req'[r].emp # e
  PROVE  PassedCheck(e)' \subseteq PassedCheck(e)
<1> SUFFICES ASSUME NEW q \in PassedCheck(e)' PROVE q \in PassedCheck(e)
  OBVIOUS
<1>1. q \in Requests /\ req'[q].pc = "start.create" /\ req'[q].emp = e
  BY DEF PassedCheck, Busy
<1>2. q # r
  BY <1>1
<1>3. req'[q] = req[q]
  BY <1>1, <1>2 DEF OnlyMoves
<1> QED BY <1>1, <1>3 DEF PassedCheck, Busy

\* Nobody has passed the check, and no session was opened.
LEMMA HarmlessCounted ==
  ASSUME Counted, SessionsKept, \A e \in Employees : PassedCheck(e)' \subseteq PassedCheck(e)
  PROVE  Counted'
<1>1. Cardinality(Requests) \in Nat
  BY FS_CardinalityType, RequestsAssumption
<1>2. ASSUME NEW e \in Employees
      PROVE  /\ IsFiniteSet(OpenSessions(e)')
             /\ Cardinality(OpenSessions(e)') + Cardinality(PassedCheck(e)') <= Cardinality(Requests)
  BY <1>1, PassedFinite, FewerCounted DEF Counted, SessionsKept
<1> QED BY <1>2 DEF Counted

LEMMA ArrivesCounted ==
  ASSUME Sound, Counted, NEW r \in Requests, NEW x \in Request, Arrives(r, x)
  PROVE  Counted'
<1>1. \A e \in Employees : PassedCheck(e)' \subseteq PassedCheck(e)
  BY DEF Arrives, PassedCheck, Busy, Sound
<1> QED BY <1>1, ArrivesSound, HarmlessCounted

\* A request passes the check when its person has no session open: however
\* many have passed it, they are requests.
LEMMA MovesCounted ==
  ASSUME Sound, Counted, NEW r \in Requests, Moves(r)
  PROVE  Counted'
<1>1. /\ OnlyMoves(r) /\ (req'[r] = Free \/ GoesOn(r))
      /\ req'[r].pc = "start.create" => OpenSessions(req[r].emp) = {}
      /\ log' = log
  BY DEF Moves, Goes
<1>2. CASE req'[r].pc # "start.create"
  <2>1. \A e \in Employees : PassedCheck(e)' \subseteq PassedCheck(e)
    BY <1>1, <1>2, NobodyPasses
  <2> QED BY <1>1, <2>1, SameLogKept, HarmlessCounted
<1>3. CASE req'[r].pc = "start.create"
  <2>1. req'[r].emp = req[r].emp /\ OpenSessions(req[r].emp) = {}
    BY <1>1, <1>3, FreeFacts DEF GoesOn
  <2>2. \A e : OpenSessions(e)' = OpenSessions(e)
    BY <1>1 DEF OpenSessions
  <2>3. ASSUME NEW e \in Employees
        PROVE  /\ IsFiniteSet(OpenSessions(e)')
               /\ Cardinality(OpenSessions(e)') + Cardinality(PassedCheck(e)') <= Cardinality(Requests)
    <3>1. CASE e = req[r].emp
      <4>1. /\ OpenSessions(e)' = {} /\ Cardinality({}) = 0 /\ IsFiniteSet({})
        BY <2>1, <2>2, <3>1, FS_EmptySet
      <4>2. PassedCheck(e)' \subseteq Requests
        BY DEF PassedCheck, Busy
      <4>3. /\ Cardinality(PassedCheck(e)') <= Cardinality(Requests)
            /\ Cardinality(PassedCheck(e)') \in Nat
        BY <4>2, FS_Subset, FS_CardinalityType, RequestsAssumption
      <4> QED BY <4>1, <4>3
    <3>2. CASE e # req[r].emp
      <4>1. PassedCheck(e)' \subseteq PassedCheck(e)
        BY <1>1, <2>1, <3>2, NobodyPasses
      <4>2. Cardinality(Requests) \in Nat
        BY FS_CardinalityType, RequestsAssumption
      <4> QED BY <2>2, <4>1, <4>2, PassedFinite, FewerCounted DEF Counted
    <3> QED BY <3>1, <3>2
  <2> QED BY <2>3 DEF Counted
<1> QED BY <1>2, <1>3

LEMMA UpdatesCounted ==
  ASSUME Sound, Counted, NEW r \in Requests, NEW row \in TimeLog, Updates(r, row)
  PROVE  Counted'
<1>1. /\ OnlyMoves(r) /\ req[r].pc \notin WithoutLog /\ (req'[r] = Free \/ GoesOn(r))
      /\ SessionsKept
  BY WriteRows DEF Updates, Goes
<1>2. req'[r].pc # "start.create"
  BY <1>1, FreeFacts DEF GoesOn, WithoutLog
<1>3. \A e \in Employees : PassedCheck(e)' \subseteq PassedCheck(e)
  BY <1>1, <1>2, NobodyPasses
<1> QED BY <1>1, <1>3, HarmlessCounted

\* A session is opened by a request that had passed the check.
LEMMA CreatesCounted ==
  ASSUME Sound, Counted, NEW r \in Requests, NEW l \in LogIds, Creates(r, l)
  PROVE  Counted'
<1>1. /\ req[r].pc = "start.create" /\ OnlyMoves(r) /\ req'[r].pc # "start.create"
  BY FreeFacts DEF Creates
<1>3. /\ DOMAIN log' = DOMAIN log \cup {l} /\ \A k \in DOMAIN log : log'[k] = log[k]
      /\ l \notin DOMAIN log /\ IsOpen(log'[l]) /\ log'[l].employee = req[r].emp
  BY CreatesRows
<1>2. ASSUME NEW e \in Employees
      PROVE  /\ IsFiniteSet(OpenSessions(e)')
             /\ Cardinality(OpenSessions(e)') + Cardinality(PassedCheck(e)') <= Cardinality(Requests)
  <2>1. /\ IsFiniteSet(OpenSessions(e)) /\ IsFiniteSet(PassedCheck(e))
        /\ Cardinality(OpenSessions(e)) + Cardinality(PassedCheck(e)) <= Cardinality(Requests)
        /\ Cardinality(Requests) \in Nat
    BY PassedFinite, FS_CardinalityType, RequestsAssumption DEF Counted
  <2>2. CASE e = req[r].emp
    <3>1. OpenSessions(e)' = OpenSessions(e) \cup {l} /\ l \notin OpenSessions(e)
      BY <1>3, <2>2 DEF OpenSessions
    <3>2. r \in PassedCheck(e) /\ PassedCheck(e)' \subseteq PassedCheck(e) \ {r}
      BY <1>1, <2>2 DEF PassedCheck, Busy, OnlyMoves
    <3>3. /\ IsFiniteSet(OpenSessions(e)')
          /\ Cardinality(OpenSessions(e)') = Cardinality(OpenSessions(e)) + 1
      BY <2>1, <3>1, FS_AddElement
    <3>4. /\ IsFiniteSet(PassedCheck(e) \ {r})
          /\ Cardinality(PassedCheck(e) \ {r}) = Cardinality(PassedCheck(e)) - 1
      BY <2>1, <3>2, FS_RemoveElement
    <3>5. /\ Cardinality(PassedCheck(e)') <= Cardinality(PassedCheck(e) \ {r})
          /\ IsFiniteSet(PassedCheck(e)')
      BY <3>2, <3>4, FS_Subset
    <3>6. /\ Cardinality(OpenSessions(e)) \in Nat /\ Cardinality(PassedCheck(e)) \in Nat
          /\ Cardinality(PassedCheck(e)') \in Nat
      BY <2>1, <3>5, FS_CardinalityType
    <3> QED BY <2>1, <3>3, <3>4, <3>5, <3>6
  <2>3. CASE e # req[r].emp
    <3>1. OpenSessions(e)' = OpenSessions(e)
      BY <1>3, <2>3 DEF OpenSessions
    <3>2. PassedCheck(e)' \subseteq PassedCheck(e)
      BY <1>1 DEF PassedCheck, Busy, OnlyMoves
    <3> QED BY <2>1, <3>1, <3>2, FewerCounted
  <2> QED BY <2>2, <2>3
<1> QED BY <1>2 DEF Counted

LEMMA KindCounted ==
  ASSUME Sound, Counted, Kind
  PROVE  Counted'
<1>1. ASSUME Administers PROVE Counted'
  <2>1. \A e \in Employees : PassedCheck(e)' \subseteq PassedCheck(e)
    BY <1>1, FreeFacts DEF Administers, PassedCheck, Busy
  <2> QED BY <1>1, <2>1, AdministersSound, HarmlessCounted
<1> QED BY <1>1, ArrivesCounted, MovesCounted, UpdatesCounted, CreatesCounted DEF Kind

-----------------------------------------------------------------------------
(* Everyone waits for an answer before asking again.                       *)

\* Nobody else is being served for the person whose request arrives.
LEMMA ArrivesAlone ==
  ASSUME Overlap # "any", NEW r, NEW x, Arrives(r, x)
  PROVE  r \notin Busy /\ \A q \in Busy : req[q].emp # x.emp
BY OverlapAssumption DEF Arrives, MayArrive

LEMMA ArrivesOneAtATime ==
  ASSUME Overlap # "any", Sound, OneAtATime, NEW r \in Requests, NEW x \in Request, Arrives(r, x)
  PROVE  OneAtATime'
<1>1. /\ r \notin Busy /\ \A q \in Busy : req[q].emp # x.emp
      /\ req' = [req EXCEPT ![r] = x] /\ UNCHANGED log /\ req \in [Requests -> Request]
      /\ x.pc # "start.create"
  BY ArrivesAlone DEF Arrives, Sound
<1>2. /\ req'[r] = x /\ \A q \in Requests \ {r} : req'[q] = req[q]
  BY <1>1
<1>3. \A q \in Busy' : q = r \/ (q \in Busy /\ req'[q] = req[q])
  BY <1>2 DEF Busy
<1>4. OneEach'
  <2> SUFFICES ASSUME NEW q \in Busy', NEW p \in Busy', req'[q].emp = req'[p].emp
               PROVE  q = p
    BY DEF OneEach
  <2> QED BY <1>1, <1>2, <1>3 DEF OneAtATime, OneEach
<1>5. \A e : OpenSessions(e)' = OpenSessions(e)
  BY <1>1 DEF OpenSessions
<1>6. AtMostOneOpen'
  BY <1>5 DEF OneAtATime, AtMostOneOpen
<1>7. PassedFindsNone'
  <2> SUFFICES ASSUME NEW q \in Requests, req'[q].pc = "start.create"
               PROVE  OpenSessions(req[q].emp)' = {}
    BY DEF PassedFindsNone
  <2>1. q # r /\ req'[q] = req[q]
    BY <1>1, <1>2
  <2>2. OpenSessions(req[q].emp) = {}
    BY <2>1 DEF OneAtATime, PassedFindsNone
  <2> QED BY <1>1, <2>1, <2>2 DEF OpenSessions
<1> QED BY <1>4, <1>6, <1>7 DEF OneAtATime

\* Requests only go on, and no session is opened.
LEMMA GoesOneAtATime ==
  ASSUME Sound, OneAtATime, SessionsKept, NEW r \in Requests, Goes(r), r \in Busy,
         req'[r].pc = "start.create" => OpenSessions(req[r].emp) = {}
  PROVE  OneAtATime'
<1>1. /\ \A q \in Requests \ {r} : req'[q] = req[q]
      /\ req'[r] = Free \/ (req'[r].emp = req[r].emp /\ req'[r].pc # "free")
      /\ \A q \in Requests : RequestSound(req[q])
      /\ Sound
  BY DEF Goes, GoesOn, OnlyMoves, Sound
<1>2. ASSUME NEW q \in Busy' PROVE q \in Busy /\ req'[q].emp = req[q].emp
  BY <1>1, <1>2, FreeFacts DEF Busy
<1>3. OneEach'
  BY <1>2 DEF OneAtATime, OneEach
<1>4. \A e \in Employees : OpenSessions(e)' \subseteq OpenSessions(e)
  BY DEF SessionsKept
<1>5. AtMostOneOpen'
  BY <1>4 DEF OneAtATime, AtMostOneOpen
<1>6. PassedFindsNone'
  <2> SUFFICES ASSUME NEW q \in Requests, req'[q].pc = "start.create"
               PROVE  OpenSessions(req[q].emp)' = {}
    BY DEF PassedFindsNone
  <2>1. q \in Busy'
    BY DEF Busy
  <2>2. PICK e \in Employees : e = req[q].emp /\ req'[q].emp = e
    BY <1>1, <1>2, <2>1 DEF RequestSound, Busy
  <2>3. OpenSessions(e) = {}
    BY <1>1, <2>2 DEF OneAtATime, PassedFindsNone
  <2>4. OpenSessions(e)' = {}
    BY <1>4, <2>3
  <2> QED BY <2>2, <2>4 DEF OpenSessions
<1> QED BY <1>3, <1>5, <1>6 DEF OneAtATime

\* The request that opens a session is its person's only one, and had found none.
LEMMA CreatesOneAtATime ==
  ASSUME Sound, OneAtATime, NEW r \in Requests, NEW l \in LogIds, Creates(r, l)
  PROVE  OneAtATime'
<1>1. /\ req[r].pc = "start.create" /\ \A q \in Requests \ {r} : req'[q] = req[q]
      /\ \/ req'[r] = Free
         \/ req'[r].emp = req[r].emp /\ req'[r].pc = "start.status"
      /\ req'[r].pc # "start.create"
  BY FreeFacts DEF Creates, OnlyMoves
<1>2. /\ DOMAIN log' = DOMAIN log \cup {l} /\ \A k \in DOMAIN log : log'[k] = log[k]
      /\ l \notin DOMAIN log /\ IsOpen(log'[l]) /\ log'[l].employee = req[r].emp
      /\ req[r].emp \in Employees /\ r \in Busy
  BY <1>1, CreatesRows DEF Busy
<1>3. ASSUME NEW q \in Busy' PROVE q \in Busy /\ req'[q].emp = req[q].emp
  BY <1>1, <1>3, FreeFacts DEF Busy
<1>4. OneEach'
  BY <1>3 DEF OneAtATime, OneEach
<1>5. ASSUME NEW e \in Employees, e # req[r].emp
      PROVE  OpenSessions(e)' = OpenSessions(e)
  BY <1>2, <1>5 DEF OpenSessions
<1>6. ASSUME NEW e \in Employees, e = req[r].emp
      PROVE  OpenSessions(e)' = {l}
  <2>1. OpenSessions(e) = {}
    BY <1>1, <1>6 DEF OneAtATime, PassedFindsNone
  <2> QED BY <1>2, <1>6, <2>1 DEF OpenSessions
<1>7. ASSUME NEW e \in Employees
      PROVE  \A j, k \in OpenSessions(e)' : j = k
  <2>1. CASE e = req[r].emp
    BY <1>6, <2>1
  <2>2. CASE e # req[r].emp
    BY <1>5, <2>2 DEF OneAtATime, AtMostOneOpen
  <2> QED BY <2>1, <2>2
<1>8. AtMostOneOpen'
  BY <1>7 DEF AtMostOneOpen
<1>9. PassedFindsNone'
  <2> SUFFICES ASSUME NEW q \in Requests, req'[q].pc = "start.create"
               PROVE  OpenSessions(req[q].emp)' = {}
    BY DEF PassedFindsNone
  <2>1. q # r /\ req'[q] = req[q] /\ q \in Busy
    BY <1>1 DEF Busy
  <2>2. req[q].emp # req[r].emp
    BY <1>2, <2>1 DEF OneAtATime, OneEach
  <2>3. PICK e \in Employees : e = req[q].emp /\ req'[q].emp = e
    BY <2>1 DEF Sound, RequestSound, Busy
  <2>4. OpenSessions(e) = {}
    BY <2>1, <2>3 DEF OneAtATime, PassedFindsNone
  <2>5. OpenSessions(e)' = {}
    BY <1>5, <2>2, <2>3, <2>4
  <2> QED BY <2>3, <2>5 DEF OpenSessions
<1> QED BY <1>4, <1>8, <1>9 DEF OneAtATime

LEMMA KindOneAtATime ==
  ASSUME Overlap # "any", Sound, OneAtATime, Kind
  PROVE  OneAtATime'
<1>1. ASSUME NEW r \in Requests, Moves(r) PROVE OneAtATime'
  <2>1. SessionsKept
    BY <1>1, SameLogKept DEF Moves
  <2> QED BY <1>1, <2>1, GoesOneAtATime DEF Moves
<1>2. ASSUME NEW r \in Requests, NEW row \in TimeLog, Updates(r, row) PROVE OneAtATime'
  <2>1. r \in Busy /\ req'[r].pc # "start.create" /\ Goes(r)
    BY <1>2, FreeFacts DEF Updates, Goes, GoesOn, Busy, WithoutLog
  <2>2. SessionsKept
    BY <1>2, WriteRows DEF Updates
  <2> QED BY <2>1, <2>2, GoesOneAtATime
<1>3. ASSUME Administers PROVE OneAtATime'
  <2>1. /\ SessionsKept
        /\ \A q \in Requests : req'[q] = req[q] \/ (req'[q].pc = "free")
    BY <1>3, AdministersSound, FreeFacts DEF Administers
  <2>2. \A e \in Employees : OpenSessions(e)' \subseteq OpenSessions(e)
    BY <2>1 DEF SessionsKept
  <2>3. OneEach' /\ AtMostOneOpen'
    BY <2>1, <2>2 DEF OneAtATime, OneEach, AtMostOneOpen, Busy
  <2>4. PassedFindsNone'
    <3> SUFFICES ASSUME NEW q \in Requests, req'[q].pc = "start.create"
                 PROVE  OpenSessions(req[q].emp)' = {}
      BY DEF PassedFindsNone
    <3>1. PICK e \in Employees : e = req[q].emp /\ req'[q] = req[q]
      BY <2>1 DEF Sound, RequestSound
    <3>2. OpenSessions(e) = {}
      BY <2>1, <3>1 DEF OneAtATime, PassedFindsNone
    <3>3. OpenSessions(e)' = {}
      BY <2>2, <3>2
    <3> QED BY <2>1, <3>1, <3>3 DEF OpenSessions
  <2> QED BY <2>3, <2>4 DEF OneAtATime
<1> QED BY <1>1, <1>2, <1>3, ArrivesOneAtATime, CreatesOneAtATime DEF Kind

-----------------------------------------------------------------------------
(* The rows are in order when, besides, no database call fails.            *)

\* No two requests of one person are about the same session.
LEMMA HeldOnce ==
  ASSUME Sound, OneAtATime, NEW r \in Requests, NEW q \in Requests,
         req[r].pc \notin WithoutLog, req[q].pc \notin WithoutLog,
         req[r].log \in DOMAIN log, req[q].log = req[r].log
  PROVE  r = q
<1>1. r \in Busy /\ q \in Busy /\ req[r].emp = req[q].emp
  BY DEF Busy, WithoutLog, Sound, RequestSound
<1> QED BY <1>1 DEF OneAtATime, OneEach

LEMMA ArrivesInOrder ==
  ASSUME Overlap # "any", Sound, RowsInOrder, NEW r \in Requests, NEW x \in Request, Arrives(r, x)
  PROVE  RowsInOrder'
<1>1. /\ r \notin Busy /\ req[r].pc = "free" /\ \A q \in Busy : req[q].emp # x.emp
      /\ req'[r] = x /\ \A q \in Requests \ {r} : req'[q] = req[q] /\ UNCHANGED log
      /\ x.pc # "start.find" =>
           x.log \in DOMAIN log /\ (Settled(log[x.log]) => InWork(x, log[x.log]))
      /\ RequestSound(x)
      /\ x.pc \in {"start.find", "pause.break", "resume.break", "resume.status", "switch.find"}
  BY ArrivesAlone DEF Arrives, Sound, Busy
<1>2. UNCHANGED log
  BY DEF Arrives
<1>3. ASSUME x.pc # "start.find"
      PROVE  InWork(x, log[x.log]) /\ x.pc \notin Midway
  <2>1. log[x.log].employee = x.emp /\ x.log \in DOMAIN log
    BY <1>1, <1>3 DEF RequestSound, WithoutLog
  <2>2. ASSUME NEW q \in Requests, req[q].pc \in Midway PROVE req[q].log # x.log
    <3>1. q \in Busy /\ req[q].pc \notin WithoutLog
      BY <2>2 DEF Busy, Midway, WithoutLog
    <3> QED BY <1>1, <2>1, <3>1 DEF Sound, RequestSound
  <2>3. Settled(log[x.log])
    BY <2>1, <2>2 DEF RowsInOrder
  <2>4. InWork(x, log[x.log])
    BY <1>1, <1>3, <2>3
  <2>5. x.pc # "resume.status"
    BY <2>3, <2>4 DEF InWork, Settled, Midway
  <2> QED BY <1>1, <2>4, <2>5 DEF Midway
<1>4. x.pc = "start.find" => x.pc \notin Midway /\ x.pc \in WithoutLog
  BY DEF Midway, WithoutLog
<1>5. "free" \notin Midway
  BY DEF Midway
<1>6. ASSUME NEW q \in Requests, req'[q].pc \notin WithoutLog, req'[q].log \in DOMAIN log
      PROVE  InWork(req'[q], log[req'[q].log])
  <2>1. CASE q = r
    BY <1>1, <1>3, <1>4, <1>6, <2>1
  <2>2. CASE q # r
    BY <1>1, <1>6, <2>2 DEF RowsInOrder
  <2> QED BY <2>1, <2>2
<1>7. ASSUME NEW l \in DOMAIN log, \A q \in Requests : req'[q].pc \in Midway => req'[q].log # l
      PROVE  Settled(log[l])
  <2>1. \A q \in Requests : req[q].pc \in Midway => req[q].log # l
    BY <1>1, <1>5, <1>7
  <2> QED BY <2>1 DEF RowsInOrder
<1> QED BY <1>2, <1>6, <1>7 DEF RowsInOrder

LEMMA MovesInOrder ==
  ASSUME ~ Failures, Sound, RowsInOrder, NEW r \in Requests, Moves(r)
  PROVE  RowsInOrder'
<1>1. /\ KeptInOrder(r) /\ log' = log /\ \A q \in Requests \ {r} : req'[q] = req[q]
      /\ req'[r] = Free \/ GoesOn(r)
  BY DEF Moves, Goes, OnlyMoves
<1>2. ASSUME NEW q \in Requests, req'[q].pc \notin WithoutLog, req'[q].log \in DOMAIN log
      PROVE  InWork(req'[q], log[req'[q].log])
  <2>1. CASE q = r
    <3>1. GoesOn(r) /\ req[r].pc \notin WithoutLog /\ req'[r].log = req[r].log
      BY <1>1, <1>2, <2>1, FreeFacts DEF GoesOn, WithoutLog
    <3> QED BY <1>1, <1>2, <2>1, <3>1 DEF KeptInOrder, RowsInOrder
  <2>2. CASE q # r
    BY <1>1, <1>2, <2>2 DEF RowsInOrder
  <2> QED BY <2>1, <2>2
<1>3. ASSUME NEW l \in DOMAIN log, \A q \in Requests : req'[q].pc \in Midway => req'[q].log # l
      PROVE  Settled(log[l])
  <2>1. ASSUME req[r].pc \in Midway PROVE req[r].log # l
    <3>1. req[r].pc \notin WithoutLog
      BY <2>1 DEF Midway, WithoutLog
    <3> QED BY <1>1, <2>1, <3>1 DEF KeptInOrder, RowsInOrder
  <2>2. \A q \in Requests : req[q].pc \in Midway => req[q].log # l
    BY <1>1, <1>3, <2>1
  <2> QED BY <2>2 DEF RowsInOrder
<1> QED BY <1>1, <1>2, <1>3 DEF RowsInOrder

LEMMA UpdatesInOrder ==
  ASSUME Sound, OneAtATime, RowsInOrder, NEW r \in Requests, NEW row \in TimeLog, Updates(r, row)
  PROVE  RowsInOrder'
<1>1. /\ req[r].log \in DOMAIN log /\ log' = [log EXCEPT ![req[r].log] = row]
      /\ \A q \in Requests \ {r} : req'[q] = req[q]
      /\ req'[r] = Free \/ GoesOn(r)
      /\ req[r].pc \notin WithoutLog
  BY DEF Updates, Writes, UpdateLog, Goes, OnlyMoves
<1>2. /\ DOMAIN log' = DOMAIN log /\ log'[req[r].log] = row
      /\ \A l \in DOMAIN log : l # req[r].log => log'[l] = log[l]
  BY <1>1
<1>3. InWork(req[r], log[req[r].log])
  BY <1>1 DEF RowsInOrder
<1>4. \/ req'[r] = Free /\ Settled(row)
      \/ /\ req'[r].pc \in Midway /\ InWork(req'[r], row)
         /\ req'[r].log = req[r].log
  BY <1>1, <1>3, FreeFacts DEF Updates, GoesOn, Midway
<1>5. ASSUME NEW q \in Requests, req'[q].pc \notin WithoutLog, req'[q].log \in DOMAIN log'
      PROVE  InWork(req'[q], log'[req'[q].log])
  <2>1. CASE q = r
    BY <1>2, <1>4, <1>5, <2>1, FreeFacts DEF WithoutLog
  <2>2. CASE q # r
    <3>1. req'[q] = req[q] /\ req[q].log # req[r].log
      BY <1>1, <1>2, <1>5, <2>2, HeldOnce
    <3> QED BY <1>2, <1>5, <3>1 DEF RowsInOrder
  <2> QED BY <2>1, <2>2
<1>6. ASSUME NEW l \in DOMAIN log', \A q \in Requests : req'[q].pc \in Midway => req'[q].log # l
      PROVE  Settled(log'[l])
  <2>1. CASE l = req[r].log
    BY <1>2, <1>4, <1>6, <2>1
  <2>2. CASE l # req[r].log
    <3>1. \A q \in Requests : req[q].pc \in Midway => req[q].log # l
      BY <1>1, <1>6, <2>2
    <3> QED BY <1>2, <1>6, <2>2, <3>1 DEF RowsInOrder
  <2> QED BY <2>1, <2>2
<1> QED BY <1>5, <1>6 DEF RowsInOrder

LEMMA CreatesInOrder ==
  ASSUME Sound, RowsInOrder, NEW r \in Requests, NEW l \in LogIds, Creates(r, l)
  PROVE  RowsInOrder'
<1>1. /\ req[r].pc = "start.create" /\ \A q \in Requests \ {r} : req'[q] = req[q]
      /\ \/ req'[r] = Free
         \/ req'[r].log = l /\ req'[r].pc = "start.status"
  BY DEF Creates, OnlyMoves
<1>2. /\ DOMAIN log' = DOMAIN log \cup {l} /\ \A k \in DOMAIN log : log'[k] = log[k]
      /\ l \notin DOMAIN log /\ Settled(log'[l])
      /\ \A q \in Requests : req[q].log # l
  BY CreatesRows
<1>3. ASSUME NEW q \in Requests, req'[q].pc \notin WithoutLog, req'[q].log \in DOMAIN log'
      PROVE  InWork(req'[q], log'[req'[q].log])
  <2>1. CASE q = r
    <3>1. req'[q].pc = "start.status" /\ req'[q].log = l
      BY <1>1, <1>3, <2>1, FreeFacts DEF WithoutLog
    <3> QED BY <1>2, <3>1 DEF InWork, Midway
  <2>2. CASE q # r
    <3>1. req'[q] = req[q] /\ req[q].log \in DOMAIN log
      BY <1>1, <1>2, <1>3, <2>2
    <3> QED BY <1>2, <1>3, <3>1 DEF RowsInOrder
  <2> QED BY <2>1, <2>2
<1>4. ASSUME NEW k \in DOMAIN log', \A q \in Requests : req'[q].pc \in Midway => req'[q].log # k
      PROVE  Settled(log'[k])
  <2>1. CASE k = l
    BY <1>2, <2>1
  <2>2. CASE k # l
    <3>1. \A q \in Requests : req[q].pc \in Midway => req[q].log # k
      BY <1>1, <1>4 DEF Midway
    <3> QED BY <1>2, <1>4, <2>2, <3>1 DEF RowsInOrder
  <2> QED BY <2>1, <2>2
<1> QED BY <1>3, <1>4 DEF RowsInOrder

LEMMA KindInOrder ==
  ASSUME Overlap # "any", ~ Failures, Sound, OneAtATime, RowsInOrder, Kind
  PROVE  RowsInOrder'
<1>1. ASSUME Administers PROVE RowsInOrder'
  <2>1. /\ DOMAIN log' \subseteq DOMAIN log
        /\ \A l \in DOMAIN log' : log'[l] = log[l]
    BY <1>1 DEF Administers, Delete
  <2>2. \A q \in Requests :
           \/ req'[q] = req[q]
           \/ req[q].pc \in WithoutLog /\ req'[q].pc \in WithoutLog
    BY <1>1, FreeFacts DEF Administers, WithoutLog
  <2>3. ASSUME NEW q \in Requests, req'[q].pc \notin WithoutLog, req'[q].log \in DOMAIN log'
        PROVE  InWork(req'[q], log'[req'[q].log])
    BY <2>1, <2>2, <2>3 DEF RowsInOrder
  <2>4. ASSUME NEW l \in DOMAIN log', \A q \in Requests : req'[q].pc \in Midway => req'[q].log # l
        PROVE  Settled(log'[l])
    <3>1. \A q \in Requests : req[q].pc \in Midway => req[q].log # l
      BY <2>2, <2>4 DEF Midway, WithoutLog
    <3> QED BY <2>1, <3>1 DEF RowsInOrder
  <2> QED BY <2>3, <2>4 DEF RowsInOrder
<1> QED
  BY <1>1, ArrivesInOrder, MovesInOrder, UpdatesInOrder, CreatesInOrder DEF Kind

-----------------------------------------------------------------------------
(* The theorems.                                                           *)

THEOREM StepsSound == StepsSpec => []Sound
<1>1. StepsInit => Sound
  BY InitSound
<1>2. Sound /\ [StepsNext]_stepVars => Sound'
  BY EveryStepHasKind, KindSound, StutterKind
<1> QED BY <1>1, <1>2, PTL DEF StepsSpec

\* However requests overlap and fail (any number of them, of any number of
\* people), an employee never has more sessions open than requests are served
\* at once: findFirst before create bounds the race it does not prevent.
THEOREM RaceBounded == StepsSpec => []RaceIsBounded
<1>1. StepsInit => Counted
  BY InitSound
<1>2. Sound /\ Counted /\ [StepsNext]_stepVars => Counted'
  BY EveryStepHasKind, KindCounted, StutterKind
<1>3. Counted => RaceIsBounded
  BY DEF Counted, RaceIsBounded
<1> QED BY <1>1, <1>2, <1>3, StepsSound, PTL DEF StepsSpec

\* However requests overlap and fail, no write of a pause, resume or switch
\* that read a session before it ended takes the end away again.
THEOREM EndIsFinal == StepsSpec => EndedStaysEnded
<1> DEFINE Stays == \A l \in DOMAIN log \cap DOMAIN log' :
                      log[l].sessionEnd # Null => log'[l].sessionEnd # Null
<1>1. ASSUME SessionsKept PROVE Stays
  BY <1>1 DEF SessionsKept
<1>2. ASSUME Sound, NEW r \in Requests, NEW l \in LogIds, Creates(r, l) PROVE Stays
  BY <1>2, CreatesRows
<1>3. Sound /\ [StepsNext]_stepVars => [Stays]_stepVars
  BY <1>1, <1>2, EveryStepHasKind, KindSound
<1>4. EndedStaysEnded <=> [][Stays]_stepVars
  BY PTL DEF EndedStaysEnded
<1> HIDE DEF Stays
<1> QED BY <1>3, <1>4, StepsSound, PTL DEF StepsSpec

\* Where everyone waits for an answer before asking again, nobody ever has two
\* sessions open, even though the check and the insert are two calls, whoever
\* else is served in between and whatever fails.
THEOREM OneSessionEach ==
  ASSUME Overlap # "any"
  PROVE  StepsSpec => []OneOpenSession
<1>1. StepsInit => OneAtATime
  BY InitSound
<1>2. Sound /\ OneAtATime /\ [StepsNext]_stepVars => OneAtATime'
  BY EveryStepHasKind, KindOneAtATime, StutterKind
<1>3. OneAtATime => OneOpenSession
  <2> SUFFICES ASSUME OneAtATime, NEW e \in Employees
               PROVE  Cardinality(OpenSessions(e)) <= 1
    BY DEF OneOpenSession
  <2>1. CASE OpenSessions(e) = {}
    BY <2>1, FS_EmptySet
  <2>2. ASSUME NEW l \in OpenSessions(e) PROVE Cardinality(OpenSessions(e)) <= 1
    <3>1. OpenSessions(e) = {l}
      BY <2>2 DEF OneAtATime, AtMostOneOpen
    <3> QED BY <3>1, FS_Singleton
  <2> QED BY <2>1, <2>2
<1> QED BY <1>1, <1>2, <1>3, StepsSound, PTL DEF StepsSpec

\* Where everyone waits and no call fails, a session nobody is at work on is
\* always running without an open break, paused with its latest break open,
\* or completed with none: the two writes of each handler are never torn apart
\* for anybody to see.
THEOREM SettledInOrder ==
  ASSUME Overlap # "any", ~ Failures
  PROVE  StepsSpec => []SettledDiscipline
<1> DEFINE I == Sound /\ OneAtATime /\ RowsInOrder
<1>1. StepsInit => I
  BY InitSound
<1>2. I /\ [StepsNext]_stepVars => I'
  BY EveryStepHasKind, KindSound, KindOneAtATime, KindInOrder, StutterKind
<1>3. I => SettledDiscipline
  <2> SUFFICES ASSUME I PROVE SettledDiscipline
    OBVIOUS
  <2>1. StepsTypeOK
    BY DEF Sound, StepsTypeOK, Request
  <2>2. ASSUME NEW l \in DOMAIN log, \A r \in Busy : req[r].emp # log[l].employee
        PROVE  Settled(log[l])
    <3>1. ASSUME NEW r \in Requests, req[r].pc \in Midway PROVE req[r].log # l
      <4>1. r \in Busy /\ req[r].pc \notin WithoutLog
        BY <3>1 DEF Busy, Midway, WithoutLog
      <4> QED BY <2>2, <4>1 DEF Sound, RequestSound
    <3> QED BY <2>2, <3>1 DEF RowsInOrder
  <2> QED BY <2>1, <2>2 DEF SettledDiscipline, Settled
<1> HIDE DEF I
<1> QED BY <1>1, <1>2, <1>3, PTL DEF StepsSpec

-----------------------------------------------------------------------------
(* Served one at a time, the requests implement TaskTimer.                 *)

\* What a request has read still holds when nobody else is served: its rows
\* are there, and as far as it has written them they are as it left them.
Served(x) ==
  /\ x.pc \notin WithoutLog => x.log \in DOMAIN log
  /\ x.pc \in {"start.find", "start.create", "start.status"} =>
       /\ x.task \in DOMAIN task /\ task[x.task].assignee = x.emp
       /\ task[x.task].personStatus # "DONE"
       /\ x.wasNotStarted = (task[x.task].personStatus = "NOT_STARTED")
  /\ x.pc = "start.status" => x.wasNotStarted /\ log[x.log] = NewLog(x.emp, x.task)
  /\ x.pc = "pause.break" => log[x.log].breaks < MaxBreaks
  /\ x.pc = "pause.status" => log[x.log].breaks \in 1 .. MaxBreaks
  /\ x.pc = "switch.find" => x.brk = Null
  /\ x.pc \in {"resume.break", "resume.status", "switch.break"} => x.brk # Null
  /\ x.pc \in {"resume.break", "resume.status"} => x.brk.no = log[x.log].breaks
  /\ x.pc = "switch.close" /\ x.brk # Null => log[x.log].status = "paused"
  /\ x.brk # Null => x.brk.start = 0

Alone ==
  /\ now = 0
  /\ \A r, q \in Busy : r = q
  /\ \A r \in Busy : Served(req[r])

Serial == Sound /\ OneAtATime /\ RowsInOrder /\ Alone

\* Rows, tables and the breaks of rows that agree in everything are the same.
LEMMA SameRow ==
  ASSUME NEW r \in TimeLog, NEW s \in TimeLog,
         s.task = r.task, s.employee = r.employee, s.status = r.status,
         s.sessionStart = r.sessionStart, s.sessionEnd = r.sessionEnd,
         s.actualDuration = r.actualDuration, s.openBreaks = r.openBreaks,
         s.breaks = r.breaks, s.breakMinutes = r.breakMinutes, s.breakTicks = r.breakTicks
  PROVE  s = r
BY DEF TimeLog

LEMMA SameBreak ==
  ASSUME NEW b \in Break, NEW c \in Break, c.no = b.no, c.start = b.start
  PROVE  c = b
BY DEF Break

LEMMA SameTable ==
  ASSUME NEW S, NEW f, NEW g, DOMAIN f = DOMAIN g, f \in [DOMAIN f -> S], g \in [DOMAIN g -> S],
         \A k \in DOMAIN f : f[k] = g[k]
  PROVE  f = g
OBVIOUS

\* No time passes while the clock stands still.
LEMMA RoundZero == RoundMinutes(0) = 0
<1>1. /\ RoundMinutes(0) \in Nat
      /\ 2 * (TicksPerMinute * RoundMinutes(0) - 0) <= TicksPerMinute
  BY RoundMinutesBound
<1> DEFINE m == RoundMinutes(0)
<1>2. ASSUME m >= 1 PROVE FALSE
  <2>1. PICK k \in Nat : m = k + 1
    <3>1. m - 1 \in Nat /\ m = (m - 1) + 1
      BY <1>1, <1>2
    <3> QED BY <3>1
  <2> HIDE DEF m
  <2>2. TicksPerMinute * (k + 1) = TicksPerMinute * k + TicksPerMinute /\ TicksPerMinute * k >= 0
    BY TicksAssumption
  <2>3. 2 * (TicksPerMinute * m) <= TicksPerMinute
    BY <1>1, <2>1, <2>2, TicksAssumption DEF m
  <2> QED BY <2>1, <2>2, <2>3, TicksAssumption
<1> QED BY <1>1, <1>2, TicksAssumption

\* Undoing the beginning of a break, and beginning it once more.
TakenBack(s) == [s EXCEPT !.breaks = @ - 1, !.openBreaks = {b \in @ : b.no # s.breaks}]

LEMMA BeginTakenBack ==
  ASSUME NEW row \in TimeLog, row.openBreaks = {}, now \in Nat
  PROVE  TakenBack(BeginBreak(row)) = row /\ BeginBreak(row) \in TimeLog
<1> DEFINE b == [no |-> row.breaks + 1, start |-> now]
           s == BeginBreak(row)
<1>1. b \in Break /\ b.no = row.breaks + 1 /\ row.breaks \in Nat
  BY DEF Break, TimeLog
<1>2. {b} \in SUBSET Break /\ row.breaks + 1 \in Nat
  BY <1>1
<1>3. s = [row EXCEPT !.openBreaks = {b}, !.breaks = row.breaks + 1]
  BY DEF BeginBreak
<1> HIDE DEF b, s
<1>4. /\ s \in TimeLog /\ s.openBreaks = {b} /\ s.breaks = row.breaks + 1
      /\ s.task = row.task /\ s.employee = row.employee /\ s.status = row.status
      /\ s.sessionStart = row.sessionStart /\ s.sessionEnd = row.sessionEnd
      /\ s.actualDuration = row.actualDuration
      /\ s.breakMinutes = row.breakMinutes /\ s.breakTicks = row.breakTicks
  BY <1>2, <1>3 DEF TimeLog
<1>5. {c \in s.openBreaks : c.no # s.breaks} = {} /\ s.breaks - 1 = row.breaks
  BY <1>1, <1>4
<1>6. TakenBack(s) = [s EXCEPT !.breaks = row.breaks, !.openBreaks = {}]
  BY <1>5 DEF TakenBack
<1>7. TakenBack(s) = row
  <2> DEFINE u == [s EXCEPT !.breaks = row.breaks, !.openBreaks = {}]
  <2>1. /\ u \in TimeLog /\ u.openBreaks = {} /\ u.breaks = row.breaks
        /\ u.task = s.task /\ u.employee = s.employee /\ u.status = s.status
        /\ u.sessionStart = s.sessionStart /\ u.sessionEnd = s.sessionEnd
        /\ u.actualDuration = s.actualDuration
        /\ u.breakMinutes = s.breakMinutes /\ u.breakTicks = s.breakTicks
    BY <1>1, <1>4 DEF TimeLog
  <2> HIDE DEF u
  <2>2. u = row
    BY <1>4, <2>1, SameRow
  <2> QED BY <1>6, <2>2 DEF u
<1> QED BY <1>4, <1>7 DEF s

LEMMA TakenBackBegins ==
  ASSUME NEW s \in TimeLog, NEW b \in Break, s.openBreaks = {b}, b.no = s.breaks, b.start = now,
         s.breaks > 0
  PROVE  /\ BeginBreak(TakenBack(s)) = s
         /\ TakenBack(s).breaks = s.breaks - 1 /\ TakenBack(s).status = s.status
         /\ TakenBack(s).employee = s.employee
<1> DEFINE u == TakenBack(s)
           k == s.breaks - 1
           c == [no |-> k + 1, start |-> now]
<1>1. k \in Nat /\ k + 1 = s.breaks /\ s.breaks \in Nat
  BY DEF TimeLog
<1>2. c = b
  <2>1. c \in Break /\ c.no = b.no /\ c.start = b.start
    BY <1>1 DEF Break
  <2> HIDE DEF c
  <2> QED BY <2>1, SameBreak
<1>3. {d \in s.openBreaks : d.no # s.breaks} = {}
  OBVIOUS
<1>4. u = [s EXCEPT !.breaks = k, !.openBreaks = {}]
  BY <1>3 DEF TakenBack
<1> HIDE DEF u, k
<1>5. /\ u \in TimeLog /\ u.openBreaks = {} /\ u.breaks = k
      /\ u.task = s.task /\ u.employee = s.employee /\ u.status = s.status
      /\ u.sessionStart = s.sessionStart /\ u.sessionEnd = s.sessionEnd
      /\ u.actualDuration = s.actualDuration
      /\ u.breakMinutes = s.breakMinutes /\ u.breakTicks = s.breakTicks
  BY <1>1, <1>4 DEF TimeLog
<1>6. BeginBreak(u) = [u EXCEPT !.openBreaks = {b}, !.breaks = s.breaks]
  BY <1>1, <1>2, <1>5 DEF BeginBreak
<1>7. BeginBreak(u) = s
  <2> DEFINE v == [u EXCEPT !.openBreaks = {b}, !.breaks = s.breaks]
  <2>1. {b} \in SUBSET Break
    OBVIOUS
  <2>2. /\ v \in TimeLog /\ v.openBreaks = {b} /\ v.breaks = s.breaks
        /\ v.task = u.task /\ v.employee = u.employee /\ v.status = u.status
        /\ v.sessionStart = u.sessionStart /\ v.sessionEnd = u.sessionEnd
        /\ v.actualDuration = u.actualDuration
        /\ v.breakMinutes = u.breakMinutes /\ v.breakTicks = u.breakTicks
    BY <1>1, <1>5, <2>1 DEF TimeLog
  <2> HIDE DEF v
  <2>3. v = s
    BY <1>5, <2>2, SameRow
  <2> QED BY <1>6, <2>3 DEF v
<1> QED BY <1>5, <1>7 DEF u, k

\* Undoing the closing of a break, and closing it once more.
OpenAgain(s, b) == [s EXCEPT !.openBreaks = @ \cup {b}]

LEMMA CloseOpenedAgain ==
  ASSUME NEW row \in TimeLog, NEW b \in row.openBreaks, b.start = now, now \in Nat
  PROVE  OpenAgain(CloseBreak(row, b), b) = row
<1> DEFINE s == CloseBreak(row, b)
           u == OpenAgain(s, b)
           B == row.openBreaks \ {b}
<1>1. /\ row.breakMinutes + RoundMinutes(now - b.start) = row.breakMinutes
      /\ row.breakTicks + (now - b.start) = row.breakTicks
  BY RoundZero DEF TimeLog
<1>2. s = [row EXCEPT !.openBreaks = B, !.breakMinutes = row.breakMinutes,
                      !.breakTicks = row.breakTicks]
  BY <1>1 DEF CloseBreak
<1>3. B \in SUBSET Break /\ B \cup {b} = row.openBreaks
  BY DEF TimeLog
<1> HIDE DEF s, B
<1>4. /\ s \in TimeLog /\ s.openBreaks = B
      /\ s.task = row.task /\ s.employee = row.employee /\ s.status = row.status
      /\ s.sessionStart = row.sessionStart /\ s.sessionEnd = row.sessionEnd
      /\ s.actualDuration = row.actualDuration /\ s.breaks = row.breaks
      /\ s.breakMinutes = row.breakMinutes /\ s.breakTicks = row.breakTicks
  BY <1>2, <1>3 DEF TimeLog
<1>5. u = [s EXCEPT !.openBreaks = row.openBreaks]
  BY <1>3, <1>4 DEF OpenAgain
<1> HIDE DEF u
<1>6. /\ u \in TimeLog /\ u.openBreaks = row.openBreaks
      /\ u.task = row.task /\ u.employee = row.employee /\ u.status = row.status
      /\ u.sessionStart = row.sessionStart /\ u.sessionEnd = row.sessionEnd
      /\ u.actualDuration = row.actualDuration /\ u.breaks = row.breaks
      /\ u.breakMinutes = row.breakMinutes /\ u.breakTicks = row.breakTicks
  BY <1>4, <1>5 DEF TimeLog
<1>7. u = row
  BY <1>6, SameRow
<1> QED BY <1>7 DEF u, s

LEMMA OpenedAgainCloses ==
  ASSUME NEW s \in TimeLog, NEW b \in Break, s.openBreaks = {}, b.start = now, now \in Nat
  PROVE  /\ CloseBreak(OpenAgain(s, b), b) = s
         /\ OpenAgain(s, b).openBreaks = {b} /\ OpenAgain(s, b).breaks = s.breaks
         /\ OpenAgain(s, b).status = s.status /\ OpenAgain(s, b).employee = s.employee
<1> DEFINE u == OpenAgain(s, b)
           v == CloseBreak(u, b)
<1>1. u = [s EXCEPT !.openBreaks = {b}] /\ {b} \in SUBSET Break
  BY DEF OpenAgain
<1> HIDE DEF u
<1>2. /\ u \in TimeLog /\ u.openBreaks = {b}
      /\ u.task = s.task /\ u.employee = s.employee /\ u.status = s.status
      /\ u.sessionStart = s.sessionStart /\ u.sessionEnd = s.sessionEnd
      /\ u.actualDuration = s.actualDuration /\ u.breaks = s.breaks
      /\ u.breakMinutes = s.breakMinutes /\ u.breakTicks = s.breakTicks
  BY <1>1 DEF TimeLog
<1>3. /\ u.breakMinutes + RoundMinutes(now - b.start) = u.breakMinutes
      /\ u.breakTicks + (now - b.start) = u.breakTicks
      /\ u.openBreaks \ {b} = {}
  BY <1>2, RoundZero DEF TimeLog
<1>4. v = [u EXCEPT !.openBreaks = {}, !.breakMinutes = u.breakMinutes, !.breakTicks = u.breakTicks]
  BY <1>3 DEF CloseBreak
<1> HIDE DEF v
<1>5. /\ v \in TimeLog /\ v.openBreaks = {}
      /\ v.task = u.task /\ v.employee = u.employee /\ v.status = u.status
      /\ v.sessionStart = u.sessionStart /\ v.sessionEnd = u.sessionEnd
      /\ v.actualDuration = u.actualDuration /\ v.breaks = u.breaks
      /\ v.breakMinutes = u.breakMinutes /\ v.breakTicks = u.breakTicks
  BY <1>2, <1>4 DEF TimeLog
<1>6. v = s
  BY <1>2, <1>5, SameRow
<1> QED BY <1>2, <1>6 DEF u, v

-----------------------------------------------------------------------------
(* What the refinement mapping makes of the tables.                        *)

\* On rows, TaskTimer's operators do not depend on the time logs.
LEMMA AtomicRows ==
  /\ \A e, t : Atomic!NewLog(e, t) = NewLog(e, t)
  /\ \A row : /\ Atomic!BeginBreak(row) = BeginBreak(row)
              /\ Atomic!Complete(row) = Complete(row)
              /\ Atomic!LatestIfOpen(row) = LatestIfOpen(row)
              /\ Atomic!IsOpen(row) = IsOpen(row)
  /\ \A row, B : Atomic!CloseOneOf(row, B) = CloseOneOf(row, B)
  /\ \A table, key, row : /\ Atomic!Insert(table, key, row) = Insert(table, key, row)
                          /\ Atomic!Delete(table, key) = Delete(table, key)
<1>1. \A d : Atomic!RoundMinutes(d) = RoundMinutes(d) /\ Atomic!AtLeastZero(d) = AtLeastZero(d)
  BY DEF Atomic!RoundMinutes, RoundMinutes, Atomic!AtLeastZero, AtLeastZero
<1>2. \A row, b : Atomic!CloseBreak(row, b) = CloseBreak(row, b)
  BY <1>1 DEF Atomic!CloseBreak, CloseBreak
<1>3. \A row, B : Atomic!CloseOneOf(row, B) = CloseOneOf(row, B)
  BY <1>2 DEF Atomic!CloseOneOf, CloseOneOf
<1>4. \A row : Atomic!Complete(row) = Complete(row)
  BY <1>1 DEF Atomic!Complete, Complete
<1>5. \A e, t : Atomic!NewLog(e, t) = NewLog(e, t)
  BY DEF Atomic!NewLog, NewLog
<1>6. \A row : /\ Atomic!BeginBreak(row) = BeginBreak(row)
               /\ Atomic!LatestIfOpen(row) = LatestIfOpen(row)
               /\ Atomic!IsOpen(row) = IsOpen(row)
  BY DEF Atomic!BeginBreak, BeginBreak, Atomic!LatestIfOpen, LatestIfOpen, Atomic!IsOpen, IsOpen
<1>7. \A table, key, row : /\ Atomic!Insert(table, key, row) = Insert(table, key, row)
                           /\ Atomic!Delete(table, key) = Delete(table, key)
  BY DEF Atomic!Insert, Insert, Atomic!Delete, Delete
<1> QED BY <1>3, <1>4, <1>5, <1>6, <1>7

\* Nothing is undone of a request that has not written, or only closed a break
\* it did not find.
Unwritten(x) ==
  \/ x.pc \notin {"start.status", "pause.status", "resume.status", "switch.close"}
  \/ x.pc = "switch.close" /\ x.brk = Null

LEMMA UndoneCases ==
  ASSUME NEW r \in Requests
  PROVE  LET l == req[r].log IN
         /\ Unwritten(req[r]) => Undone(r) = log
         /\ req[r].pc = "start.status" => Undone(r) = Delete(log, {l})
         /\ req[r].pc = "pause.status" => Undone(r) = [log EXCEPT ![l] = TakenBack(log[l])]
         /\ req[r].pc \in {"resume.status", "switch.close"} /\ req[r].brk # Null =>
              Undone(r) = [log EXCEPT ![l] = OpenAgain(log[l], req[r].brk)]
BY DEF Undone, Unwritten, TakenBack, OpenAgain

\* The same after a step.
LEMMA UndoneCasesPrimed ==
  ASSUME NEW r \in Requests
  PROVE  LET l == req'[r].log IN
         /\ Unwritten(req'[r]) => Undone(r)' = log'
         /\ req'[r].pc = "start.status" => Undone(r)' = Delete(log', {l})
         /\ req'[r].pc = "pause.status" => Undone(r)' = [log' EXCEPT ![l] = TakenBack(log'[l])]
         /\ req'[r].pc \in {"resume.status", "switch.close"} /\ req'[r].brk # Null =>
              Undone(r)' = [log' EXCEPT ![l] = OpenAgain(log'[l], req'[r].brk)]
BY DEF Undone, Unwritten, TakenBack, OpenAgain

\* The only request being served, and what is known of it.
LEMMA ServedAlone ==
  ASSUME Serial, NEW r \in Requests, req[r].pc # "free"
  PROVE  /\ Busy = {r} /\ Served(req[r]) /\ SettledLog = Undone(r)
         /\ req[r] \in Request /\ req[r].emp \in Employees
         /\ now = 0 /\ TypeOK /\ req \in [Requests -> Request]
         /\ req[r].pc \notin WithoutLog =>
              /\ req[r].log \in LogIds /\ req[r].log \in DOMAIN log
              /\ log[req[r].log] \in TimeLog /\ log[req[r].log].employee = req[r].emp
              /\ RowSound(log[req[r].log])
              /\ InWork(req[r], log[req[r].log])
<1>1. r \in Busy
  BY DEF Busy
<1>2. Busy = {r} /\ Served(req[r]) /\ now = 0
  BY <1>1 DEF Serial, Alone
<1>3. SettledLog = Undone(r)
  BY <1>2 DEF SettledLog
<1>4. /\ RequestSound(req[r]) /\ req[r] \in Request /\ req[r].emp \in Employees
      /\ TypeOK /\ req \in [Requests -> Request]
  BY DEF Serial, Sound, RequestSound
<1>5. ASSUME req[r].pc \notin WithoutLog
      PROVE  /\ req[r].log \in LogIds /\ req[r].log \in DOMAIN log
             /\ log[req[r].log] \in TimeLog /\ log[req[r].log].employee = req[r].emp
             /\ RowSound(log[req[r].log])
             /\ InWork(req[r], log[req[r].log])
  <2>1. req[r].log \in DOMAIN log
    BY <1>2, <1>5 DEF Served
  <2>2. RowSound(log[req[r].log]) /\ InWork(req[r], log[req[r].log])
    BY <1>5, <2>1 DEF Serial, Sound, RowsInOrder
  <2> QED BY <1>4, <1>5, <2>1, <2>2 DEF RequestSound, RowSound, TypeOK
<1> QED BY <1>2, <1>3, <1>4, <1>5

LEMMA NobodyServed ==
  ASSUME Busy = {}
  PROVE  SettledLog = log
BY DEF SettledLog

\* With its answer, all a request has written is to be seen.
LEMMA AnsweredAlone ==
  ASSUME Serial, NEW r \in Requests, req[r].pc # "free", Answer(r), now' = now
  PROVE  Alone' /\ SettledLog' = log'
<1>1. Busy = {r} /\ now = 0 /\ req \in [Requests -> Request]
  BY ServedAlone
<1>2. Busy' = {}
  BY <1>1, AnswerFacts, FreeFacts DEF Busy, OnlyMoves
<1>3. SettledLog' = log'
  BY <1>2 DEF SettledLog
<1>4. Alone'
  BY <1>1, <1>2 DEF Alone
<1> QED BY <1>3, <1>4

\* Until then, what it has written is undone.
LEMMA GoingOnAlone ==
  ASSUME Serial, NEW r \in Requests, Busy \subseteq {r}, OnlyMoves(r), req'[r].pc # "free",
         now' = now, Served(req[r])'
  PROVE  Alone' /\ SettledLog' = Undone(r)'
<1>1. now = 0
  BY DEF Serial, Alone
<1>2. Busy' = {r}
  BY DEF OnlyMoves, Busy
<1>3. SettledLog' = Undone(r)'
  BY <1>2 DEF SettledLog
<1>4. Alone'
  BY <1>1, <1>2 DEF Alone
<1> QED BY <1>3, <1>4

\* What a step of the handlers has to be.
StepsTo == Alone' /\ (Atomic!Next \/ UNCHANGED <<task, SettledLog, now>>)

-----------------------------------------------------------------------------
(* Step by step.                                                           *)

\* Nothing is to be seen of a request that has only read.
LEMMA ArrivesSerial ==
  ASSUME Serial, Busy = {}, NEW r \in Requests, NEW x \in Request,
         req' = [req EXCEPT ![r] = x], UNCHANGED <<task, log, now>>,
         x.pc \in {"start.find", "pause.break", "resume.break", "switch.find"}, Served(x)
  PROVE  StepsTo
<1>1. req' = [req EXCEPT ![r] = x] /\ req \in [Requests -> Request] /\ x.pc # "free"
  BY DEF Serial, Sound
<1>2. OnlyMoves(r) /\ req'[r] = x
  BY <1>1 DEF OnlyMoves
<1>3. Served(req[r])'
  BY <1>2 DEF Served, NewLog
<1>4. Alone' /\ SettledLog' = Undone(r)'
  BY <1>1, <1>2, <1>3, GoingOnAlone
<1>5. Unwritten(req'[r])
  BY <1>2 DEF Unwritten
<1>6. Undone(r)' = log'
  BY <1>5, UndoneCasesPrimed
<1> QED BY <1>4, <1>6, NobodyServed DEF StepsTo

LEMMA NobodyBusy ==
  ASSUME Overlap = "none", NEW r, NEW e, MayArrive(r, e)
  PROVE  Busy = {}
BY DEF MayArrive

LEMMA StartReadSerial ==
  ASSUME Overlap = "none", Serial, NEW r \in Requests, NEW e \in Employees, NEW t \in Tasks,
         StartRead(r, e, t)
  PROVE  StepsTo
<1> DEFINE w == (task[t].personStatus = "NOT_STARTED")
           x == [Free EXCEPT !.pc = "start.find", !.emp = e, !.task = t, !.wasNotStarted = w]
<1>1. /\ x \in Request /\ x.pc = "start.find" /\ x.emp = e /\ x.task = t
      /\ x.brk = Null
  BY DEF Free, Request, PC
<1>2. x.wasNotStarted = w
  BY DEF Free
<1>3. /\ t \in DOMAIN task /\ task[t].assignee = e /\ task[t].personStatus # "DONE"
      /\ req' = [req EXCEPT ![r] = x] /\ UNCHANGED <<task, log, now>> /\ Busy = {}
  BY NobodyBusy DEF StartRead
<1>4. x.wasNotStarted = (task[x.task].personStatus = "NOT_STARTED")
  BY <1>1, <1>2
<1> HIDE DEF x, w
<1>5. Served(x)
  BY <1>1, <1>3, <1>4 DEF Served, WithoutLog
<1> QED BY <1>1, <1>3, <1>5, ArrivesSerial

LEMMA PauseReadSerial ==
  ASSUME Overlap = "none", Serial, NEW r \in Requests, NEW e \in Employees, NEW l, PauseRead(r, e, l)
  PROVE  StepsTo
<1> DEFINE x == [Free EXCEPT !.pc = "pause.break", !.emp = e, !.log = l]
<1>1. l \in LogIds /\ l \in DOMAIN log
  BY ReadLog DEF PauseRead, Serial
<1>2. x \in Request /\ x.pc = "pause.break" /\ x.log = l /\ x.brk = Null
  BY <1>1 DEF Free, Request, PC
<1>3. /\ req' = [req EXCEPT ![r] = x] /\ UNCHANGED <<task, log, now>> /\ Busy = {}
      /\ log[l].breaks < MaxBreaks
  BY NobodyBusy DEF PauseRead
<1> HIDE DEF x
<1>4. Served(x)
  BY <1>1, <1>2, <1>3 DEF Served
<1> QED BY <1>2, <1>3, <1>4, ArrivesSerial

\* A paused session nobody is at work on has its latest break open.
LEMMA ResumeReadSerial ==
  ASSUME Overlap = "none", Serial, NEW r \in Requests, NEW e \in Employees, NEW l, ResumeRead(r, e, l)
  PROVE  StepsTo
<1>1. l \in LogIds /\ l \in DOMAIN log /\ log[l] \in TimeLog /\ log[l].status = "paused"
  BY ReadLog DEF ResumeRead, Serial
<1>2. UNCHANGED <<task, log, now>> /\ Busy = {}
  BY NobodyBusy DEF ResumeRead
<1>3. Settled(log[l])
  BY <1>1, <1>2 DEF Serial, RowsInOrder, Busy, Midway
<1>4. LatestIfOpen(log[l]) # {}
  BY <1>1, <1>3 DEF Settled, LatestIfOpen
<1>5. PICK b \in LatestIfOpen(log[l]) :
        req' = [req EXCEPT ![r] = [Free EXCEPT !.pc = "resume.break", !.emp = e,
                                               !.log = l, !.brk = b]]
  BY <1>4 DEF ResumeRead
<1> DEFINE x == [Free EXCEPT !.pc = "resume.break", !.emp = e, !.log = l, !.brk = b]
<1>6. b \in log[l].openBreaks /\ b \in Break /\ b.no = log[l].breaks
  BY <1>1 DEF LatestIfOpen, TimeLog
<1>7. b # Null /\ b.start = 0
  <2>1. b.start <= now /\ now = 0
    BY <1>1, <1>6 DEF Serial, Sound, RowSound, Alone
  <2> QED BY <1>6, <2>1, NoBreakAssumption DEF Break
<1>8. x \in Request /\ x.pc = "resume.break" /\ x.log = l /\ x.brk = b
  BY <1>1, <1>6 DEF Free, Request, PC
<1>9. req' = [req EXCEPT ![r] = x]
  BY <1>5
<1> HIDE DEF x
<1>10. Served(x)
  BY <1>1, <1>6, <1>7, <1>8 DEF Served
<1> QED BY <1>2, <1>8, <1>9, <1>10, ArrivesSerial

LEMMA SwitchReadSerial ==
  ASSUME Overlap = "none", Serial, NEW r \in Requests, NEW e \in Employees, NEW l, SwitchRead(r, e, l)
  PROVE  StepsTo
<1> DEFINE x == [Free EXCEPT !.pc = "switch.find", !.emp = e, !.log = l]
<1>1. l \in LogIds /\ l \in DOMAIN log
  BY ReadLog DEF SwitchRead, Serial
<1>2. x \in Request /\ x.pc = "switch.find" /\ x.log = l /\ x.brk = Null
  BY <1>1 DEF Free, Request, PC
<1>3. req' = [req EXCEPT ![r] = x] /\ UNCHANGED <<task, log, now>> /\ Busy = {}
  BY NobodyBusy DEF SwitchRead
<1> HIDE DEF x
<1>4. Served(x)
  BY <1>1, <1>2 DEF Served
<1> QED BY <1>2, <1>3, <1>4, ArrivesSerial

\* A request that had not written and is answered without writing.
LEMMA AnswerSerial ==
  ASSUME Serial, NEW r \in Requests, req[r].pc # "free", Unwritten(req[r]), Answer(r),
         UNCHANGED <<task, log, now>>
  PROVE  StepsTo
<1>1. Alone' /\ SettledLog' = log'
  BY AnsweredAlone
<1>2. SettledLog = log
  BY ServedAlone, UndoneCases
<1> QED BY <1>1, <1>2 DEF StepsTo

LEMMA StartFindSerial ==
  ASSUME Serial, NEW r \in Requests, StartFind(r)
  PROVE  StepsTo
<1>1. req[r].pc = "start.find" /\ Unwritten(req[r]) /\ UNCHANGED <<task, log, now>>
  BY DEF StartFind, Unwritten
<1>2. /\ Busy = {r} /\ Served(req[r]) /\ SettledLog = log
      /\ req \in [Requests -> Request] /\ "start.create" \in PC
  BY <1>1, ServedAlone, UndoneCases DEF PC
<1>3. CASE Answer(r)
  BY <1>1, <1>3, AnswerSerial
<1>4. CASE Continue(r, "start.create")
  <2>1. /\ OnlyMoves(r) /\ req'[r].pc = "start.create"
        /\ req'[r].emp = req[r].emp /\ req'[r].task = req[r].task
        /\ req'[r].log = req[r].log /\ req'[r].brk = req[r].brk
        /\ req'[r].wasNotStarted = req[r].wasNotStarted
    <3>1. req'[r].wasNotStarted = req[r].wasNotStarted
      BY <1>2, <1>4 DEF Continue, Request
    <3> QED BY <1>2, <1>4, <3>1, ContinueFacts
  <2>2. Served(req[r])'
    BY <1>1, <1>2, <2>1 DEF Served, WithoutLog
  <2>3. Alone' /\ SettledLog' = Undone(r)'
    BY <1>1, <1>2, <2>1, <2>2, GoingOnAlone
  <2>4. Unwritten(req'[r])
    BY <2>1 DEF Unwritten
  <2>5. Undone(r)' = log'
    BY <2>4, UndoneCasesPrimed
  <2> QED BY <1>1, <1>2, <2>3, <2>5 DEF StepsTo
<1> QED BY <1>3, <1>4 DEF StartFind

\* StartTimer takes effect when its last write is made: that of the log ...
LEMMA StartMapsTo ==
  ASSUME NEW e \in Employees, NEW t \in Tasks, NEW l \in LogIds,
         t \in DOMAIN task, task[t].assignee = e, task[t].personStatus # "DONE",
         l \notin DOMAIN SettledLog,
         \A k \in DOMAIN SettledLog : ~ (SettledLog[k].employee = e /\ IsOpen(SettledLog[k])),
         SettledLog' = Insert(SettledLog, l, NewLog(e, t)),
         task' = IF task[t].personStatus = "NOT_STARTED"
                   THEN [task EXCEPT ![t].personStatus = "IN_PROGRESS"] ELSE task,
         now' = now
  PROVE  Atomic!Next
<1>1. Atomic!OpenSessions(e) = {}
  BY AtomicRows DEF Atomic!OpenSessions
<1>2. SettledLog' = Atomic!Insert(SettledLog, l, Atomic!NewLog(e, t))
  BY AtomicRows
<1>3. Atomic!StartTimer(e, t)
  BY <1>1, <1>2 DEF Atomic!StartTimer
<1> QED BY <1>3 DEF Atomic!Next

LEMMA StartCreateSerial ==
  ASSUME Serial, NEW r \in Requests, StartCreate(r)
  PROVE  StepsTo
<1>1. req[r].pc = "start.create" /\ Unwritten(req[r]) /\ UNCHANGED <<task, now>>
  BY DEF StartCreate, Unwritten
<1>2. /\ Busy = {r} /\ Served(req[r]) /\ SettledLog = log /\ TypeOK
      /\ req \in [Requests -> Request] /\ req[r] \in Request /\ req[r].emp \in Employees
  BY <1>1, ServedAlone, UndoneCases
<1>3. CASE Answer(r) /\ UNCHANGED log
  BY <1>1, <1>3, AnswerSerial
<1>4. ASSUME NEW l \in FreshLogIds, req[r].task \in DOMAIN task,
             log' = Insert(log, l, NewLog(req[r].emp, req[r].task)),
             IF req[r].wasNotStarted
               THEN req' = [req EXCEPT ![r].pc = "start.status", ![r].log = l]
               ELSE Answer(r)
      PROVE  StepsTo
  <2> DEFINE e == req[r].emp
             t == req[r].task
  <2>1. /\ l \in LogIds /\ l \notin DOMAIN log
        /\ t \in Tasks /\ t \in DOMAIN task /\ task[t].assignee = e
        /\ task[t].personStatus # "DONE"
        /\ req[r].wasNotStarted = (task[t].personStatus = "NOT_STARTED")
    BY <1>1, <1>2, <1>4 DEF FreshLogIds, Served, TypeOK
  <2>2. \A k \in DOMAIN log : ~ (log[k].employee = e /\ IsOpen(log[k]))
    BY <1>1 DEF Serial, OneAtATime, PassedFindsNone, OpenSessions
  <2>3. CASE ~ req[r].wasNotStarted
    <3>1. Alone' /\ SettledLog' = log'
      BY <1>1, <1>4, <2>3, AnsweredAlone
    <3>2. task' = IF task[t].personStatus = "NOT_STARTED"
                    THEN [task EXCEPT ![t].personStatus = "IN_PROGRESS"] ELSE task
      BY <1>1, <2>1, <2>3
    <3>3. Atomic!Next
      BY <1>1, <1>2, <1>4, <2>1, <2>2, <3>1, <3>2, StartMapsTo
    <3> QED BY <3>1, <3>3 DEF StepsTo
  <2>4. CASE req[r].wasNotStarted
    <3> DEFINE x == [req[r] EXCEPT !.pc = "start.status", !.log = l]
    <3>1. /\ x \in Request /\ x.pc = "start.status" /\ x.log = l
          /\ x.emp = e /\ x.task = t /\ x.brk = req[r].brk
          /\ x.wasNotStarted = req[r].wasNotStarted
      BY <1>2, <2>1 DEF Request, PC
    <3>2. req' = [req EXCEPT ![r] = x]
      BY <1>2, <1>4, <2>4
    <3> HIDE DEF x, e, t
    <3>3. OnlyMoves(r) /\ req'[r] = x
      BY <1>2, <3>1, <3>2 DEF OnlyMoves
    <3>4. log' = Insert(log, l, NewLog(e, t)) /\ log'[l] = NewLog(e, t) /\ l \in DOMAIN log'
      BY <1>4 DEF Insert, e, t
    <3>5. /\ req'[r].pc = "start.status" /\ req'[r].log = l /\ req'[r].emp = e
          /\ req'[r].task = t /\ req'[r].wasNotStarted = req[r].wasNotStarted
          /\ req'[r].brk = Null \/ req'[r].brk.start = 0
      BY <1>1, <1>2, <3>1, <3>3 DEF Served
    <3>6. Served(req[r])'
      BY <1>1, <2>1, <2>4, <3>4, <3>5 DEF Served, NewLog, e, t
    <3>7. Alone' /\ SettledLog' = Undone(r)'
      BY <1>1, <1>2, <3>1, <3>3, <3>6, GoingOnAlone
    <3>8. Undone(r)' = Delete(log', {l})
      BY <3>1, <3>3, UndoneCasesPrimed
    <3>9. Delete(log', {l}) = log
      <4>1. Delete(log', {l}) = [k \in DOMAIN log |-> log[k]]
        BY <2>1, <3>4 DEF Insert, Delete
      <4> QED BY <1>2, <4>1 DEF TypeOK
    <3> QED BY <1>1, <1>2, <3>7, <3>8, <3>9 DEF StepsTo
  <2> QED BY <2>3, <2>4
<1> QED BY <1>3, <1>4 DEF StartCreate

\* ... or that of the task.
LEMMA StartStatusSerial ==
  ASSUME Serial, NEW r \in Requests, StartStatus(r)
  PROVE  StepsTo
<1>1. req[r].pc = "start.status" /\ req[r].pc \notin WithoutLog /\ Answer(r) /\ UNCHANGED <<log, now>>
  BY DEF StartStatus, WithoutLog
<1> DEFINE e == req[r].emp
           t == req[r].task
           l == req[r].log
<1>2. /\ Served(req[r]) /\ SettledLog = Undone(r) /\ TypeOK /\ e \in Employees
      /\ l \in LogIds /\ l \in DOMAIN log
  BY <1>1, ServedAlone
<1>3. Alone' /\ SettledLog' = log'
  BY <1>1, AnsweredAlone
<1>4. /\ t \in Tasks /\ t \in DOMAIN task /\ task[t].assignee = e
      /\ task[t].personStatus = "NOT_STARTED" /\ log[l] = NewLog(e, t)
  BY <1>1, <1>2 DEF Served, TypeOK
<1>5. SettledLog = Delete(log, {l})
  BY <1>1, <1>2, UndoneCases
<1>6. DOMAIN SettledLog = DOMAIN log \ {l} /\ \A k \in DOMAIN log \ {l} : SettledLog[k] = log[k]
  BY <1>5 DEF Delete
<1>7. \A k \in DOMAIN SettledLog : ~ (SettledLog[k].employee = e /\ IsOpen(SettledLog[k]))
  <2>1. l \in OpenSessions(e)
    BY <1>2, <1>4 DEF OpenSessions, NewLog, IsOpen
  <2>2. \A k \in OpenSessions(e) : k = l
    BY <1>2, <2>1 DEF Serial, OneAtATime, AtMostOneOpen
  <2> QED BY <1>6, <2>2 DEF OpenSessions
<1>8. log' = Insert(SettledLog, l, NewLog(e, t))
  <2> DEFINE f == Insert(SettledLog, l, NewLog(e, t))
  <2>1. f = [k \in DOMAIN log |-> log[k]]
    BY <1>2, <1>4, <1>6 DEF Insert
  <2> QED BY <1>1, <1>2, <2>1 DEF TypeOK
<1>9. task' = IF task[t].personStatus = "NOT_STARTED"
                THEN [task EXCEPT ![t].personStatus = "IN_PROGRESS"] ELSE task
  BY <1>4 DEF StartStatus
<1>10. /\ e \in Employees /\ t \in Tasks /\ l \in LogIds /\ l \notin DOMAIN SettledLog
       /\ t \in DOMAIN task /\ task[t].assignee = e /\ task[t].personStatus # "DONE"
       /\ now' = now
  BY <1>1, <1>2, <1>4, <1>6
<1> HIDE DEF e, t, l
<1>11. Atomic!Next
  BY <1>3, <1>7, <1>8, <1>9, <1>10, StartMapsTo
<1> QED BY <1>3, <1>11 DEF StepsTo

\* A first write, undone again.
LEMMA WriteUndone ==
  ASSUME TypeOK, NEW l \in DOMAIN log, NEW row, log' = [log EXCEPT ![l] = row]
  PROVE  [log' EXCEPT ![l] = log[l]] = log
<1>1. [log' EXCEPT ![l] = log[l]] = [k \in DOMAIN log |-> log[k]]
  OBVIOUS
<1> QED BY <1>1 DEF TypeOK

\* A last write, on top of what was undone.
LEMMA LastWrite ==
  ASSUME NEW l \in DOMAIN log, NEW u, NEW v,
         SettledLog = [log EXCEPT ![l] = u], log' = [log EXCEPT ![l] = v], SettledLog' = log'
  PROVE  /\ l \in DOMAIN SettledLog /\ SettledLog[l] = u
         /\ SettledLog' = [SettledLog EXCEPT ![l] = v]
OBVIOUS

\* A request goes on to the next call, having written the row of its log.
LEMMA FirstWriteSerial ==
  ASSUME Serial, NEW r \in Requests, req[r].pc \notin WithoutLog, Unwritten(req[r]),
         NEW row, NEW pc \in {"pause.status", "resume.status", "switch.close"},
         UpdateLog(r, row), Continue(r, pc), UNCHANGED <<task, now>>,
         pc = "pause.status" =>
           TakenBack(row) = log[req[r].log] /\ row.breaks \in 1 .. MaxBreaks,
         pc # "pause.status" =>
           /\ req[r].brk # Null /\ OpenAgain(row, req[r].brk) = log[req[r].log]
           /\ row.status = "paused",
         pc = "resume.status" => req[r].brk.no = row.breaks
  PROVE  StepsTo
<1>1. /\ Busy = {r} /\ Served(req[r]) /\ SettledLog = log /\ TypeOK /\ req \in [Requests -> Request]
      /\ pc \in PC
  BY ServedAlone, UndoneCases DEF WithoutLog, PC
<1>2. PICK l \in DOMAIN log : l = req[r].log /\ log' = [log EXCEPT ![l] = row]
  BY DEF UpdateLog
<1>3. /\ OnlyMoves(r) /\ req'[r].pc = pc /\ req'[r].log = l /\ req'[r].brk = req[r].brk
  BY <1>1, <1>2, ContinueFacts
<1>4. DOMAIN log' = DOMAIN log /\ log'[l] = row
  BY <1>2
<1>5. req[r].brk # Null => req[r].brk.start = 0
  BY <1>1 DEF Served
<1>6. Served(req[r])'
  BY <1>2, <1>3, <1>4, <1>5 DEF Served
<1>7. Alone' /\ SettledLog' = Undone(r)'
  BY <1>1, <1>3, <1>6, GoingOnAlone
<1>8. Undone(r)' = [log' EXCEPT ![l] = log[l]]
  <2>1. CASE pc = "pause.status"
    <3>1. Undone(r)' = [log' EXCEPT ![req'[r].log] = TakenBack(log'[req'[r].log])]
      BY <1>3, <2>1, UndoneCasesPrimed
    <3>2. TakenBack(row) = log[l]
      BY <1>2, <2>1
    <3> QED BY <1>3, <1>4, <3>1, <3>2
  <2>2. CASE pc # "pause.status"
    <3>1. req'[r].pc \in {"resume.status", "switch.close"} /\ req'[r].brk # Null
      BY <1>3, <2>2
    <3>2. Undone(r)' = [log' EXCEPT ![req'[r].log] = OpenAgain(log'[req'[r].log], req'[r].brk)]
      BY <3>1, UndoneCasesPrimed
    <3>3. OpenAgain(row, req[r].brk) = log[l]
      BY <1>2, <2>2
    <3> QED BY <1>3, <1>4, <3>2, <3>3
  <2> QED BY <2>1, <2>2
<1>9. Undone(r)' = log
  BY <1>1, <1>2, <1>8, WriteUndone
<1> QED BY <1>1, <1>7, <1>9 DEF StepsTo

\* Nothing is deleted under a request that is served alone.
LEMMA LogIsThere ==
  ASSUME Serial, NEW r \in Requests, req[r].pc \notin WithoutLog
  PROVE  ~ LogIsGone(r)
BY ServedAlone DEF LogIsGone, WithoutLog

LEMMA PauseBreakSerial ==
  ASSUME Serial, NEW r \in Requests, PauseBreak(r)
  PROVE  StepsTo
<1>1. /\ req[r].pc = "pause.break" /\ req[r].pc \notin WithoutLog /\ req[r].pc # "free"
      /\ Unwritten(req[r])
      /\ UNCHANGED <<task, now>>
  BY DEF PauseBreak, WithoutLog, Unwritten
<1> DEFINE old == log[req[r].log]
<1>2. UpdateLog(r, BeginBreak(old)) /\ Continue(r, "pause.status")
  BY <1>1, LogIsThere DEF PauseBreak
<1>3. /\ old \in TimeLog /\ InWork(req[r], old) /\ now = 0 /\ Served(req[r])
  BY <1>1, ServedAlone
<1>4. old.openBreaks = {} /\ old.breaks < MaxBreaks
  BY <1>1, <1>3 DEF InWork, Settled, Served
<1>5. TakenBack(BeginBreak(old)) = old /\ BeginBreak(old) \in TimeLog
  BY <1>3, <1>4, BeginTakenBack
<1>6. BeginBreak(old).breaks \in 1 .. MaxBreaks
  <2>1. BeginBreak(old).breaks = old.breaks + 1 /\ old.breaks \in Nat
    BY <1>3 DEF BeginBreak, TimeLog
  <2> QED BY <1>4, <2>1, BoundsAssumption
<1> QED BY <1>1, <1>2, <1>5, <1>6, FirstWriteSerial

\* PauseTimer takes effect with the write of the status.
LEMMA PauseStatusSerial ==
  ASSUME Serial, NEW r \in Requests, PauseStatus(r)
  PROVE  StepsTo
<1>1. /\ req[r].pc = "pause.status" /\ req[r].pc \notin WithoutLog /\ req[r].pc # "free"
      /\ UNCHANGED <<task, now>>
  BY DEF PauseStatus, WithoutLog
<1>2. PICK l \in LogIds : l = req[r].log /\ l \in DOMAIN log
  BY <1>1, ServedAlone
<1>3. PICK e \in Employees : e = req[r].emp
  BY <1>1, ServedAlone
<1> DEFINE s == log[l]
           u == TakenBack(s)
           v == [s EXCEPT !.status = "paused"]
<1>4. /\ log' = [log EXCEPT ![l] = v] /\ Answer(r)
  BY <1>1, <1>2, LogIsThere DEF PauseStatus, UpdateLog
<1>5. /\ s \in TimeLog /\ s.employee = e /\ InWork(req[r], s) /\ RowSound(s)
      /\ Served(req[r]) /\ SettledLog = [log EXCEPT ![l] = u] /\ now = 0
  BY <1>1, <1>2, <1>3, ServedAlone, UndoneCases
<1>6. PICK b \in s.openBreaks : s.openBreaks = {b} /\ b.no = s.breaks
  BY <1>1, <1>5 DEF InWork
<1>7. b \in Break /\ b.start = now
  BY <1>5, <1>6 DEF TimeLog, RowSound, Break
<1>8. s.status = "active" /\ s.breaks \in 1 .. MaxBreaks
  BY <1>1, <1>2, <1>5 DEF InWork, Served
<1>9. BeginBreak(u) = s /\ u.breaks = s.breaks - 1 /\ u.status = "active" /\ u.employee = e
  BY <1>5, <1>6, <1>7, <1>8, TakenBackBegins
<1>10. Alone' /\ SettledLog' = log'
  BY <1>1, <1>4, AnsweredAlone
<1> HIDE DEF s, u, v
<1>11. /\ l \in DOMAIN SettledLog /\ SettledLog[l] = u
       /\ SettledLog' = [SettledLog EXCEPT ![l] = v]
  BY <1>2, <1>4, <1>5, <1>10, LastWrite
<1>12. v = [Atomic!BeginBreak(u) EXCEPT !.status = "paused"]
  BY <1>9, AtomicRows DEF v
<1>13. u.breaks < MaxBreaks
  BY <1>8, <1>9, BoundsAssumption
<1>14. Atomic!PauseTimer(e, l)
  BY <1>1, <1>9, <1>11, <1>12, <1>13 DEF Atomic!PauseTimer, Atomic!LogsOfEmployee
<1> QED BY <1>10, <1>14 DEF StepsTo, Atomic!Next

\* Closing the break of a paused session, for resumeTimer and switchTimer.
LEMMA CloseSerial ==
  ASSUME Serial, NEW r \in Requests, req[r].pc \in {"resume.break", "switch.break"}
  PROVE  LET old == log[req[r].log]
             row == CloseIfOpen(old, req[r].brk)
         IN  /\ OpenAgain(row, req[r].brk) = old
             /\ row.status = "paused" /\ row.breaks = old.breaks
<1> DEFINE old == log[req[r].log]
           b == req[r].brk
           row == CloseIfOpen(old, b)
<1>1. req[r].pc \notin WithoutLog /\ req[r].pc # "free"
  BY DEF WithoutLog
<1>2. /\ old \in TimeLog /\ InWork(req[r], old) /\ RowSound(old) /\ now = 0
      /\ req[r].log \in DOMAIN log /\ Sound
  BY <1>1, ServedAlone DEF Serial
<1>3. b \in old.openBreaks /\ row = CloseBreak(old, b)
  BY <1>2 DEF InWork, CloseIfOpen
<1>4. b.start = now
  BY <1>2, <1>3 DEF RowSound, TimeLog, Break
<1>5. OpenAgain(row, b) = old
  BY <1>2, <1>3, <1>4, CloseOpenedAgain
<1>6. row.status = "paused"
  BY <1>2, CloseIfOpenRow
<1>7. row.breaks = old.breaks
  BY <1>2, <1>3 DEF CloseBreak, TimeLog
<1> QED BY <1>5, <1>6, <1>7

LEMMA ResumeBreakSerial ==
  ASSUME Serial, NEW r \in Requests, ResumeBreak(r)
  PROVE  StepsTo
<1>1. /\ req[r].pc = "resume.break" /\ req[r].pc \notin WithoutLog /\ req[r].pc # "free"
      /\ Unwritten(req[r])
      /\ UNCHANGED <<task, now>>
  BY DEF ResumeBreak, WithoutLog, Unwritten
<1> DEFINE row == CloseIfOpen(log[req[r].log], req[r].brk)
<1>2. UpdateLog(r, row) /\ Continue(r, "resume.status")
  BY <1>1, LogIsThere DEF ResumeBreak
<1>3. /\ OpenAgain(row, req[r].brk) = log[req[r].log]
      /\ row.status = "paused" /\ row.breaks = log[req[r].log].breaks
  BY <1>1, CloseSerial
<1>4. req[r].brk # Null /\ req[r].brk.no = log[req[r].log].breaks
  BY <1>1, ServedAlone DEF Served
<1> HIDE DEF row
<1> QED BY <1>1, <1>2, <1>3, <1>4, FirstWriteSerial

LEMMA SwitchBreakSerial ==
  ASSUME Serial, NEW r \in Requests, SwitchBreak(r)
  PROVE  StepsTo
<1>1. /\ req[r].pc = "switch.break" /\ req[r].pc \notin WithoutLog /\ req[r].pc # "free"
      /\ Unwritten(req[r])
      /\ UNCHANGED <<task, now>>
  BY DEF SwitchBreak, WithoutLog, Unwritten
<1> DEFINE row == CloseIfOpen(log[req[r].log], req[r].brk)
<1>2. UpdateLog(r, row) /\ Continue(r, "switch.close")
  BY <1>1, LogIsThere DEF SwitchBreak
<1>3. OpenAgain(row, req[r].brk) = log[req[r].log] /\ row.status = "paused"
  BY <1>1, CloseSerial
<1>4. req[r].brk # Null
  BY <1>1, ServedAlone DEF Served
<1> HIDE DEF row
<1> QED BY <1>1, <1>2, <1>3, <1>4, FirstWriteSerial

\* What the last write of a resume or a switch finds: the session without its
\* break, which the mapping shows as open.
LEMMA ClosedBreakFacts ==
  ASSUME Serial, NEW r \in Requests, req[r].pc \in {"resume.status", "switch.close"},
         req[r].brk # Null
  PROVE  LET s == log[req[r].log]
             b == req[r].brk
             u == OpenAgain(s, b)
         IN  /\ SettledLog = [log EXCEPT ![req[r].log] = u]
             /\ CloseBreak(u, b) = s /\ u.openBreaks = {b}
             /\ u.status = "paused" /\ u.employee = req[r].emp
             /\ u.breaks = s.breaks
<1> DEFINE s == log[req[r].log]
           b == req[r].brk
           u == OpenAgain(s, b)
<1>1. req[r].pc \notin WithoutLog /\ req[r].pc # "free"
  BY DEF WithoutLog
<1>2. /\ s \in TimeLog /\ s.employee = req[r].emp /\ InWork(req[r], s)
      /\ SettledLog = [log EXCEPT ![req[r].log] = u]
      /\ Served(req[r]) /\ now = 0 /\ req[r] \in Request
  BY <1>1, ServedAlone, UndoneCases
<1>3. b \in Break /\ b.start = now
  BY <1>2 DEF Served, Request
<1>4. s.status = "paused" /\ s.openBreaks = {}
  BY <1>2 DEF InWork, Served
<1>5. /\ CloseBreak(u, b) = s /\ u.openBreaks = {b} /\ u.breaks = s.breaks
      /\ u.status = s.status /\ u.employee = s.employee
  BY <1>2, <1>3, <1>4, OpenedAgainCloses
<1> QED BY <1>2, <1>4, <1>5

\* ResumeTimer takes effect with the write of the status.
LEMMA ResumeStatusSerial ==
  ASSUME Serial, NEW r \in Requests, ResumeStatus(r)
  PROVE  StepsTo
<1>1. /\ req[r].pc = "resume.status" /\ req[r].pc \notin WithoutLog /\ req[r].pc # "free"
      /\ UNCHANGED <<task, now>>
  BY DEF ResumeStatus, WithoutLog
<1>2. PICK l \in LogIds : l = req[r].log /\ l \in DOMAIN log
  BY <1>1, ServedAlone
<1>3. PICK e \in Employees : e = req[r].emp
  BY <1>1, ServedAlone
<1> DEFINE s == log[l]
           b == req[r].brk
           u == OpenAgain(s, b)
           v == [s EXCEPT !.status = "active"]
<1>4. /\ log' = [log EXCEPT ![l] = v] /\ Answer(r)
  BY <1>1, <1>2, LogIsThere DEF ResumeStatus, UpdateLog
<1>5. b # Null /\ b.no = s.breaks
  BY <1>1, <1>2, ServedAlone DEF Served
<1>6. /\ SettledLog = [log EXCEPT ![l] = u]
      /\ CloseBreak(u, b) = s /\ u.openBreaks = {b}
      /\ u.status = "paused" /\ u.employee = e /\ u.breaks = s.breaks
  BY <1>1, <1>2, <1>3, <1>5, ClosedBreakFacts
<1>7. Alone' /\ SettledLog' = log'
  BY <1>1, <1>4, AnsweredAlone
<1>8. LatestIfOpen(u) = {b}
  BY <1>5, <1>6 DEF LatestIfOpen
<1>9. CloseOneOf(u, LatestIfOpen(u)) = {s}
  BY <1>6, <1>8 DEF CloseOneOf
<1> HIDE DEF s, u
<1>10. /\ l \in DOMAIN SettledLog /\ SettledLog[l] = u
       /\ SettledLog' = [SettledLog EXCEPT ![l] = v]
  BY <1>2, <1>4, <1>6, <1>7, LastWrite
<1>11. s \in Atomic!CloseOneOf(SettledLog[l], Atomic!LatestIfOpen(SettledLog[l]))
  BY <1>9, <1>10, AtomicRows
<1>12. Atomic!ResumeTimer(e, l)
  BY <1>1, <1>6, <1>10, <1>11 DEF Atomic!ResumeTimer, Atomic!LogsOfEmployee
<1> QED BY <1>7, <1>12 DEF StepsTo, Atomic!Next

LEMMA SwitchFindSerial ==
  ASSUME Serial, NEW r \in Requests, SwitchFind(r)
  PROVE  StepsTo
<1>1. /\ req[r].pc = "switch.find" /\ req[r].pc \notin WithoutLog /\ req[r].pc # "free"
      /\ Unwritten(req[r]) /\ UNCHANGED <<task, log, now>>
  BY DEF SwitchFind, WithoutLog, Unwritten
<1>2. /\ Busy = {r} /\ Served(req[r]) /\ SettledLog = log /\ now = 0
      /\ req \in [Requests -> Request] /\ req[r] \in Request
      /\ req[r].log \in DOMAIN log /\ RowSound(log[req[r].log])
      /\ InWork(req[r], log[req[r].log])
  BY <1>1, ServedAlone, UndoneCases
<1>3. ASSUME OnlyMoves(r), req'[r].pc # "free", Served(req[r])', Unwritten(req'[r])
      PROVE  StepsTo
  <2>1. Alone' /\ SettledLog' = Undone(r)'
    BY <1>1, <1>2, <1>3, GoingOnAlone
  <2>2. Undone(r)' = log'
    BY <1>3, UndoneCasesPrimed
  <2> QED BY <1>1, <1>2, <2>1, <2>2 DEF StepsTo
<1>4. ASSUME NEW b \in log[req[r].log].openBreaks,
             req' = [req EXCEPT ![r].pc = "switch.break", ![r].brk = b]
      PROVE  StepsTo
  <2> DEFINE x == [req[r] EXCEPT !.pc = "switch.break", !.brk = b]
  <2>1. b \in Break /\ b.start = 0 /\ b # Null
    BY <1>2, NoBreakAssumption DEF RowSound, TimeLog, Break
  <2>2. x \in Request /\ x.pc = "switch.break" /\ x.brk = b /\ x.log = req[r].log
    BY <1>2, <2>1 DEF Request, PC
  <2>3. req' = [req EXCEPT ![r] = x]
    BY <1>2, <1>4
  <2> HIDE DEF x
  <2>4. OnlyMoves(r) /\ req'[r] = x
    BY <1>2, <2>2, <2>3 DEF OnlyMoves
  <2>5. Served(req[r])'
    BY <1>1, <1>2, <2>1, <2>2, <2>4 DEF Served
  <2>6. Unwritten(req'[r])
    BY <2>2, <2>4 DEF Unwritten
  <2> QED BY <1>3, <2>2, <2>4, <2>5, <2>6
<1>5. CASE Continue(r, "switch.close")
  <2>1. "switch.close" \in PC
    BY DEF PC
  <2>2. /\ OnlyMoves(r) /\ req'[r].pc = "switch.close" /\ req'[r].log = req[r].log
        /\ req'[r].brk = req[r].brk
    BY <1>2, <1>5, <2>1, ContinueFacts
  <2>3. req[r].brk = Null
    BY <1>1, <1>2 DEF Served
  <2>4. Served(req[r])'
    BY <1>1, <1>2, <2>2, <2>3 DEF Served
  <2>5. Unwritten(req'[r])
    BY <2>2, <2>3 DEF Unwritten
  <2> QED BY <1>3, <2>2, <2>4, <2>5
<1> QED BY <1>4, <1>5 DEF SwitchFind

\* SwitchTimer takes effect when it completes the session.
LEMMA SwitchCloseSerial ==
  ASSUME Serial, NEW r \in Requests, SwitchClose(r)
  PROVE  StepsTo
<1>1. /\ req[r].pc = "switch.close" /\ req[r].pc \notin WithoutLog /\ req[r].pc # "free"
      /\ UNCHANGED <<task, now>>
  BY DEF SwitchClose, WithoutLog
<1>2. PICK l \in LogIds : l = req[r].log /\ l \in DOMAIN log
  BY <1>1, ServedAlone
<1>3. PICK e \in Employees : e = req[r].emp
  BY <1>1, ServedAlone
<1> DEFINE s == log[l]
           b == req[r].brk
           v == Complete(s)
<1>4. /\ log' = [log EXCEPT ![l] = v] /\ Answer(r)
  BY <1>1, <1>2, LogIsThere DEF SwitchClose, UpdateLog
<1>5. Alone' /\ SettledLog' = log'
  BY <1>1, <1>4, AnsweredAlone
<1>6. ASSUME NEW u, u.employee = e, u.status # "completed", SettledLog = [log EXCEPT ![l] = u],
             s \in CloseOneOf(u, u.openBreaks)
      PROVE  StepsTo
  <2> HIDE DEF s, v
  <2>1. /\ l \in DOMAIN SettledLog /\ SettledLog[l] = u
        /\ SettledLog' = [SettledLog EXCEPT ![l] = v]
    BY <1>2, <1>4, <1>5, <1>6, LastWrite
  <2>2. s \in Atomic!CloseOneOf(SettledLog[l], SettledLog[l].openBreaks) /\ v = Atomic!Complete(s)
    BY <1>6, <2>1, AtomicRows DEF v
  <2>3. Atomic!SwitchTimer(e, l)
    BY <1>1, <1>6, <2>1, <2>2 DEF Atomic!SwitchTimer, Atomic!LogsOfEmployee
  <2> QED BY <1>5, <2>3 DEF StepsTo, Atomic!Next
<1>7. CASE b # Null
  <2> DEFINE u == OpenAgain(s, b)
  <2>1. /\ SettledLog = [log EXCEPT ![l] = u]
        /\ CloseBreak(u, b) = s /\ u.openBreaks = {b}
        /\ u.status = "paused" /\ u.employee = e
    BY <1>1, <1>2, <1>3, <1>7, ClosedBreakFacts
  <2> HIDE DEF u, s
  <2>2. s \in CloseOneOf(u, u.openBreaks)
    BY <2>1 DEF CloseOneOf
  <2> QED BY <1>6, <2>1, <2>2
<1>8. CASE b = Null
  <2>1. Unwritten(req[r])
    BY <1>1, <1>8 DEF Unwritten
  <2>2. /\ SettledLog = log /\ TypeOK /\ s.employee = e /\ InWork(req[r], s)
    BY <1>1, <1>2, <1>3, <2>1, ServedAlone, UndoneCases
  <2>3. s.status # "completed" /\ s.openBreaks = {}
    BY <1>1, <2>2 DEF InWork
  <2>4. SettledLog = [log EXCEPT ![l] = s]
    <3>1. [log EXCEPT ![l] = log[l]] = [k \in DOMAIN log |-> log[k]]
      OBVIOUS
    <3> QED BY <2>2, <3>1 DEF TypeOK
  <2>5. s \in CloseOneOf(s, s.openBreaks)
    BY <2>3 DEF CloseOneOf
  <2> HIDE DEF s
  <2> QED BY <1>6, <2>2, <2>3, <2>4, <2>5
<1> QED BY <1>7, <1>8

\* Administration finds no request being served.
LEMMA AdministerSerial ==
  ASSUME Overlap = "none", Serial, Administer
  PROVE  StepsTo
<1>1. Busy = {} /\ req' = req
  <2>1. Busy = {} /\ req \in [Requests -> Request]
    BY DEF Administer, Serial, Sound
  <2>2. ASSUME NEW e \in Employees, DeleteAccount(e) PROVE req' = req
    <3>1. req' = [r \in Requests |-> req[r]]
      BY <2>1, <2>2 DEF DeleteAccount, Busy
    <3> QED BY <2>1, <3>1
  <2> QED BY <2>1, <2>2 DEF Administer, AdministerTasks
<1>2. Busy' = {} /\ SettledLog = log /\ SettledLog' = log'
  BY <1>1 DEF Busy, SettledLog
<1>3. ASSUME now' = now PROVE Alone'
  BY <1>1, <1>2, <1>3 DEF Alone, Serial
<1>4. ASSUME NEW t \in Tasks, NEW e \in Employees, CreateTask(t, e) PROVE StepsTo
  <2>1. Atomic!CreateTask(t, e) /\ now' = now
    BY <1>2, <1>4, AtomicRows DEF CreateTask, Atomic!CreateTask
  <2> QED BY <1>3, <2>1 DEF StepsTo, Atomic!Next
<1>5. ASSUME NEW t \in Tasks, NEW s \in PersonStatus, UpdateTask(t, s) PROVE StepsTo
  <2>1. Atomic!UpdateTask(t, s) /\ now' = now /\ s \in Atomic!PersonStatus
    BY <1>2, <1>5 DEF UpdateTask, Atomic!UpdateTask, PersonStatus, Atomic!PersonStatus
  <2> QED BY <1>3, <2>1 DEF StepsTo, Atomic!Next
<1>6. ASSUME NEW t \in Tasks, RemoveTask(t) PROVE StepsTo
  <2>1. Atomic!LogsOfTask(t) = LogsOfTask(t)
    BY <1>2 DEF LogsOfTask, Atomic!LogsOfTask
  <2>2. Atomic!RemoveTask(t) /\ now' = now
    BY <1>2, <1>6, <2>1, AtomicRows DEF RemoveTask, Atomic!RemoveTask
  <2> QED BY <1>3, <2>2 DEF StepsTo, Atomic!Next
<1>7. ASSUME NEW e \in Employees, RemoveUser(e), UNCHANGED log PROVE StepsTo
  <2>1. Atomic!RemoveUser(e) /\ now' = now
    BY <1>2, <1>7 DEF RemoveUser, Atomic!RemoveUser
  <2> QED BY <1>3, <2>1 DEF StepsTo, Atomic!Next
<1>8. ASSUME NEW e \in Employees, DeleteAccount(e) PROVE StepsTo
  <2>1. /\ log' = Delete(log, LogsOfEmployee(e)) /\ now' = now
        /\ task' = [t \in DOMAIN task |->
                     [task[t] EXCEPT !.assignee = IF @ = e THEN Null ELSE @]]
    BY <1>8 DEF DeleteAccount
  <2>2. Atomic!LogsOfEmployee(e) = LogsOfEmployee(e)
    BY <1>2 DEF LogsOfEmployee, Atomic!LogsOfEmployee
  <2>3. task' = [t \in DOMAIN task |->
                   IF task[t].assignee = e \/ t \in {}
                     THEN [task[t] EXCEPT !.assignee = Null] ELSE task[t]]
    <3>1. ASSUME NEW t \in DOMAIN task
          PROVE  [task[t] EXCEPT !.assignee = IF @ = e THEN Null ELSE @]
                   = IF task[t].assignee = e \/ t \in {}
                       THEN [task[t] EXCEPT !.assignee = Null] ELSE task[t]
      <4>1. task[t] \in Task
        BY DEF Serial, Sound, TypeOK
      <4> QED BY <4>1 DEF Task
    <3> QED BY <2>1, <3>1
  <2>4. Atomic!RemoveUser(e)
    <3>1. {} \in SUBSET DOMAIN task
      OBVIOUS
    <3> QED BY <1>2, <2>1, <2>2, <2>3, <3>1, AtomicRows DEF Atomic!RemoveUser
  <2> QED BY <1>3, <2>1, <2>4 DEF StepsTo, Atomic!Next
<1> QED BY <1>4, <1>5, <1>6, <1>7, <1>8 DEF Administer, AdministerTasks

LEMMA NextSerial ==
  ASSUME Overlap = "none", ~ Failures, Serial, StepsNext
  PROVE  StepsTo
<1>1. CASE Arrive
  <2>1. PICK r \in Requests, e \in Employees :
          \/ \E t \in Tasks : StartRead(r, e, t)
          \/ \E l \in LogIds : PauseRead(r, e, l) \/ ResumeRead(r, e, l) \/ SwitchRead(r, e, l)
    BY <1>1 DEF Arrive
  <2> QED BY <2>1, StartReadSerial, PauseReadSerial, ResumeReadSerial, SwitchReadSerial
<1>2. ASSUME NEW r \in Requests, Serve(r) PROVE StepsTo
  <2>1. CASE StartFind(r) \/ StartCreate(r) \/ StartStatus(r)
    BY <2>1, StartFindSerial, StartCreateSerial, StartStatusSerial
  <2>2. CASE PauseBreak(r) \/ PauseStatus(r)
    BY <2>2, PauseBreakSerial, PauseStatusSerial
  <2>3. CASE ResumeBreak(r) \/ ResumeStatus(r)
    BY <2>3, ResumeBreakSerial, ResumeStatusSerial
  <2>4. CASE SwitchFind(r) \/ SwitchBreak(r) \/ SwitchClose(r)
    BY <2>4, SwitchFindSerial, SwitchBreakSerial, SwitchCloseSerial
  <2> QED BY <1>2, <2>1, <2>2, <2>3, <2>4 DEF Serve
<1>3. \A r : ~ Fail(r)
  BY DEF Fail
<1> QED BY <1>1, <1>2, <1>3, AdministerSerial DEF StepsNext

\* Served one at a time and without failures, the handlers do to the tables,
\* call by call, what the actions of TaskTimer do in one step: for every set of
\* people, tasks, sessions and requests, so all that is proved of TaskTimer at
\* a moment holds of the server between two requests.
THEOREM StepsImplementTaskTimer ==
  ASSUME Overlap = "none", ~ Failures
  PROVE  StepsSpec => ImplementsTaskTimer
<1>1. StepsInit => Serial /\ Atomic!Init
  <2> SUFFICES ASSUME StepsInit PROVE Serial /\ Atomic!Init
    OBVIOUS
  <2>1. Busy = {} /\ now = 0
    BY FreeFacts DEF StepsInit, Init, Busy
  <2>2. SettledLog = log /\ Alone
    BY <2>1, NobodyServed DEF Alone
  <2>3. Atomic!Init
    BY <2>2 DEF StepsInit, Init, Atomic!Init
  <2> QED BY <2>2, <2>3, InitSound DEF Serial
<1>2. Serial /\ [StepsNext]_stepVars => Serial' /\ [Atomic!Next]_Atomic!vars
  <2> SUFFICES ASSUME Serial, [StepsNext]_stepVars
               PROVE  Serial' /\ [Atomic!Next]_Atomic!vars
    OBVIOUS
  <2>1. CASE StepsNext
    <3>1. Kind /\ Overlap # "any"
      BY <2>1, EveryStepHasKind DEF Serial
    <3>2. Sound' /\ OneAtATime' /\ RowsInOrder'
      BY <3>1, KindSound, KindOneAtATime, KindInOrder DEF Serial
    <3>3. StepsTo
      BY <2>1, NextSerial
    <3> QED BY <3>2, <3>3 DEF Serial, StepsTo, Atomic!vars
  <2>2. CASE UNCHANGED stepVars
    <3>1. UNCHANGED <<task, log, now, req>>
      BY <2>2 DEF stepVars
    <3>2. Sound' /\ OneAtATime' /\ RowsInOrder'
      BY <2>2, StutterKind DEF Serial
    <3>3. Alone'
      BY <3>1 DEF Serial, Alone, Served, Busy, NewLog
    <3>4. SettledLog' = SettledLog
      BY <3>1 DEF SettledLog, Busy, Undone
    <3> QED BY <3>1, <3>2, <3>3, <3>4 DEF Serial, Atomic!vars
  <2> QED BY <2>1, <2>2
<1> QED BY <1>1, <1>2, PTL DEF StepsSpec, ImplementsTaskTimer, Atomic!Spec
=============================================================================
