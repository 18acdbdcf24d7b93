-------------------------- MODULE TaskTimerProofs --------------------------
(***************************************************************************)
(* Theorems about TaskTimer, for every set of employees, tasks and logs,   *)
(* every bound and every clock resolution.                                 *)
(***************************************************************************)
EXTENDS TaskTimer, TLAPS

USE NullAssumption, BoundsAssumption, TicksAssumption
-----------------------------------------------------------------------------
(* Arithmetic *)

\* Rounding a length of time to minutes is off by at most half a minute.
LEMMA RoundMinutesBound ==
  ASSUME NEW d \in Nat
  PROVE  /\ RoundMinutes(d) \in Nat
         /\ 2 * (TicksPerMinute * RoundMinutes(d) - d) <= TicksPerMinute
         /\ 2 * (d - TicksPerMinute * RoundMinutes(d)) <= TicksPerMinute
<1> DEFINE n == 2 * d + TicksPerMinute
           m == 2 * TicksPerMinute
           q == n \div m
<1>1. n \in Nat /\ m \in Nat /\ m > 0
  OBVIOUS
<1>2. q \in Nat /\ m * q <= n /\ n < m * q + m
  <2> HIDE DEF n, m
  <2> QED BY <1>1
<1>3. RoundMinutes(d) = q
  BY DEF RoundMinutes
<1>4. m * q = 2 * (TicksPerMinute * q)
  <2> SUFFICES ASSUME NEW x \in Nat PROVE m * x = 2 * (TicksPerMinute * x)
    BY <1>2
  <2> QED OBVIOUS
<1> HIDE DEF q
<1>5. TicksPerMinute * q \in Nat
  BY <1>2
<1> QED BY <1>2, <1>3, <1>4, <1>5
-----------------------------------------------------------------------------
(* The steps, one lemma for what the timer endpoints write *)

\* Completing a session (switchTimer) leaves a well-typed row: the duration
\* stored is a natural number of minutes.
LEMMA CompleteIsTimeLog ==
  ASSUME NEW r \in TimeLog, r.sessionStart <= now, now \in Nat
  PROVE  /\ Complete(r) \in TimeLog
         /\ RoundMinutes(now - r.sessionStart) \in Nat
<1>1. now - r.sessionStart \in Nat
  BY DEF TimeLog
<1>2. RoundMinutes(now - r.sessionStart) \in Nat
  BY <1>1, RoundMinutesBound
<1>3. RoundMinutes(now - r.sessionStart) - r.breakMinutes \in Int
  BY <1>2 DEF TimeLog
<1>4. AtLeastZero(RoundMinutes(now - r.sessionStart) - r.breakMinutes) \in Nat
  BY <1>3 DEF AtLeastZero
<1> QED BY <1>2, <1>4 DEF Complete, TimeLog

\* Ending a break (resumeTimer, switchTimer) leaves a well-typed row with a
\* natural number of break minutes.
LEMMA CloseBreakIsTimeLog ==
  ASSUME NEW r \in TimeLog, NEW b \in r.openBreaks, b.start <= now, now \in Nat
  PROVE  /\ CloseBreak(r, b) \in TimeLog
         /\ RoundMinutes(now - b.start) \in Nat
<1>1. now - b.start \in Nat
  BY DEF TimeLog, Break
<1>2. RoundMinutes(now - b.start) \in Nat
  BY <1>1, RoundMinutesBound
<1> DEFINE m == r.breakMinutes + RoundMinutes(now - b.start)
           d == r.breakTicks + (now - b.start)
           B == r.openBreaks \ {b}
<1>3. m \in Nat /\ d \in Nat /\ B \in SUBSET Break
  BY <1>1, <1>2 DEF TimeLog
<1>4. CloseBreak(r, b) = [r EXCEPT !.openBreaks = B, !.breakMinutes = m, !.breakTicks = d]
  BY DEF CloseBreak
<1> HIDE DEF m, d, B
<1>5. CloseBreak(r, b) \in TimeLog
  BY <1>3, <1>4 DEF TimeLog
<1> QED BY <1>2, <1>5

\* The time logs after a step: every row that remains is either untouched,
\* or a new session, or an old row to which one endpoint was applied.
RowStep(r, s) ==
  \/ s = r
  \/ /\ r.status = "active"
     /\ s = [BeginBreak(r) EXCEPT !.status = "paused"]
  \/ /\ r.status = "paused"
     /\ \E q \in CloseOneOf(r, LatestIfOpen(r)) : s = [q EXCEPT !.status = "active"]
  \/ /\ r.status # "completed"
     /\ \E q \in CloseOneOf(r, r.openBreaks) : s = Complete(q)

RowsStep ==
  /\ DOMAIN log' \subseteq DOMAIN log
  /\ log' = [l \in DOMAIN log' |-> log'[l]]
  /\ \A l \in DOMAIN log' : RowStep(log[l], log'[l])

BeginStep ==
  \E e \in Employees, t \in Tasks, l \in LogIds \ DOMAIN log :
     OpenSessions(e) = {} /\ log' = Insert(log, l, NewLog(e, t))

\* Whatever request is served, the existing logs change row by row or one new
\* log is added, and time passes only while no log changes.
LEMMA NextRows ==
  ASSUME TypeOK, [Next]_vars
  PROVE  /\ RowsStep \/ BeginStep
         /\ now' \in Nat /\ now <= now'
         /\ now' = now \/ log' = log
<1>1. CASE UNCHANGED vars
  BY <1>1 DEF vars, TypeOK, RowsStep, RowStep
<1>2. ASSUME NEW e \in Employees, NEW t \in Tasks, StartTimer(e, t)
      PROVE  BeginStep /\ now' = now
  BY <1>2 DEF StartTimer, BeginStep
<1>3. ASSUME NEW e \in Employees, NEW l \in LogIds, PauseTimer(e, l)
      PROVE  RowsStep /\ now' = now
  BY <1>3 DEF PauseTimer, LogsOfEmployee, RowsStep, RowStep, TypeOK
<1>4. ASSUME NEW e \in Employees, NEW l \in LogIds, ResumeTimer(e, l)
      PROVE  RowsStep /\ now' = now
  BY <1>4 DEF ResumeTimer, LogsOfEmployee, RowsStep, RowStep, TypeOK
<1>5. ASSUME NEW e \in Employees, NEW l \in LogIds, SwitchTimer(e, l)
      PROVE  RowsStep /\ now' = now
  BY <1>5 DEF SwitchTimer, LogsOfEmployee, RowsStep, RowStep, TypeOK
<1>6. ASSUME log' = log
      PROVE  RowsStep
  BY <1>6 DEF RowsStep, RowStep, TypeOK
<1>7. ASSUME NEW L, log' = Delete(log, L)
      PROVE  RowsStep
  BY <1>7 DEF RowsStep, RowStep, Delete, TypeOK
<1>8. ASSUME NEW t \in Tasks, RemoveTask(t)
      PROVE  RowsStep /\ now' = now
  BY <1>7, <1>8 DEF RemoveTask
<1>9. ASSUME NEW e \in Employees, RemoveUser(e)
      PROVE  RowsStep /\ now' = now
  BY <1>6, <1>7, <1>9 DEF RemoveUser
<1>10. ASSUME Tick
       PROVE  RowsStep /\ log' = log /\ now' = now + 1
  BY <1>6, <1>10 DEF Tick
<1>11. ASSUME NEW e \in Employees, NEW t \in Tasks, CreateTask(t, e)
       PROVE  RowsStep /\ now' = now
  BY <1>6, <1>11 DEF CreateTask
<1>12. ASSUME NEW t \in Tasks, NEW s \in PersonStatus, UpdateTask(t, s)
       PROVE  RowsStep /\ now' = now
  BY <1>6, <1>12 DEF UpdateTask
<1> QED
  BY <1>1, <1>2, <1>3, <1>4, <1>5, <1>8, <1>9, <1>10, <1>11, <1>12 DEF Next, TypeOK
-----------------------------------------------------------------------------
(* The invariant of one row: TypeOK, BreakDiscipline, SessionTimes and      *)
(* BreakRounding as they speak of a single time log.                        *)

Discipline(r) ==
  /\ r.status = "active" => r.openBreaks = {}
  /\ r.status = "paused" => \E b \in r.openBreaks : r.openBreaks = {b} /\ b.no = r.breaks
  /\ r.status = "completed" <=> r.sessionEnd # Null
  /\ r.status = "completed" => r.openBreaks = {}

Times(r) ==
  /\ r.sessionStart + r.breakTicks <= now
  /\ \A b \in r.openBreaks : r.sessionStart + r.breakTicks <= b.start /\ b.start <= now
  /\ r.sessionEnd # Null => /\ r.sessionEnd <= now
                           /\ r.sessionStart + r.breakTicks <= r.sessionEnd

\* The stored minutes of k closed breaks are off by at most k half minutes.
Rounded(r, k) ==
  /\ 2 * (TicksPerMinute * r.breakMinutes - r.breakTicks) <= TicksPerMinute * k
  /\ 2 * (r.breakTicks - TicksPerMinute * r.breakMinutes) <= TicksPerMinute * k

RowOK(r) ==
  /\ r \in TimeLog
  /\ Discipline(r)
  /\ Times(r)
  /\ ClosedBreaks(r) >= 0
  /\ Rounded(r, ClosedBreaks(r))

\* Closing the open break of a paused row.
LEMMA CloseBreakOK ==
  ASSUME NEW r, RowOK(r), now \in Nat, r.status = "paused",
         NEW b \in r.openBreaks, r.openBreaks = {b}, b.no = r.breaks
  PROVE  LET q == CloseBreak(r, b) IN
         /\ q \in TimeLog
         /\ q.openBreaks = {} /\ q.breaks = r.breaks /\ q.sessionEnd = Null
         /\ q.sessionStart = r.sessionStart
         /\ q.sessionStart + q.breakTicks <= now
         /\ Rounded(q, q.breaks)
<1> DEFINE q == CloseBreak(r, b)
           d == now - b.start
           w == RoundMinutes(d)
<1>1. r \in TimeLog /\ b \in Break /\ b.start <= now /\ d \in Nat
  BY DEF RowOK, Times, TimeLog, Break
<1>2. /\ w \in Nat
      /\ 2 * (TicksPerMinute * w - d) <= TicksPerMinute
      /\ 2 * (d - TicksPerMinute * w) <= TicksPerMinute
  BY <1>1, RoundMinutesBound
<1>3. q \in TimeLog
  BY <1>1, CloseBreakIsTimeLog
<1>4. /\ q.openBreaks = {} /\ q.breaks = r.breaks /\ q.sessionEnd = r.sessionEnd
      /\ q.sessionStart = r.sessionStart
      /\ q.breakMinutes = r.breakMinutes + w
      /\ q.breakTicks = r.breakTicks + d
  BY <1>1 DEF CloseBreak, TimeLog
<1>5. r.sessionEnd = Null
  BY DEF RowOK, Discipline
<1>6. r.sessionStart + r.breakTicks <= b.start
  BY DEF RowOK, Times
<1>7. q.sessionStart + q.breakTicks <= now
  BY <1>1, <1>4, <1>6 DEF TimeLog, Break
<1>8. Rounded(q, q.breaks)
  <2> DEFINE M == TicksPerMinute * r.breakMinutes
             W == TicksPerMinute * w
             K == TicksPerMinute * (r.breaks - 1)
  <2>1. r.breakMinutes \in Nat /\ r.breakTicks \in Nat /\ r.breaks \in Nat
    BY <1>1 DEF TimeLog
  <2>2. M \in Int /\ W \in Int /\ K \in Int
    BY <2>1, <1>2
  <2>3. TicksPerMinute * q.breakMinutes = M + W
    BY <2>1, <1>2, <1>4
  <2>4. TicksPerMinute * q.breaks = K + TicksPerMinute
    BY <2>1, <1>4
  <2>5. 2 * (M - r.breakTicks) <= K /\ 2 * (r.breakTicks - M) <= K
    BY DEF RowOK, Rounded, ClosedBreaks
  <2>6. 2 * (W - d) <= TicksPerMinute /\ 2 * (d - W) <= TicksPerMinute
    BY <1>2
  <2>7. q.breakTicks = r.breakTicks + d /\ d \in Nat /\ TicksPerMinute \in Int
    BY <1>1, <1>4
  <2> HIDE DEF M, W, K, q, d
  <2>8. /\ 2 * ((M + W) - q.breakTicks) <= K + TicksPerMinute
        /\ 2 * (q.breakTicks - (M + W)) <= K + TicksPerMinute
    BY <2>1, <2>2, <2>5, <2>6, <2>7
  <2> QED BY <2>3, <2>4, <2>8 DEF Rounded
<1> QED BY <1>3, <1>4, <1>5, <1>7, <1>8

\* pauseTimer keeps a session in order.
LEMMA PauseOK ==
  ASSUME NEW r, RowOK(r), now \in Nat, r.status = "active"
  PROVE  RowOK([BeginBreak(r) EXCEPT !.status = "paused"])
<1> DEFINE b == [no |-> r.breaks + 1, start |-> now]
           s == [BeginBreak(r) EXCEPT !.status = "paused"]
<1>1. r \in TimeLog /\ r.openBreaks = {} /\ r.sessionEnd = Null
  BY DEF RowOK, Discipline
<1>2. b \in Break /\ b.no = r.breaks + 1 /\ b.start = now
  BY <1>1 DEF Break, TimeLog
<1>3. {b} \in SUBSET Break /\ r.breaks + 1 \in Nat
  BY <1>1, <1>2 DEF TimeLog
<1>4. s = [r EXCEPT !.openBreaks = {b}, !.breaks = r.breaks + 1, !.status = "paused"]
  BY <1>1 DEF BeginBreak, TimeLog
<1> HIDE DEF b, s
<1>5. s \in TimeLog
  BY <1>1, <1>3, <1>4 DEF TimeLog
<1>6. /\ s.status = "paused" /\ s.openBreaks = {b} /\ s.breaks = r.breaks + 1
      /\ s.sessionEnd = Null /\ s.sessionStart = r.sessionStart
      /\ s.breakTicks = r.breakTicks /\ s.breakMinutes = r.breakMinutes
  BY <1>1, <1>4 DEF TimeLog
<1>7. Discipline(s)
  BY <1>2, <1>6 DEF Discipline
<1>8. Times(s)
  BY <1>2, <1>6 DEF RowOK, Times
<1>9. ClosedBreaks(s) = r.breaks /\ ClosedBreaks(r) = r.breaks
  BY <1>1, <1>6 DEF ClosedBreaks, TimeLog
<1>10. ClosedBreaks(s) >= 0 /\ Rounded(s, ClosedBreaks(s))
  BY <1>6, <1>9 DEF RowOK, Rounded
<1> QED BY <1>5, <1>7, <1>8, <1>10 DEF RowOK, s

\* Resuming: the row is paused, and its only open break is its latest.
LEMMA ResumeOK ==
  ASSUME NEW r, RowOK(r), now \in Nat, r.status = "paused",
         NEW q \in CloseOneOf(r, LatestIfOpen(r))
  PROVE  RowOK([q EXCEPT !.status = "active"])
<1>1. PICK b \in r.openBreaks : r.openBreaks = {b} /\ b.no = r.breaks
  BY DEF RowOK, Discipline
<1>2. q = CloseBreak(r, b)
  BY <1>1 DEF CloseOneOf, LatestIfOpen
<1> DEFINE s == [q EXCEPT !.status = "active"]
<1>3. /\ q \in TimeLog
      /\ q.openBreaks = {} /\ q.sessionEnd = Null
      /\ q.sessionStart + q.breakTicks <= now
      /\ Rounded(q, q.breaks)
  BY <1>1, <1>2, CloseBreakOK
<1>4. s \in TimeLog
  BY <1>3 DEF TimeLog
<1>5. /\ s.status = "active" /\ s.openBreaks = {} /\ s.breaks = q.breaks
      /\ s.sessionEnd = Null /\ s.sessionStart = q.sessionStart
      /\ s.breakTicks = q.breakTicks /\ s.breakMinutes = q.breakMinutes
  BY <1>3 DEF TimeLog
<1> HIDE DEF s
<1>6. Discipline(s) /\ Times(s)
  BY <1>3, <1>5 DEF Discipline, Times
<1>7. ClosedBreaks(s) >= 0 /\ Rounded(s, ClosedBreaks(s))
  BY <1>3, <1>4, <1>5 DEF ClosedBreaks, Rounded, TimeLog
<1> QED BY <1>4, <1>6, <1>7 DEF RowOK, s

\* The credited minutes of one row, as CreditAccurate says it.
Credit(r) ==
  r.status = "completed" =>
    /\ Worked(r) >= 0
    /\ 2 * (TicksPerMinute * r.actualDuration - Worked(r)) <= TicksPerMinute * (r.breaks + 1)
    /\ 2 * (Worked(r) - TicksPerMinute * r.actualDuration) <= TicksPerMinute * (r.breaks + 1)

\* Completing a row q that has no break open any more.
LEMMA CompleteOK ==
  ASSUME NEW q, q \in TimeLog, now \in Nat, q.openBreaks = {},
         q.sessionStart + q.breakTicks <= now, Rounded(q, q.breaks)
  PROVE  RowOK(Complete(q)) /\ Credit(Complete(q))
<1> DEFINE s == Complete(q)
           d == now - q.sessionStart
           g == RoundMinutes(d)
           a == AtLeastZero(g - q.breakMinutes)
<1>1. /\ q.sessionStart \in Nat /\ q.breakTicks \in Nat /\ q.breakMinutes \in Nat
      /\ q.breaks \in Nat
  BY DEF TimeLog
<1>2. d \in Nat /\ q.sessionStart <= now /\ q.breakTicks <= d
  BY <1>1
<1>3. /\ g \in Nat
      /\ 2 * (TicksPerMinute * g - d) <= TicksPerMinute
      /\ 2 * (d - TicksPerMinute * g) <= TicksPerMinute
  BY <1>2, RoundMinutesBound
<1>4. s \in TimeLog
  BY <1>2, CompleteIsTimeLog
<1>5. /\ s.status = "completed" /\ s.sessionEnd = now /\ s.openBreaks = {}
      /\ s.sessionStart = q.sessionStart /\ s.breaks = q.breaks
      /\ s.breakTicks = q.breakTicks /\ s.breakMinutes = q.breakMinutes
      /\ s.actualDuration = a
  BY DEF Complete, TimeLog
<1>6. Discipline(s)
  BY <1>5 DEF Discipline
<1>7. Times(s)
  BY <1>1, <1>5 DEF Times
<1>8. ClosedBreaks(s) >= 0 /\ Rounded(s, ClosedBreaks(s))
  BY <1>1, <1>5 DEF ClosedBreaks, Rounded
<1>9. Worked(s) = d - q.breakTicks
  BY <1>5 DEF Worked
<1>10. Credit(s)
  <2> DEFINE M == TicksPerMinute * q.breakMinutes
             G == TicksPerMinute * g
             K == TicksPerMinute * q.breaks
             A == TicksPerMinute * a
             W == d - q.breakTicks
  <2>1. a \in Nat /\ (a = g - q.breakMinutes \/ (a = 0 /\ g <= q.breakMinutes))
    BY <1>1, <1>3 DEF AtLeastZero
  <2>2. M \in Int /\ G \in Int /\ K \in Int /\ A \in Int /\ W \in Int /\ W >= 0
    BY <1>1, <1>2, <1>3, <2>1
  <2>3. A = G - M \/ (A = 0 /\ G <= M)
    <3>1. CASE a = g - q.breakMinutes
      BY <3>1, <1>1, <1>3
    <3>2. CASE a = 0 /\ g <= q.breakMinutes
      <4>1. PICK k \in Nat : q.breakMinutes = g + k
        <5>1. q.breakMinutes - g \in Nat /\ q.breakMinutes = g + (q.breakMinutes - g)
          BY <3>2, <1>1, <1>3
        <5> QED BY <5>1
      <4>2. TicksPerMinute * (g + k) = G + TicksPerMinute * k /\ TicksPerMinute * k >= 0
        BY <1>3, <4>1
      <4> QED BY <3>2, <4>1, <4>2, <2>2
    <3> QED BY <2>1, <3>1, <3>2
  <2>4. /\ 2 * (M - q.breakTicks) <= K /\ 2 * (q.breakTicks - M) <= K
        /\ 2 * (G - d) <= TicksPerMinute /\ 2 * (d - G) <= TicksPerMinute
    BY <1>3 DEF Rounded
  <2>5. TicksPerMinute * (s.breaks + 1) = K + TicksPerMinute
    BY <1>1, <1>5
  <2>6. K >= 0 /\ TicksPerMinute >= 0 /\ TicksPerMinute \in Int
    BY <1>1
  <2>7. TicksPerMinute * s.actualDuration = A /\ Worked(s) = W
    BY <1>5, <1>9
  <2> HIDE DEF M, G, K, A, W, d, g, a, s
  <2>8. W = d - q.breakTicks /\ d \in Int
    BY <1>2 DEF W
  <2>9. 2 * (A - W) <= K + TicksPerMinute /\ 2 * (W - A) <= K + TicksPerMinute
    BY <1>1, <2>2, <2>3, <2>4, <2>6, <2>8
  <2> QED BY <2>2, <2>5, <2>7, <2>9 DEF Credit
<1> QED BY <1>4, <1>6, <1>7, <1>8, <1>10 DEF RowOK

\* switchTimer keeps a session in order, and what it credits is accurate.
LEMMA SwitchOK ==
  ASSUME NEW r, RowOK(r), now \in Nat, r.status # "completed",
         NEW q \in CloseOneOf(r, r.openBreaks)
  PROVE  RowOK(Complete(q)) /\ Credit(Complete(q))
<1>1. r \in TimeLog
  BY DEF RowOK
<1>2. CASE r.status = "active"
  <2>1. r.openBreaks = {} /\ q = r
    BY <1>2 DEF RowOK, Discipline, CloseOneOf
  <2>2. r.sessionStart + r.breakTicks <= now
    BY DEF RowOK, Times
  <2>3. Rounded(r, r.breaks)
    BY <1>2 DEF RowOK, ClosedBreaks
  <2> QED BY <1>1, <2>1, <2>2, <2>3, CompleteOK
<1>3. CASE r.status = "paused"
  <2>1. PICK b \in r.openBreaks : r.openBreaks = {b} /\ b.no = r.breaks
    BY <1>3 DEF RowOK, Discipline
  <2>2. q = CloseBreak(r, b)
    BY <2>1 DEF CloseOneOf
  <2>3. /\ q \in TimeLog
        /\ q.openBreaks = {}
        /\ q.sessionStart + q.breakTicks <= now
        /\ Rounded(q, q.breaks)
    BY <1>3, <2>1, <2>2, CloseBreakOK
  <2> QED BY <2>3, CompleteOK
<1> QED BY <1>1, <1>2, <1>3 DEF TimeLog
-----------------------------------------------------------------------------
(* The inductive invariant *)

IInv == /\ TypeOK
        /\ BreakDiscipline
        /\ AccountingInv
        /\ CreditAccurate
        /\ SessionsDisjoint

\* IInv row by row.
LEMMA IInvByRows ==
  ASSUME TypeOK
  PROVE  /\ BreakDiscipline /\ AccountingInv <=> \A l \in DOMAIN log : RowOK(log[l])
         /\ CreditAccurate <=> \A l \in DOMAIN log : Credit(log[l])
<1>1. \A l \in DOMAIN log : log[l] \in TimeLog
  BY DEF TypeOK
<1>2. BreakDiscipline <=> \A l \in DOMAIN log : Discipline(log[l])
  BY DEF BreakDiscipline, Discipline
<1>3. SessionTimes <=> \A l \in DOMAIN log : Times(log[l])
  BY DEF SessionTimes, Times
<1>4. BreakRounding <=> \A l \in DOMAIN log :
                          ClosedBreaks(log[l]) >= 0 /\ Rounded(log[l], ClosedBreaks(log[l]))
  BY DEF BreakRounding, Rounded
<1>5. CreditAccurate <=> \A l \in DOMAIN log : Credit(log[l])
  BY DEF CreditAccurate, Credit
<1>6. BreakDiscipline /\ AccountingInv <=> \A l \in DOMAIN log : RowOK(log[l])
  BY <1>1, <1>2, <1>3, <1>4 DEF RowOK, AccountingInv
<1> QED BY <1>5, <1>6

\* Every change of one log keeps it in order and its credit accurate.
LEMMA RowStepOK ==
  ASSUME NEW r, NEW s, RowOK(r), Credit(r), now \in Nat, RowStep(r, s)
  PROVE  RowOK(s) /\ Credit(s)
<1>1. CASE s = r
  BY <1>1
<1>2. CASE r.status = "active" /\ s = [BeginBreak(r) EXCEPT !.status = "paused"]
  <2>1. RowOK(s)
    BY <1>2, PauseOK
  <2>2. s.status = "paused"
    <3>1. r \in TimeLog
      BY DEF RowOK
    <3> QED BY <1>2, <3>1 DEF BeginBreak, TimeLog
  <2> QED BY <2>1, <2>2 DEF Credit
<1>3. ASSUME r.status = "paused", NEW q \in CloseOneOf(r, LatestIfOpen(r)),
             s = [q EXCEPT !.status = "active"]
      PROVE  RowOK(s) /\ Credit(s)
  <2>1. RowOK(s)
    BY <1>3, ResumeOK
  <2>2. s \in TimeLog /\ (s.status = "active" \/ s.status = q.status)
    BY <1>3, <2>1 DEF RowOK
  <2>3. s.status # "completed"
    <3>1. PICK b \in r.openBreaks : r.openBreaks = {b} /\ b.no = r.breaks
      BY <1>3 DEF RowOK, Discipline
    <3>2. q = CloseBreak(r, b)
      BY <1>3, <3>1 DEF CloseOneOf, LatestIfOpen
    <3>3. q \in TimeLog
      BY <1>3, <3>1, <3>2, CloseBreakOK
    <3> QED BY <1>3, <3>3 DEF TimeLog
  <2> QED BY <2>1, <2>3 DEF Credit
<1>4. ASSUME r.status # "completed", NEW q \in CloseOneOf(r, r.openBreaks), s = Complete(q)
      PROVE  RowOK(s) /\ Credit(s)
  BY <1>4, SwitchOK
<1> QED BY <1>1, <1>2, <1>3, <1>4 DEF RowStep

\* The log startTimer creates is in order.
LEMMA NewLogOK ==
  ASSUME NEW e \in Employees, NEW t \in Tasks, now \in Nat
  PROVE  RowOK(NewLog(e, t)) /\ Credit(NewLog(e, t))
<1> DEFINE r == NewLog(e, t)
<1>1. r \in TimeLog
  BY DEF NewLog, TimeLog
<1>2. /\ r.status = "active" /\ r.openBreaks = {} /\ r.sessionEnd = Null
      /\ r.sessionStart = now /\ r.breaks = 0 /\ r.breakMinutes = 0 /\ r.breakTicks = 0
  BY DEF NewLog
<1> HIDE DEF r
<1>3. Discipline(r) /\ Times(r)
  BY <1>2 DEF Discipline, Times
<1>4. ClosedBreaks(r) >= 0 /\ Rounded(r, ClosedBreaks(r))
  BY <1>2 DEF ClosedBreaks, Rounded
<1>5. Credit(r)
  BY <1>2 DEF Credit
<1> QED BY <1>1, <1>3, <1>4, <1>5 DEF RowOK, r
-----------------------------------------------------------------------------
(* Every step preserves it *)

\* Every request leaves the task rows well typed.
LEMMA TaskTyped ==
  ASSUME TypeOK, [Next]_vars
  PROVE  DOMAIN task' \subseteq Tasks /\ task' \in [DOMAIN task' -> Task]
<1>1. ASSUME NEW e \in Employees, NEW t \in Tasks, StartTimer(e, t)
      PROVE  DOMAIN task' \subseteq Tasks /\ task' \in [DOMAIN task' -> Task]
  BY <1>1 DEF StartTimer, TypeOK, Task, PersonStatus
<1>2. ASSUME NEW e \in Employees, NEW t \in Tasks, CreateTask(t, e)
      PROVE  DOMAIN task' \subseteq Tasks /\ task' \in [DOMAIN task' -> Task]
  BY <1>2 DEF CreateTask, Insert, TypeOK, Task, PersonStatus
<1>3. ASSUME NEW t \in Tasks, NEW s \in PersonStatus, UpdateTask(t, s)
      PROVE  DOMAIN task' \subseteq Tasks /\ task' \in [DOMAIN task' -> Task]
  BY <1>3 DEF UpdateTask, TypeOK, Task
<1>4. ASSUME NEW t \in Tasks, RemoveTask(t)
      PROVE  DOMAIN task' \subseteq Tasks /\ task' \in [DOMAIN task' -> Task]
  BY <1>4 DEF RemoveTask, Delete, TypeOK
<1>5. ASSUME NEW e \in Employees, RemoveUser(e)
      PROVE  DOMAIN task' \subseteq Tasks /\ task' \in [DOMAIN task' -> Task]
  BY <1>5 DEF RemoveUser, TypeOK, Task
<1>6. CASE UNCHANGED task
  BY <1>6 DEF TypeOK
<1>7. ASSUME NEW e \in Employees, NEW l \in LogIds,
             PauseTimer(e, l) \/ ResumeTimer(e, l) \/ SwitchTimer(e, l)
      PROVE  UNCHANGED task
  BY <1>7 DEF PauseTimer, ResumeTimer, SwitchTimer
<1> QED
  BY <1>1, <1>2, <1>3, <1>4, <1>5, <1>6, <1>7 DEF Next, vars, Tick

\* What the two kinds of change to the log table do to its rows.
LEMMA RowsStepInv ==
  ASSUME TypeOK, TypeOK', now' = now \/ log' = log, now <= now', RowsStep,
         \A l \in DOMAIN log : RowOK(log[l]) /\ Credit(log[l])
  PROVE  (\A l \in DOMAIN log : RowOK(log[l]) /\ Credit(log[l]))'
<1>1. CASE now' = now
  <2>1. \A l \in DOMAIN log' : RowOK(log'[l]) /\ Credit(log'[l])
    BY RowStepOK DEF RowsStep, TypeOK
  <2> QED BY <1>1, <2>1 DEF RowOK, Discipline, Times, ClosedBreaks, Rounded, Credit, Worked
<1>2. CASE log' = log
  <2> SUFFICES ASSUME NEW l \in DOMAIN log
               PROVE  (RowOK(log[l]) /\ Credit(log[l]))'
    BY <1>2
  <2>1. log[l] \in TimeLog /\ Times(log[l])
    BY DEF RowOK
  <2>2. Times(log[l])'
    BY <1>2, <2>1 DEF Times, TimeLog, Break, TypeOK
  <2> QED BY <1>2, <2>2 DEF RowOK, Discipline, ClosedBreaks, Rounded, Credit, Worked
<1> QED BY <1>1, <1>2

\* Adding a log keeps every log in order.
LEMMA BeginStepInv ==
  ASSUME TypeOK, now' = now, BeginStep,
         \A l \in DOMAIN log : RowOK(log[l]) /\ Credit(log[l])
  PROVE  (\A l \in DOMAIN log : RowOK(log[l]) /\ Credit(log[l]))'
<1>1. PICK e \in Employees, t \in Tasks, k \in LogIds \ DOMAIN log :
           log' = Insert(log, k, NewLog(e, t))
  BY DEF BeginStep
<1>2. RowOK(NewLog(e, t)) /\ Credit(NewLog(e, t))
  BY NewLogOK DEF TypeOK
<1>3. \A l \in DOMAIN log' : RowOK(log'[l]) /\ Credit(log'[l])
  BY <1>1, <1>2 DEF Insert
<1> QED BY <1>3 DEF RowOK, Discipline, Times, ClosedBreaks, Rounded, Credit, Worked

\* Every request leaves the log rows well typed.
LEMMA LogTyped ==
  ASSUME TypeOK, [Next]_vars,
         \A l \in DOMAIN log : RowOK(log[l]) /\ Credit(log[l])
  PROVE  DOMAIN log' \subseteq LogIds /\ log' \in [DOMAIN log' -> TimeLog]
<1>1. CASE RowsStep
  <2>1. \A l \in DOMAIN log' : log'[l] \in TimeLog
    BY <1>1, RowStepOK DEF RowsStep, TypeOK, RowOK
  <2> QED BY <1>1, <2>1 DEF RowsStep, TypeOK
<1>2. CASE BeginStep
  <2>1. PICK e \in Employees, t \in Tasks, k \in LogIds \ DOMAIN log :
             log' = Insert(log, k, NewLog(e, t))
    BY <1>2 DEF BeginStep
  <2>2. NewLog(e, t) \in TimeLog
    BY NewLogOK DEF TypeOK, RowOK
  <2> QED BY <2>1, <2>2 DEF Insert, TypeOK
<1> QED BY <1>1, <1>2, NextRows

\* A row that has ended is not touched, and no step moves the start of a
\* session or ends one at another moment than now.
LEMMA RowStepTimes ==
  ASSUME NEW r, NEW s, RowOK(r), now \in Nat, RowStep(r, s)
  PROVE  /\ s.employee = r.employee /\ s.sessionStart = r.sessionStart
         /\ r.status = "completed" => s = r
         /\ r.sessionEnd # Null => s.sessionEnd = r.sessionEnd
<1>1. r \in TimeLog
  BY DEF RowOK
<1>2. \A b : CloseBreak(r, b).employee = r.employee
            /\ CloseBreak(r, b).sessionStart = r.sessionStart
            /\ CloseBreak(r, b).sessionEnd = r.sessionEnd
  BY <1>1 DEF CloseBreak, TimeLog
<1>3. CASE s = r
  BY <1>3
<1>4. CASE r.status = "active" /\ s = [BeginBreak(r) EXCEPT !.status = "paused"]
  BY <1>1, <1>4 DEF BeginBreak, TimeLog
<1>5. ASSUME r.status = "paused", NEW q \in CloseOneOf(r, LatestIfOpen(r)),
             s = [q EXCEPT !.status = "active"]
      PROVE  s.employee = r.employee /\ s.sessionStart = r.sessionStart
             /\ s.sessionEnd = r.sessionEnd
  <2>1. PICK b \in r.openBreaks : r.openBreaks = {b} /\ b.no = r.breaks
    BY <1>5 DEF RowOK, Discipline
  <2>2. q = CloseBreak(r, b)
    BY <1>5, <2>1 DEF CloseOneOf, LatestIfOpen
  <2>3. q \in TimeLog
    BY <1>5, <2>1, <2>2, CloseBreakOK
  <2> QED BY <1>2, <1>5, <2>2, <2>3 DEF TimeLog
<1>6. ASSUME r.status # "completed", NEW q \in CloseOneOf(r, r.openBreaks), s = Complete(q)
      PROVE  s.employee = r.employee /\ s.sessionStart = r.sessionStart
             /\ r.sessionEnd = Null
  <2>1. q \in TimeLog /\ q.employee = r.employee /\ q.sessionStart = r.sessionStart
    <3>1. CASE r.openBreaks = {}
      BY <1>1, <1>6, <3>1 DEF CloseOneOf
    <3>2. CASE r.openBreaks # {}
      <4>1. PICK b \in r.openBreaks : q = CloseBreak(r, b)
        BY <1>6, <3>2 DEF CloseOneOf
      <4>2. r.status = "paused" /\ r.openBreaks = {b} /\ b.no = r.breaks
        BY <1>1, <1>6, <3>2 DEF RowOK, Discipline, TimeLog
      <4> QED BY <1>2, <4>1, <4>2, CloseBreakOK
    <3> QED BY <3>1, <3>2
  <2>2. s.employee = q.employee /\ s.sessionStart = q.sessionStart
    BY <1>6, <2>1 DEF Complete, TimeLog
  <2> QED BY <1>6, <2>1, <2>2 DEF RowOK, Discipline
<1> QED BY <1>3, <1>4, <1>5, <1>6 DEF RowStep, RowOK, Discipline

\* No request makes two sessions of one employee overlap: startTimer refuses
\* while one is open, and an ended one lies in the past.
LEMMA DisjointInv ==
  ASSUME TypeOK, [Next]_vars, SessionsDisjoint,
         \A l \in DOMAIN log : RowOK(log[l])
  PROVE  SessionsDisjoint'
<1>0. now \in Nat
  BY DEF TypeOK
<1>1. CASE RowsStep
  <2> SUFFICES ASSUME NEW k \in DOMAIN log', NEW l \in DOMAIN log', k # l,
                      log'[k].employee = log'[l].employee
               PROVE  Precedes(log'[k], log'[l]) \/ Precedes(log'[l], log'[k])
    BY DEF SessionsDisjoint, Precedes
  <2>1. k \in DOMAIN log /\ l \in DOMAIN log
    BY <1>1 DEF RowsStep
  <2>2. /\ log'[k].employee = log[k].employee /\ log'[k].sessionStart = log[k].sessionStart
        /\ log[k].sessionEnd # Null => log'[k].sessionEnd = log[k].sessionEnd
    BY <1>0, <1>1, <2>1, RowStepTimes DEF RowsStep
  <2>3. /\ log'[l].employee = log[l].employee /\ log'[l].sessionStart = log[l].sessionStart
        /\ log[l].sessionEnd # Null => log'[l].sessionEnd = log[l].sessionEnd
    BY <1>0, <1>1, <2>1, RowStepTimes DEF RowsStep
  <2>4. Precedes(log[k], log[l]) \/ Precedes(log[l], log[k])
    BY <2>1, <2>2, <2>3 DEF SessionsDisjoint
  <2> QED BY <2>2, <2>3, <2>4 DEF Precedes
<1>2. CASE BeginStep
  <2>1. PICK e \in Employees, t \in Tasks, n \in LogIds \ DOMAIN log :
             OpenSessions(e) = {} /\ log' = Insert(log, n, NewLog(e, t))
    BY <1>2 DEF BeginStep
  <2>2. /\ DOMAIN log' = DOMAIN log \cup {n}
        /\ log'[n] = NewLog(e, t)
        /\ \A l \in DOMAIN log : log'[l] = log[l]
    BY <2>1 DEF Insert
  <2>3. NewLog(e, t).employee = e /\ NewLog(e, t).sessionStart = now
    BY DEF NewLog
  <2>4. ASSUME NEW l \in DOMAIN log, log[l].employee = e
        PROVE  Precedes(log[l], NewLog(e, t))
    <3>1. log[l].sessionEnd # Null
      <4>1. ~IsOpen(log[l])
        BY <2>1, <2>4 DEF OpenSessions
      <4>2. log[l] \in TimeLog /\ Discipline(log[l])
        BY DEF RowOK
      <4> QED BY <4>1, <4>2 DEF IsOpen, Discipline, TimeLog
    <3>2. log[l].sessionEnd <= now
      BY <3>1 DEF RowOK, Times
    <3> QED BY <2>3, <3>1, <3>2 DEF Precedes
  <2> QED BY <2>2, <2>3, <2>4 DEF SessionsDisjoint, Precedes
<1> QED BY <1>1, <1>2, NextRows
-----------------------------------------------------------------------------
(* The theorems *)

\* The empty tables satisfy the invariant.
LEMMA InitIInv == Init => IInv
<1> SUFFICES ASSUME Init PROVE IInv
  OBVIOUS
<1>1. DOMAIN task = {} /\ DOMAIN log = {} /\ now = 0
  BY DEF Init
<1>2. task \in [DOMAIN task -> Task] /\ log \in [DOMAIN log -> TimeLog]
  BY <1>1 DEF Init
<1>3. TypeOK
  BY <1>1, <1>2 DEF TypeOK
<1>4. BreakDiscipline /\ AccountingInv /\ CreditAccurate /\ SessionsDisjoint
  BY <1>1 DEF BreakDiscipline, AccountingInv, SessionTimes, BreakRounding, CreditAccurate,
              SessionsDisjoint
<1> QED BY <1>3, <1>4 DEF IInv

\* The invariant is inductive: every request preserves it.
LEMMA NextIInv == IInv /\ [Next]_vars => IInv'
<1> SUFFICES ASSUME IInv, [Next]_vars PROVE IInv'
  OBVIOUS
<1>1. TypeOK /\ SessionsDisjoint /\ \A l \in DOMAIN log : RowOK(log[l]) /\ Credit(log[l])
  BY IInvByRows DEF IInv
<1>2. TypeOK'
  BY <1>1, TaskTyped, LogTyped, NextRows DEF TypeOK
<1>3. (\A l \in DOMAIN log : RowOK(log[l]) /\ Credit(log[l]))'
  <2>1. CASE RowsStep
    BY <1>1, <1>2, <2>1, RowsStepInv, NextRows
  <2>2. ASSUME BeginStep, ~RowsStep PROVE now' = now
    <3>1. log' # log
      BY <2>2, <1>1 DEF RowsStep, RowStep, TypeOK
    <3> QED BY <1>1, <3>1, NextRows
  <2> QED BY <1>1, <2>1, <2>2, BeginStepInv, NextRows
<1>4. (BreakDiscipline /\ AccountingInv /\ CreditAccurate)'
  <2>1. TypeOK' => /\ (BreakDiscipline /\ AccountingInv)' <=> (\A l \in DOMAIN log : RowOK(log[l]))'
                   /\ CreditAccurate' <=> (\A l \in DOMAIN log : Credit(log[l]))'
    BY IInvByRows, PTL
  <2> QED BY <1>2, <1>3, <2>1
<1>5. SessionsDisjoint'
  BY <1>1, DisjointInv
<1> QED BY <1>2, <1>4, <1>5 DEF IInv

\* Every reachable state of the task timer satisfies the inductive invariant.
THEOREM InvariantHolds == Spec => []IInv
BY InitIInv, NextIInv, PTL DEF Spec

\* Type correctness of the task timer.
THEOREM TypeCorrect == Spec => []TypeOK
<1>1. IInv => TypeOK
  BY DEF IInv
<1> QED BY <1>1, InvariantHolds, PTL

\* startTimer's "Enforce one active session at a time across all tasks" holds
\* for any number of employees, tasks and sessions, as long as requests do not
\* overlap: the sessions of one employee never overlap in time.
THEOREM SessionsNeverOverlap == Spec => []SessionsDisjoint
<1>1. IInv => SessionsDisjoint
  BY DEF IInv
<1> QED BY <1>1, InvariantHolds, PTL

\* The status of a session, its end and its break rows always agree.
THEOREM BreaksDisciplined == Spec => []BreakDiscipline
<1>1. IInv => BreakDiscipline
  BY DEF IInv
<1> QED BY <1>1, InvariantHolds, PTL

\* However a session is paused and resumed, the minutes credited to it differ
\* from the time worked by at most half a minute for each break and half a
\* minute for the session itself, at any clock resolution.
THEOREM CreditIsAccurate == Spec => []CreditAccurate
<1>1. IInv => CreditAccurate
  BY DEF IInv
<1> QED BY <1>1, InvariantHolds, PTL

\* A completed row keeps the two numbers its credit was computed from.
StoredCredit(r) ==
  r.status = "completed" =>
    /\ r.sessionEnd # Null
    /\ r.actualDuration =
         AtLeastZero(RoundMinutes(r.sessionEnd - r.sessionStart) - r.breakMinutes)

CreditStored == \A l \in DOMAIN log : StoredCredit(log[l])

\* Clamping two numbers at zero brings them no further apart.
LEMMA AtLeastZeroBound ==
  ASSUME NEW x \in Int, NEW y \in Int, NEW c \in Nat, 2 * (x - y) <= c, 2 * (y - x) <= c
  PROVE  /\ 2 * (AtLeastZero(x) - AtLeastZero(y)) <= c
         /\ 2 * (AtLeastZero(y) - AtLeastZero(x)) <= c
BY DEF AtLeastZero

\* Clamping commutes with a change of the unit.
LEMMA AtLeastZeroTimes ==
  ASSUME NEW n \in Int, NEW u \in Nat \ {0}
  PROVE  u * AtLeastZero(n) = AtLeastZero(u * n)
<1>1. CASE n < 0
  <2>1. PICK k \in Nat : n = 0 - k
    <3>1. 0 - n \in Nat /\ n = 0 - (0 - n)
      BY <1>1
    <3> QED BY <3>1
  <2>2. u * (0 - k) = 0 - u * k /\ u * k \in Nat
    BY <2>1
  <2> QED BY <1>1, <2>1, <2>2 DEF AtLeastZero
<1>2. CASE n >= 0
  <2>1. u * n \in Nat
    BY <1>2
  <2> QED BY <1>2, <2>1 DEF AtLeastZero
<1> QED BY <1>1, <1>2

\* Only switchTimer completes a row, and it stores the credit.
LEMMA StoredCreditStep ==
  ASSUME NEW r, NEW s, RowOK(r), StoredCredit(r), now \in Nat, RowStep(r, s)
  PROVE  StoredCredit(s)
<1>1. CASE s = r
  BY <1>1
<1>2. CASE r.status = "active" /\ s = [BeginBreak(r) EXCEPT !.status = "paused"]
  <2>1. s.status = "paused"
    BY <1>2 DEF RowOK, BeginBreak, TimeLog
  <2> QED BY <2>1 DEF StoredCredit
<1>3. ASSUME r.status = "paused", NEW q \in CloseOneOf(r, LatestIfOpen(r)),
             s = [q EXCEPT !.status = "active"]
      PROVE  StoredCredit(s)
  <2>1. PICK b \in r.openBreaks : r.openBreaks = {b} /\ b.no = r.breaks
    BY <1>3 DEF RowOK, Discipline
  <2>2. q = CloseBreak(r, b)
    BY <1>3, <2>1 DEF CloseOneOf, LatestIfOpen
  <2>3. q \in TimeLog
    BY <1>3, <2>1, <2>2, CloseBreakOK
  <2>4. s.status = "active"
    BY <1>3, <2>3 DEF TimeLog
  <2> QED BY <2>4 DEF StoredCredit
<1>4. ASSUME r.status # "completed", NEW q \in CloseOneOf(r, r.openBreaks), s = Complete(q)
      PROVE  StoredCredit(s)
  <2>1. q \in TimeLog
    <3>1. CASE r.status = "active"
      BY <1>4, <3>1 DEF RowOK, Discipline, CloseOneOf
    <3>2. CASE r.status = "paused"
      <4>1. PICK b \in r.openBreaks : r.openBreaks = {b} /\ b.no = r.breaks
        BY <3>2 DEF RowOK, Discipline
      <4>2. q = CloseBreak(r, b)
        BY <1>4, <4>1 DEF CloseOneOf
      <4> QED BY <3>2, <4>1, <4>2, CloseBreakOK
    <3> QED BY <1>4, <3>1, <3>2 DEF RowOK, TimeLog
  <2>2. /\ s.sessionEnd = now /\ s.sessionStart = q.sessionStart
        /\ s.breakMinutes = q.breakMinutes
        /\ s.actualDuration = AtLeastZero(RoundMinutes(now - q.sessionStart) - q.breakMinutes)
    BY <1>4, <2>1 DEF Complete, TimeLog
  <2> QED BY <2>2 DEF StoredCredit
<1> QED BY <1>1, <1>2, <1>3, <1>4 DEF RowStep

\* The stored credit is an invariant, on top of the inductive one.
LEMMA CreditStoredHolds == Spec => []CreditStored
<1>1. Init => CreditStored
  BY DEF Init, CreditStored
<1>2. IInv /\ CreditStored /\ [Next]_vars => CreditStored'
  <2> SUFFICES ASSUME IInv, CreditStored, [Next]_vars,
                      NEW l \in DOMAIN log'
               PROVE  StoredCredit(log'[l])
    BY DEF CreditStored, StoredCredit
  <2>1. TypeOK /\ now \in Nat /\ \A k \in DOMAIN log : RowOK(log[k])
    BY IInvByRows DEF IInv, TypeOK
  <2>2. CASE RowsStep
    BY <2>1, <2>2, StoredCreditStep DEF RowsStep, CreditStored
  <2>3. CASE BeginStep
    <3>1. PICK e \in Employees, t \in Tasks, k \in LogIds \ DOMAIN log :
               log' = Insert(log, k, NewLog(e, t))
      BY <2>3 DEF BeginStep
    <3>2. CASE l = k
      BY <3>1, <3>2 DEF Insert, NewLog, StoredCredit
    <3>3. CASE l # k
      BY <3>1, <3>3 DEF Insert, CreditStored
    <3> QED BY <3>2, <3>3
  <2> QED BY <2>1, <2>2, <2>3, NextRows
<1> QED BY <1>1, <1>2, InvariantHolds, PTL DEF Spec

\* Rounding a length of time to seconds is off by at most half a second.
LEMMA RoundSecondsBound ==
  ASSUME NEW d \in Nat
  PROVE  /\ RoundSeconds(d) \in Nat
         /\ TicksPerSecond * RoundSeconds(d) \in Nat
         /\ 2 * (TicksPerSecond * RoundSeconds(d) - d) <= TicksPerSecond
         /\ 2 * (d - TicksPerSecond * RoundSeconds(d)) <= TicksPerSecond
<1> DEFINE n == 2 * d + TicksPerSecond
           m == 2 * TicksPerSecond
           q == n \div m
<1>1. n \in Nat /\ m \in Nat /\ m > 0
  BY SecondsAssumption
<1>2. q \in Nat /\ m * q <= n /\ n < m * q + m
  <2> HIDE DEF n, m
  <2> QED BY <1>1
<1>3. RoundSeconds(d) = q
  BY DEF RoundSeconds
<1>4. m * q = 2 * (TicksPerSecond * q)
  <2> SUFFICES ASSUME NEW x \in Nat PROVE m * x = 2 * (TicksPerSecond * x)
    BY <1>2
  <2> QED BY SecondsAssumption
<1> HIDE DEF q
<1>5. TicksPerSecond * q \in Nat
  BY <1>2, SecondsAssumption
<1> QED BY <1>2, <1>3, <1>4, <1>5, SecondsAssumption

\* What is less than half a unit above a whole number of units rounds to at
\* most that number.
LEMMA WholeUnits ==
  ASSUME NEW u \in Nat \ {0}, NEW x \in Int, NEW y \in Int,
         2 * (u * x) < 2 * (u * y) + 2 * u
  PROVE  x <= y
<1> SUFFICES ASSUME y < x PROVE FALSE
  OBVIOUS
<1>1. PICK k \in Nat : x = (y + 1) + k
  <2>1. x - (y + 1) \in Nat /\ x = (y + 1) + (x - (y + 1))
    OBVIOUS
  <2> QED BY <2>1
<1>2. u * ((y + 1) + k) = u * y + u + u * k /\ u * k \in Nat /\ u * y \in Int
  OBVIOUS
<1> QED BY <1>1, <1>2

\* The seconds and the minutes of one length of time agree to half a minute:
\* half a minute is a whole number of seconds, so rounding to seconds does not
\* lead out of the interval that rounds to one minute.
LEMMA SecondsAndMinutes ==
  ASSUME NEW d \in Nat
  PROVE  /\ 2 * (SecondsPerMinute * RoundMinutes(d) - RoundSeconds(d)) <= SecondsPerMinute
         /\ 2 * (RoundSeconds(d) - SecondsPerMinute * RoundMinutes(d)) <= SecondsPerMinute
<1> DEFINE h == SecondsPerMinute \div 2
           s == TicksPerSecond
           p == RoundSeconds(d)
           q == RoundMinutes(d)
           a == h * (2 * q)
<1>1. h \in Nat /\ SecondsPerMinute = 2 * h /\ s \in Nat \ {0} /\ TicksPerMinute = s * (2 * h)
  BY SecondsAssumption
<1>2. /\ p \in Nat /\ s * p \in Nat
      /\ 2 * (s * p - d) <= s /\ 2 * (d - s * p) <= s
  BY RoundSecondsBound
<1>3. /\ q \in Nat
      /\ 2 * (TicksPerMinute * q - d) <= TicksPerMinute
      /\ 2 * (d - TicksPerMinute * q) <= TicksPerMinute
  BY RoundMinutesBound
<1> HIDE DEF h, s, p, q
<1>4. a \in Nat /\ s * a \in Nat /\ s * h \in Nat
  BY <1>1, <1>3
<1>5. TicksPerMinute = 2 * (s * h)
  BY <1>1
<1>6. TicksPerMinute * q = s * a
  <2>1. (s * (2 * h)) * q = s * (h * (2 * q))
    BY <1>1, <1>3
  <2> QED BY <1>1, <2>1
<1>7. SecondsPerMinute * q = a
  <2>1. (2 * h) * q = h * (2 * q)
    BY <1>1, <1>3
  <2> QED BY <1>1, <2>1
<1>8. p <= a + h
  <2>1. s * (a + h) = s * a + s * h
    BY <1>1, <1>4
  <2>2. 2 * (s * p) < 2 * (s * (a + h)) + 2 * s
    BY <1>1, <1>2, <1>3, <1>4, <1>5, <1>6, <2>1
  <2> HIDE DEF a
  <2> QED BY <1>1, <1>2, <1>4, <2>2, WholeUnits
<1>9. a - h <= p
  <2>1. s * (a - h) = s * a - s * h
    BY <1>1, <1>4
  <2>2. 2 * (s * (a - h)) < 2 * (s * p) + 2 * s
    BY <1>1, <1>2, <1>3, <1>4, <1>5, <1>6, <2>1
  <2> HIDE DEF a
  <2> QED BY <1>1, <1>2, <1>4, <2>2, WholeUnits
<1> QED BY <1>1, <1>2, <1>4, <1>7, <1>8, <1>9 DEF p, q

\* What is shown of one row.
LEMMA ShownRow ==
  ASSUME NEW r, RowOK(r), StoredCredit(r), now \in Nat
  PROVE  LET worked == (EndOrNow(r) - r.sessionStart) - r.breakTicks
             shown == TicksPerSecond * ElapsedSeconds(r)
             reported == TicksPerMinute * ReportedMinutes(r)
         IN  /\ 2 * (shown - worked) <= TicksPerMinute * ClosedBreaks(r) + TicksPerSecond
             /\ 2 * (worked - shown) <= TicksPerMinute * ClosedBreaks(r) + TicksPerSecond
             /\ 2 * (reported - shown) <= TicksPerMinute
             /\ 2 * (shown - reported) <= TicksPerMinute
<1> DEFINE d == EndOrNow(r) - r.sessionStart
           K == TicksPerMinute * ClosedBreaks(r)
           W == d - r.breakTicks
           p == RoundSeconds(d)
           q == RoundMinutes(d)
           b == SecondsPerMinute * r.breakMinutes
           B == TicksPerMinute * r.breakMinutes
           P == TicksPerSecond * p
           minutes == SecondsPerMinute * q
           shown == TicksPerSecond * ElapsedSeconds(r)
           reported == TicksPerMinute * ReportedMinutes(r)
<1>1. /\ r \in TimeLog /\ r.sessionStart \in Nat /\ r.breakTicks \in Nat
      /\ r.breakMinutes \in Nat /\ ClosedBreaks(r) \in Nat
  BY DEF RowOK, TimeLog, ClosedBreaks
<1>2. d \in Nat /\ W \in Nat
  BY <1>1 DEF RowOK, Times, TimeLog, EndOrNow
<1>3. /\ TicksPerSecond \in Nat \ {0} /\ SecondsPerMinute \in Nat \ {0}
      /\ TicksPerMinute = TicksPerSecond * SecondsPerMinute
  BY SecondsAssumption
<1>4. p \in Nat /\ P \in Nat /\ 2 * (P - d) <= TicksPerSecond /\ 2 * (d - P) <= TicksPerSecond
  BY <1>2, RoundSecondsBound
<1>5. /\ 2 * (minutes - p) <= SecondsPerMinute
      /\ 2 * (p - minutes) <= SecondsPerMinute
  BY <1>2, SecondsAndMinutes
<1>6. q \in Nat /\ minutes \in Nat /\ b \in Nat /\ B \in Nat /\ K \in Nat
  <2>1. q \in Nat
    BY <1>2, RoundMinutesBound
  <2> QED BY <2>1, <1>1, <1>3
<1>7. ElapsedSeconds(r) = AtLeastZero(p - b)
  BY DEF ElapsedSeconds
<1>8. ReportedMinutes(r) = AtLeastZero(q - r.breakMinutes)
  <2>1. CASE r.status = "completed"
    BY <2>1 DEF StoredCredit, ReportedMinutes, EndOrNow
  <2>2. CASE r.status # "completed"
    <3>1. r.sessionEnd = Null
      BY <2>2, <1>1 DEF RowOK, Discipline
    <3> QED BY <2>2, <3>1 DEF ReportedMinutes, EndOrNow
  <2> QED BY <2>1, <2>2
<1> HIDE DEF p, q
<1>9. TicksPerSecond * (p - b) = P - B /\ p - b \in Int
  <2>1. TicksPerSecond * (p - b) = P - TicksPerSecond * b
    <3> HIDE DEF b
    <3> QED BY <1>3, <1>4, <1>6
  <2>2. TicksPerSecond * b = B
    BY <1>1, <1>3
  <2> QED BY <2>1, <2>2, <1>4, <1>6
<1>10. SecondsPerMinute * (q - r.breakMinutes) = minutes - b
  BY <1>1, <1>3, <1>6
<1>11. shown = AtLeastZero(P - B)
  BY <1>3, <1>7, <1>9, AtLeastZeroTimes
<1>12. 2 * (shown - W) <= K + TicksPerSecond /\ 2 * (W - shown) <= K + TicksPerSecond
  <2>1. 2 * (B - r.breakTicks) <= K /\ 2 * (r.breakTicks - B) <= K
    BY DEF RowOK, Rounded
  <2> HIDE DEF d, B, K, P
  <2>2. /\ 2 * ((P - B) - W) <= K + TicksPerSecond /\ 2 * (W - (P - B)) <= K + TicksPerSecond
        /\ P - B \in Int /\ K + TicksPerSecond \in Nat
    BY <2>1, <1>1, <1>2, <1>3, <1>4, <1>6 DEF W
  <2>3. AtLeastZero(W) = W
    BY <1>2 DEF AtLeastZero
  <2> HIDE DEF W, shown
  <2> QED BY <2>2, <2>3, <1>2, <1>11, AtLeastZeroBound
<1>13. /\ 2 * (SecondsPerMinute * ReportedMinutes(r) - ElapsedSeconds(r)) <= SecondsPerMinute
       /\ 2 * (ElapsedSeconds(r) - SecondsPerMinute * ReportedMinutes(r)) <= SecondsPerMinute
       /\ ReportedMinutes(r) \in Nat /\ ElapsedSeconds(r) \in Nat
  <2>1. SecondsPerMinute * ReportedMinutes(r) = AtLeastZero(minutes - b)
    <3>1. q - r.breakMinutes \in Int
      BY <1>1, <1>6
    <3>2. SecondsPerMinute * AtLeastZero(q - r.breakMinutes)
            = AtLeastZero(SecondsPerMinute * (q - r.breakMinutes))
      BY <3>1, <1>3, AtLeastZeroTimes
    <3> HIDE DEF b, minutes
    <3> QED BY <3>2, <1>8, <1>10
  <2> HIDE DEF b, minutes
  <2>2. /\ 2 * ((minutes - b) - (p - b)) <= SecondsPerMinute
        /\ 2 * ((p - b) - (minutes - b)) <= SecondsPerMinute
        /\ minutes - b \in Int /\ p - b \in Int
    BY <1>3, <1>4, <1>5, <1>6
  <2>3. ReportedMinutes(r) \in Nat /\ ElapsedSeconds(r) \in Nat
    BY <1>1, <1>6, <1>7, <1>8, <2>2 DEF AtLeastZero
  <2> QED BY <1>3, <1>7, <2>1, <2>2, <2>3, AtLeastZeroBound
<1>14. 2 * (reported - shown) <= TicksPerMinute /\ 2 * (shown - reported) <= TicksPerMinute
  <2>1. ASSUME NEW m \in Nat, NEW e \in Nat, NEW u \in Nat \ {0}, NEW c \in Nat,
               2 * (c * m - e) <= c, 2 * (e - c * m) <= c
        PROVE  /\ 2 * ((u * c) * m - u * e) <= u * c
               /\ 2 * (u * e - (u * c) * m) <= u * c
    <3>1. (u * c) * m = u * (c * m) /\ c * m \in Nat
      BY <2>1
    <3>2. ASSUME NEW x \in Int, NEW y \in Int, 2 * (x - y) <= c
          PROVE  2 * (u * x - u * y) <= u * c
      <4>1. PICK k \in Nat : c = 2 * (x - y) + k
        <5>1. c - 2 * (x - y) \in Nat /\ c = 2 * (x - y) + (c - 2 * (x - y))
          BY <2>1, <3>2
        <5> QED BY <5>1
      <4>2. u * (2 * (x - y) + k) = 2 * (u * x - u * y) + u * k /\ u * k \in Nat
        BY <2>1
      <4>3. u * x \in Int /\ u * y \in Int
        BY <2>1
      <4> QED BY <4>1, <4>2, <4>3
    <3> QED BY <2>1, <3>1, <3>2
  <2> QED BY <1>3, <1>13, <2>1
<1> QED BY <1>12, <1>14

\* The elapsed time shown to an employee and the minutes of the report agree to
\* half a minute, and with the time worked to half a minute for each closed
\* break and half a second, at any clock resolution.
THEOREM ShownIsAccurate == Spec => []ShownAccurate
<1>1. IInv /\ CreditStored => ShownAccurate
  <2> SUFFICES ASSUME IInv, CreditStored, NEW l \in DOMAIN log
               PROVE  LET r == log[l]
                          worked == (EndOrNow(r) - r.sessionStart) - r.breakTicks
                          shown == TicksPerSecond * ElapsedSeconds(r)
                          reported == TicksPerMinute * ReportedMinutes(r)
                      IN  /\ 2 * (shown - worked) <= TicksPerMinute * ClosedBreaks(r) + TicksPerSecond
                          /\ 2 * (worked - shown) <= TicksPerMinute * ClosedBreaks(r) + TicksPerSecond
                          /\ 2 * (reported - shown) <= TicksPerMinute
                          /\ 2 * (shown - reported) <= TicksPerMinute
    BY DEF ShownAccurate
  <2>1. RowOK(log[l]) /\ StoredCredit(log[l]) /\ now \in Nat
    BY IInvByRows DEF IInv, TypeOK, CreditStored
  <2> QED BY <2>1, ShownRow
<1> QED BY <1>1, InvariantHolds, CreditStoredHolds, PTL

\* No operation changes a completed session while its row exists.
THEOREM CompletedSessionsFrozen == Spec => ClosedFrozen
<1>1. IInv /\ [Next]_vars =>
        [\A l \in DOMAIN log \cap DOMAIN log' :
            log[l].status = "completed" => log'[l] = log[l]]_vars
  <2> SUFFICES ASSUME IInv, [Next]_vars, NEW l \in DOMAIN log \cap DOMAIN log',
                      log[l].status = "completed"
               PROVE  log'[l] = log[l]
    OBVIOUS
  <2>1. TypeOK /\ now \in Nat /\ RowOK(log[l])
    BY IInvByRows DEF IInv, TypeOK
  <2>2. CASE RowsStep
    BY <2>1, <2>2, RowStepTimes DEF RowsStep
  <2>3. CASE BeginStep
    BY <2>3 DEF BeginStep, Insert
  <2> QED BY <2>1, <2>2, <2>3, NextRows
<1> QED BY <1>1, InvariantHolds, PTL DEF Spec, ClosedFrozen
-----------------------------------------------------------------------------
(* TaskTimer implements WorkSession *)

Off == [item |-> Null, mode |-> "idle"]
On(l) == [item |-> log[l].task, mode |-> log[l].status]

\* What the refinement mapping shows of an employee with and without an open
\* session; there is at most one to show.
Shown(e) ==
  /\ OpenSessions(e) = {} => at[e] = Off
  /\ \A l \in OpenSessions(e) : OpenSessions(e) = {l} /\ at[e] = On(l)

\* In a reachable state at most one session is open for the refinement mapping
\* to show.
LEMMA AtValue == IInv => \A e \in Employees : Shown(e)
<1> SUFFICES ASSUME IInv, NEW e \in Employees PROVE Shown(e)
  OBVIOUS
<1>1. OpenSessions(e) = {} => at[e] = Off
  BY DEF at, Off
<1>2. ASSUME NEW l \in OpenSessions(e)
      PROVE  OpenSessions(e) = {l}
  <2> SUFFICES ASSUME NEW k \in OpenSessions(e), k # l
               PROVE  FALSE
    BY <1>2
  <2> QED BY <1>2 DEF IInv, SessionsDisjoint, Precedes, OpenSessions, IsOpen
<1>3. ASSUME NEW l \in OpenSessions(e)
      PROVE  at[e] = On(l)
  BY <1>2, <1>3 DEF at, On
<1> QED BY <1>1, <1>2, <1>3 DEF Shown

\* The same of the state after a step.
LEMMA AtValuePrimed == IInv' => (\A e \in Employees : Shown(e))'
BY AtValue, PTL

\* An employee whose open session a step leaves alone is seen unchanged.
LEMMA SameAt ==
  ASSUME IInv, IInv', NEW e \in Employees,
         OpenSessions(e)' = OpenSessions(e),
         \A l \in OpenSessions(e) : log'[l] = log[l]
  PROVE  at'[e] = at[e]
<1>1. /\ OpenSessions(e)' = {} => at'[e] = Off
      /\ \A l \in OpenSessions(e)' : at'[e] = On(l)'
  BY AtValuePrimed DEF Shown, Off
<1>2. CASE OpenSessions(e) = {}
  BY <1>1, <1>2, AtValue DEF Shown
<1>3. CASE OpenSessions(e) # {}
  <2>1. PICK l : l \in OpenSessions(e)
    BY <1>3
  <2>2. at[e] = On(l) /\ at'[e] = On(l)' /\ log'[l] = log[l]
    BY <2>1, <1>1, AtValue DEF Shown
  <2> QED BY <2>2 DEF On
<1> QED BY <1>2, <1>3

\* An employee whose open session is deleted with its row, or closed, is seen
\* to become idle; everybody else as they were.  So the step is an End step.
LEMMA EndsOnly ==
  ASSUME IInv, IInv', NEW L \in SUBSET DOMAIN log,
         \A e \in Employees : OpenSessions(e)' = OpenSessions(e) \ L,
         \A e \in Employees : \A l \in OpenSessions(e) \ L : log'[l] = log[l]
  PROVE  [Promise!SessionNext]_at
<1> DEFINE P == {e \in Employees : OpenSessions(e) # {} /\ OpenSessions(e)' = {}}
<1>1. \A e \in P : at[e] # Off /\ at'[e] = Off
  <2> SUFFICES ASSUME NEW e \in P PROVE at[e] # Off /\ at'[e] = Off
    OBVIOUS
  <2>1. PICK l : l \in OpenSessions(e)
    OBVIOUS
  <2>2. at[e] = On(l) /\ log[l].status \in {"active", "paused"}
    BY <2>1, AtValue DEF Shown, OpenSessions, IsOpen
  <2>3. at[e] # Off
    BY <2>2 DEF On, Off
  <2>4. at'[e] = Off
    BY DEF at, Off
  <2> QED BY <2>3, <2>4
<1>2. ASSUME NEW e \in Employees \ P PROVE at'[e] = at[e]
  <2>1. OpenSessions(e)' = OpenSessions(e)
    <3>1. CASE OpenSessions(e) = {}
      BY <3>1
    <3>2. CASE OpenSessions(e) # {}
      <4>1. PICK l : l \in OpenSessions(e)'
        BY <1>2, <3>2
      <4>2. OpenSessions(e) = {l} /\ l \notin L
        BY <1>2, <4>1, AtValue DEF Shown
      <4> QED BY <1>2, <4>2
    <3> QED BY <3>1, <3>2
  <2>2. \A l \in OpenSessions(e) : log'[l] = log[l]
    BY <1>2, <2>1
  <2> QED BY <2>1, <2>2, SameAt
<1>3. at' = [e \in Employees |-> IF e \in P THEN Off ELSE at[e]]
  BY <1>1, <1>2 DEF at
<1>4. Promise!End(P)
  BY <1>1, <1>3 DEF Promise!End, Promise!Idle, Off
<1> QED BY <1>4 DEF Promise!SessionNext

\* Three endpoints change what one employee is seen to do.
LEMMA StartMaps ==
  ASSUME IInv, IInv', NEW e \in Employees, NEW t \in Tasks, StartTimer(e, t)
  PROVE  Promise!Begin(e, t)
<1>1. PICK n \in LogIds \ DOMAIN log : log' = Insert(log, n, NewLog(e, t))
  BY DEF StartTimer
<1>2. /\ DOMAIN log' = DOMAIN log \cup {n}
      /\ log'[n] = NewLog(e, t)
      /\ \A l \in DOMAIN log : log'[l] = log[l]
  BY <1>1 DEF Insert
<1>3. NewLog(e, t).employee = e /\ IsOpen(NewLog(e, t))
      /\ NewLog(e, t).task = t /\ NewLog(e, t).status = "active"
  BY DEF NewLog, IsOpen
<1>4. OpenSessions(e) = {} /\ at[e] = Off
  BY AtValue DEF StartTimer, Shown
<1>5. n \in OpenSessions(e)'
  BY <1>2, <1>3 DEF OpenSessions
<1>6. at'[e] = [item |-> t, mode |-> "active"]
  BY <1>2, <1>3, <1>5, AtValuePrimed DEF Shown, On
<1>7. ASSUME NEW f \in Employees, f # e PROVE at'[f] = at[f]
  <2>1. OpenSessions(f)' = OpenSessions(f)
    BY <1>2, <1>3, <1>7 DEF OpenSessions
  <2>2. \A l \in OpenSessions(f) : log'[l] = log[l]
    BY <1>2 DEF OpenSessions
  <2> QED BY <2>1, <2>2, SameAt
<1>8. at' = [at EXCEPT ![e] = [item |-> t, mode |-> "active"]]
  BY <1>6, <1>7 DEF at
<1> QED BY <1>4, <1>8 DEF Promise!Begin, Promise!Idle, Off

\* Pausing and resuming: row l, open, changes status and stays on its task.
LEMMA ModeMaps ==
  ASSUME IInv, IInv', NEW e \in Employees, NEW l \in LogsOfEmployee(e), NEW r,
         IsOpen(log[l]), log' = [log EXCEPT ![l] = r],
         r.employee = e, r.task = log[l].task, IsOpen(r)
  PROVE  /\ at[e] = On(l)
         /\ at' = [at EXCEPT ![e].mode = r.status]
<1>1. /\ DOMAIN log' = DOMAIN log /\ l \in DOMAIN log /\ log'[l] = r
      /\ log[l].employee = e
      /\ \A k \in DOMAIN log : k # l => log'[k] = log[k]
  BY DEF LogsOfEmployee
<1>2. l \in OpenSessions(e) /\ l \in OpenSessions(e)'
  BY <1>1 DEF OpenSessions
<1>3. at[e] = On(l)
  BY <1>2, AtValue DEF Shown
<1>4. at'[e] = [item |-> log[l].task, mode |-> r.status]
  BY <1>1, <1>2, AtValuePrimed DEF Shown, On
<1>5. ASSUME NEW f \in Employees, f # e PROVE at'[f] = at[f]
  <2>1. OpenSessions(f)' = OpenSessions(f) /\ l \notin OpenSessions(f)
    BY <1>1, <1>5 DEF OpenSessions
  <2>2. \A k \in OpenSessions(f) : log'[k] = log[k]
    BY <1>1, <2>1 DEF OpenSessions
  <2> QED BY <2>1, <2>2, SameAt
<1>6. at' = [at EXCEPT ![e] = [item |-> log[l].task, mode |-> r.status]]
  BY <1>4, <1>5 DEF at
<1>7. at[e].item = log[l].task /\ at[e] = [item |-> at[e].item, mode |-> at[e].mode]
  BY <1>3 DEF On
<1> QED BY <1>3, <1>6, <1>7

\* pauseTimer is a Pause of WorkSession.
LEMMA PauseMaps ==
  ASSUME IInv, IInv', NEW e \in Employees, NEW l \in LogIds, PauseTimer(e, l)
  PROVE  Promise!Pause(e)
<1> DEFINE r == [BeginBreak(log[l]) EXCEPT !.status = "paused"]
<1>1. l \in LogsOfEmployee(e) /\ log[l].status = "active" /\ log' = [log EXCEPT ![l] = r]
  BY DEF PauseTimer
<1>2. log[l] \in TimeLog /\ log[l].sessionEnd = Null /\ log[l].employee = e
  BY <1>1 DEF IInv, TypeOK, BreakDiscipline, LogsOfEmployee
<1>3. r.employee = e /\ r.task = log[l].task /\ r.status = "paused" /\ r.sessionEnd = Null
  BY <1>2 DEF BeginBreak, TimeLog
<1> HIDE DEF r
<1>4. at[e] = On(l) /\ at' = [at EXCEPT ![e].mode = r.status]
  BY <1>1, <1>2, <1>3, ModeMaps DEF IsOpen
<1> QED BY <1>1, <1>3, <1>4 DEF Promise!Pause, On

\* resumeTimer is a Resume of WorkSession.
LEMMA ResumeMaps ==
  ASSUME IInv, IInv', NEW e \in Employees, NEW l \in LogIds, ResumeTimer(e, l)
  PROVE  Promise!Resume(e)
<1>1. PICK q \in CloseOneOf(log[l], LatestIfOpen(log[l])) :
           log' = [log EXCEPT ![l] = [q EXCEPT !.status = "active"]]
  BY DEF ResumeTimer
<1> DEFINE r == [q EXCEPT !.status = "active"]
<1>2. l \in LogsOfEmployee(e) /\ log[l].status = "paused" /\ log' = [log EXCEPT ![l] = r]
  BY <1>1 DEF ResumeTimer
<1>3. log[l] \in TimeLog /\ log[l].sessionEnd = Null /\ log[l].employee = e
  BY <1>2 DEF IInv, TypeOK, BreakDiscipline, LogsOfEmployee
<1>4. PICK b \in log[l].openBreaks : log[l].openBreaks = {b} /\ b.no = log[l].breaks
  BY <1>2 DEF IInv, BreakDiscipline, LogsOfEmployee
<1>5. q = CloseBreak(log[l], b)
  BY <1>1, <1>4 DEF CloseOneOf, LatestIfOpen
<1>6. r.employee = e /\ r.task = log[l].task /\ r.status = "active" /\ r.sessionEnd = Null
  BY <1>3, <1>5 DEF CloseBreak, TimeLog
<1> HIDE DEF r
<1>7. at[e] = On(l) /\ at' = [at EXCEPT ![e].mode = r.status]
  BY <1>2, <1>3, <1>6, ModeMaps DEF IsOpen
<1> QED BY <1>2, <1>6, <1>7 DEF Promise!Resume, On

\* Closing a session makes its employee idle.
LEMMA SwitchMaps ==
  ASSUME IInv, IInv', NEW e \in Employees, NEW l \in LogIds, SwitchTimer(e, l)
  PROVE  [Promise!SessionNext]_at
<1>1. PICK q \in CloseOneOf(log[l], log[l].openBreaks) :
           log' = [log EXCEPT ![l] = Complete(q)]
  BY DEF SwitchTimer
<1>2. l \in DOMAIN log /\ log[l].employee = e /\ log[l].status # "completed"
  BY DEF SwitchTimer, LogsOfEmployee
<1>3. DOMAIN log' = DOMAIN log /\ \A k \in DOMAIN log : k # l => log'[k] = log[k]
  BY <1>1
<1>4. log'[l].employee = e /\ ~IsOpen(log'[l])
  <2>1. log'[l] = Complete(q)
    BY <1>1, <1>2
  <2>2. RowOK(log[l]) /\ now \in Nat
    BY <1>2, IInvByRows DEF IInv, TypeOK
  <2>3. Complete(q) \in TimeLog /\ Discipline(Complete(q))
    BY <1>2, <2>2, SwitchOK DEF RowOK
  <2>4. log'[l].employee = e
    <3>1. RowStep(log[l], Complete(q))
      BY <1>2 DEF RowStep
    <3> QED BY <1>2, <2>1, <2>2, <3>1, RowStepTimes
  <2>5. Complete(q).status \notin {"active", "paused"}
    <3>1. q \in TimeLog
      <4>1. CASE log[l].openBreaks = {}
        BY <2>2, <4>1 DEF CloseOneOf, RowOK
      <4>2. CASE log[l].openBreaks # {}
        <5>1. PICK b \in log[l].openBreaks : q = CloseBreak(log[l], b)
          BY <4>2 DEF CloseOneOf
        <5>2. log[l] \in TimeLog /\ b.start <= now
          BY <2>2 DEF RowOK, Times
        <5> QED BY <2>2, <5>1, <5>2, CloseBreakIsTimeLog
      <4> QED BY <4>1, <4>2
    <3> QED BY <3>1 DEF Complete, TimeLog
  <2> QED BY <2>1, <2>4, <2>5 DEF IsOpen
<1>5. \A f \in Employees : OpenSessions(f)' = OpenSessions(f) \ {l}
  BY <1>2, <1>3, <1>4 DEF OpenSessions
<1>6. \A f \in Employees : \A k \in OpenSessions(f) \ {l} : log'[k] = log[k]
  BY <1>3 DEF OpenSessions
<1>7. {l} \in SUBSET DOMAIN log
  BY <1>2
<1> QED BY <1>5, <1>6, <1>7, EndsOnly

\* So does deleting its row.
LEMMA DeleteMaps ==
  ASSUME IInv, IInv', NEW L \in SUBSET DOMAIN log, log' = Delete(log, L)
  PROVE  [Promise!SessionNext]_at
<1>1. DOMAIN log' = DOMAIN log \ L /\ \A k \in DOMAIN log' : log'[k] = log[k]
  BY DEF Delete
<1>2. \A f \in Employees : OpenSessions(f)' = OpenSessions(f) \ L
  BY <1>1 DEF OpenSessions
<1>3. \A f \in Employees : \A k \in OpenSessions(f) \ L : log'[k] = log[k]
  BY <1>1 DEF OpenSessions
<1> QED BY <1>2, <1>3, EndsOnly

\* The task timer implements WorkSession: seen from outside, whatever is done
\* to tasks, users and logs, each employee is idle or works on one task, and
\* goes from one task to another only by way of being idle.
THEOREM TimerKeepsPromise == Spec => KeepsPromise
<1>1. Init => Promise!SessionInit
  <2> SUFFICES ASSUME Init PROVE Promise!SessionInit
    OBVIOUS
  <2>1. DOMAIN log = {}
    BY DEF Init
  <2>2. \A e \in Employees : OpenSessions(e) = {}
    BY <2>1 DEF OpenSessions
  <2> QED BY <2>2 DEF at, Promise!SessionInit, Promise!Idle
<1>2. IInv /\ IInv' /\ [Next]_vars => [Promise!SessionNext]_at
  <2> SUFFICES ASSUME IInv, IInv', [Next]_vars
               PROVE  [Promise!SessionNext]_at
    OBVIOUS
  <2>1. ASSUME NEW e \in Employees, NEW t \in Tasks, StartTimer(e, t)
        PROVE  Promise!SessionNext
    BY <2>1, StartMaps DEF Promise!SessionNext
  <2>2. ASSUME NEW e \in Employees, NEW l \in LogIds, PauseTimer(e, l)
        PROVE  Promise!SessionNext
    BY <2>2, PauseMaps DEF Promise!SessionNext
  <2>3. ASSUME NEW e \in Employees, NEW l \in LogIds, ResumeTimer(e, l)
        PROVE  Promise!SessionNext
    BY <2>3, ResumeMaps DEF Promise!SessionNext
  <2>4. ASSUME NEW e \in Employees, NEW l \in LogIds, SwitchTimer(e, l)
        PROVE  [Promise!SessionNext]_at
    BY <2>4, SwitchMaps
  <2>5. ASSUME NEW L \in SUBSET DOMAIN log, log' = Delete(log, L)
        PROVE  [Promise!SessionNext]_at
    BY <2>5, DeleteMaps
  <2>6. CASE UNCHANGED log
    BY <2>6 DEF at, OpenSessions
  <2>7. ASSUME NEW t \in Tasks, RemoveTask(t)
        PROVE  [Promise!SessionNext]_at
    BY <2>5, <2>7 DEF RemoveTask, LogsOfTask
  <2>8. ASSUME NEW e \in Employees, RemoveUser(e)
        PROVE  [Promise!SessionNext]_at
    BY <2>5, <2>6, <2>8 DEF RemoveUser, LogsOfEmployee
  <2>9. ASSUME NEW e \in Employees, NEW t \in Tasks, CreateTask(t, e)
        PROVE  UNCHANGED log
    BY <2>9 DEF CreateTask
  <2>10. ASSUME NEW t \in Tasks, NEW s \in PersonStatus, UpdateTask(t, s)
         PROVE  UNCHANGED log
    BY <2>10 DEF UpdateTask
  <2> QED
    BY <2>1, <2>2, <2>3, <2>4, <2>6, <2>7, <2>8, <2>9, <2>10 DEF Next, vars, Tick
<1> QED BY <1>1, <1>2, InvariantHolds, PTL DEF Spec, KeepsPromise, Promise!SessionSpec
=============================================================================
