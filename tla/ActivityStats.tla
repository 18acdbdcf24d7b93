---------------------------- MODULE ActivityStats ----------------------------
(***************************************************************************)
(* What is made of a user's events during a day (activity.service.ts): at  *)
(* the top of every hour a job sums up the hour before in one row per      *)
(* task; the dashboard works out the day from the events themselves; the   *)
(* administrator's view takes the rows there are and fills in the other    *)
(* hours from the dashboard.  Hours and days are those of the server's     *)
(* clock; but what day it is that view decides by the clock of India.      *)
(*                                                                         *)
(* Events are told apart by time and task; keys, clicks and moves are      *)
(* counted alike.  An event is stored some time after it happened.         *)
(***************************************************************************)
EXTENDS TaskTimerUnits, FiniteSets, FiniteSetsExt

CONSTANTS Tasks,               \* what taskId says, "no task" included
          Hours,               \* bound: hours of the day
          HourTicks,           \* ticks of the clock in an hour
          MinIdleThreshold,    \* in ticks
          ConfiguredThreshold, \* MonitoringConfig.idleThresholdMinutes, in ticks
          IndiaAhead,          \* ticks from midnight in India to the server's
          MaxEvents            \* bound: events of the day

ASSUME ClockAssumption == Hours \in Nat \ {0} /\ HourTicks \in Nat \ {0}
ASSUME ThresholdAssumption ==
  MinIdleThreshold \in Nat \ {0} /\ ConfiguredThreshold \in Nat /\ MaxEvents \in Nat

ASSUME IndiaAssumption == IndiaAhead \in 0 .. Hours * HourTicks - 1

VARIABLES now,
          held,        \* events that happened and are not stored yet
          stored,      \* ActivityEvent
          rows,        \* ActivitySummary
          job,         \* the aggregation of an hour: what it read, tasks left
          aggregated,  \* hours whose aggregation was started
          late,        \* history: hours with an event stored after that
          broken       \* history: hours whose aggregation failed half-way

vars == <<now, held, stored, rows, job, aggregated, late, broken>>

DayEnd == Hours * HourTicks
Hour == 0 .. Hours - 1
Event == [at : 0 .. DayEnd - 1, task : Tasks]

HourOf(t) == t \div HourTicks
StartOf(h) == h * HourTicks
EndOf(h) == (h + 1) * HourTicks

NoJob == [events |-> {}, left |-> {}]

TypeOK ==
  /\ now \in 0 .. DayEnd
  /\ held \subseteq Event /\ stored \subseteq Event
  /\ rows \in [DOMAIN rows -> [count : Nat, idle : Nat]]
  /\ DOMAIN rows \subseteq Hour \X Tasks
  /\ job \in [Hour -> [events : SUBSET Event, left : SUBSET Tasks]]
  /\ aggregated \subseteq Hour /\ late \subseteq Hour /\ broken \subseteq Hour

Init ==
  /\ now = 0
  /\ held = {} /\ stored = {}
  /\ rows = << >>
  /\ job = [h \in Hour |-> NoJob]
  /\ aggregated = {} /\ late = {} /\ broken = {}

-----------------------------------------------------------------------------
(* Idle time.  After an event the user counts as active for the threshold. *)

EffectiveIdleThreshold ==
  IF ConfiguredThreshold > MinIdleThreshold THEN ConfiguredThreshold ELSE MinIdleThreshold

Excess(gap) ==
  IF gap >= EffectiveIdleThreshold THEN gap - EffectiveIdleThreshold ELSE 0

Times(es) == {e.at : e \in es}

\* The next time after t, or else the end.
NextAfter(t, times, end) ==
  LET after == {s \in times : s > t} IN IF after = {} THEN end ELSE Min(after)

\* Mutant: the inactivity up to the end of the hour counts from the last event.
IdleOfGroup_WholeTail(es, end) ==
  LET times == Times(es)
      last == Max(times)
  IN  IF Cardinality(es) > 1
        THEN RoundMinutes((end - last) +
               SumFunction([t \in times \ {last} |-> Excess(NextAfter(t, times, end) - t)]))
        ELSE 0

\* Of a group with a single event no idle time is recorded.
IdleOfGroup(es, end) ==
  LET times == Times(es)
  IN  IF Cardinality(es) > 1
        THEN RoundMinutes(SumFunction([t \in times |-> Excess(NextAfter(t, times, end) - t)]))
        ELSE 0

\* Mutant: the whole interval counts for the hour it begins in.
IdleInHour_NotSplit(start, end, h) ==
  LET idleStart == start + EffectiveIdleThreshold
  IN  IF idleStart < end /\ HourOf(idleStart) = h THEN end - idleStart ELSE 0

\* What addIdleInterval adds to hour h: the part of the interval in that hour.
IdleInHour(start, end, h) ==
  LET from == Max({start + EffectiveIdleThreshold, StartOf(h)})
      to   == Min({end, EndOf(h)})
  IN  IF from < to THEN to - from ELSE 0

\* The dashboard's idle minutes of an hour, from events es, up to now.
LiveIdle(es, h) ==
  LET times == Times(es)
  IN  RoundMinutes(SumFunction([t \in times |-> IdleInHour(t, NextAfter(t, times, now), h)]))

LiveCount(es, h) == Cardinality({e \in es : HourOf(e.at) = h})

\* What a dashboard may see of the day: the stored events and those in the
\* buffer, but no batch that left the buffer and is still being written.
TodayEvents == {stored \cup buffered : buffered \in SUBSET held}

\* From the first event of the day until now.
TrackedMinutes(es) == IF es = {} THEN 0 ELSE RoundMinutes(now - Min(Times(es)))

\* The total over the day: the minutes of the hours, rounded one by one.
TotalIdle(summaries) == SumFunction(summaries)

-----------------------------------------------------------------------------
(* Events. *)

Tick ==
  /\ now < DayEnd /\ now' = now + 1
  /\ UNCHANGED <<held, stored, rows, job, aggregated, late, broken>>

Happens(task) ==
  LET e == [at |-> now, task |-> task]
  IN  /\ now < DayEnd /\ e \notin held \cup stored
      /\ Cardinality(held \cup stored) < MaxEvents
      /\ held' = held \cup {e}
      /\ UNCHANGED <<now, stored, rows, job, aggregated, late, broken>>

\* A flush: seconds later, or long after when the agent was offline.
Store ==
  \E es \in SUBSET held \ {{}} :
    /\ stored' = stored \cup es /\ held' = held \ es
    /\ late' = late \cup (aggregated \cap {HourOf(e.at) : e \in es})
    /\ UNCHANGED <<now, rows, job, aggregated, broken>>

-----------------------------------------------------------------------------
(* aggregateHourlyStats *)

\* Mutant: the first moment of the next hour counts too.
EventsOf_Inclusive(h) == {e \in stored : StartOf(h) <= e.at /\ e.at <= EndOf(h)}

EventsOf(h) == {e \in stored : StartOf(h) <= e.at /\ e.at < EndOf(h)}

\* The cron job reads the events of the hour that has just ended, once.
AggregateHour(h) ==
  /\ now = EndOf(h) /\ h \notin aggregated
  /\ aggregated' = aggregated \cup {h}
  /\ job' = [job EXCEPT ![h] = [events |-> EventsOf(h),
                                left   |-> {e.task : e \in EventsOf(h)}]]
  /\ UNCHANGED <<now, held, stored, rows, late, broken>>

\* One group after the other: find the row and update it, or create it.
WriteSummary(h, task) ==
  LET es == {e \in job[h].events : e.task = task}
      left == job[h].left \ {task}
      row == [count |-> Cardinality(es), idle |-> IdleOfGroup(es, EndOf(h))]
  IN  /\ task \in job[h].left
      /\ rows' = [k \in DOMAIN rows \cup {<<h, task>>} |->
                    IF k = <<h, task>> THEN row ELSE rows[k]]
      /\ job' = [job EXCEPT ![h] = IF left = {} THEN NoJob ELSE [@ EXCEPT !.left = left]]
      /\ UNCHANGED <<now, held, stored, aggregated, late, broken>>

\* A call fails: it is logged, and the groups left are not written.
AggregationFails(h) ==
  /\ job[h].left # {}
  /\ job' = [job EXCEPT ![h] = NoJob]
  /\ broken' = broken \cup {h}
  /\ UNCHANGED <<now, held, stored, rows, aggregated, late>>

-----------------------------------------------------------------------------
(* getAdminEmployeeSummary: the rows of a range of days and, when today is *)
(* in it, the hours of the dashboard that have no row of today.  Days are  *)
(* counted from the server's current one.  (Rows of the day before decide  *)
(* nothing: the dashboard has no events yet of an hour of yesterday that   *)
(* is today in India.)                                                     *)

DateInIndia(t) == IF t + IndiaAhead >= DayEnd THEN 1 ELSE 0

Today == DateInIndia(now)

\* A row is dated with the start of its hour.
DateOf(h) == DateInIndia(StartOf(h))

Queries == {<<0, 0>>, <<0, 1>>, <<1, 1>>}

Covers(query, day) == query[1] <= day /\ day <= query[2]

RowsOf(h) == {k \in DOMAIN rows : k[1] = h}

StoredCount(query, h) ==
  IF Covers(query, 0) THEN SumFunction([k \in RowsOf(h) |-> rows[k].count]) ELSE 0

LiveShown(query, h) ==
  /\ Covers(query, Today)
  /\ ~ (Covers(query, 0) /\ RowsOf(h) # {} /\ DateOf(h) = Today)

ShownCount(query, es, h) ==
  StoredCount(query, h) + (IF LiveShown(query, h) THEN LiveCount(es, h) ELSE 0)

\* Midnight: the dashboard looks at the next day.
NewDay ==
  /\ now = DayEnd /\ held = {} /\ \A h \in Hour : job[h].left = {}
  /\ now' = 0 /\ stored' = {} /\ rows' = << >>
  /\ aggregated' = {} /\ late' = {} /\ broken' = {}
  /\ UNCHANGED <<held, job>>

Next ==
  \/ Tick \/ Store \/ NewDay
  \/ \E task \in Tasks : Happens(task)
  \/ \E h \in Hour : \/ AggregateHour(h) \/ AggregationFails(h)
                     \/ \E task \in Tasks : WriteSummary(h, task)

Spec == Init /\ [][Next]_vars

-----------------------------------------------------------------------------
(* Properties *)

\* A tick of the clock is idle when it is past, there was an event before it, and
\* the last such event is at least the threshold ago.
IdleTick(es, t) ==
  LET before == {s \in Times(es) : s <= t}
  IN  before # {} /\ t - Max(before) >= EffectiveIdleThreshold

\* The dashboard's intervals, cut at the hours, are exactly the idle time of each
\* hour up to now, to the nearest minute, whatever events it happens to see; and
\* the idle time shown for the day exceeds the time tracked by the rounding only.
DashboardIdle ==
  TypeOK /\ \A es \in TodayEvents :
    LET idle == [h \in Hour |-> LiveIdle(es, h)]
    IN  /\ \A h \in Hour :
             idle[h] = RoundMinutes(Cardinality({t \in StartOf(h) .. EndOf(h) - 1 :
                                                   t < now /\ IdleTick(es, t)}))
        /\ 2 * (TotalIdle(idle) - TrackedMinutes(es)) <= Hours + 1

\* The hourly row never records more idle time than the dashboard shows for the
\* hour, nor more than an hour: the two algorithms differ only in the time before
\* an hour's first event and in hours with a single event.  (When several tasks
\* share the hour each row measures its own gaps; when events came in late the
\* row is about others.)
SummaryWithinDashboard ==
  \A k \in DOMAIN rows :
    /\ rows[k].idle <= RoundMinutes(HourTicks)
    /\ k[1] \notin late /\ {e.task : e \in EventsOf(k[1])} = {k[2]} =>
         rows[k].idle <= LiveIdle(stored, k[1])

\* The administrator's view of a range with the server's day in it shows every
\* stored event of an hour, once, unless one was stored after the hour was summed
\* up, or some of the hour's rows are not written, yet or at all: when the range
\* holds what is today in India, of the hours that began on that day there; when it
\* does not, of the hours summed up.
ShownComplete ==
  \A query \in Queries, h \in Hour \ (late \cup broken) :
    /\ Covers(query, 0) /\ job[h].left = {}
    /\ IF Covers(query, Today) THEN DateOf(h) = Today ELSE h \in aggregated
    => ShownCount(query, stored, h) = LiveCount(stored, h)
=============================================================================
