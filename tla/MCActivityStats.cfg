SPECIFICATION Spec
CONSTANTS
  t1 = t1
  t2 = t2
  Tasks = {t1, t2}
  Hours = 3
  HourTicks = 4
  MinIdleThreshold = 2
  ConfiguredThreshold = 1
  IndiaAhead = 6
  MaxEvents = 3
  TicksPerMinute = 2
SYMMETRY Symmetry
INVARIANTS DashboardIdle SummaryWithinDashboard ShownComplete
