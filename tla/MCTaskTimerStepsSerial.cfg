SPECIFICATION StepsSpec
CONSTANTS
  e1 = e1
  e2 = e2
  t1 = t1
  t2 = t2
  l1 = l1
  l2 = l2
  l3 = l3
  r1 = r1
  r2 = r2
  Employees = {e1, e2}
  Tasks = {t1}
  LogIds = {l1, l2}
  Requests = {r1}
  Overlap = "none"
  Failures = FALSE
  MaxTime = 0
  MaxBreaks = 2
  TicksPerMinute = 2
  TicksPerSecond = 1
  SecondsPerMinute = 2
  Null = Null
SYMMETRY Symmetry
PROPERTIES ImplementsTaskTimer
