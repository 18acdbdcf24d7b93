SPECIFICATION StepsSpec
CONSTANTS
  e1 = e1
  e2 = e2
  t1 = t1
  t2 = t2
  l1 = l1
  l2 = l2
  l3 = l3
  r1 = r1
  r2 = r2
  Employees = {e1}
  Tasks = {t1}
  LogIds = {l1, l2}
  Requests = {r1, r2}
  Overlap = "any"
  Failures = TRUE
  MaxTime = 0
  MaxBreaks = 1
  TicksPerMinute = 2
  TicksPerSecond = 1
  SecondsPerMinute = 2
  Null = Null
SYMMETRY Symmetry
INVARIANTS RaceIsBounded
PROPERTIES EndedStaysEnded
