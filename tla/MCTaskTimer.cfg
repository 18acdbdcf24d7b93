SPECIFICATION Spec
CONSTANTS
  e1 = e1
  e2 = e2
  t1 = t1
  t2 = t2
  l1 = l1
  l2 = l2
  l3 = l3
  Employees = {e1, e2}
  Tasks = {t1}
  LogIds = {l1, l2}
  MaxTime = 6
  MaxBreaks = 2
  TicksPerMinute = 4
  TicksPerSecond = 2
  SecondsPerMinute = 2
  Null = Null
SYMMETRY Symmetry
INVARIANTS SessionsDisjoint BreakDiscipline CreditAccurate ShownAccurate
PROPERTIES ClosedFrozen KeepsPromise
