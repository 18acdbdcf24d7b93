SPECIFICATION Spec
CONSTANTS
  e1 = e1
  e2 = e2
  p1 = p1
  p2 = p2
  p3 = p3
  o1 = o1
  o2 = o2
  Employees = {e1, e2}
  Projections = {p1, p2}
  Operations = {o1, o2}
  MaxLogs = 3
  MaxBreaks = 1
  AdminStatuses = {"IN_PROGRESS", "COMPLETED", "INCOMPLETE"}
  NoOperation = NoOperation
SYMMETRY Symmetry
INVARIANTS OneOperationTimer TimedOperationInProgress UntouchedUntilTaken
PROPERTIES OnlySwitchStacksLogs KeepsDesk
