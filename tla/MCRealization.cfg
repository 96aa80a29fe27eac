CONSTANTS
  c1 = c1
  c2 = c2
  c3 = c3
  a1 = a1
  a2 = a2
  Call = {c1, c2}
  Activity = {a1, a2}
  NoActivity = NoActivity
  Sequence <- SpecSequence
  Needs <- SpecNeeds
  Positions <- SomePositions
  MaxRunning = 2
  MaxChanges = 1
SPECIFICATION Spec
SYMMETRY Symmetry
CHECK_DEADLOCK FALSE
INVARIANTS
  RealizationTypeOK
  PlanRowsWhole
  CompletedPlanIsBacked
  NextActivityIsClear
  ComponentContextSurvives
