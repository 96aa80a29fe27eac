CONSTANTS
  Operator = {o1, o2}
  Viewer = {b1}
  Histories <- Slices
  MaxFacts = 6
  MaxFailures = 1
SYMMETRY Symmetry
SPECIFICATION Spec
CHECK_DEADLOCK FALSE
INVARIANTS
  ResetFollowsRepeatedFailure
PROPERTIES
  ResultsLostOnlyByLossSteps
  UnattendedHidesNoReport
