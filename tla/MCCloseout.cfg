CONSTANTS
  s1 = s1
  Slice = {s1}
  Runner = {r1, r2}
  NoSlice = NoSlice
  Backlog <- OneWaiting
  Requests <- Options
  MaxFailures = 2
SPECIFICATION Spec
CHECK_DEADLOCK FALSE
INVARIANTS
  ClosedLineageIsBacked
  StrayClaimHasCause
  ClosesOnlyMerged
PROPERTY
  AcceptanceConverges
