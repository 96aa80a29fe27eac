CONSTANTS
  Flow = {host}
  Mode = {"claim_next", "preview"}
  Decision = {d1}
  NamedRole = "Dev"
  TargetRole <- OneRole
  Result = {r1, r2}
  Assignment = {a1, a2, a3}
  MaxAnswers = 2
  MaxDeliveries = 2
  MayCrash = TRUE
  NoMessage = NoMessage
SPECIFICATION WorkflowSpec
SYMMETRY Symmetry
CHECK_DEADLOCK FALSE
INVARIANTS
  WorkflowTypeOK
  HistoryNeverInvents
  HistoryTracksState
PROPERTIES
  IllegalTransitionsFailClosed
  ActiveAssignmentsResultAccepted
