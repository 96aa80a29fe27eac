CONSTANTS
  Pid = {p1, p2}
  Caller = {c1, c2}
  Modes = {"command", "server"}
  NoPid = NoPid
SPECIFICATION Spec
CHECK_DEADLOCK FALSE
INVARIANTS
  ControlTypeOK
  LoneStartsKeepOneSupervisor
  StopLeavesNothingRunning
PROPERTY
  CallsReturn
