CONSTANTS
  Role = {"python-team"}
  TeamRole = "python-team"
  Elsewhere = "elsewhere"
  Operator = {o1, o2}
  None = None
  MaxCanonical = 2
  MaxOwn = 1
SPECIFICATION Spec
CHECK_DEADLOCK FALSE
INVARIANTS
  BranchInOnePlace
PROPERTIES
  WorkSurvives
  CleanupCompletes
