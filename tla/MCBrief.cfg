CONSTANTS
  Operator = {o1, o2}
  Revisions = {1, 2, 3}
  Approved = {1, 2}
  Signers <- SomeSigners
  SignoffOrder <- TwoRoles
  Optional = {"TechLead"}
  TargetCount = 2
  MaxCommands = 6
SPECIFICATION Spec
SYMMETRY Symmetry
CHECK_DEADLOCK FALSE
INVARIANTS
  AuthorityTypeOK
  AuthorityChainIsBacked
  PacketReadyHasPacket
PROPERTIES
  MovesFollowLifecycle
  GovernedContentFrozen
