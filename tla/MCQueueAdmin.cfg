CONSTANTS
  Packet = {p1, p2, u}
  MaxTotal = 3
  Queue = {q1}
  q1 = q1
  Home <- OneHome
  Claim = {c1, c2}
  Actor = {o1, o2}
  Operator = {o1, o2}
  Malformed = {u}
  Unregistered = {}
  Oversize = {}
  Faults = {"crash", "db", "unroutable"}
  Commands = {"send", "claim", "ack", "requeue", "purge", "return", "foreign"}
  MaxPublish = 2
  NoPacket = NoPacket
  NoClaim = NoClaim
SPECIFICATION AdminSpec
ACTION_CONSTRAINT FewPublishes
SYMMETRY Symmetry
CHECK_DEADLOCK FALSE
INVARIANTS
  AdminTypeOK
  AcknowledgedRowHasClosedClaim
  DeliveriesAccountedFor
  ReturnClosesOnlyItsAssignment
PROPERTIES
  PacketsLostOnlyByLossSteps
