CONSTANTS
  Packet = {a, r, u, v}
  Queue = {qdev, qlead}
  qdev = qdev
  qlead = qlead
  dev = dev
  lead = lead
  ToDev = {a}
  Home <- RoutedHome
  Serves <- OneQueuePerHost
  Claim = {c1, c2, c3}
  Actor = {o1, dev, lead}
  Operator = {o1}
  Host = {dev, lead}
  TechLead = {lead}
  Malformed = {u}
  Unregistered = {}
  Oversize = {v}
  Unsupported = {u}
  Untracked = {}
  Faults = {"crash", "db"}
  Commands = {"send", "foreign", "ack"}
  MaxPublish = 1
  NoPacket = NoPacket
  NoClaim = NoClaim
SPECIFICATION SystemSpec
SYMMETRY Symmetry
CHECK_DEADLOCK FALSE
INVARIANTS
  ClosingHostHasRecordedResult
PROPERTIES
  SendClosesSource
