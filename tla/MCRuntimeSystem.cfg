CONSTANTS
  Packet = {a, r, s}
  Queue = {qdev, qlead}
  qdev = qdev
  qlead = qlead
  dev = dev
  lead = lead
  ToDev = {a}
  Home <- RoutedHome
  Serves <- OneQueuePerHost
  Claim = {c1, c2}
  Actor = {o1, dev, lead}
  Operator = {o1}
  Host = {dev, lead}
  TechLead = {lead}
  Malformed = {}
  Unregistered = {s}
  Oversize = {}
  Unsupported = {}
  Untracked = {r}
  Faults = {}
  Commands = {"requeue", "return"}
  MaxPublish = 2
  NoPacket = NoPacket
  NoClaim = NoClaim
SPECIFICATION SystemSpec
SYMMETRY Symmetry
CHECK_DEADLOCK FALSE
INVARIANTS
  HostWorksOnlyRecordedPackets
  AtMostOneResultPerDelivery
PROPERTIES
  DeliversAsPromised
