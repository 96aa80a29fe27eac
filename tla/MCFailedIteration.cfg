CONSTANTS
  Packet = {a}
  Queue = {qdev, qlead}
  qdev = qdev
  qlead = qlead
  dev = dev
  lead = lead
  ToDev = {a}
  Home <- RoutedHome
  Serves <- OneQueuePerHost
  Claim = {c1}
  Actor = {o1, dev}
  Operator = {o1}
  Host = {dev}
  TechLead = {}
  Malformed = {}
  Unregistered = {}
  Oversize = {}
  Unsupported = {}
  Untracked = {}
  Faults = {}
  Commands = {"send"}
  MaxPublish = 1
  NoPacket = NoPacket
  NoClaim = NoClaim
SPECIFICATION SystemSpec
SYMMETRY Symmetry
CHECK_DEADLOCK FALSE
PROPERTIES
  FailedIterationRequeues
