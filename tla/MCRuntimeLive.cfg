CONSTANTS
  Packet = {a, r, u}
  Queue = {qdev, qlead}
  qdev = qdev
  qlead = qlead
  dev = dev
  lead = lead
  ToDev = {a}
  Home <- RoutedHome
  Serves <- OneQueuePerHost
  Claim = {c1, c2, c3}
  Actor = {o1, dev, lead}
  Operator = {o1}
  Host = {dev, lead}
  TechLead = {lead}
  Malformed = {}
  Unregistered = {}
  Oversize = {}
  Unsupported = {u}
  Untracked = {}
  Faults = {"hang"}
  Commands = {"send", "claim"}
  MaxPublish = 1
  NoPacket = NoPacket
  NoClaim = NoClaim
SPECIFICATION FairSystemSpec
CHECK_DEADLOCK FALSE
PROPERTIES
  HostQueueDrains
