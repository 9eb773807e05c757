CONSTANTS
  Slots = {0}
  NoSocket = 255
  MaxQueue = 2
  SynSend = FALSE
  SlowClose = TRUE
  Split = FALSE
  Merge = TRUE
  GlobalInts = {}
  Qos = {0, 1, 2}
  MsgIds = {1, 2}
  TailLooks = {}
  UnknownTimeout = 0
  pingreqPrd = 0
  MaxTurn = 1
  Window = 2
  MaxPackedID = 0
  MaxFaults = 1
SPECIFICATION Spec
INVARIANTS TypeOK AckOwed PubcompMatchesAlone BufferDrained
PROPERTIES TimerSparesLive
