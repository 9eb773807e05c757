CONSTANTS
  Slots = {0}
  NoSocket = 255
  MaxQueue = 2
  SynSend = FALSE
  SlowClose = TRUE
  Split = TRUE
  Merge = FALSE
  GlobalInts = {}
  Qos = {1}
  MsgIds = {}
  TailLooks = {"DISCONNECT", "PUBLISH", "CONNACK", "PUBREL"}
  UnknownTimeout = 0
  pingreqPrd = 0
  MaxTurn = 1
  Window = 0
  MaxPackedID = 1
  MaxFaults = 1
SPECIFICATION Spec
INVARIANTS SubscribeAfterConnack ConnectedIsAnswered CorrectStatus
