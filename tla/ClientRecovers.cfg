CONSTANTS
  Slots = {0}
  NoSocket = 255
  MaxQueue = 2
  SynSend = FALSE
  SlowClose = FALSE
  Split = FALSE
  Merge = FALSE
  GlobalInts = {"LINK_UP", "LINK_DOWN", "UNREACH", "IP_CONFLI"}
  Qos = {0, 1}
  MsgIds = {}
  TailLooks = {}
  UnknownTimeout = 2
  pingreqPrd = 1
  MaxTurn = 1
  Window = 2
  MaxPackedID = 0
  MaxFaults = 2
SPECIFICATION FairSpec
PROPERTIES Recovers
