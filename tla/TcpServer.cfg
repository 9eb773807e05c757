CONSTANTS
  Slots = {0, 1}
  NoSocket = 255
  MaxQueue = 2
  SynSend = FALSE
  SlowClose = TRUE
  Split = FALSE
  Merge = FALSE
  GlobalInts = {}
  socketForListen = 0
  MaxConnections = 3
  MaxRequests = 6
  Patient = {2, 3}
SPECIFICATION Spec
INVARIANTS TypeOK AnswersAsker
PROPERTIES Served
