CONSTANTS
  Messages <- MCMessages
  SendBufs = {130, 131}
  BufLen = 130
  Forms = {1, 4}
  Parts = {2, 64}
  MaxCount = 2
  MaxPackets = 2
  MaxFaults = 1
SPECIFICATION FairSpec
INVARIANTS TypeOK FitsBuffer OnlyFaultsFail Understood ReadersAgree
PROPERTIES Implements Delivered
CHECK_DEADLOCK FALSE
