CONSTANTS
  ETH_RXBUFNB = 4
  MaxFrame = 8
SPECIFICATION DriverSpec
INVARIANTS DriverTypeOK HandedOverIsWhole HandedIsARun OwnedWhileSending
PROPERTIES Implements Delivered OneFrameAtATime Accepted
CHECK_DEADLOCK FALSE
