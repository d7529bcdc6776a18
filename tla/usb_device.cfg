SPECIFICATION FairSpec
CONSTANTS
  Drivers = {"cdc", "hid"}
  SendFrom = {"main", "recv"}
  EP0_SIZE = 2
  Sizes = {4}
  WLengths = {3, 5}
  HostReadsFirst = TRUE
  MaxRequests = 4
  MaxSends = 2
  MaxOuts = 2
  MaxResets = 1
  MaxLostAcks = 1
INVARIANTS
  TypeOK
  HandlerReturns
  ControlDataInOrder
  EveryPacketArrives
  AgreesWithHost
PROPERTIES
  SendReturns
  ControlEnds
CHECK_DEADLOCK FALSE
