SPECIFICATION FairSpec
CONSTANTS
  Hubs = {0, 1}
  NoHub = NoHub
  App = App
  NoDevice = NoDevice
  Devices <- PadAndMouse
  MaxUnplugs = 0
  Unpluggable = {}
  Answers = {"ACK", "NAK"}
  StallAt <- LastRequests
  Calls <- InOnly
  Overlong = FALSE
  MaxPackets = 2
  SIZES = 4
INVARIANTS
  OwnAnswers
PROPERTIES
  TransactionCompletes
  WaiterGetsLock
  EnumerationCompletes
