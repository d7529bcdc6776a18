SPECIFICATION FairSpec
CONSTANTS
  Hubs = {0, 1}
  NoHub = NoHub
  App = App
  NoDevice = NoDevice
  Devices <- OnePad
  MaxUnplugs = 1
  Unpluggable = {0}
  Answers = {"ACK"}
  StallAt <- LastRequests
  Calls <- NoCalls
  Overlong = FALSE
  MaxPackets = 1
  SIZES = 3
PROPERTIES
  TransactionCompletes
