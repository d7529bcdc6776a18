SPECIFICATION Spec
CONSTANTS
  Hubs = {0, 1}
  NoHub = NoHub
  App = App
  NoDevice = NoDevice
  Devices <- OneKeyboard
  MaxUnplugs = 0
  Unpluggable = {}
  Answers = {"ACK", "STALL"}
  StallAt <- OptionalRequests
  Calls <- NoCalls
  Overlong = FALSE
  MaxPackets = 1
  SIZES = 3
INVARIANTS
  OwnTransfer
