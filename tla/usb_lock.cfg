SPECIFICATION Spec
CONSTANTS
  Hubs = {0, 1}
  NoHub = NoHub
  App = App
  NoDevice = NoDevice
  Devices <- HubAndPad
  MaxUnplugs = 1
  Unpluggable = {1}
  Answers = {"ACK", "STALL", "ERROR"}
  StallAt <- RequestsWithAddress
  Calls <- AllOnPort1
  Overlong = TRUE
  MaxPackets = 1
  SIZES = 3
CONSTRAINT OneIfHub
INVARIANTS
  TypeOK
  LockMatchesPorts
  OwnTransfer
  DeviceAgreement
PROPERTIES
  TemplatesUnderLock
