SPECIFICATION Spec
CONSTANTS
  Passkey = TRUE
  SendFrom = {"loop", "sent"}
  PairsAgain = FALSE
  MaxConnections = 2
  MaxPairings = 2
  MaxRequests = 2
  MaxReports = 1
  MaxFaults = 0
INVARIANTS
  StagedPacketIntact
