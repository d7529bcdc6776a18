SPECIFICATION FairSpec
CONSTANTS
  Passkey = TRUE
  SendFrom = {"quiet", "sent"}
  PairsAgain = FALSE
  MaxConnections = 2
  MaxPairings = 2
  MaxRequests = 2
  MaxReports = 1
  MaxFaults = 1
INVARIANTS
  StagedPacketIntact
  BondAgreement
  EncryptedLink
PROPERTIES
  FailsForAReason
  PairingEnds
  RequestsAnswered
  Advertises
  EncryptionReported
