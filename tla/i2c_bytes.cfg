SPECIFICATION FairSpec
CONSTANTS
  BITS = 3
  OwnAddress = 2
  Pauses = FALSE
  GoesOn = TRUE
  MaxBytes = 2
  MaxTransactions = 3
PROPERTIES
  BytesArrive
  SdaStable
  CallsReturn
CHECK_DEADLOCK FALSE
