SPECIFICATION Spec
CONSTANTS
  WORDS = 4
  Byte <- Bytes
  Erased = 255
  MAGIC <- Magic
  Images <- FirstImages
  Requests <- SomeRequests
  Faults = {"erase", "program"}
INVARIANTS
  TypeOK
  NoOverprogram
  ReadsWhatWasWritten
PROPERTIES
  Refines
  NeverMixed
