SPECIFICATION Spec
CONSTANTS
  KindsAt <- SomeKinds
  Layouts <- SomeLayouts
  MaxPlugs = 2
CONSTRAINT OddPadAlone
INVARIANTS
  LayoutIsDevices
  ReportParsed
  ProtocolFollowed
  NoDeadEnd
PROPERTIES
  OnlyWholeReports
