SPECIFICATION FairSpec
CONSTANTS
  LOW = 4
  END = 24
  MaxAge = 2
  MSEC = 3
  SECOND = 8
  Delays = {8}
  Ticks = {}
  MaxElapsed = 30
PROPERTIES
  DelayEnds
