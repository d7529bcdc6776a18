SPECIFICATION FairSpec
CONSTANTS
  LOW = 4
  END = 24
  MaxAge = 2
  MSEC = 3
  SECOND = 8
  Delays = {1, 3, 6}
  Ticks = {1, 4, 9}
  MaxElapsed = 30
PROPERTIES
  ReadsAreRight
  AtMostOneMsecShort
  DelayEnds
