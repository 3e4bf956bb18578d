SPECIFICATION EditSpec
CONSTANTS
  Interval = 2
  MaxGap = 2
  MaxLag = 2
PROPERTIES DisableHolds
