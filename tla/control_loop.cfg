SPECIFICATION FairSpec
CONSTANTS
  Interval = 2
  MaxGap = 2
  MaxLag = 2
INVARIANTS TimeIntegratedOnce
PROPERTIES DisableHolds Driven
