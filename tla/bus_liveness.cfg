SPECIFICATION FairSpec
CONSTANTS
  None = None
  Requests = {r1, r2}
  Resources = {r1, r2}
  Target <- OwnDevice
  NeedsAck = {r1}
  Malformed = {r2}
  Codes = {c1}
  Workers = {w1}
  SingleOwner = TRUE
  FreshCodes = TRUE
  RecordsExpire = TRUE
  MaxFaults = 1
INVARIANTS SafeWithoutRecords
PROPERTIES EntrySettles
CHECK_DEADLOCK FALSE
