SPECIFICATION Spec
CONSTANTS
  None = None
  Requests = {r1, r2}
  Resources = {r1, r2}
  Target <- OwnDevice
  NeedsAck = {r1, r2}
  Malformed = {}
  Codes = {c1}
  Workers = {w1}
  SingleOwner = TRUE
  FreshCodes = FALSE
  RecordsExpire = FALSE
  MaxFaults = 1
INVARIANTS
  AtMostOncePublish
  DefiniteFailureUnsent
  OkIsGenuine
  NoSilentDrop
  AckFromTarget
PROPERTIES
  SentInStreamOrder
  ImplementsRequest
CHECK_DEADLOCK FALSE
SYMMETRY Symmetry
