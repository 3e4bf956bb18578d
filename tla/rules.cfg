SPECIFICATION FairSpec
CONSTANTS
  Rules = {r1}
  Requests = {q1}
  Timeout = 1  TermGrace = 1  KillGrace = 1  Margin = 2  MaxDelay = 1
  MaxCrashes = 1
  None = None  Lost = Lost
INVARIANTS SingleFlight CleanedBeforeRelease
PROPERTIES PolledRuns LockFreed
