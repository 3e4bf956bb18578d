SPECIFICATION Spec
CONSTANTS
  Runners = {r1, r2}
  NoRunner = NoRunner
  TTL = 20  RenewEvery = 5  LoopLimit = 1  MaxReloads = 1  CloseLimit = 1
  RedisLimit = 1  JoinLimit = 5  StopLimit = 7  PublishLimit = 2  MaxBatch = 20
INVARIANTS StopKeepsPending
SYMMETRY Symmetry
