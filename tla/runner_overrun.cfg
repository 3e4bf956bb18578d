SPECIFICATION Spec
CONSTANTS
  Runners = {r1, r2}
  NoRunner = NoRunner
  TTL = 20  RenewEvery = 5  LoopLimit = 1  MaxReloads = 10  CloseLimit = 0
  RedisLimit = 2  JoinLimit = 5  StopLimit = 7  PublishLimit = 2  MaxBatch = 1
INVARIANTS SingleRunner
SYMMETRY Symmetry
