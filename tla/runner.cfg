SPECIFICATION RunnerSpec
CONSTANTS
  Runners = {r1, r2}
  NoRunner = NoRunner
  TTL = 12  RenewEvery = 2  LoopLimit = 1  MaxReloads = 2  CloseLimit = 1
  RedisLimit = 1  JoinLimit = 1  StopLimit = 2  PublishLimit = 1  MaxBatch = 1
  MaxClients = 3
  MaxCallbacks = 4
INVARIANTS SingleRunner FieldsAgree OneLoop PublishOnCurrentClient
PROPERTIES Takeover ReloadReturns
CHECK_DEADLOCK FALSE
