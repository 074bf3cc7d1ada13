\* One job with one attempt and one recovery, two runners, one administrator,
\* one crash.
SPECIFICATION RunnerSpec
CONSTANTS
  j1 = j1
  Attempts = 1
  w1 = w1
  w2 = w2
  a1 = a1
  Job <- OneJob
  LeaseDuration = 1
  RetryDelay = 1
  Checkpoint <- MCCheckpoint
  NoCheckpoint = 0
  Data <- MCData
  NoData = "none"
  RetryCheckpoint <- MCRetryCheckpoint
  Priority <- MCPriority
  MaxAttempts <- MCMaxAttempts
  MaxRecoveries <- MCMaxRecoveries
  RecoveryBatch = 1
  MaxVersion = 0
  Runner <- TwoRunners
  Handles <- MCHandles
  Steps = 1
  Admin = {a1}
  MaxCrashes = 1
  MaxCommands = 1
INVARIANTS RunnerSound
PROPERTIES CancelTakesEffect PauseTakesEffect JobsSettle
