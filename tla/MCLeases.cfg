\* Two jobs, up to five versions of their rows; two callers, one
\* request at a time, four a day.
SPECIFICATION LeasesSpec
CONSTANTS
  j1 = j1
  j2 = j2
  Job <- TwoJobs
  LeaseDuration = 1
  RetryDelay = 1
  Checkpoint <- MCCheckpoint
  NoCheckpoint = "new"
  Data <- MCData
  NoData = "plain"
  RetryCheckpoint <- MCRetryCheckpoint
  Priority <- MCPriority
  MaxAttempts <- MCMaxAttempts
  MaxRecoveries <- MCMaxRecoveries
  RecoveryBatch = 2
  MaxVersion = 5
  Caller = {p1, p2}
  Token = {t1, t2}
  Timeout <- MCTimeout
  Grace = 1
  DailyLimit = 4
  RealtimeReserved = 1
  DailyReserved = 2
  MaxConcurrency = 1
  CapabilityLimit <- MCLimit
  Concurrency <- MCConcurrency
  MinInterval = 1
  MaxThreads = 1
INVARIANTS AttemptLimitValid LeaseWhileRunning BudgetSound
PROPERTIES ImplementsLifecycle WritesSound
CHECK_DEADLOCK FALSE
