\* Three symbols in groups of two, two workers that may overlap, one command;
\* two symbols, one of them suspended, two workers, two jobs for the day; two
\* refreshes of a security and an import, three starts of two workers; two
\* reports and two administrators, two idempotency keys and two sources to select.
\* (Workers, collectors and administrators share their names, and so the symmetry; so
\* do prices and sources.)
CONSTANTS
  s1 = s1
  s2 = s2
  s3 = s3
  Frozen <- ThreeSymbols
  Concurrency = 2
  MaxAttempts = 1
  MaxRecoveries = 1
  Worker = {w1, w2}
  MaxCommands = 1
  N = 2
  Suspended = {2}
  Good = {x, y}
  Collector = {w1, w2}
  None = None
  MaxRetries = 1
  MaxClaims = 2
  MaxHistory = 1
  Date = {1}
  Bad = bad
  Key = {k1, k2}
  MaxRevision = 2
  MaxStarts = 3
  MaxImports = 1
  Actor = {w1, w2}
  Reason = {given}
  Source = {x, y}
  MaxReports = 2
SPECIFICATION DailyDataSpec
SYMMETRY Symmetry
CHECK_DEADLOCK FALSE
INVARIANTS ProgressSound NothingLost StoredSound
