\* A single task or a batch of two items, two at a time, two attempts, two commands,
\* one attempt cut off or failing without a record, two versions of the data; one
\* candidate in two runs, one change of its prices, two controls, one lease lost or
\* one transaction failing; two callers that fetch two corporate actions, over two
\* days or one, at two moments.
SPECIFICATION AllSpec
CONSTANTS
  ItemCount = 2
  Concurrency = 2
  Versions = {v1, v2}
  MaxAttempts = 2
  MaxCommands = 2
  MaxInterrupts = 1
  Items = {1}
  Limit = 2
  Runs = 2
  MaxChanges = 1
  MaxControls = 2
  MaxLosses = 1
  Caller = {p1, p2}
  Event = {e1, e2}
  Content = {1, 2}
  Nothing = nothing
  EffectiveOn <- DayOfContent
  Ranges = {{1, 2}, {1}}
  MaxFetches = 2
  MaxTime = 1
SYMMETRY VersionSymmetry
INVARIANTS BacktestsSound StopsSound
PROPERTIES PricesNeverGoBack
CHECK_DEADLOCK FALSE
