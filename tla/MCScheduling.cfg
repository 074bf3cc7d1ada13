\* One schedule and one manual key, two snapshots under way, two edits; four
\* trading days; two symbols and two collectors; one security, two targets.
CONSTANTS
  Schedule = {s1}
  Times = {1}
  LastMinute = 2
  Manual = {m1}
  Run = {r1, r2}
  MaxChanges = 2
  MaxFaults = 1
  LastDay = 3
  TradingDay = {0, 1, 2, 3}
  MaxFailures = 1
  MaxOutages = 2
  MaxOrders = 2
  Symbol = {q1, q2}
  Collector = {c1, c2}
  MaxMishaps = 1
  Security = {k1}
  Target = {t1, t2}
  Policy = {p1}
  MaxRequests = 5
  MaxRows = 2
SPECIFICATION SchedulingSpec
SYMMETRY Symmetry
INVARIANTS IntradaySound DailySound EndHolds SubscriptionsSound
CHECK_DEADLOCK FALSE
