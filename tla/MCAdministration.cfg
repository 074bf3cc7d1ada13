\* Two transactions at a time on two sessions and two logins, one login at a
\* time; two workers that publish, one fault; three results in rounds of two,
\* two runs of the job; two changes of a calendar with three days and three
\* versions; two requests on two lists and two securities; two refreshes of the
\* master data, one lost, and one who freezes it.
CONSTANTS
  Worker = {w1, w2}
  Session = {s1, s2}
  Attempt = {a1, a2}
  Ip = {i1}
  PerIp = 1
  Name = {n1}
  Owner = n1
  PerUser = 1
  Overall = 1
  Key = {k1}
  MaxPasswords = 2
  Content = {c1, c2}
  Publisher = {p1, p2}
  MaxSaves = 1
  MaxValidations = 2
  MaxRequests = 2
  MaxFaults = 1
  Result = {1, 2, 3}
  Concurrency = 2
  Runs = 2
  MaxCommands = 2
  MaxLeaseLosses = 1
  CalendarKey = {a1, a2, k1}
  LastDate = 2
  Needed = 2
  MaxVersions = 3
  First = x
  Second = y
  MaxVersion = 3
  MaxSends = 2
  Holder = {h1}
  MaxObserved = 2
  MaxLosses = 1
SPECIFICATION AdministrationSpec
SYMMETRY Symmetry
INVARIANTS PublicationSound LimitHolds CalendarSound ListsExplained SecuritiesSound
PROPERTIES ResultsKept SessionsSound AdviceTrue
CHECK_DEADLOCK FALSE
