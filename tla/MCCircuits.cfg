\* One delivery with a budget of four requests, two overlapping workers, two
\* probes that may overlap; two callers of a data source, three cooldowns.
CONSTANTS
  Delivery = {d1}
  Worker = {w1, w2}
  Prober = {p1, p2}
  MaxRequests = 4
  MaxProbes = 3
  Caller = {c1, c2}
  Cooldowns <- MCCooldowns
  ProbeTimeout = 1
SPECIFICATION CircuitsSpec
INVARIANTS CircuitsSound LastRequestDecides
PROPERTIES LatestProbeDecides DeliveriesSettle GrantsAgain
CHECK_DEADLOCK FALSE
