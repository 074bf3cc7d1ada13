\* Two deliveries, one worker, no probes.
CONSTANTS
  Delivery = {d1, d2}
  Worker = {w1}
  Prober = {}
  MaxRequests = 3
  MaxProbes = 0
SPECIFICATION FairSpec
INVARIANTS NeverStuck
CHECK_DEADLOCK FALSE
