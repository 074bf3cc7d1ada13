\* One delivery, one worker, no probes.
CONSTANTS
  Delivery = {d1}
  Worker = {w1}
  Prober = {}
  MaxRequests = 3
  MaxProbes = 0
SPECIFICATION FairSpec
INVARIANTS ThreeFailuresOpen
CHECK_DEADLOCK FALSE
