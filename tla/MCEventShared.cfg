\* Two recipients with a mailbox each, two transactions.
CONSTANTS
  Recipient = {r1, r2}
  ChannelOf <- SharedChannel
  Session = {s1, s2}
  MaxGeneration = 1
SPECIFICATION Spec
INVARIANTS DeliveredToAll
CHECK_DEADLOCK FALSE
