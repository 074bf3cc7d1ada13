\* Two overlapping rounds, two revisions of the target, three prices; six bars
\* and two company actions; two recipients on two channels, two transactions.
CONSTANTS
  r1 = r1
  r2 = r2
  Round = {r1, r2}
  Price <- MCPrice
  Values <- MCValues
  Ratio = 3
  Minimum = 1
  MaxTarget = 2
  MaxClock = 2
  MaxJobs = 2
  MaxPosition = 1
  MaxSubscription = 2
  Unit = 7
  Capitals = {3, 10, 1003}
  OpenPrice = {66, 98, 126, 132}
  ClosePrice = {62, 99, 102, 125}
  TargetValues <- MCTargetValues
  Factor <- MCFactor
  MaxBars = 6
  MaxAdjustments = 2
  m1 = m1
  m2 = m2
  Recipient = {m1, m2}
  ChannelOf <- OwnChannels
  s1 = s1
  s2 = s2
  Session = {s1, s2}
  MaxGeneration = 2
SPECIFICATION AllSpec
SYMMETRY Symmetry
INVARIANTS ZoneJustified EngineSound EventsSound
PROPERTIES PriceNeverRegresses OneStory
CHECK_DEADLOCK FALSE
