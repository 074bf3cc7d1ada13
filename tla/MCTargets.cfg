\* One strategy configuration, one administrator, two calculations of up to two
\* attempts each, three revisions of the target.
CONSTANTS
  Config = {c1}
  Admin = {a1}
  Attempts = 2
  MaxCalculations = 2
  MaxRevisions = 3
  MaxData = 2
  MaxSubscription = 2
SPECIFICATION FairSpec
PROPERTIES ReplacesWhatItSaw ImplementsPromise CalculationsEnd
CHECK_DEADLOCK FALSE
