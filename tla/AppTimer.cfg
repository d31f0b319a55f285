\* Up to three timers; 5 has no common multiple with 4 or 6 below the limit.
CONSTANTS
  Dividers = {4, 5, 6}
  MaxTimers = 3
  Limit = 13
  MaxLocks = 2
SPECIFICATION FairSpec
INVARIANTS TypeOK ThresholdIsLcm NeverLate
PROPERTIES NeverEarly StartedRuns
