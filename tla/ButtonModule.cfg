\* Two buttons; the thresholds in the order of the defaults, as small as they go.
CONSTANTS
  ButtonNumber = 2
  ClickTimeThreshold = 3
  ReleaseTimeThreshold = 2
  LongPushTimeThreshold = 4
  ReleaseAllTimeThreshold = 3
  CounterMax = 4
SPECIFICATION FairSpec
INVARIANT TypeOK
PROPERTIES GesturesInTurn EveryReportEarned LongToldLong SilentIsSettled
