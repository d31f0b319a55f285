\* One button; a counter with room for a push that goes on for twice as long as
\* it takes to be a long one.
CONSTANTS
  ButtonNumber = 1
  ClickTimeThreshold = 3
  ReleaseTimeThreshold = 2
  LongPushTimeThreshold = 4
  ReleaseAllTimeThreshold = 3
  CounterMax = 8
SPECIFICATION LengthSpec
PROPERTY LengthOfPush
