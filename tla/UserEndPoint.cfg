\* Two slots in each queue, so that the shared buffer number matters, and two
\* of the three slow entries.
CONSTANTS
  N = 2
  ByteRange = 256
  Slow <- TwoSlow
  MaxHops = 5
  MaxRuns = 3
  Nothing = Nothing
SPECIFICATION FairSpec
INVARIANTS SlotsAccounted TickGoesRound AllFastInOneTick
PROPERTY SlowServedWhenQuiet
