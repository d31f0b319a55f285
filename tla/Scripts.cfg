\* Numbers: for every case the generators tell apart, one that falls into it.
\* A table of four for the files of up to four lines: ":end" before its end, at
\* its end, behind it and not at all.
CONSTANTS
  WAKE_UP_DELAY = 3
  Numbers = {1, 2, 3, 4, 8, 10, 20}
  MaxCommandReadTimes = 4
  MaxParam = 4
SPECIFICATION ScriptSpec
INVARIANTS TypeOK SureIsThere ReaderTypeOK
PROPERTIES EndsWhenTold BenchRounds ImplementsProgram LoopRunsItsTimes ScriptEnds
