\* Both clocks; a draw-done, an audio and two other hooks under two field periods.
SPECIFICATION ClockSpec
CONSTANTS
  Others <- MCOthers
  Period <- MCPeriod
  Fields = {5, 6}
  Rate = 2
  Clamp = 7
  StrideDry = 2
  StrideFull = 2
  Batch = 3
  MaxTime = 20
INVARIANTS ClockInv OnTime
PROPERTIES Cadence
\* Time is bounded.
CHECK_DEADLOCK FALSE
