SPECIFICATION ClockSpec
CHECK_DEADLOCK FALSE
CONSTANTS
  Script <- MCScript
  Solo <- MCSolo
  Options <- MCOptions
  None = None
  tick_interval = 2
  Horizon = 9
INVARIANTS
  PinnedRunsForever
