SPECIFICATION MouseSpec
CONSTANTS
  Steps <- BothWays
  Half = 4
  MaxMotion = 3
  MaxPresses = 3
  MaxToggles = 2
INVARIANT UncontendedMotionIsExact
INVARIANT ClicksComeFromPresses
