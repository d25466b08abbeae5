SPECIFICATION Spec
CONSTANTS
  StateSlots = 1
  DataSlots = 1
  decimation_total = 1
  CommandValues <- DriveCommands
  MaxCommands = 3
  MaxSetpoints = 1
  MaxLaunches = 1
INVARIANTS StoppedMeansStill
CHECK_DEADLOCK FALSE
