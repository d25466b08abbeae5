SPECIFICATION Spec
CONSTANTS
  StateSlots = 1
  DataSlots = 1
  decimation_total = 1
  CommandValues <- DriveCommands
  MaxCommands = 1
  MaxSetpoints = 0
  MaxLaunches = 2
INVARIANTS NoOldState
CHECK_DEADLOCK FALSE
