SPECIFICATION Spec
CONSTANTS
  StateSlots = 1
  DataSlots = 1
  decimation_total = 1
  CommandValues <- ResetCommands
  MaxCommands = 3
  MaxSetpoints = 0
  MaxLaunches = 1
INVARIANTS OneHeader
CHECK_DEADLOCK FALSE
