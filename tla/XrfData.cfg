SPECIFICATION Spec
CONSTANTS
  StateSlots = 1
  DataSlots = 2
  decimation_total = 2
  CommandValues <- DriveCommands
  MaxCommands = 3
  MaxSetpoints = 2
  MaxLaunches = 2
INVARIANTS RunningDataIsFresh NoDataBeforeSetpoint NoOldData
PROPERTIES CommandsComeFirst SetpointsInOrder MotorsOnlyChangeInRun
CHECK_DEADLOCK FALSE
