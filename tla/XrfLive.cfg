SPECIFICATION FairSpec
CONSTANTS
  StateSlots = 1
  DataSlots = 1
  decimation_total = 2
  CommandValues <- LiveValues
  MaxCommands = 3
  MaxSetpoints = 1
  MaxLaunches = 1
PROPERTIES EventuallyReported BufferedCommandIsHandled BufferedSetpointIsApplied
CHECK_DEADLOCK FALSE
