SPECIFICATION Spec
CONSTANTS
  StateSlots = 2
  DataSlots = 1
  decimation_total = 2
  CommandValues <- AllCommands
  MaxCommands = 4
  MaxSetpoints = 0
  MaxLaunches = 2
INVARIANTS TypeOK CommandsInOrder NoReportBeforeCommand CommandsMeetStableStates RestingIsNotLogged NoAssertionFails
PROPERTIES ReportsNeverGoBack
CHECK_DEADLOCK FALSE
