SPECIFICATION ObjectsSpec
CONSTANTS
  Returns <- MCReturns
  MaxVariables = 2
  UninitFlags = {FALSE, TRUE}
  ShortWrites = TRUE
  MaxEntries = 4
INVARIANTS FcnMatchesState ErrorHasCode LogTypeOK RowsMatchHeader NothingAfterTornHeader
PROPERTY FollowsLifecycle
CHECK_DEADLOCK FALSE
