SPECIFICATION Spec
CONSTANTS
  MaxTime = 3
  Finders = {f1, f2}
  MaxFailures = 2
  MaxCleanups = 1
  MaxRestarts = 2
INVARIANTS MemoryAsNewAsRow RowKeepsUp FoundIfThere
PROPERTIES RowOnlyGrows
CHECK_DEADLOCK FALSE
