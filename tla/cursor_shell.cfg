SPECIFICATION Spec
CONSTANTS
  Cap = 2
  History = {0}
  Blobs = 1
  Slots = 1
  Plans <- ShellPlans
INVARIANT ResultSaved
CHECK_DEADLOCK FALSE
