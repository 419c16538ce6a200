SPECIFICATION FairSpec
CONSTANTS
  MaxTurns = 1
  MaxAsks = 2
  MaxDeltas = 1
  MaxServed = 1
  Deadlines = TRUE
  EventCap = 2
  Loads <- MCLoads
  Policies <- AllPolicies
  Afters = {"before", "one less"}
INVARIANTS WaitedForTurn PermissionsAreTrue ParkedIsHeld ReplayIsMarked
PROPERTIES EndIsNoticed AskIsResolved
CHECK_DEADLOCK FALSE
