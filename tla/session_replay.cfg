SPECIFICATION Spec
CONSTANTS
  MaxTurns = 1
  MaxAsks = 1
  MaxDeltas = 1
  MaxServed = 1
  Deadlines = FALSE
  EventCap = 2
  Loads <- MCLoads
  Policies <- OnlyResumed
  Afters = {"before"}
INVARIANT ReplayIsOfLoad
CHECK_DEADLOCK FALSE
