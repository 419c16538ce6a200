SPECIFICATION Spec
CONSTANTS
  MaxTurns = 2
  MaxAsks = 0
  MaxDeltas = 0
  MaxServed = 2
  Deadlines = FALSE
  EventCap = 2
  Loads <- NewSession
  Policies <- OnlyApprove
  Afters = {"before", "one less"}
INVARIANT WaitedForTurn
CHECK_DEADLOCK FALSE
