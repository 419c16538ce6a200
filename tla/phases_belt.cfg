SPECIFICATION Spec
CONSTANTS
  MaxAgents = 1
  Invocations <- BeltBoth
INVARIANT PassIsOwn
