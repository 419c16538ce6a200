SPECIFICATION Spec
CONSTANTS
  Request = {r1, r2, r3}
  Read = Read
  Write = Write
  runSSE = runSSE
  other = other
  Tool <- MCTool
  DefaultTool = Read
  NoTool = NoTool
  Path <- MCPath
  AnyPath = AnyPath
  Kind <- MCKinds
  Agents <- MCAgents
  Prepared <- MCPrepared
  MaxArms = 2
  MaxClears = 1
SYMMETRY Requests
INVARIANTS
  TypeOK
  OneCallPerArm
  IndexIsOwn
  AnswersCountReplies
  AwaitedCallWasOffered
  AwaitedStreamIsTrue
PROPERTY
  OfferSpec
CHECK_DEADLOCK FALSE
