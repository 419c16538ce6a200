SPECIFICATION Spec
CONSTANTS
  Request = {r1, r2}
  Read = Read
  Write = Write
  runSSE = runSSE
  other = other
  Tool <- MCTool
  DefaultTool = Read
  NoTool = NoTool
  Path <- MCPath
  AnyPath = AnyPath
  Kind <- ChatKinds
  Agents <- ChatAgents
  Prepared <- MCPrepared
  MaxArms = 2
  MaxClears = 1
SYMMETRY Requests
INVARIANT CallWasOffered
CHECK_DEADLOCK FALSE
