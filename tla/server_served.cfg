SPECIFICATION Spec
CONSTANTS
  Request = {r1, r2}
  Read = Read
  Write = Write
  runSSE = runSSE
  other = other
  Tool <- MCTool
  DefaultTool = Read
  NoTool = NoTool
  Path <- MCPath
  AnyPath = AnyPath
  Kind <- CarefulKinds
  Agents <- CarefulAgents
  Prepared <- MCPrepared
  MaxArms = 2
  MaxClears = 1
SYMMETRY Requests
INVARIANT ServedSinceClear
CHECK_DEADLOCK FALSE
