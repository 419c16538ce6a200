SPECIFICATION SuiteSpec
CONSTANTS
  MaxAgents = 2
  Invocations <- MCInvocations
  pass = pass
  finding = finding
  absent = absent
  Run = {r1}
  Check = {reset, approval}
  Key = {pass, finding}
  Absent = absent
  OutcomeLists <- MCOutcomeLists
  FreshOut = TRUE
  MaxAsks = 2
  MaxNights = 2
  Plans <- MCPlans
  Delays <- MCDelays
  Fillers = 1
  MaxSide = 2
  MaxTime = 6
  Candidate <- MCCandidates
  Mined = {22}
  Flag = {19}
  Inside <- MCInside
  Used = {19}
  Listed = {1}
  Pages <- MCPages
  Outputs <- MCOutputs
  Bodies <- MCBodies
  Permits = 2
  MaxRequests = 2
INVARIANTS
  PassIsOwn
  ToolVerdictIsTrue
  LogIsOwn
  VerdictIsTrue
  ExpectedIsAccepted
  ContextIsTrue
  NotResumedIsTrue
  CompactionIsTrue
  ApprovalIsTrue
  OneProcess
  AnswerIsReported
  TurnsAreSeen
  NothingLeft
PROPERTY
  OnlyAskableRun
CHECK_DEADLOCK FALSE
