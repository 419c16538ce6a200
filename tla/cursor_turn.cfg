SPECIFICATION FairSpec
CONSTANTS
  Cap = 2
  History = {1}
  Blobs = 1
  Slots = 2
  Plans <- TurnPlans
INVARIANTS
  TypeOK
  StreamInOrder
  ResultSaved
  StoredBeforeNamed
PROPERTIES
  TurnSpec
  TurnEnds
CHECK_DEADLOCK FALSE
