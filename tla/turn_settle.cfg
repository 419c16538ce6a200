CONSTANTS
  Quiet = 2
  ScreenQuiet = 1
  Timeout = 3
  ScreenMax = 2
  MaxAsides = 1
SPECIFICATION FairSpec
INVARIANTS
  LinesAreTaken
  SummaryIsForCompaction
  ShortSummaryIsExcused
PROPERTIES
  GivesUpUnanswered
  QuietMeansNoStop
  PhaseEnds
