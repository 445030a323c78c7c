SPECIFICATION SetSpec
CONSTANTS
  Readers = {r1, r2}
  StageKernels <- MCStageKernels
  Limits <- MCLimits
  MaxRequests = 2
  MaxFailures = 1
  Warmer = warmer
  Closer = closer
  None = none
INVARIANTS
  NothingSurvivesClose
  FallbackExplained
  AnswersAgree
PROPERTY RequestsReturn
