CONSTANTS
  N = 2
  Inputs <- EveryImage
SPECIFICATION Spec
INVARIANT WinnerIsBest
PROPERTIES
  EveryRouteEnds
  ImplementsReadOutcome
