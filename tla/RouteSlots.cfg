CONSTANTS
  Count = 3
  Bodies = 2
SPECIFICATION SearchSpec
INVARIANT BodiesHeldByRunning
PROPERTIES
  EveryRouteEnds
  ImplementsSequentialLadder
