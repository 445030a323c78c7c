SPECIFICATION Spec
CONSTANTS
  Directions = 2
INVARIANTS
  BarriersSuffice
  PixelsOfTheirPass
  FoldsReadTheirPass
