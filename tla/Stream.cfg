CONSTANTS
  Bits <- SomeBits
  GroupCap = 2
  ResetAfter = 3
  MinOverlap = 2
  Span = 1
  Frames <- SomeFrames
  Exposures <- Halves
  Codes <- SixCodes
  Codeword <- Words
  CodeRoute <- Wires
  DockedCodes = {"D"}
  Family <- Families
  IsoRoutes = {0}
  Radius = 1
  SeedFix = 2
  RingCap = 1
  PendingCap = 16
  EnlargeFactor = 2
SPECIFICATION Spec
INVARIANTS
  OneChainPerFrame
  EvidenceCountedOnce
PROPERTIES
  SharpFramesReadTrue
  SteadySceneIsRead
  ExposuresFuse
