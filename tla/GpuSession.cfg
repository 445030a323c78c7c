CONSTANTS
  Readers = {r1}
  Streams = {s1}
  Warmer = Warmer
  Free = Free
  Small = Small
  NoWorkspace = NoWorkspace
  Levels = {1, 2}
  Contexts = 2
  Geometries = {g1, g2}
  ReadSizes = {g1}
  StreamSizes = {g1, Small}
  MaxFrames = 2
  MaxEnters = 1
  MaxWarms = 1
SPECIFICATION Spec
INVARIANTS
  DeviceReadsOwnImage
  NoStraddling
  OpenServes
PROPERTIES
  ReadsReturn
  SessionsEnd
