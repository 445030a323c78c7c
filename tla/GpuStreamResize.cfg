CONSTANTS
  Readers = {}
  Streams = {s1}
  Warmer = Warmer
  Free = Free
  Small = Small
  NoWorkspace = NoWorkspace
  Levels = {1, 2}
  Contexts = 2
  Geometries = {g1, g2}
  ReadSizes = {}
  StreamSizes = {g1, g2}
  MaxFrames = 2
  MaxEnters = 1
  MaxWarms = 1
SPECIFICATION Spec
PROPERTIES
  FramesReturn
CHECK_DEADLOCK FALSE
