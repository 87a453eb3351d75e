CONSTANTS
  LaneBase = 3
  FbWidth = 3
  FbHeight = 2
  VramWords = 24
  RingWords = 6
  Far = 9
  Red = Red
  Green = Green
  Black = Black
  Colours = {Red, Black, Green}
  MemBytes = 9
  HostBytes = 6
  Fills <- MCFills
  Shapes <- MCShapes
  AsDepth <- MCAsDepth
  Frames <- MCFrames
  RawAddrs <- MCRawAddrs
  RawData <- MCRawData
  MaxActs = 1
  MaxRaw = 1
SPECIFICATION Spec
PROPERTY ImplementsBytes
CHECK_DEADLOCK FALSE
