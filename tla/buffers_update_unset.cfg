\* Any client: an update of a handle that has no buffer.
CONSTANTS
  PageCount = 6
  FramePages = 1
  DepthPages = 1
  RingPages = 1
  Handles = {x, y}
  Slots = {"vbo"}
  Sizes = {1, 2}
  MaxBatch = 2
  MaxQueue = 2
  Careful = FALSE
SPECIFICATION Spec
INVARIANT FrameHoldsNoUpload
