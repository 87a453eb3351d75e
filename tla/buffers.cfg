\* Three pages beside the system's, so that one update can move a buffer, two
\* buffers can fill them and an allocation can fail.
CONSTANTS
  PageCount = 6
  FramePages = 1
  DepthPages = 1
  RingPages = 1
  Handles = {x, y}
  Slots = {"vbo"}
  Sizes = {1, 2}
  MaxBatch = 2
  MaxQueue = 2
  Careful = TRUE
SPECIFICATION Spec
SYMMETRY Symmetry
INVARIANTS TypeOK SystemBlocksStay HandlesOwnBlocks NoBlockLost UploadsIntact DrawsReadUploads
PROPERTY FailureChangesNothing
