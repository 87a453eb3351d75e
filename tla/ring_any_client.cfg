\* Four full slots and four words over, as 65536 bytes leave 16 over; any client,
\* any mode, allocations that may fail.
CONSTANTS
  Commands = {a}
  Noop = noop
  Payload = payload
  VramWords = 41
  RingStart = 1
  RingWords = 40
  MaxBatch = 5
  MaxAttempts = 1
  ClientModes = {0, 1, 2}
  PoolMayFail = TRUE
SPECIFICATION Spec
INVARIANTS TypeOK PointersOnSlots PointersInOrder
PROPERTY StallIsFutile
