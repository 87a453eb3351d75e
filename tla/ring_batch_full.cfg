\* Three full slots and four words over; a client that records more commands than
\* the batch buffer holds.
CONSTANTS
  Commands = {a}
  Noop = noop
  Payload = payload
  VramWords = 33
  RingStart = 1
  RingWords = 31
  MaxBatch = 4
  MaxAttempts = 1
  ClientModes = {1}
  PoolMayFail = FALSE
SPECIFICATION Spec
INVARIANT BatchInBounds
