\* Five full slots and four words over; batches of at most half the full slots.
CONSTANTS
  Commands = {a}
  Noop = noop
  Payload = payload
  VramWords = 51
  RingStart = 2
  RingWords = 49
  MaxBatch = 2
  MaxAttempts = 1
  ClientModes = {1, 2}
  PoolMayFail = FALSE
SPECIFICATION FairSpec
INVARIANT NoTimeout
PROPERTIES HeadWriteReturns CallsReturn
