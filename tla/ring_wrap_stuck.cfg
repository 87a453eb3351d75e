\* Batches larger than half the ring, the processor never switched off.
CONSTANTS
  Commands = {a}
  Noop = noop
  Payload = payload
  VramWords = 33
  RingStart = 1
  RingWords = 31
  MaxBatch = 4
  MaxAttempts = 1
  ClientModes = {1}
  PoolMayFail = FALSE
SPECIFICATION Spec
INVARIANT NoTimeout
