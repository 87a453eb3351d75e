\* Two commands that can be told apart; batches up to three of the four full slots.
CONSTANTS
  Commands = {a, b}
  Noop = noop
  Payload = payload
  VramWords = 41
  RingStart = 1
  RingWords = 40
  MaxBatch = 3
  MaxAttempts = 0
  ClientModes = {0, 1}
  PoolMayFail = FALSE
SPECIFICATION Spec
PROPERTIES PendingUntouched ImplementsQueue
