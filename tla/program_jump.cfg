CONSTANTS
  Labels = {"a", "b"}
  Literals = {0, 1, 3, 24, 32}
  Val <- MCVal
  IntBits <- MCIntBits
  FloatBits <- MCFloatBits
  Compute <- MCCompute
  Sources <- JumpSources
  Leftovers <- MCLeftovers
  Inputs = {4}
SPECIFICATION FairSpec
PROPERTIES
  JumpsReachLabels
CHECK_DEADLOCK FALSE
