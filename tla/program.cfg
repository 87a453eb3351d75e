CONSTANTS
  Labels = {"a", "b"}
  Literals = {0, 1, 3, 24, 32}
  Val <- MCVal
  IntBits <- MCIntBits
  FloatBits <- MCFloatBits
  Compute <- MCCompute
  Sources <- WrittenSources
  Leftovers <- MCLeftovers
  Inputs = {4}
SPECIFICATION FairSpec
INVARIANTS
  TypeOK
  LabelsNameTheirInstruction
  JumpsResolved
PROPERTIES
  RunsAsWritten
  ExecutionEnds
CHECK_DEADLOCK FALSE
