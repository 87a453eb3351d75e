\* Five pages of four bytes, requests from none to more than all of them and one
\* that wraps when it is rounded up, every page's address, a misaligned one and
\* one behind the end.
CONSTANTS
  PageBytes = 4
  PageCount = 5
  UIntMod = 64
  Requests = {0, 1, 5, 12, 21, 62}
  Addresses = {0, 4, 6, 8, 12, 16, 20}
SPECIFICATION FairSpec
INVARIANTS TypeOK BlocksDisjoint StatusMatchesBlocks ScanSound
PROPERTIES GrantCoversRequest AllocationReturns ImplementsHeap
