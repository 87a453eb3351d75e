----------------------------- MODULE GpuMemory -----------------------------
(***************************************************************************)
(* The VRAM allocator of the OptionRom driver (gpu_memory.c).  It keeps    *)
(* two arrays: pageStatus says which pages are taken, pageAllocationSizes  *)
(* holds a block's length at the block's first page and 0 elsewhere.       *)
(* GpuAllocateMem scans the pages for the first place that fits; a turn of *)
(* its loop is a step, so that what the scan has established so far can be *)
(* stated.  The driver is one thread: no call overlaps another; call is a  *)
(* history variable but for the bytes that a scan looks for.               *)
(***************************************************************************)
EXTENDS Integers

CONSTANTS
  PageBytes,    \* PAGE_SIZE
  PageCount,    \* pageCount, VRAM size / PAGE_SIZE
  UIntMod,      \* 2^32, the modulus of UINT32 arithmetic
  Requests,     \* the sizes in bytes that GpuAllocateMem is called with
  Addresses     \* the addresses its callers pass to the other functions

ASSUME MemoryAssumption ==
  /\ PageBytes \in Nat \ {0}
  /\ PageCount \in Nat \ {0}
  /\ UIntMod \in Nat
  /\ PageBytes * PageCount < UIntMod
  /\ Requests \subseteq 0 .. UIntMod - 1
  /\ Addresses \subseteq 0 .. UIntMod - 1

VARIABLES
  pageStatus,           \* which pages are taken
  pageAllocationSizes,  \* the pages of the block that starts here, or 0
  scanning,             \* TRUE while GpuAllocateMem's loop runs
  call,                 \* the call that runs or ran last, with its parameters
  pageCounter,          \* where it looks
  result                \* what the last call returned

vars == <<pageStatus, pageAllocationSizes, scanning, call, pageCounter, result>>

Pages == 0 .. PageCount - 1

\* Fault: the error value is signed.
NoMemSigned == -1

GPU_NO_MEM == UIntMod - 1

\* Fault: the size is not rounded up.
PagesForTruncated(bytes) == bytes \div PageBytes

\* (bytesToAlloc + PAGE_SIZE - 1) / PAGE_SIZE in UINT32 arithmetic.
PagesFor(bytes) == ((bytes + PageBytes - 1) % UIntMod) \div PageBytes

bytesToAlloc == call.bytes

pagesToAlloc == PagesFor(bytesToAlloc)

\* Fault: the last page is not looked at.
CanAllocShort(startPage, pagesCount) ==
  /\ startPage + pagesCount <= PageCount
  /\ \A i \in startPage .. startPage + pagesCount - 2 : ~pageStatus[i]

\* Fault: a block that ends with VRAM does not fit.
CanAllocStrict(startPage, pagesCount) ==
  /\ startPage + pagesCount < PageCount
  /\ \A i \in startPage .. startPage + pagesCount - 1 : ~pageStatus[i]

CanAlloc(startPage, pagesCount) ==
  /\ startPage + pagesCount <= PageCount
  /\ \A i \in startPage .. startPage + pagesCount - 1 : ~pageStatus[i]

\* Fault: the last page keeps its status.
SetStatusPageShort(from, to, value) ==
  pageStatus' = [p \in Pages |-> IF p \in from .. to - 2 THEN value ELSE pageStatus[p]]

SetStatusPage(from, to, value) ==
  pageStatus' = [p \in Pages |-> IF p \in from .. to - 1 THEN value ELSE pageStatus[p]]

Claim(page, count) ==
  /\ SetStatusPage(page, page + count, TRUE)
  /\ pageAllocationSizes' = [pageAllocationSizes EXCEPT ![page] = count]
  /\ result' = page * PageBytes

Fail ==
  /\ result' = GPU_NO_MEM
  /\ UNCHANGED <<pageStatus, pageAllocationSizes>>

\* GpuMemoryAllocatorInit: AllocateZeroPool clears both arrays.
Init ==
  /\ pageStatus = [p \in Pages |-> FALSE]
  /\ pageAllocationSizes = [p \in Pages |-> 0]
  /\ scanning = FALSE
  /\ call = [op |-> "none", bytes |-> 0, addr |-> 0]
  /\ pageCounter = 0
  /\ result = GPU_NO_MEM

-----------------------------------------------------------------------------
\* GpuAllocateMemImpl.
AllocateMem(bytes) ==
  /\ ~scanning
  /\ scanning' = TRUE
  /\ call' = [op |-> "allocate", bytes |-> bytes, addr |-> 0]
  /\ pageCounter' = 0
  /\ UNCHANGED <<pageStatus, pageAllocationSizes, result>>

\* The call's pageCounter is gone.
ScanReturns ==
  /\ scanning' = FALSE
  /\ pageCounter' = 0
  /\ UNCHANGED call

\* The page is free and the block fits here.
ScanClaims ==
  /\ ~pageStatus[pageCounter]
  /\ CanAlloc(pageCounter, pagesToAlloc)
  /\ Claim(pageCounter, pagesToAlloc)
  /\ ScanReturns

\* Fault: no continue behind the skip, so that a page more is stepped over.
ScanSkipsTooFar ==
  /\ pageStatus[pageCounter]
  /\ pageAllocationSizes[pageCounter] # 0
  /\ pageCounter' = pageCounter + pageAllocationSizes[pageCounter] + 1
  /\ UNCHANGED <<pageStatus, pageAllocationSizes, scanning, call, result>>

\* The page starts a block: go to the page behind it.
ScanSkipsBlock ==
  /\ pageStatus[pageCounter]
  /\ pageAllocationSizes[pageCounter] # 0
  /\ pageCounter' = pageCounter + pageAllocationSizes[pageCounter]
  /\ UNCHANGED <<pageStatus, pageAllocationSizes, scanning, call, result>>

\* Fault: the counter is not incremented.
ScanStands ==
  /\ IF pageStatus[pageCounter]
       THEN pageAllocationSizes[pageCounter] = 0
       ELSE ~CanAlloc(pageCounter, pagesToAlloc)
  /\ UNCHANGED vars

\* The page is free but the block does not fit, or it is taken and starts no
\* block: go to the next page.
ScanStepsOn ==
  /\ IF pageStatus[pageCounter]
       THEN pageAllocationSizes[pageCounter] = 0
       ELSE ~CanAlloc(pageCounter, pagesToAlloc)
  /\ pageCounter' = pageCounter + 1
  /\ UNCHANGED <<pageStatus, pageAllocationSizes, scanning, call, result>>

ScanTurn ==
  /\ scanning
  /\ pageCounter < PageCount
  /\ ScanClaims \/ ScanSkipsBlock \/ ScanStepsOn

ScanFails ==
  /\ scanning
  /\ pageCounter >= PageCount
  /\ Fail
  /\ ScanReturns

\* GpuAllocateMemAtImpl.
AllocateMemAt(bytes, addr) ==
  /\ ~scanning
  /\ call' = [op |-> "allocateAt", bytes |-> bytes, addr |-> addr]
  /\ LET page == addr \div PageBytes
     IN  \/ /\ addr % PageBytes = 0
            /\ CanAlloc(page, PagesFor(bytes))
            /\ Claim(page, PagesFor(bytes))
         \/ /\ addr % PageBytes # 0 \/ ~CanAlloc(page, PagesFor(bytes))
            /\ Fail
  /\ UNCHANGED <<scanning, pageCounter>>

\* Fault: a page where no block starts is accepted.
FreeableAnywhere(addr) ==
  addr % PageBytes = 0 /\ addr \div PageBytes < PageCount

\* GpuFreeMem: a misaligned address, one behind the last page and one where no
\* block starts are refused.
Freeable(addr) ==
  /\ addr % PageBytes = 0
  /\ addr \div PageBytes < PageCount
  /\ pageAllocationSizes[addr \div PageBytes] # 0

FreeMem(addr) ==
  /\ ~scanning
  /\ call' = [op |-> "free", bytes |-> 0, addr |-> addr]
  /\ \/ /\ Freeable(addr)
        /\ LET page == addr \div PageBytes
           IN  /\ SetStatusPage(page, page + pageAllocationSizes[page], FALSE)
               /\ pageAllocationSizes' = [pageAllocationSizes EXCEPT ![page] = 0]
        /\ result' = addr
     \/ ~Freeable(addr) /\ Fail
  /\ UNCHANGED <<scanning, pageCounter>>

\* The one caller of GpuAllocateMemAt asks for the framebuffer, never for
\* nothing; GpuAllocateMem may be asked for nothing.
FixedRequests == {bytes \in Requests : PagesFor(bytes) > 0}

Next ==
  \/ \E bytes \in Requests : AllocateMem(bytes)
  \/ ScanTurn
  \/ ScanFails
  \/ \E bytes \in FixedRequests, addr \in Addresses : AllocateMemAt(bytes, addr)
  \/ \E addr \in Addresses : FreeMem(addr)

\* A call runs to its end; nothing makes a caller call.
Spec     == Init /\ [][Next]_vars
FairSpec == Spec /\ WF_vars(ScanTurn \/ ScanFails)

-----------------------------------------------------------------------------
TypeOK ==
  /\ pageStatus \in [Pages -> BOOLEAN]
  /\ pageAllocationSizes \in [Pages -> Nat]
  /\ scanning \in BOOLEAN
  /\ call \in [op : {"none", "allocate", "allocateAt", "free"},
               bytes : Requests \cup {0}, addr : Addresses \cup {0}]
  /\ pageCounter \in Nat
  /\ result \in Nat

IsBlock(p) == pageAllocationSizes[p] > 0

InBlock(p, q) == p <= q /\ q < p + pageAllocationSizes[p]

\* No two blocks share a page and none reaches past the end of VRAM, whatever
\* addresses were freed (gpu_memory.c:144).
BlocksDisjoint ==
  /\ \A p \in Pages : p + pageAllocationSizes[p] <= PageCount
  /\ \A p, q \in Pages : p < q /\ IsBlock(p) /\ IsBlock(q) => ~InBlock(p, q)

\* The two arrays agree: a page is taken exactly when it belongs to a block
\* (gpu_memory.c:92, 157), so no page is lost and no block is half free.
StatusMatchesBlocks ==
  \A q \in Pages : pageStatus[q] <=> \E p \in Pages : InBlock(p, q)

\* The scan skips whole blocks (gpu_memory.c:103) and passes no place where the
\* request would have fitted: it stands at a block's start or at a free page,
\* and nothing below it fits.
FitsAt(p) == ~pageStatus[p] /\ CanAlloc(p, pagesToAlloc)

ScanSound ==
  scanning =>
    /\ \A p \in Pages : p < pageCounter => ~FitsAt(p)
    /\ pageCounter <= PageCount
    /\ pageCounter < PageCount /\ pageStatus[pageCounter] => IsBlock(pageCounter)

\* What an allocation grants has room for every byte asked for
\* (gpu_memory.c:86); a request so large that it wraps when it is rounded up is
\* granted no page at all, and never some of what it asked for.
GrantCoversRequest ==
  [][scanning /\ ~scanning' /\ result' # GPU_NO_MEM =>
       LET granted == pageAllocationSizes'[result' \div PageBytes] IN
       IF bytesToAlloc + PageBytes <= UIntMod
         THEN granted * PageBytes >= bytesToAlloc
         ELSE granted = 0]_vars

\* Every allocation returns (gpu_memory.c:88).
AllocationReturns == scanning ~> ~scanning

-----------------------------------------------------------------------------
(***************************************************************************)
(* The two arrays implement the heap: every call gets the answer that      *)
(* HeapCalls gives for what it asks.                                       *)
(***************************************************************************)
PageNamed(addr) ==
  IF addr % PageBytes = 0 /\ addr \div PageBytes < PageCount THEN addr \div PageBytes ELSE -1

Heap == INSTANCE HeapCalls WITH
  Sizes  <- {PagesFor(bytes) : bytes \in Requests},
  blocks <- {[page |-> p, pages |-> pageAllocationSizes[p]] : p \in {q \in Pages : IsBlock(q)}},
  call   <- [op |-> call.op, pages |-> PagesFor(call.bytes), page |-> PageNamed(call.addr)],
  answer <- IF scanning THEN -2
            ELSE IF result = GPU_NO_MEM THEN -1 ELSE result \div PageBytes

\* An allocation gets the first place that fits, is refused only when there is
\* none, and a fixed allocation or a free is refused only when its place is taken
\* or starts no block (gpu_memory.c:78-165).
ImplementsHeap == Heap!HeapSpec
=============================================================================
