-------------------------- MODULE GpuMemory_proofs --------------------------
(***************************************************************************)
(* The allocator's invariants hold for every VRAM size, page size, width   *)
(* of UINT32, set of requests and set of addresses.                        *)
(***************************************************************************)
EXTENDS GpuMemory, TLAPS

\* The arrays' part of the inductive invariant: a claim looks at the statuses
\* only, so that it makes no overlap rests on their agreement with the blocks.
ArraysOK ==
  /\ pageStatus \in [Pages -> BOOLEAN]
  /\ pageAllocationSizes \in [Pages -> Nat]
  /\ BlocksDisjoint
  /\ StatusMatchesBlocks

IInv == TypeOK /\ BlocksDisjoint /\ StatusMatchesBlocks /\ ScanSound

\* The page of an address is a natural number (gpu_memory.c:121).
LEMMA DivisionNat ==
  ASSUME NEW a \in Nat, NEW b \in Nat \ {0}
  PROVE  a \div b \in Nat
OBVIOUS

\* UINT32 has at least one value.
LEMMA ModulusPositive == 0 \in 0 .. UIntMod - 1 /\ GPU_NO_MEM \in Nat
<1>1. PageBytes * PageCount \in Nat
  BY MemoryAssumption
<1>2. UIntMod \in Nat /\ UIntMod > 0
  BY <1>1, MemoryAssumption
<1>3. QED
  BY <1>2 DEF GPU_NO_MEM

\* The number of pages of a request is a natural number (gpu_memory.c:86).
LEMMA PagesForNat ==
  ASSUME NEW bytes \in 0 .. UIntMod - 1
  PROVE  PagesFor(bytes) \in Nat
<1>1. (bytes + PageBytes - 1) % UIntMod \in Nat
  BY MemoryAssumption
<1>2. QED
  BY <1>1, DivisionNat, MemoryAssumption DEF PagesFor

\* What a call asks for is a UINT32 (gpu_memory.c:82).
LEMMA RequestWidth ==
  ASSUME TypeOK
  PROVE  bytesToAlloc \in 0 .. UIntMod - 1
BY ModulusPositive, MemoryAssumption DEF TypeOK, bytesToAlloc

\* The address of a page is a natural number (gpu_memory.c:99).
LEMMA PageAddress ==
  ASSUME NEW p \in Pages
  PROVE  p * PageBytes \in Nat
BY MemoryAssumption DEF Pages

\* Claiming free pages keeps the arrays sound (gpu_memory.c:92, 125).
LEMMA ClaimKeepsArrays ==
  ASSUME ArraysOK,
         NEW page \in Pages, NEW count \in Nat,
         ~pageStatus[page], CanAlloc(page, count), Claim(page, count)
  PROVE  ArraysOK'
<1> USE DEF ArraysOK, Pages
<1>1. page + count <= PageCount /\ \A i \in page .. page + count - 1 : ~pageStatus[i]
  BY DEF CanAlloc
<1>2. pageStatus' = [p \in Pages |->
                       IF p \in page .. page + count - 1 THEN TRUE ELSE pageStatus[p]]
  BY DEF Claim, SetStatusPage
<1>3. pageAllocationSizes' = [pageAllocationSizes EXCEPT ![page] = count]
  BY DEF Claim
<1>4. \A p \in Pages, q \in Pages : InBlock(p, q) => pageStatus[q]
  BY DEF StatusMatchesBlocks
<1>5. pageAllocationSizes[page] = 0
  BY <1>4 DEF InBlock
<1>6. (pageStatus \in [Pages -> BOOLEAN] /\ pageAllocationSizes \in [Pages -> Nat])'
  BY <1>2, <1>3
<1>7. BlocksDisjoint'
  <2>1. \A p \in Pages : p + pageAllocationSizes'[p] <= PageCount
    BY <1>1, <1>3 DEF BlocksDisjoint
  <2>2. SUFFICES ASSUME NEW p \in Pages, NEW q \in Pages, p < q,
                        IsBlock(p)', IsBlock(q)'
                 PROVE  ~InBlock(p, q)'
    BY <2>1 DEF BlocksDisjoint
  <2>3. CASE p = page
    <3>1. IsBlock(q) /\ pageStatus[q]
      BY <2>2, <2>3, <1>3, <1>4 DEF IsBlock, InBlock
    <3>2. q \notin page .. page + count - 1
      BY <3>1, <1>1
    <3>3. QED
      BY <2>2, <2>3, <3>2, <1>3 DEF InBlock
  <2>4. CASE q = page /\ p # page
    <3>1. ~InBlock(p, page)
      BY <1>4
    <3>2. QED
      BY <2>4, <3>1, <1>3 DEF InBlock
  <2>5. CASE p # page /\ q # page
    BY <2>2, <2>5, <1>3 DEF BlocksDisjoint, IsBlock, InBlock
  <2>6. QED
    BY <2>3, <2>4, <2>5
<1>8. StatusMatchesBlocks'
  <2>1. SUFFICES ASSUME NEW q \in Pages
                 PROVE  pageStatus'[q] <=> \E p \in Pages : InBlock(p, q)'
    BY DEF StatusMatchesBlocks
  <2>2. \A p \in Pages : p # page => (InBlock(p, q)' <=> InBlock(p, q))
    BY <1>3 DEF InBlock
  <2>3. InBlock(page, q)' <=> q \in page .. page + count - 1
    BY <1>3 DEF InBlock
  <2>4. ~InBlock(page, q)
    BY <1>5 DEF InBlock
  <2>5. pageStatus[q] <=> \E p \in Pages : InBlock(p, q)
    BY DEF StatusMatchesBlocks
  <2>6. pageStatus'[q] <=> (q \in page .. page + count - 1 \/ pageStatus[q])
    BY <1>2
  <2>7. QED
    BY <2>2, <2>3, <2>4, <2>5, <2>6
<1>9. QED
  BY <1>6, <1>7, <1>8

\* Freeing a block keeps the arrays sound (gpu_memory.c:157).
LEMMA FreeKeepsArrays ==
  ASSUME ArraysOK,
         NEW page \in Pages, pageAllocationSizes[page] # 0,
         SetStatusPage(page, page + pageAllocationSizes[page], FALSE),
         pageAllocationSizes' = [pageAllocationSizes EXCEPT ![page] = 0]
  PROVE  ArraysOK'
<1>1. pageStatus' = [p \in Pages |->
                       IF p \in page .. (page + pageAllocationSizes[page]) - 1
                         THEN FALSE ELSE pageStatus[p]]
  BY DEF SetStatusPage
<1> USE DEF ArraysOK, Pages
<1>2. (pageStatus \in [Pages -> BOOLEAN] /\ pageAllocationSizes \in [Pages -> Nat])'
  BY <1>1
<1>3. BlocksDisjoint'
  <2>1. \A p \in Pages : pageAllocationSizes'[p] =
                          IF p = page THEN 0 ELSE pageAllocationSizes[p]
    OBVIOUS
  <2>2. \A p \in Pages : p + pageAllocationSizes'[p] <= PageCount
    BY <2>1, MemoryAssumption DEF BlocksDisjoint
  <2>3. \A p, q \in Pages :
          p < q /\ IsBlock(p)' /\ IsBlock(q)' => ~InBlock(p, q)'
    BY <2>1 DEF BlocksDisjoint, IsBlock, InBlock
  <2>4. QED
    BY <2>2, <2>3 DEF BlocksDisjoint
<1>4. StatusMatchesBlocks'
  <2>1. SUFFICES ASSUME NEW q \in Pages
                 PROVE  pageStatus'[q] <=> \E p \in Pages : InBlock(p, q)'
    BY DEF StatusMatchesBlocks
  <2>2. \A p \in Pages : p # page => (InBlock(p, q)' <=> InBlock(p, q))
    BY DEF InBlock
  <2>3. ~InBlock(page, q)'
    BY DEF InBlock
  <2>4. InBlock(page, q) => \A p \in Pages : p # page => ~InBlock(p, q)
    <3>1. SUFFICES ASSUME NEW p \in Pages, p # page, InBlock(page, q), InBlock(p, q)
                   PROVE  FALSE
      OBVIOUS
    <3>2. CASE p < page
      BY <3>1, <3>2 DEF BlocksDisjoint, IsBlock, InBlock
    <3>3. CASE page < p
      BY <3>1, <3>3 DEF BlocksDisjoint, IsBlock, InBlock
    <3>4. QED
      BY <3>1, <3>2, <3>3
  <2>5. pageStatus'[q] <=> (pageStatus[q] /\ ~InBlock(page, q))
    BY <1>1 DEF InBlock
  <2>6. pageStatus[q] <=> \E p \in Pages : InBlock(p, q)
    BY DEF StatusMatchesBlocks
  <2>7. QED
    BY <2>2, <2>3, <2>4, <2>5, <2>6
<1>5. QED
  BY <1>2, <1>3, <1>4

-----------------------------------------------------------------------------
(***************************************************************************)
(* The invariant holds initially and every step keeps it.                  *)
(***************************************************************************)

\* GpuMemoryAllocatorInit establishes the invariant (gpu_memory.c:54).
LEMMA InitIInv == Init => IInv
<1> SUFFICES ASSUME Init PROVE IInv
  OBVIOUS
<1>1. TypeOK
  BY ModulusPositive DEF TypeOK, Init
<1> USE MemoryAssumption DEF Init, Pages
<1>2. BlocksDisjoint
  BY DEF BlocksDisjoint, IsBlock, InBlock
<1>3. StatusMatchesBlocks
  BY DEF StatusMatchesBlocks, InBlock
<1>4. ScanSound
  BY DEF ScanSound
<1>5. QED
  BY <1>1, <1>2, <1>3, <1>4 DEF IInv

\* A failing call and a call that does not touch the arrays keep them sound.
LEMMA SameArrays ==
  ASSUME ArraysOK, UNCHANGED <<pageStatus, pageAllocationSizes>>
  PROVE  ArraysOK'
BY DEF ArraysOK, BlocksDisjoint, StatusMatchesBlocks, IsBlock, InBlock

\* A taken page at or behind a place that no block reaches across starts a
\* block (gpu_memory.c:102).
LEMMA TakenStartsBlock ==
  ASSUME ArraysOK,
         NEW q \in Pages, pageStatus[q],
         \A p \in Pages : p < q => ~InBlock(p, q)
  PROVE  IsBlock(q)
<1>1. PICK p \in Pages : InBlock(p, q)
  BY DEF ArraysOK, StatusMatchesBlocks
<1>2. p = q
  BY <1>1 DEF InBlock, Pages
<1>3. QED
  BY <1>1, <1>2 DEF InBlock, IsBlock, ArraysOK, Pages

\* Skipping a block keeps what the scan has established (gpu_memory.c:103).
LEMMA SkipKeepsScan ==
  ASSUME ArraysOK, ScanSound, scanning, pageCounter \in Nat,
         pageCounter < PageCount, ScanSkipsBlock
  PROVE  ScanSound'
<1> DEFINE next == pageCounter + pageAllocationSizes[pageCounter]
<1>1. /\ pageCounter' = next
      /\ UNCHANGED <<pageStatus, pageAllocationSizes, scanning, call>>
  BY DEF ScanSkipsBlock
<1>2. pageCounter \in Pages /\ pageAllocationSizes[pageCounter] \in Nat \ {0}
  BY MemoryAssumption DEF Pages, ArraysOK, ScanSkipsBlock
<1>3. IsBlock(pageCounter) /\ next \in Nat /\ next <= PageCount
  BY <1>2 DEF IsBlock, ArraysOK, BlocksDisjoint, Pages
<1>4. \A q \in Pages : pageCounter <= q /\ q < next => pageStatus[q]
  BY <1>2 DEF ArraysOK, StatusMatchesBlocks, InBlock
<1>5. \A q \in Pages : q < next => ~FitsAt(q)
  BY <1>2, <1>4 DEF ScanSound, FitsAt, Pages
<1>6. ASSUME next < PageCount, pageStatus[next] PROVE IsBlock(next)
  <2>1. next \in Pages
    BY <1>3, <1>6, MemoryAssumption DEF Pages
  <2>2. ASSUME NEW p \in Pages, p < next PROVE ~InBlock(p, next)
    <3>1. CASE p < pageCounter
      <4>1. ~InBlock(p, pageCounter)
        BY <3>1, <1>2, <1>3 DEF ArraysOK, BlocksDisjoint, InBlock, IsBlock, Pages
      <4>2. QED
        BY <4>1, <3>1, <1>2 DEF InBlock, ArraysOK, Pages
    <3>2. CASE p = pageCounter
      BY <3>2, <1>2 DEF InBlock, Pages
    <3>3. CASE pageCounter < p
      <4>1. InBlock(pageCounter, p)
        BY <3>3, <2>2, <1>2 DEF InBlock, Pages
      <4>2. ~IsBlock(p)
        BY <4>1, <3>3, <1>2, <1>3 DEF ArraysOK, BlocksDisjoint
      <4>3. QED
        BY <4>2, <2>2, <1>3 DEF IsBlock, InBlock, ArraysOK, Pages
    <3>4. QED
      BY <3>1, <3>2, <3>3, <1>2 DEF Pages
  <2>3. QED
    BY <1>6, <2>1, <2>2, TakenStartsBlock
<1>7. QED
  BY <1>1, <1>3, <1>5, <1>6 DEF ScanSound, FitsAt, CanAlloc, IsBlock, pagesToAlloc, bytesToAlloc

\* Stepping to the next page keeps what the scan has established
\* (gpu_memory.c:107).
LEMMA StepKeepsScan ==
  ASSUME ArraysOK, ScanSound, scanning, pageCounter \in Nat,
         pageCounter < PageCount, ScanStepsOn
  PROVE  ScanSound'
<1>1. /\ pageCounter' = pageCounter + 1
      /\ UNCHANGED <<pageStatus, pageAllocationSizes, scanning, call>>
  BY DEF ScanStepsOn
<1>2. pageCounter \in Pages /\ ~pageStatus[pageCounter]
  BY MemoryAssumption DEF ScanStepsOn, ScanSound, IsBlock, Pages
<1>3. ~FitsAt(pageCounter)
  BY <1>2 DEF ScanStepsOn, FitsAt
<1>4. \A q \in Pages : q < pageCounter + 1 => ~FitsAt(q)
  BY <1>2, <1>3 DEF ScanSound, Pages
<1>5. ASSUME pageCounter + 1 < PageCount, pageStatus[pageCounter + 1]
      PROVE  IsBlock(pageCounter + 1)
  <2>1. pageCounter + 1 \in Pages
    BY <1>5, MemoryAssumption DEF Pages
  <2>2. ASSUME NEW p \in Pages, p < pageCounter + 1
        PROVE  ~InBlock(p, pageCounter + 1)
    <3>1. ~InBlock(p, pageCounter)
      BY <1>2 DEF ArraysOK, StatusMatchesBlocks
    <3>2. QED
      BY <3>1, <2>2, <1>2 DEF InBlock, ArraysOK, Pages
  <2>3. QED
    BY <1>5, <2>1, <2>2, TakenStartsBlock
<1>6. pagesToAlloc' = pagesToAlloc
  BY <1>1 DEF pagesToAlloc, bytesToAlloc, PagesFor
<1>7. QED
  BY <1>1, <1>4, <1>5, <1>2, <1>6, MemoryAssumption
     DEF ScanSound, FitsAt, CanAlloc, IsBlock, Pages

\* Every step keeps the invariant.
LEMMA NextIInv == IInv /\ [Next]_vars => IInv'
<1> SUFFICES ASSUME IInv, [Next]_vars PROVE IInv'
  OBVIOUS
<1>0. ArraysOK /\ TypeOK /\ ScanSound
  BY DEF IInv, TypeOK, ArraysOK
<1>2. GPU_NO_MEM \in Nat
  BY ModulusPositive
<1>3. ASSUME NEW bytes \in Requests, AllocateMem(bytes) PROVE IInv'
  <2>1. ArraysOK'
    BY <1>0, <1>3, SameArrays DEF AllocateMem
  <2>2. ScanSound'
    <3>1. pageStatus'[0] => IsBlock(0)'
      <4>1. 0 \in Pages /\ \A p \in Pages : ~(p < 0)
        BY MemoryAssumption DEF Pages
      <4>2. pageStatus[0] => IsBlock(0)
        BY <4>1, <1>0, TakenStartsBlock
      <4>3. QED
        BY <4>2, <1>3 DEF AllocateMem, IsBlock
    <3>2. QED
      BY <3>1, <1>3, MemoryAssumption DEF AllocateMem, ScanSound, Pages
  <2>3. QED
    BY <2>1, <2>2, <1>0, <1>3, MemoryAssumption
       DEF AllocateMem, TypeOK, IInv, ArraysOK
<1>4. ASSUME scanning, pageCounter < PageCount, ScanClaims PROVE IInv'
  <2>1. pageCounter \in Pages /\ pagesToAlloc \in Nat
    <3>1. pageCounter \in Pages
      BY <1>0, <1>4, MemoryAssumption DEF TypeOK, Pages
    <3>2. QED
      BY <3>1, <1>0, RequestWidth, PagesForNat DEF pagesToAlloc
  <2>2. ArraysOK'
    BY <1>0, <1>4, <2>1, ClaimKeepsArrays DEF ScanClaims
  <2>3. result' \in Nat
    BY <1>4, <2>1, PageAddress DEF ScanClaims, Claim
  <2>4. QED
    BY <2>2, <2>3, <1>4, ModulusPositive
       DEF ScanClaims, ScanReturns, TypeOK, IInv, ArraysOK, ScanSound
<1>5. ASSUME scanning, pageCounter < PageCount, ScanSkipsBlock PROVE IInv'
  <2>1. ArraysOK'
    BY <1>0, <1>5, SameArrays DEF ScanSkipsBlock
  <2>2. ScanSound'
    BY <1>0, <1>5, SkipKeepsScan DEF TypeOK
  <2>3. pageCounter' \in Nat
    BY <1>0, <1>5, MemoryAssumption DEF ScanSkipsBlock, TypeOK, Pages
  <2>4. QED
    BY <2>1, <2>2, <2>3, <1>0, <1>5 DEF ScanSkipsBlock, TypeOK, IInv, ArraysOK
<1>6. ASSUME scanning, pageCounter < PageCount, ScanStepsOn PROVE IInv'
  <2>1. ArraysOK'
    BY <1>0, <1>6, SameArrays DEF ScanStepsOn
  <2>2. ScanSound'
    BY <1>0, <1>6, StepKeepsScan DEF TypeOK
  <2>3. QED
    BY <2>1, <2>2, <1>0, <1>6 DEF ScanStepsOn, TypeOK, IInv, ArraysOK
<1>7. CASE ScanFails
  <2>1. ArraysOK'
    BY <1>0, <1>7, SameArrays DEF ScanFails, Fail
  <2>2. QED
    BY <2>1, <1>2, <1>7, ModulusPositive
       DEF ScanFails, Fail, ScanReturns, TypeOK, IInv, ArraysOK, ScanSound
<1>8. ASSUME NEW bytes \in FixedRequests, NEW addr \in Addresses,
             AllocateMemAt(bytes, addr)
      PROVE  IInv'
  <2> DEFINE page  == addr \div PageBytes
             count == PagesFor(bytes)
  <2>1. page \in Nat /\ count \in Nat \ {0}
    BY DivisionNat, PagesForNat, MemoryAssumption DEF FixedRequests
  <2>2. ASSUME CanAlloc(page, count), Claim(page, count)
        PROVE  ArraysOK' /\ result' \in Nat
    <3>1. page \in Pages /\ ~pageStatus[page]
      BY <2>1, <2>2, MemoryAssumption DEF CanAlloc, Pages
    <3>2. QED
      BY <3>1, <2>1, <2>2, <1>0, ClaimKeepsArrays, PageAddress DEF Claim
  <2>3. ASSUME Fail PROVE ArraysOK' /\ result' \in Nat
    BY <2>3, <1>0, <1>2, SameArrays DEF Fail
  <2>4. ArraysOK' /\ result' \in Nat
    BY <1>8, <2>2, <2>3 DEF AllocateMemAt
  <2>5. QED
    BY <2>4, <1>0, <1>8 DEF AllocateMemAt, FixedRequests, TypeOK, IInv, ArraysOK, ScanSound
<1>9. ASSUME NEW addr \in Addresses, FreeMem(addr) PROVE IInv'
  <2> DEFINE page == addr \div PageBytes
  <2>1. ASSUME Freeable(addr),
               SetStatusPage(page, page + pageAllocationSizes[page], FALSE),
               pageAllocationSizes' = [pageAllocationSizes EXCEPT ![page] = 0],
               result' = addr
        PROVE  ArraysOK' /\ result' \in Nat
    <3>1. page \in Pages /\ pageAllocationSizes[page] # 0
      BY <2>1, DivisionNat, MemoryAssumption DEF Freeable, Pages
    <3>2. ArraysOK'
      BY <3>1, <2>1, <1>0, FreeKeepsArrays
    <3>3. QED
      BY <3>2, <2>1, MemoryAssumption
  <2>2. ASSUME Fail PROVE ArraysOK' /\ result' \in Nat
    BY <2>2, <1>0, <1>2, SameArrays DEF Fail
  <2>3. ArraysOK' /\ result' \in Nat
    BY <1>9, <2>1, <2>2 DEF FreeMem
  <2>4. QED
    BY <2>3, <1>0, <1>9 DEF FreeMem, TypeOK, IInv, ArraysOK, ScanSound
<1>10. CASE UNCHANGED vars
  <2>1. ArraysOK'
    BY <1>0, <1>10, SameArrays DEF vars
  <2>2. pagesToAlloc' = pagesToAlloc
    BY <1>10 DEF vars, pagesToAlloc, bytesToAlloc, PagesFor
  <2>3. ScanSound'
    BY <1>0, <1>10, <2>2 DEF vars, ScanSound, FitsAt, CanAlloc, IsBlock
  <2>4. TypeOK'
    BY <1>0, <1>10 DEF vars, TypeOK
  <2>5. QED
    BY <2>1, <2>3, <2>4 DEF IInv, ArraysOK
<1>11. QED
  BY <1>3, <1>4, <1>5, <1>6, <1>7, <1>8, <1>9, <1>10 DEF Next, ScanTurn

-----------------------------------------------------------------------------
\* Every reachable state of the allocator satisfies the invariant.
THEOREM Invariant == Spec => []IInv
BY InitIInv, NextIInv, PTL DEF Spec

\* The allocator's arrays, its loop counter and its answers keep their types
\* (gpu_memory.h).
THEOREM TypeCorrect == Spec => []TypeOK
<1>1. IInv => TypeOK
  BY DEF IInv
<1>2. QED
  BY <1>1, Invariant, PTL

\* No two blocks ever share a page and none reaches past the end of VRAM, for
\* every sequence of allocations and of frees at whatever addresses
\* (gpu_memory.c:78-165).
THEOREM BlocksNeverOverlap == Spec => []BlocksDisjoint
<1>1. IInv => BlocksDisjoint
  BY DEF IInv
<1>2. QED
  BY <1>1, Invariant, PTL

\* A page is taken exactly when a block holds it: no page is lost by a free and
\* none is given back while its block lives (gpu_memory.c:92, 157).
THEOREM NoPageLost == Spec => []StatusMatchesBlocks
<1>1. IInv => StatusMatchesBlocks
  BY DEF IInv
<1>2. QED
  BY <1>1, Invariant, PTL

\* The scan of GpuAllocateMem stands at a block's start or at a free page and
\* has passed no place where the request fits (gpu_memory.c:88-108).
THEOREM ScanIsFirstFit == Spec => []ScanSound
<1>1. IInv => ScanSound
  BY DEF IInv
<1>2. QED
  BY <1>1, Invariant, PTL

-----------------------------------------------------------------------------
(***************************************************************************)
(* A grant is large enough.                                                *)
(***************************************************************************)

\* Rounding up to whole pages loses no byte (gpu_memory.c:86).
LEMMA RoundingUp ==
  ASSUME NEW bytes \in Nat, NEW unit \in Nat \ {0}
  PROVE  ((bytes + unit - 1) \div unit) * unit >= bytes
<1> DEFINE total == bytes + unit - 1
           whole == total \div unit
<1>1. total \in Nat /\ whole \in Nat
  BY DivisionNat
<1>2. total < unit * whole + unit
  BY <1>1, SMTT(30)
<1>3. unit * whole \in Nat /\ unit * whole = whole * unit
  BY <1>1
<1>4. ASSUME NEW product \in Nat, total < product + unit PROVE product >= bytes
  BY <1>4
<1>5. QED
  BY <1>2, <1>3, <1>4

\* A request that wraps when it is rounded up needs no page (gpu_memory.c:86).
LEMMA WrappedRequest ==
  ASSUME NEW bytes \in 0 .. UIntMod - 1, bytes + PageBytes > UIntMod
  PROVE  ((bytes + PageBytes - 1) % UIntMod) \div PageBytes = 0
<1>1. bytes + PageBytes - 1 - UIntMod \in 0 .. PageBytes - 2 /\ PageBytes < UIntMod
  <2>1. PageBytes * 1 <= PageBytes * PageCount
    BY MemoryAssumption, SMTT(30)
  <2>2. QED
    BY <2>1, MemoryAssumption
<1>2. (bytes + PageBytes - 1) % UIntMod = bytes + PageBytes - 1 - UIntMod
  BY <1>1, MemoryAssumption, SMTT(30)
<1>3. ASSUME NEW rest \in 0 .. PageBytes - 2 PROVE rest \div PageBytes = 0
  BY <1>3, MemoryAssumption, SMTT(30)
<1>4. QED
  BY <1>1, <1>2, <1>3

\* The page of the address of a page is the page (gpu_memory.c:99, 148).
LEMMA PageOfAddress ==
  ASSUME NEW page \in Nat
  PROVE  (page * PageBytes) \div PageBytes = page
BY MemoryAssumption, SMTT(30)

\* What GpuAllocateMem grants has room for every byte asked for, and is nothing
\* when the request wraps as it is rounded up to pages (gpu_memory.c:86).
THEOREM GrantIsLargeEnough == Spec => GrantCoversRequest
<1> DEFINE granted == pageAllocationSizes'[result' \div PageBytes]
           Goal ==
             scanning /\ ~scanning' /\ result' # GPU_NO_MEM =>
               IF bytesToAlloc + PageBytes <= UIntMod
                 THEN granted * PageBytes >= bytesToAlloc
                 ELSE granted = 0
<1>1. IInv /\ [Next]_vars => [Goal]_vars
  <2> SUFFICES ASSUME IInv, Next, scanning, ~scanning', result' # GPU_NO_MEM
               PROVE  IF bytesToAlloc + PageBytes <= UIntMod
                        THEN granted * PageBytes >= bytesToAlloc
                        ELSE granted = 0
    OBVIOUS
  <2>1. pageCounter < PageCount /\ ScanClaims
    BY DEF Next, AllocateMem, ScanTurn, ScanSkipsBlock, ScanStepsOn, ScanFails,
           Fail, AllocateMemAt, FreeMem
  <2>2. pageCounter \in Nat /\ pageCounter \in Pages
        /\ bytesToAlloc \in 0 .. UIntMod - 1
    BY <2>1, RequestWidth, MemoryAssumption DEF IInv, TypeOK, Pages
  <2>3. result' \div PageBytes = pageCounter
    BY <2>1, <2>2, PageOfAddress DEF ScanClaims, Claim
  <2>4. granted = PagesFor(bytesToAlloc)
    <3>1. pageAllocationSizes'[pageCounter] = PagesFor(bytesToAlloc)
      BY <2>1, <2>2 DEF ScanClaims, Claim, IInv, TypeOK, pagesToAlloc
    <3>2. QED
      BY <2>3, <3>1
  <2>5. CASE bytesToAlloc + PageBytes <= UIntMod
    <3>1. (bytesToAlloc + PageBytes - 1) % UIntMod = bytesToAlloc + PageBytes - 1
      BY <2>2, <2>5, MemoryAssumption
    <3>2. PagesFor(bytesToAlloc) * PageBytes >= bytesToAlloc
      BY <2>2, <3>1, RoundingUp, MemoryAssumption DEF PagesFor
    <3>3. QED
      BY <2>4, <2>5, <3>2
  <2>6. CASE ~(bytesToAlloc + PageBytes <= UIntMod)
    <3>1. bytesToAlloc + PageBytes > UIntMod
      BY <2>2, <2>6, MemoryAssumption
    <3>2. PagesFor(bytesToAlloc) = 0
      BY <2>2, <3>1, WrappedRequest DEF PagesFor
    <3>3. QED
      BY <2>4, <2>6, <3>2
  <2>7. QED
    BY <2>5, <2>6
<1>2. QED
  BY <1>1, Invariant, PTL DEF Spec, GrantCoversRequest

-----------------------------------------------------------------------------
(***************************************************************************)
(* The arrays implement VramHeap.                                          *)
(***************************************************************************)
HeapBlocks ==
  {[page |-> p, pages |-> pageAllocationSizes[p]] : p \in {q \in Pages : IsBlock(q)}}

\* A scan that runs was asked for by a caller.
ScanRequested == scanning => call.op = "allocate" /\ call.bytes \in Requests

\* No address of a page is the value that stands for a failure
\* (gpu_memory.h, GPU_NO_MEM).
LEMMA AddressIsNoFailure ==
  ASSUME NEW page \in Pages
  PROVE  page * PageBytes # GPU_NO_MEM
<1>1. /\ page \in Nat /\ PageBytes \in Nat /\ PageBytes > 0 /\ PageCount \in Nat
      /\ UIntMod \in Nat /\ PageBytes * PageCount < UIntMod
      /\ PageCount - page \in Nat /\ PageCount - page > 0
  BY MemoryAssumption DEF Pages
<1>2. PICK rest \in Nat : PageCount = page + rest + 1
  <2>1. PageCount - page - 1 \in Nat /\ PageCount = page + (PageCount - page - 1) + 1
    BY <1>1
  <2>. QED BY <2>1
<1>3. /\ page * PageBytes \in Nat /\ rest * PageBytes \in Nat
      /\ PageBytes * PageCount = page * PageBytes + rest * PageBytes + PageBytes
  BY <1>1, <1>2, SMT
<1>4. QED
  BY <1>1, <1>3 DEF GPU_NO_MEM

\* A page is free in the arrays exactly when no block of the heap holds it.
LEMMA UnusedIsFree ==
  ASSUME ArraysOK, NEW q \in Pages
  PROVE  Heap!Unused(q) <=> ~pageStatus[q]
<1>1. Heap!Unused(q) <=> \A p \in Pages : IsBlock(p) => ~InBlock(p, q)
  <2>1. \A p \in Pages :
          InBlock(p, q) <=> q \in p .. p + pageAllocationSizes[p] - 1
    BY DEF InBlock, ArraysOK, Pages
  <2>2. Heap!Unused(q) <=>
          \A b \in HeapBlocks : q \notin b.page .. b.page + b.pages - 1
    BY DEF Heap!Unused, HeapBlocks
  <2>3. ASSUME \A b \in HeapBlocks : q \notin b.page .. b.page + b.pages - 1,
               NEW p \in Pages, IsBlock(p)
        PROVE  ~InBlock(p, q)
    <3> DEFINE c == [page |-> p, pages |-> pageAllocationSizes[p]]
    <3>1. c \in HeapBlocks
      BY <2>3 DEF HeapBlocks
    <3>2. q \notin c.page .. c.page + c.pages - 1
      BY <2>3, <3>1
    <3>3. c.page = p /\ c.pages = pageAllocationSizes[p]
      OBVIOUS
    <3>4. QED
      BY <2>1, <3>2, <3>3
  <2>4. ASSUME \A p \in Pages : IsBlock(p) => ~InBlock(p, q), NEW b \in HeapBlocks
        PROVE  q \notin b.page .. b.page + b.pages - 1
    <3>1. PICK p \in Pages : IsBlock(p) /\ b = [page |-> p, pages |-> pageAllocationSizes[p]]
      BY <2>4 DEF HeapBlocks
    <3>2. b.page = p /\ b.pages = pageAllocationSizes[p]
      BY <3>1
    <3>3. QED
      BY <2>1, <2>4, <3>1, <3>2
  <2>5. QED
    BY <2>2, <2>3, <2>4, Zenon
<1>2. \A p \in Pages : InBlock(p, q) => IsBlock(p)
  BY DEF InBlock, IsBlock, ArraysOK, Pages
<1>3. QED
  BY <1>1, <1>2 DEF ArraysOK, StatusMatchesBlocks

\* A place fits in the heap exactly when the scan would take it.
LEMMA FitsIsCanAlloc ==
  ASSUME ArraysOK, NEW p \in Pages, NEW n \in Nat
  PROVE  Heap!Fits(p, n) <=> ~pageStatus[p] /\ CanAlloc(p, n)
<1>1. p + n <= PageCount => \A q \in p .. p + n - 1 : q \in Pages
  BY MemoryAssumption DEF Pages
<1>2. QED
  BY <1>1, UnusedIsFree DEF Heap!Fits, Heap!Pages, Pages, CanAlloc

\* Claiming a free page grants it, also to a request for nothing.
LEMMA ClaimGrants ==
  ASSUME ArraysOK, NEW page \in Pages, NEW count \in Nat, ~pageStatus[page],
         Claim(page, count), ~scanning'
  PROVE  Heap!Grant(page, count)
<1>1. pageAllocationSizes' = [pageAllocationSizes EXCEPT ![page] = count]
  BY DEF Claim
<1>2. ~IsBlock(page)
  BY DEF ArraysOK, StatusMatchesBlocks, InBlock, IsBlock, Pages
<1>3. \A p \in Pages : /\ p # page => (IsBlock(p)' <=> IsBlock(p))
                       /\ p # page => pageAllocationSizes'[p] = pageAllocationSizes[p]
  BY <1>1 DEF IsBlock, ArraysOK
<1>4. pageAllocationSizes'[page] = count /\ (IsBlock(page)' <=> count # 0)
  BY <1>1 DEF IsBlock, ArraysOK
<1>5. HeapBlocks' =
        IF count = 0 THEN HeapBlocks ELSE HeapBlocks \cup {[page |-> page, pages |-> count]}
  BY <1>2, <1>3, <1>4, Zenon DEF HeapBlocks
<1>6. result' # GPU_NO_MEM /\ result' \div PageBytes = page
  BY AddressIsNoFailure, PageOfAddress DEF Claim, Pages
<1>7. QED
  BY <1>5, <1>6 DEF Heap!Grant, HeapBlocks, GPU_NO_MEM

\* A call that fails refuses.
LEMMA FailRefuses == Fail /\ ~scanning' => Heap!Refuse
BY DEF Fail, Heap!Refuse, Heap!Refused, IsBlock, GPU_NO_MEM

\* Freeing takes the block out of the heap.
LEMMA FreeTakesBlock ==
  ASSUME ArraysOK, NEW addr \in Addresses, Freeable(addr),
         pageAllocationSizes' =
           [pageAllocationSizes EXCEPT ![addr \div PageBytes] = 0],
         result' = addr, ~scanning'
  PROVE  addr \div PageBytes \in Pages /\ Heap!Free(addr \div PageBytes)
<1> DEFINE page == addr \div PageBytes
           b    == [page |-> page, pages |-> pageAllocationSizes[page]]
<1>1. addr \in Nat /\ PageBytes \in Nat \ {0}
  BY MemoryAssumption
<1>2. page \in Pages /\ addr = page * PageBytes
  BY <1>1, DivisionNat, MemoryAssumption, SMTT(30) DEF Freeable, Pages
<1>3. IsBlock(page)
  BY <1>2 DEF Freeable, IsBlock, ArraysOK
<1>4. \A p \in Pages : /\ p # page => (IsBlock(p)' <=> IsBlock(p))
                       /\ p # page => pageAllocationSizes'[p] = pageAllocationSizes[p]
  BY <1>2 DEF IsBlock, ArraysOK
<1>5. ~IsBlock(page)'
  BY <1>2 DEF IsBlock, ArraysOK
<1>6. b \in HeapBlocks /\ b.page = page
  BY <1>2, <1>3 DEF HeapBlocks
<1>7. HeapBlocks' = HeapBlocks \ {b}
  <2> HIDE DEF page
  <2>1. \A p \in Pages :
          [page |-> p, pages |-> pageAllocationSizes[p]] = b <=> p = page
    BY <1>2
  <2>2. QED
    BY <2>1, <1>2, <1>4, <1>5, Zenon DEF HeapBlocks
<1>8. result' # GPU_NO_MEM /\ result' \div PageBytes = page
  BY <1>2, AddressIsNoFailure
<1>9. QED
  BY <1>2, <1>6, <1>7, <1>8 DEF Heap!Free, HeapBlocks, GPU_NO_MEM

\* The call the heap sees, and what it was answered.
HeapCall ==
  [op |-> call.op, pages |-> PagesFor(call.bytes), page |-> PageNamed(call.addr)]

HeapAnswer ==
  IF scanning THEN -2 ELSE IF result = GPU_NO_MEM THEN -1 ELSE result \div PageBytes

\* Only a scan leaves a call without an answer: no page and no refusal looks like
\* a pending answer (gpu_memory.c:88).
LEMMA PendingIsScanning ==
  ASSUME TypeOK
  PROVE  HeapAnswer = Heap!Pending <=> scanning
<1>1. result \div PageBytes \in Nat
  BY DivisionNat, MemoryAssumption DEF TypeOK
<1>2. QED
  BY <1>1 DEF HeapAnswer, Heap!Pending

\* Nothing asked for, or no address, are no pages and page 0 (gpu_memory.c:86).
LEMMA NothingAsked == PagesFor(0) = 0 /\ PageNamed(0) = 0
<1>1. PageBytes - 1 \in Nat /\ PageBytes - 1 < PageBytes /\ PageBytes \in Nat \ {0}
  BY MemoryAssumption
<1>2. PageBytes <= PageBytes * PageCount
  BY MemoryAssumption
<1>3. (0 + PageBytes - 1) % UIntMod = PageBytes - 1
  BY <1>1, <1>2, MemoryAssumption
<1>4. (PageBytes - 1) \div PageBytes = 0 /\ 0 \div PageBytes = 0 /\ 0 % PageBytes = 0
  BY <1>1
<1>5. QED
  BY <1>3, <1>4, MemoryAssumption DEF PagesFor, PageNamed

\* The page an address names is one of VRAM's or none.
LEMMA PageNamedIsPlace ==
  ASSUME NEW addr \in Addresses
  PROVE  /\ PageNamed(addr) \in Heap!Places
         /\ addr % PageBytes = 0 /\ addr \div PageBytes \in Pages =>
              PageNamed(addr) = addr \div PageBytes
<1>1. addr \div PageBytes \in Nat
  BY DivisionNat, MemoryAssumption
<1>2. QED
  BY <1>1, MemoryAssumption
     DEF PageNamed, Heap!Places, Heap!Pages, Heap!Nowhere, Pages

\* GpuAllocateMem asks the heap for whole pages (gpu_memory.c:86).
LEMMA AllocateMemAsks ==
  ASSUME TypeOK, NEW bytes \in Requests, AllocateMem(bytes)
  PROVE  Heap!Ask(PagesFor(bytes))
<1>1. HeapAnswer # Heap!Pending /\ HeapAnswer' = Heap!Pending
  BY PendingIsScanning DEF AllocateMem, HeapAnswer, Heap!Pending
<1>2. HeapCall' = [op |-> "allocate", pages |-> PagesFor(bytes), page |-> 0]
  BY NothingAsked DEF AllocateMem, HeapCall, PageNamed, PagesFor
<1>3. HeapBlocks' = HeapBlocks
  BY DEF AllocateMem, HeapBlocks, IsBlock
<1>4. QED
  BY <1>1, <1>2, <1>3 DEF Heap!Ask, HeapAnswer, HeapCall, HeapBlocks

\* The call that a scan answers stays what it was.
LEMMA SameCall ==
  ASSUME UNCHANGED call
  PROVE  HeapCall' = HeapCall
BY DEF HeapCall, PageNamed, PagesFor

\* A scan that ends answers the call it runs for: with the first place that fits,
\* or with a refusal when there is none (gpu_memory.c:88-110).
LEMMA ScanReplies ==
  ASSUME IInv, ScanRequested, scanning, ~scanning', UNCHANGED call,
         \/ pageCounter < PageCount /\ ScanClaims
         \/ pageCounter >= PageCount /\ Fail
  PROVE  Heap!Reply
<1>0. ArraysOK /\ TypeOK /\ ScanSound
  BY DEF IInv, TypeOK, ArraysOK
<1>1. pagesToAlloc \in Nat
  BY <1>0, RequestWidth, PagesForNat DEF pagesToAlloc
<1>2. PICK n \in Nat : n = pagesToAlloc
  BY <1>1
<1>3. HeapAnswer = Heap!Pending /\ HeapCall' = HeapCall /\ PagesFor(call.bytes) = n
  BY <1>0, <1>2, PendingIsScanning, SameCall DEF pagesToAlloc, bytesToAlloc
<1>7. ASSUME Heap!Allocate(n) PROVE Heap!Reply
  <2>0. HeapCall.pages = n
    BY <1>3, SMT DEF HeapCall
  <2>1. Heap!Allocate(HeapCall.pages)
    BY <2>0, <1>7, Zenon DEF Heap!Allocate, Heap!Grant, Heap!Fits
  <2>2. QED
    BY <2>1, <1>3, Zenon DEF Heap!Reply, HeapAnswer, HeapCall
<1>4. ASSUME NEW q \in Pages, q < pageCounter PROVE ~Heap!Fits(q, n)
  <2>1. ~(~pageStatus[q] /\ CanAlloc(q, n))
    BY <1>0, <1>2, <1>4 DEF ScanSound, FitsAt
  <2>2. QED
    BY <2>1, <1>0, FitsIsCanAlloc
<1>5. CASE pageCounter < PageCount /\ ScanClaims
  <2>1. PICK p \in Pages : p = pageCounter
    BY <1>0, <1>5, MemoryAssumption DEF TypeOK, Pages
  <2>2. ~pageStatus[p] /\ CanAlloc(p, n) /\ Claim(p, n)
    BY <1>5, <1>2, <2>1 DEF ScanClaims
  <2>3. Heap!Fits(p, n) /\ Heap!Grant(p, n)
    BY <1>0, <2>2, FitsIsCanAlloc, ClaimGrants
  <2>4. ASSUME NEW q \in 0 .. p - 1 PROVE ~Heap!Fits(q, n)
    <3>1. q \in Pages /\ q < pageCounter
      BY <2>1, MemoryAssumption DEF Pages
    <3>2. QED
      BY <3>1, <1>4
  <2>5. Heap!Allocate(n)
    BY <2>3, <2>4 DEF Heap!Allocate, Heap!Pages, Pages
  <2>6. QED
    BY <2>5, <1>7
<1>6. CASE pageCounter >= PageCount /\ Fail
  <2>1. ASSUME NEW q \in Pages PROVE ~Heap!Fits(q, n)
    <3>1. q < pageCounter
      BY <1>0, <1>6, MemoryAssumption DEF TypeOK, Pages
    <3>2. QED
      BY <3>1, <1>4
  <2>2. Heap!Allocate(n)
    BY <1>6, <2>1, FailRefuses DEF Heap!Allocate, Heap!Pages, Pages
  <2>3. QED
    BY <2>2, <1>7
<1>8. QED
  BY <1>5, <1>6

\* GpuAllocateMemAt takes the place it is given when it fits there, and refuses
\* only when it does not (gpu_memory.c:119-135).
LEMMA AllocateMemAtAsks ==
  ASSUME ArraysOK, TypeOK, NEW bytes \in FixedRequests, NEW addr \in Addresses,
         AllocateMemAt(bytes, addr)
  PROVE  Heap!AskAt(PageNamed(addr), PagesFor(bytes))
<1>1. PICK n \in Nat \ {0} : n = PagesFor(bytes)
  BY PagesForNat, MemoryAssumption DEF FixedRequests
<1>2. PICK page \in Nat : page = addr \div PageBytes
  BY DivisionNat, MemoryAssumption
<1>3. HeapAnswer # Heap!Pending /\ ~scanning'
  BY PendingIsScanning DEF AllocateMemAt
<1>4. HeapCall' = [op |-> "allocateAt", pages |-> n, page |-> PageNamed(addr)]
  BY <1>1 DEF AllocateMemAt, HeapCall, PageNamed, PagesFor
<1>5. Heap!AllocateAt(PageNamed(addr), n)
  <2>1. CASE addr % PageBytes = 0 /\ CanAlloc(page, n)
    <3>1. page \in Pages /\ ~pageStatus[page]
      BY <1>1, <1>2, <2>1, MemoryAssumption DEF CanAlloc, Pages
    <3>2. PageNamed(addr) = page
      BY <1>2, <2>1, <3>1, PageNamedIsPlace
    <3>3. Claim(page, n)
      BY <1>1, <1>2, <2>1 DEF AllocateMemAt
    <3>4. Heap!Fits(page, n) /\ Heap!Grant(page, n)
      BY <1>3, <2>1, <3>1, <3>3, FitsIsCanAlloc, ClaimGrants
    <3>5. QED
      BY <3>2, <3>4 DEF Heap!AllocateAt
  <2>2. CASE addr % PageBytes # 0 \/ ~CanAlloc(page, n)
    <3>1. Heap!Refuse
      BY <1>1, <1>2, <1>3, <2>2, FailRefuses DEF AllocateMemAt
    <3>2. ~Heap!Fits(PageNamed(addr), n)
      <4>1. CASE PageNamed(addr) = -1
        BY <4>1 DEF Heap!Fits, Heap!Pages
      <4>2. CASE PageNamed(addr) # -1
        <5>1. addr % PageBytes = 0 /\ page \in Pages /\ PageNamed(addr) = page
          BY <1>2, <4>2, MemoryAssumption DEF PageNamed, Pages
        <5>2. QED
          BY <2>2, <5>1, FitsIsCanAlloc
      <4>3. QED
        BY <4>1, <4>2
    <3>3. QED
      BY <3>1, <3>2 DEF Heap!AllocateAt
  <2>3. QED
    BY <2>1, <2>2
<1>6. QED
  BY <1>1, <1>3, <1>4, <1>5 DEF Heap!AskAt, HeapAnswer, HeapCall

\* GpuFreeMem gives back the block that starts at its address, and refuses only
\* when none does (gpu_memory.c:144-165).
LEMMA FreeMemGivesBack ==
  ASSUME ArraysOK, TypeOK, NEW addr \in Addresses, FreeMem(addr)
  PROVE  Heap!GiveBack(PageNamed(addr))
<1>1. HeapAnswer # Heap!Pending /\ ~scanning'
  BY PendingIsScanning DEF FreeMem
<1>2. HeapCall' = [op |-> "free", pages |-> 0, page |-> PageNamed(addr)]
  BY NothingAsked DEF FreeMem, HeapCall, PageNamed, PagesFor
<1>3. PICK page \in Nat : page = addr \div PageBytes
  BY DivisionNat, MemoryAssumption
<1>4. Heap!Free(PageNamed(addr))
  <2>1. CASE Freeable(addr)
    <3>1. /\ pageAllocationSizes' =
               [pageAllocationSizes EXCEPT ![addr \div PageBytes] = 0]
          /\ result' = addr
      BY <2>1 DEF FreeMem
    <3>2. addr \div PageBytes \in Pages /\ Heap!Free(addr \div PageBytes)
      BY <1>1, <2>1, <3>1, FreeTakesBlock
    <3>3. PageNamed(addr) = addr \div PageBytes
      BY <2>1, <3>2, PageNamedIsPlace DEF Freeable
    <3>4. QED
      BY <3>2, <3>3
  <2>2. CASE ~Freeable(addr)
    <3>1. Heap!Refuse
      BY <1>1, <2>2, FailRefuses DEF FreeMem
    <3>2. ASSUME NEW b \in HeapBlocks PROVE b.page # PageNamed(addr)
      <4>1. PICK p \in Pages : IsBlock(p) /\ b = [page |-> p, pages |-> pageAllocationSizes[p]]
        BY DEF HeapBlocks
      <4>2. b.page = p /\ p # -1 /\ pageAllocationSizes[p] # 0
        BY <4>1 DEF Pages, IsBlock
      <4>3. PageNamed(addr) # -1 => addr % PageBytes = 0 /\ page < PageCount
                                     /\ PageNamed(addr) = page
        BY <1>3 DEF PageNamed
      <4>4. QED
        BY <1>3, <2>2, <4>2, <4>3 DEF Freeable
    <3>3. QED
      BY <3>1, <3>2 DEF Heap!Free, HeapBlocks
  <2>3. QED
    BY <2>1, <2>2
<1>5. QED
  BY <1>1, <1>2, <1>4 DEF Heap!GiveBack, HeapAnswer, HeapCall

\* Every step of the allocator is a step of the heap or leaves it alone.
LEMMA NextImplements ==
  ASSUME IInv, ScanRequested, [Next]_vars
  PROVE  [Heap!HeapNext]_(Heap!heapVars)
<1>0. ArraysOK /\ TypeOK /\ ScanSound
  BY DEF IInv, TypeOK, ArraysOK
<1>1. CASE UNCHANGED <<pageStatus, pageAllocationSizes, result, scanning, call>>
  BY <1>1 DEF Heap!heapVars, IsBlock, PageNamed, PagesFor
<1>2. ASSUME NEW bytes \in Requests, AllocateMem(bytes) PROVE Heap!HeapNext
  <2>1. Heap!Ask(PagesFor(bytes))
    BY <1>0, <1>2, AllocateMemAsks
  <2>2. QED
    BY <2>1, Zenon DEF Heap!HeapNext
<1>3. CASE scanning /\ pageCounter < PageCount /\ ScanClaims
  <2>1. Heap!Reply
    BY <1>3, ScanReplies DEF ScanClaims, ScanReturns
  <2>2. QED
    BY <2>1 DEF Heap!HeapNext
<1>4. CASE ScanFails
  <2>1. Heap!Reply
    BY <1>4, ScanReplies DEF ScanFails, ScanReturns
  <2>2. QED
    BY <2>1 DEF Heap!HeapNext
<1>5. ASSUME NEW bytes \in FixedRequests, NEW addr \in Addresses,
             AllocateMemAt(bytes, addr)
      PROVE  Heap!HeapNext
  <2>1. Heap!AskAt(PageNamed(addr), PagesFor(bytes)) /\ PageNamed(addr) \in Heap!Places
    BY <1>0, <1>5, AllocateMemAtAsks, PageNamedIsPlace
  <2>2. PagesFor(bytes) \in {PagesFor(b) : b \in Requests} \ {0}
    BY PagesForNat, MemoryAssumption DEF FixedRequests
  <2>3. QED
    BY <2>1, <2>2, Zenon DEF Heap!HeapNext
<1>6. ASSUME NEW addr \in Addresses, FreeMem(addr) PROVE Heap!HeapNext
  <2>1. Heap!GiveBack(PageNamed(addr)) /\ PageNamed(addr) \in Heap!Places
    BY <1>0, <1>6, FreeMemGivesBack, PageNamedIsPlace
  <2>2. QED
    BY <2>1, Zenon DEF Heap!HeapNext
<1>7. QED
  BY <1>1, <1>2, <1>3, <1>4, <1>5, <1>6
     DEF Next, ScanTurn, ScanSkipsBlock, ScanStepsOn, vars

\* A scan keeps the request it was called with.
LEMMA NextKeepsRequest ==
  ASSUME ScanRequested, [Next]_vars
  PROVE  ScanRequested'
<1>1. CASE UNCHANGED <<scanning, call>>
  BY <1>1 DEF ScanRequested
<1>2. ASSUME NEW bytes \in Requests, AllocateMem(bytes) PROVE ScanRequested'
  BY <1>2 DEF ScanRequested, AllocateMem
<1>3. CASE ~scanning'
  BY <1>3 DEF ScanRequested
<1>4. ASSUME NEW bytes, NEW addr, AllocateMemAt(bytes, addr) PROVE ~scanning'
  BY <1>4 DEF AllocateMemAt
<1>5. ASSUME NEW addr, FreeMem(addr) PROVE ~scanning'
  BY <1>5 DEF FreeMem
<1>6. ScanTurn \/ ScanFails => ~scanning' \/ UNCHANGED <<scanning, call>>
  BY DEF ScanTurn, ScanClaims, ScanSkipsBlock, ScanStepsOn, ScanFails, ScanReturns
<1>7. QED
  BY <1>1, <1>2, <1>3, <1>4, <1>5, <1>6 DEF Next, vars

\* The two arrays, the scan over them and the arithmetic on addresses implement
\* HeapCalls: every allocation is answered with the first place that fits and
\* refused only when there is none, every fixed allocation and every free is
\* refused only when its place does not fit or starts no block, for every VRAM,
\* page size, width of UINT32 and callers (gpu_memory.c:78-165).
THEOREM ArraysImplementHeap == Spec => ImplementsHeap
<1>1. Init => Heap!HeapInit
  <2>1. SUFFICES ASSUME Init PROVE Heap!HeapInit
    OBVIOUS
  <2>2. HeapCall = Heap!NoCall
    BY <2>1, NothingAsked DEF Init, HeapCall, Heap!NoCall
  <2>3. QED
    BY <2>1, <2>2 DEF Init, Heap!HeapInit, Heap!NoBlocks, Heap!Refused, HeapCall, IsBlock
<1>2. Init => ScanRequested
  BY DEF Init, ScanRequested
<1>3. IInv /\ ScanRequested /\ [Next]_vars => [Heap!HeapNext]_(Heap!heapVars)
  BY NextImplements
<1>4. ScanRequested /\ [Next]_vars => ScanRequested'
  BY NextKeepsRequest
<1>5. QED
  BY <1>1, <1>2, <1>3, <1>4, Invariant, PTL DEF Spec, ImplementsHeap, Heap!HeapSpec
=============================================================================
