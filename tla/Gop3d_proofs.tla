---------------------------- MODULE Gop3d_proofs ----------------------------
(***************************************************************************)
(* The invariants of the buffers hold for every size of VRAM and of the    *)
(* system's blocks, every set of handles, slots and sizes, every batch and *)
(* ring, and for any client: no proof but that of NoBlockLost and those of *)
(* the draws looks at Careful.                                             *)
(***************************************************************************)
EXTENDS Gop3d, TLAPS

\* A block has a first page, so that it is known by it.
BlocksWhole ==
  /\ \A b \in blocks : b.page + b.pages <= PageCount
  /\ \A b, c \in blocks : b # c => Extent(b) \cap Extent(c) = {}

\* The buffer an update has moved away from is no handle's any more.
OldIsNoHandles ==
  oldAddr # 0 =>
    /\ \E b \in ClientBlocks : b.page = oldAddr
    /\ \A h \in Handles : addr[h] # oldAddr
    /\ status = "success"

\* UploadsIntact, said of the blocks.
UploadsInBlocks ==
  \A b \in blocks, h \in Handles :
    addr[h] = b.page /\ addr[h] # 0 =>
      \A p \in Extent(b) : data[p] \in {h, Stray}

BuffersOK ==
  /\ BlocksWhole
  /\ SystemBlocksStay
  /\ HandlesOwnBlocks
  /\ OldIsNoHandles
  /\ UploadsInBlocks

\* The length of a block is a number of pages (gpu_memory.c:141).
LEMMA AllocatedPagesNat ==
  ASSUME TypeOK, NEW page \in Pages
  PROVE  AllocatedPages(page) \in Nat
<1> DEFINE starts == {b \in blocks : b.page = page}
<1>1. CASE starts = {}
  BY <1>1 DEF AllocatedPages
<1>2. CASE starts # {}
  <2>1. (CHOOSE b \in starts : TRUE) \in starts
    BY <1>2
  <2>2. (CHOOSE b \in starts : TRUE).pages \in Nat
    BY <2>1 DEF TypeOK
  <2>3. QED
    BY <1>2, <2>2 DEF AllocatedPages
<1>3. QED
  BY <1>1, <1>2

\* An allocation answers with a page or is refused (gpu_memory.c:88-110).
LEMMA AllocateType ==
  ASSUME TypeOK, NEW n \in Sizes, Heap!Allocate(n)
  PROVE  /\ blocks' \subseteq [page : Pages, pages : Nat \ {0}]
         /\ answer' \in Pages \cup {Heap!Refused}
<1>1. n \in Nat \ {0}
  BY Gop3dAssumption
<1>2. CASE (\A p \in Heap!Pages : ~Heap!Fits(p, n)) /\ Heap!Refuse
  BY <1>2 DEF TypeOK, Heap!Refuse, Heap!Refused
<1>3. CASE \E p \in Heap!Pages : Heap!Grant(p, n)
  BY <1>1, <1>3 DEF TypeOK, Heap!Grant, Heap!Pages, Pages
<1>4. QED
  BY <1>2, <1>3 DEF Heap!Allocate

\* What every page holds after an upload has its type (gpu_memory.c:172).
LEMMA UploadType ==
  ASSUME TypeOK, NEW h \in Handles, NEW page, NEW n, Upload(h, page, n)
  PROVE  /\ data' \in [Pages -> Handles \cup {Nothing, Screen, Stray}]
         /\ shaded' \subseteq Pages
BY DEF TypeOK, Upload

\* A transfer keeps the types of blocks, answer and contents (gop3d.c:181-195).
LEMMA AllocateAndUploadType ==
  ASSUME TypeOK, NEW h \in Handles, NEW n \in Sizes, AllocateAndUpload(h, n)
  PROVE  /\ blocks' \subseteq [page : Pages, pages : Nat \ {0}]
         /\ answer' \in Pages \cup {Heap!Refused}
         /\ addr' \in [Handles -> Pages]
         /\ data' \in [Pages -> Handles \cup {Nothing, Screen, Stray}]
         /\ shaded' \subseteq Pages
         /\ status' \in {"success", "error"}
<1>1. Heap!Allocate(n)
  BY DEF AllocateAndUpload
<1>2. blocks' \subseteq [page : Pages, pages : Nat \ {0}]
      /\ answer' \in Pages \cup {Heap!Refused}
  BY <1>1, AllocateType
<1>3. CASE status' = "error" /\ UNCHANGED <<addr, pageVars>>
  BY <1>2, <1>3 DEF TypeOK, pageVars
<1>4. CASE /\ answer' \notin {0, Heap!Refused}
           /\ status' = "success"
           /\ addr' = [addr EXCEPT ![h] = answer']
           /\ Upload(h, answer', n)
  BY <1>2, <1>4, UploadType DEF TypeOK
<1>5. QED
  BY <1>3, <1>4 DEF AllocateAndUpload

\* The type invariant holds initially.
LEMMA InitType == Init => TypeOK
<1> SUFFICES ASSUME Init PROVE TypeOK
  OBVIOUS
<1> USE Gop3dAssumption DEF Init
<1>1. blocks \subseteq [page : Pages, pages : Nat \ {0}] /\ answer \in Pages
  BY DEF SystemBlocks, FrameBlock, DepthBlock, RingBlock, Pages
<1>2. 0 \in Pages
  BY DEF Pages
<1>3. recorded \in Seq(Cmds) /\ queue \in Seq(Cmds)
  OBVIOUS
<1>4. config \in [Slots -> [page : Pages, pages : Nat]]
  BY <1>2
<1>5. QED
  BY <1>1, <1>2, <1>3, <1>4 DEF TypeOK, Modes

\* Every step keeps the type invariant.
LEMMA StepType ==
  ASSUME TypeOK, [Next]_vars
  PROVE  TypeOK'
<1> USE Gop3dAssumption
<1>1. ASSUME NEW h \in Handles, NEW n \in Sizes, TransferBuffer(h, n)
      PROVE  TypeOK'
  BY <1>1, AllocateAndUploadType DEF TypeOK, TransferBuffer, queueVars
<1>2. ASSUME NEW h \in Handles, NEW n \in Sizes, UpdateInPlace(h, n)
      PROVE  TypeOK'
  BY <1>2, UploadType DEF TypeOK, UpdateInPlace, queueVars, heapVars
<1>3. ASSUME NEW h \in Handles, NEW n \in Sizes, UpdateGrows(h, n)
      PROVE  TypeOK'
  <2>1. oldAddr' \in Pages
    BY <1>3 DEF TypeOK, UpdateGrows, Pages
  <2>2. QED
    BY <1>3, <2>1, AllocateAndUploadType DEF TypeOK, UpdateGrows, queueVars
<1>4. ASSUME NEW p \in Pages, Heap!Free(p)
      PROVE  /\ blocks' \subseteq [page : Pages, pages : Nat \ {0}]
             /\ answer' \in Pages \cup {Heap!Refused}
  BY <1>4 DEF TypeOK, Heap!Free, Heap!Refuse
<1>5. 0 \in Pages
  BY DEF Pages
<1>6. CASE FreeOld
  BY <1>4, <1>5, <1>6 DEF TypeOK, FreeOld, queueVars, pageVars
<1>7. ASSUME NEW h \in Handles, FreeBuffer(h)
      PROVE  TypeOK'
  BY <1>4, <1>5, <1>7 DEF TypeOK, FreeBuffer, queueVars, heapVars, pageVars
<1>8. CASE CmdBegin
  BY <1>8 DEF TypeOK, CmdBegin, bufferVars, Queue!Discard
<1>9. ASSUME NEW cmd \in Cmds, AddCmd(cmd)
      PROVE  TypeOK'
  <2>1. recorded' \in Seq(Cmds)
    BY <1>9 DEF TypeOK, AddCmd, Queue!Record
  <2>2. QED
    BY <1>9, <2>1 DEF TypeOK, AddCmd, bufferVars, Queue!Record
<1>10. ASSUME NEW s \in Slots, NEW h \in Handles, Bind(s, h)
       PROVE  TypeOK'
  <2>1. addr[h] \in Pages /\ AllocatedPages(addr[h]) \in Nat
    BY AllocatedPagesNat DEF TypeOK
  <2>2. [op |-> "bind", slot |-> s, page |-> addr[h],
         pages |-> AllocatedPages(addr[h])] \in Cmds
    BY <2>1 DEF Cmds
  <2>3. QED
    BY <1>9, <1>10, <2>2 DEF Bind
<1>11. ASSUME NEW topology \in {"points", "lines", "triangles"}, Draw(topology)
       PROVE  TypeOK'
  BY <1>9, <1>11 DEF Draw, Cmds
<1>12. CASE ClearFrame
  BY <1>9, <1>12 DEF ClearFrame, Cmds
<1>13. CASE Submit
  <2>1. queue' \in Seq(Cmds) /\ recorded' \in Seq(Cmds)
    BY <1>13 DEF TypeOK, Submit, Queue!Submit
  <2>2. busy' \in BOOLEAN
    BY <1>13 DEF Submit, Queue!Submit
  <2>3. QED
    BY <1>13, <2>1, <2>2 DEF TypeOK, Submit, bufferVars
<1>14. CASE SubmitFails
  BY <1>14 DEF TypeOK, SubmitFails, bufferVars, queueVars
<1>15. ASSUME NEW m \in Modes, SetMode(m)
       PROVE  TypeOK'
  BY <1>15 DEF TypeOK, SetMode, bufferVars, queueVars
<1>16. CASE ExecuteCommand
  <2>1. queue # <<>> /\ queue' = Tail(queue) /\ UNCHANGED <<recorded, busy>>
    BY <1>16 DEF ExecuteCommand, Queue!Execute
  <2>2. queue' \in Seq(Cmds) /\ Head(queue) \in Cmds
    BY <2>1 DEF TypeOK
  <2>3. config' \in [Slots -> [page : Pages, pages : Nat]]
        /\ data' \in [Pages -> Handles \cup {Nothing, Screen, Stray}]
        /\ shaded' \subseteq Pages
    <3>1. CASE ExecuteBind
      <4>1. Head(queue) \in [op : {"bind"}, slot : Slots, page : Pages, pages : Nat]
        BY <2>2, <3>1 DEF ExecuteBind, Cmds
      <4>2. QED
        BY <3>1, <4>1 DEF ExecuteBind, TypeOK, pageVars
    <3>2. CASE ExecuteClear
      BY <3>2 DEF ExecuteClear, TypeOK
    <3>3. CASE ExecuteDraw
      BY <3>3 DEF ExecuteDraw, DrawsNothing, DrawsPicture, PagesShaded, TypeOK, pageVars
    <3>4. QED
      BY <1>16, <3>1, <3>2, <3>3 DEF ExecuteCommand
  <2>4. QED
    BY <1>16, <2>1, <2>2, <2>3 DEF TypeOK, ExecuteCommand, heapVars
<1>17. CASE SubmitReturns
  BY <1>17 DEF TypeOK, SubmitReturns, bufferVars, Queue!Return
<1>18. CASE GuestReset
  <2>1. blocks' \subseteq [page : Pages, pages : Nat \ {0}] /\ answer' \in Pages
    BY <1>18 DEF GuestReset, SystemBlocks, FrameBlock, DepthBlock, RingBlock, Pages
  <2>2. recorded' \in Seq(Cmds) /\ queue' \in Seq(Cmds)
    BY <1>18 DEF GuestReset
  <2>3. QED
    BY <1>5, <1>18, <2>1, <2>2 DEF TypeOK, GuestReset, Modes, pageVars
<1>19. CASE UNCHANGED vars
  BY <1>19 DEF TypeOK, vars
<1>20. QED
  BY <1>1, <1>2, <1>3, <1>6, <1>7, <1>8, <1>10, <1>11, <1>12, <1>13, <1>14,
     <1>15, <1>16, <1>17, <1>18, <1>19 DEF Next

\* What the allocator, the protocol and the device keep has its type
\* throughout (gop3d.c:161-251, gpu.c:66-121).
THEOREM TypeCorrect == Spec => []TypeOK
BY InitType, StepType, PTL DEF Spec
-----------------------------------------------------------------------------
\* The page a block starts at is its own and no other block's.
LEMMA StartsDiffer ==
  ASSUME TypeOK, BlocksWhole, NEW b \in blocks, NEW c \in blocks, b.page = c.page
  PROVE  b = c
<1>1. b.page \in Nat /\ b.pages \in Nat \ {0} /\ c.pages \in Nat \ {0}
  BY DEF TypeOK, Pages
<1>2. b.page \in Extent(b) /\ b.page \in Extent(c)
  BY <1>1 DEF Extent
<1>3. QED
  BY <1>2 DEF BlocksWhole

\* The length read at the start of a block is the block's (gpu_memory.c:141).
LEMMA LengthOfBlock ==
  ASSUME TypeOK, BlocksWhole, NEW b \in blocks
  PROVE  AllocatedPages(b.page) = b.pages /\ BlockOf(b.page) = b
<1> DEFINE starts == {c \in blocks : c.page = b.page}
<1>1. starts = {b}
  BY StartsDiffer
<1>2. (CHOOSE c \in starts : TRUE) = b
  BY <1>1
<1>3. (CHOOSE c \in blocks : c.page = b.page) \in starts
  OBVIOUS
<1>4. QED
  BY <1>1, <1>2, <1>3 DEF AllocatedPages, BlockOf

\* Pages from p on begin with p.
LEMMA FirstPage ==
  ASSUME NEW p \in Nat, NEW n \in Nat \ {0}
  PROVE  p \in p .. p + n - 1
OBVIOUS

\* What fits is within.
LEMMA ShorterFits ==
  ASSUME NEW p \in Nat, NEW n \in Nat, NEW m \in Nat, m >= n
  PROVE  p .. p + n - 1 \subseteq p .. p + m - 1
OBVIOUS

\* A block's pages are pages of VRAM.
LEMMA ExtentInPages ==
  ASSUME NEW b \in [page : Pages, pages : Nat \ {0}], b.page + b.pages <= PageCount
  PROVE  Extent(b) \subseteq Pages
BY Gop3dAssumption DEF Extent, Pages

\* A granted block is free of all others, and starts at none of them
\* (gpu_memory.c:88-101).
LEMMA GrantIsFree ==
  ASSUME TypeOK, NEW n \in Sizes, Heap!Allocate(n), answer' # Heap!Refused
  PROVE  /\ answer' \in Pages /\ answer' + n <= PageCount
         /\ blocks' = blocks \cup {[page |-> answer', pages |-> n]}
         /\ \A b \in blocks : Extent(b) \cap (answer' .. answer' + n - 1) = {}
<1>1. PICK p \in Heap!Pages : Heap!Fits(p, n) /\ Heap!Grant(p, n)
  BY DEF Heap!Allocate, Heap!Refuse
<1>2. n \in Nat \ {0} /\ p \in Pages
  BY Gop3dAssumption DEF Heap!Pages, Pages
<1>3. answer' = p /\ blocks' = blocks \cup {[page |-> p, pages |-> n]}
  BY <1>1, <1>2 DEF Heap!Grant
<1>4. p + n <= PageCount /\ \A q \in p .. p + n - 1 : Heap!Unused(q)
  BY <1>1 DEF Heap!Fits
<1>5. \A b \in blocks : Extent(b) \cap (p .. p + n - 1) = {}
  BY <1>4 DEF Heap!Unused, Extent
<1>6. QED
  BY <1>2, <1>3, <1>4, <1>5

\* A refused allocation takes nothing (gpu_memory.c:110).
LEMMA RefusalTakesNothing ==
  ASSUME NEW n \in Sizes, TypeOK, Heap!Allocate(n), answer' = Heap!Refused
  PROVE  blocks' = blocks
<1>1. Heap!Refused \notin Heap!Pages
  BY DEF Heap!Refused, Heap!Pages
<1>2. QED
  BY <1>1 DEF Heap!Allocate, Heap!Grant, Heap!Refuse

\* The framebuffer holds page 0, so that no grant is mistaken for a failure
\* (gop3d.c:183).
LEMMA GrantIsNotZero ==
  ASSUME TypeOK, SystemBlocksStay, NEW n \in Sizes, Heap!Allocate(n),
         answer' # Heap!Refused
  PROVE  answer' # 0
<1>1. FrameBlock \in blocks /\ 0 \in Extent(FrameBlock)
  BY Gop3dAssumption DEF SystemBlocksStay, SystemBlocks, FrameBlock, Extent
<1>2. n \in Nat \ {0}
  BY Gop3dAssumption
<1>3. 0 \notin answer' .. answer' + n - 1
  BY <1>1, GrantIsFree
<1>4. 0 \in 0 .. 0 + n - 1
  BY <1>2
<1>5. QED
  BY <1>3, <1>4

\* AllocateAndUpload either leaves everything as it was and reports an error,
\* or moves the handle to a new block that holds the upload (gop3d.c:181).
LEMMA AllocateAndUploadOutcome ==
  ASSUME TypeOK, SystemBlocksStay, NEW h \in Handles, NEW n \in Sizes,
         AllocateAndUpload(h, n)
  PROVE  \/ status' = "error" /\ UNCHANGED <<blocks, addr, pageVars>>
         \/ /\ status' = "success"
            /\ Heap!Allocate(n)
            /\ answer' \in Pages \ {0} /\ answer' # Heap!Refused
            /\ addr' = [addr EXCEPT ![h] = answer']
            /\ Upload(h, answer', n)
<1>1. Heap!Allocate(n)
  BY DEF AllocateAndUpload
<1>2. CASE answer' = Heap!Refused
  BY <1>1, <1>2, RefusalTakesNothing DEF AllocateAndUpload
<1>3. CASE answer' # Heap!Refused
  BY <1>1, <1>3, GrantIsFree, GrantIsNotZero DEF AllocateAndUpload
<1>4. QED
  BY <1>2, <1>3

\* Moving a handle to a new block keeps the buffers sound, whether it had no
\* buffer, left one behind or hands its old one to be freed (gop3d.c:219-231).
LEMMA MoveKeepsBuffers ==
  ASSUME TypeOK, BuffersOK, NEW h \in Handles, NEW n \in Sizes,
         oldAddr = 0, oldAddr' \in {0, addr[h]},
         status' = "success",
         Heap!Allocate(n), answer' \in Pages \ {0}, answer' # Heap!Refused,
         addr' = [addr EXCEPT ![h] = answer'],
         Upload(h, answer', n)
  PROVE  BuffersOK'
<1> DEFINE new == [page |-> answer', pages |-> n]
<1>1. n \in Nat \ {0}
  BY Gop3dAssumption
<1>2. /\ answer' + n <= PageCount
      /\ blocks' = blocks \cup {new}
      /\ \A b \in blocks : Extent(b) \cap Extent(new) = {}
  BY GrantIsFree DEF Extent
<1>3. \A b \in blocks : b.page # answer'
  <2>1. SUFFICES ASSUME NEW b \in blocks, b.page = answer' PROVE FALSE
    OBVIOUS
  <2>2. b.pages \in Nat \ {0} /\ answer' \in Nat
    BY <2>1 DEF TypeOK, Pages
  <2>3. answer' \in Extent(b)
    BY <2>1, <2>2 DEF Extent
  <2>4. answer' \in Extent(new)
    <3>1. Extent(new) = answer' .. answer' + n - 1
      BY DEF Extent
    <3>2. answer' \in answer' .. answer' + n - 1
      BY <1>1, <2>2, FirstPage
    <3>3. QED
      BY <3>1, <3>2
  <2>5. QED
    BY <1>2, <2>1, <2>3, <2>4
<1>4. BlocksWhole'
  <2>1. \A b \in blocks' : b.page + b.pages <= PageCount
    BY <1>2 DEF BuffersOK, BlocksWhole
  <2>2. \A b, c \in blocks' : b # c => Extent(b) \cap Extent(c) = {}
    BY <1>2 DEF BuffersOK, BlocksWhole
  <2>3. QED
    BY <2>1, <2>2 DEF BlocksWhole, Extent
<1>5. SystemBlocksStay'
  BY <1>2 DEF BuffersOK, SystemBlocksStay, SystemBlocks
<1>6. SystemBlocks \subseteq blocks
  BY DEF BuffersOK, SystemBlocksStay
<1>7. new \in ClientBlocks' /\ ClientBlocks \subseteq ClientBlocks'
  BY <1>2, <1>3, <1>6 DEF ClientBlocks, SystemBlocks
<1>8. \A k \in Handles : addr[k] # 0 => addr[k] # answer'
  BY <1>3 DEF BuffersOK, HandlesOwnBlocks, ClientBlocks
<1>9. HandlesOwnBlocks'
  <2>1. \A k \in Handles : addr'[k] = IF k = h THEN answer' ELSE addr[k]
    BY DEF TypeOK
  <2>2. \A k \in Handles : addr'[k] # 0 => \E b \in ClientBlocks' : b.page = addr'[k]
    BY <1>7, <2>1 DEF BuffersOK, HandlesOwnBlocks
  <2>3. \A k, l \in Handles : k # l /\ addr'[k] # 0 => addr'[k] # addr'[l]
    BY <1>8, <2>1 DEF BuffersOK, HandlesOwnBlocks
  <2>4. QED
    BY <2>2, <2>3 DEF HandlesOwnBlocks
<1>10. OldIsNoHandles'
  <2>1. SUFFICES ASSUME oldAddr' # 0
                 PROVE  /\ \E b \in ClientBlocks' : b.page = oldAddr'
                        /\ \A k \in Handles : addr'[k] # oldAddr'
    BY DEF OldIsNoHandles
  <2>2. oldAddr' = addr[h] /\ addr[h] # 0
    BY <2>1
  <2>3. \A k \in Handles : addr'[k] # addr[h]
    BY <1>8, <2>2 DEF TypeOK, BuffersOK, HandlesOwnBlocks
  <2>4. QED
    BY <1>7, <2>2, <2>3 DEF BuffersOK, HandlesOwnBlocks
<1>11. UploadsInBlocks'
  <2>1. SUFFICES ASSUME NEW b \in blocks', NEW k \in Handles,
                        addr'[k] = b.page, addr'[k] # 0,
                        NEW p \in Extent(b)
                 PROVE  data'[p] \in {k, Stray}
    BY DEF UploadsInBlocks, Extent
  <2>2. p \in Pages
    <3>1. b \in [page : Pages, pages : Nat \ {0}]
      BY <1>1, <1>2, <2>1 DEF TypeOK
    <3>2. b.page + b.pages <= PageCount
      BY <1>4, <2>1 DEF BlocksWhole
    <3>3. QED
      BY <2>1, <3>1, <3>2, ExtentInPages
  <2>3. data'[p] = IF p \in Extent(new) THEN h ELSE data[p]
    BY <2>2 DEF Upload, Extent
  <2>4. CASE b = new
    <3>1. k = h
      BY <1>8, <2>1, <2>4 DEF TypeOK
    <3>2. QED
      BY <2>1, <2>3, <2>4, <3>1
  <2>5. CASE b \in blocks
    <3>1. k # h
      BY <1>3, <2>1, <2>5 DEF TypeOK
    <3>2. data[p] \in {k, Stray}
      BY <2>1, <2>5, <3>1 DEF TypeOK, BuffersOK, UploadsInBlocks
    <3>3. QED
      BY <1>2, <2>1, <2>3, <2>5, <3>2
  <2>6. QED
    BY <1>2, <2>4, <2>5
<1>12. QED
  BY <1>4, <1>5, <1>9, <1>10, <1>11 DEF BuffersOK
\* The system's blocks are apart and inside VRAM (rom.c:161-170).
LEMMA SystemBlocksWhole ==
  /\ \A b \in SystemBlocks : b.page + b.pages <= PageCount
  /\ \A b, c \in SystemBlocks : b # c => Extent(b) \cap Extent(c) = {}
<1> USE Gop3dAssumption DEF FrameBlock, DepthBlock, RingBlock
<1>1. \A b \in SystemBlocks : b.page + b.pages <= PageCount
  BY DEF SystemBlocks
<1>2. /\ Extent(FrameBlock) \cap Extent(DepthBlock) = {}
      /\ Extent(FrameBlock) \cap Extent(RingBlock) = {}
      /\ Extent(DepthBlock) \cap Extent(RingBlock) = {}
  BY DEF Extent
<1>3. \A b, c \in SystemBlocks : b # c => Extent(b) \cap Extent(c) = {}
  BY <1>2 DEF SystemBlocks
<1>4. QED
  BY <1>1, <1>3

\* A driver that has just started has sound buffers (rom.c:157-225).
LEMMA StartHasBuffers ==
  ASSUME blocks = SystemBlocks, addr = [h \in Handles |-> 0], oldAddr = 0
  PROVE  BuffersOK
BY SystemBlocksWhole DEF BuffersOK, BlocksWhole, SystemBlocksStay,
   HandlesOwnBlocks, OldIsNoHandles, UploadsInBlocks

\* Giving back a block that is no handle's any more keeps the buffers sound
\* (gop3d.c:228, 246).
LEMMA FreeKeepsBuffers ==
  ASSUME TypeOK, BuffersOK, NEW b \in ClientBlocks,
         Heap!Free(b.page),
         \/ addr' = addr /\ \A h \in Handles : addr[h] # b.page
         \/ \E h \in Handles : addr[h] = b.page /\ addr' = [addr EXCEPT ![h] = 0],
         oldAddr' = 0, UNCHANGED data
  PROVE  BuffersOK'
<1>1. b \in blocks
  BY DEF ClientBlocks
<1>2. blocks' = blocks \ {b}
  <2>1. \A c \in blocks : c.page = b.page => c = b
    BY <1>1, StartsDiffer DEF BuffersOK
  <2>2. QED
    BY <1>1, <2>1 DEF Heap!Free
<1>3. \A h \in Handles : addr'[h] # 0 => addr'[h] = addr[h] /\ addr'[h] # b.page
  BY DEF TypeOK, BuffersOK, HandlesOwnBlocks
<1>4. BlocksWhole'
  <2>1. BlocksWhole
    BY DEF BuffersOK
  <2>2. \A c \in blocks' : c \in blocks
    BY <1>2
  <2>3. QED
    BY <2>1, <2>2 DEF BlocksWhole, Extent
<1>5. SystemBlocksStay'
  BY <1>2 DEF BuffersOK, SystemBlocksStay, ClientBlocks, SystemBlocks
<1>6. \A c \in ClientBlocks : c.page # b.page => c \in ClientBlocks'
  BY <1>2 DEF ClientBlocks, SystemBlocks
<1>7. HandlesOwnBlocks'
  <2>1. \A h \in Handles : addr'[h] # 0 => \E c \in ClientBlocks' : c.page = addr'[h]
    BY <1>3, <1>6 DEF BuffersOK, HandlesOwnBlocks
  <2>2. \A h, k \in Handles : h # k /\ addr'[h] # 0 => addr'[h] # addr'[k]
    BY <1>3 DEF BuffersOK, HandlesOwnBlocks
  <2>3. QED
    BY <2>1, <2>2 DEF HandlesOwnBlocks
<1>8. OldIsNoHandles'
  BY DEF OldIsNoHandles
<1>9. UploadsInBlocks'
  BY <1>2, <1>3 DEF BuffersOK, UploadsInBlocks, Extent
<1>10. QED
  BY <1>4, <1>5, <1>7, <1>8, <1>9 DEF BuffersOK

\* Overwriting a buffer in place reaches no other handle's, also when the
\* handle has none and it is the framebuffer that is overwritten (gop3d.c:214).
LEMMA OverwriteKeepsBuffers ==
  ASSUME TypeOK, BuffersOK, NEW h \in Handles, NEW n \in Sizes,
         AllocatedPages(addr[h]) >= n, Upload(h, addr[h], n),
         oldAddr = 0, UNCHANGED <<blocks, addr, oldAddr>>
  PROVE  BuffersOK'
<1>1. UploadsInBlocks'
  <2>1. SUFFICES ASSUME NEW b \in blocks, NEW k \in Handles,
                        addr[k] = b.page, addr[k] # 0,
                        NEW p \in Extent(b)
                 PROVE  data'[p] \in {k, Stray}
    BY DEF UploadsInBlocks, Extent
  <2>2. p \in Pages
    BY ExtentInPages DEF TypeOK, BuffersOK, BlocksWhole
  <2>3. data'[p] = IF p \in addr[h] .. addr[h] + n - 1 THEN h ELSE data[p]
    BY <2>2 DEF Upload
  <2>4. data[p] \in {k, Stray}
    BY <2>1 DEF BuffersOK, UploadsInBlocks
  <2>5. CASE k = h
    BY <2>3, <2>4, <2>5
  <2>6. CASE k # h
    <3>1. PICK c \in blocks : c.page = addr[h]
      BY Gop3dAssumption DEF BuffersOK, HandlesOwnBlocks, ClientBlocks,
         SystemBlocksStay, SystemBlocks, FrameBlock
    <3>2. c # b
      BY <2>1, <2>6, <3>1 DEF BuffersOK, HandlesOwnBlocks
    <3>3. Extent(c) \cap Extent(b) = {}
      BY <3>2 DEF BuffersOK, BlocksWhole
    <3>4. c.pages >= n
      BY <3>1, LengthOfBlock DEF BuffersOK
    <3>5. addr[h] .. addr[h] + n - 1 \subseteq Extent(c)
      <4>1. c.page \in Nat /\ c.pages \in Nat
        BY DEF TypeOK, Pages
      <4>2. n \in Nat
        BY Gop3dAssumption
      <4>3. QED
        BY <3>1, <3>4, <4>1, <4>2, ShorterFits DEF Extent
    <3>6. QED
      BY <2>3, <2>4, <3>3, <3>5
  <2>7. QED
    BY <2>5, <2>6
<1>2. QED
  BY <1>1 DEF BuffersOK, BlocksWhole, SystemBlocksStay, SystemBlocks,
     HandlesOwnBlocks, OldIsNoHandles, ClientBlocks

\* A picture is drawn into the framebuffer and the z-buffer, which are no
\* handle's; the pixels of a line that leaves the screen fall anywhere and are
\* told from every upload (gpu.c:66-121).
LEMMA DrawingKeepsBuffers ==
  ASSUME TypeOK, BuffersOK, UNCHANGED <<blocks, addr, oldAddr, status>>,
         \A p \in Pages :
           \/ data'[p] \in {data[p], Stray}
           \/ p \in Extent(FrameBlock) \cup Extent(DepthBlock)
  PROVE  BuffersOK'
<1>1. UploadsInBlocks'
  <2>1. SUFFICES ASSUME NEW b \in blocks, NEW k \in Handles,
                        addr[k] = b.page, addr[k] # 0,
                        NEW p \in Extent(b)
                 PROVE  data'[p] \in {k, Stray}
    BY DEF UploadsInBlocks, Extent
  <2>2. p \in Pages
    BY ExtentInPages DEF TypeOK, BuffersOK, BlocksWhole
  <2>3. data[p] \in {k, Stray}
    BY <2>1 DEF BuffersOK, UploadsInBlocks
  <2>4. b \in ClientBlocks
    <3>1. PICK c \in ClientBlocks : c.page = b.page
      BY <2>1 DEF BuffersOK, HandlesOwnBlocks
    <3>2. QED
      BY <3>1, StartsDiffer DEF BuffersOK, ClientBlocks
  <2>5. /\ FrameBlock \in blocks /\ FrameBlock # b
        /\ DepthBlock \in blocks /\ DepthBlock # b
    BY <2>4 DEF BuffersOK, SystemBlocksStay, ClientBlocks, SystemBlocks
  <2>6. p \notin Extent(FrameBlock) \cup Extent(DepthBlock)
    BY <2>5 DEF BuffersOK, BlocksWhole
  <2>7. QED
    BY <2>2, <2>3, <2>6
<1>2. QED
  BY <1>1 DEF BuffersOK, BlocksWhole, SystemBlocksStay, SystemBlocks,
     HandlesOwnBlocks, OldIsNoHandles, ClientBlocks

\* What leaves the buffers alone keeps them sound.
LEMMA OthersKeepBuffers ==
  ASSUME BuffersOK, UNCHANGED bufferVars
  PROVE  BuffersOK'
BY DEF BuffersOK, bufferVars, BlocksWhole, SystemBlocksStay, SystemBlocks,
   HandlesOwnBlocks, OldIsNoHandles, UploadsInBlocks, ClientBlocks, Extent
-----------------------------------------------------------------------------
\* Every step keeps the buffers sound.
LEMMA StepBuffers ==
  ASSUME TypeOK, BuffersOK, [Next]_vars
  PROVE  BuffersOK'
<1>1. ASSUME NEW h \in Handles, NEW n \in Sizes, AllocateAndUpload(h, n),
             oldAddr = 0,
             \/ oldAddr' = 0
             \/ oldAddr' = IF status' = "success" THEN addr[h] ELSE 0
      PROVE  BuffersOK'
  <2>1. CASE status' = "error" /\ UNCHANGED <<blocks, addr, pageVars>>
    <3>1. oldAddr' = 0
      BY <1>1, <2>1
    <3>2. QED
      BY <2>1, <3>1 DEF BuffersOK, BlocksWhole, SystemBlocksStay, SystemBlocks,
         HandlesOwnBlocks, OldIsNoHandles, UploadsInBlocks, ClientBlocks, Extent, pageVars
  <2>2. CASE /\ status' = "success"
             /\ Heap!Allocate(n)
             /\ answer' \in Pages \ {0} /\ answer' # Heap!Refused
             /\ addr' = [addr EXCEPT ![h] = answer']
             /\ Upload(h, answer', n)
    <3>1. oldAddr' \in {0, addr[h]}
      BY <1>1, <2>2
    <3>2. QED
      BY <1>1, <2>2, <3>1, MoveKeepsBuffers
  <2>3. QED
    BY <1>1, <2>1, <2>2, AllocateAndUploadOutcome DEF BuffersOK
<1>2. ASSUME NEW h \in Handles, NEW n \in Sizes, TransferBuffer(h, n)
      PROVE  BuffersOK'
  BY <1>1, <1>2 DEF TransferBuffer, Ready
<1>3. ASSUME NEW h \in Handles, NEW n \in Sizes, UpdateInPlace(h, n)
      PROVE  BuffersOK'
  BY <1>3, OverwriteKeepsBuffers DEF UpdateInPlace, Ready, heapVars
<1>4. ASSUME NEW h \in Handles, NEW n \in Sizes, UpdateGrows(h, n)
      PROVE  BuffersOK'
  BY <1>1, <1>4 DEF UpdateGrows, Ready
<1>5. CASE FreeOld
  <2>1. PICK b \in ClientBlocks : b.page = oldAddr
    BY <1>5 DEF FreeOld, BuffersOK, OldIsNoHandles
  <2>2. \A h \in Handles : addr[h] # b.page
    BY <1>5, <2>1 DEF FreeOld, BuffersOK, OldIsNoHandles
  <2>3. QED
    BY <1>5, <2>1, <2>2, FreeKeepsBuffers DEF FreeOld, pageVars
<1>6. ASSUME NEW h \in Handles, FreeBuffer(h)
      PROVE  BuffersOK'
  <2>1. oldAddr = 0 /\ oldAddr' = 0 /\ data' = data
        /\ addr' = [addr EXCEPT ![h] = 0]
    BY <1>6 DEF FreeBuffer, Ready, pageVars
  <2>2. CASE addr[h] # 0 /\ Heap!Free(addr[h])
    <3>1. PICK b \in ClientBlocks : b.page = addr[h]
      BY <2>2 DEF BuffersOK, HandlesOwnBlocks
    <3>2. QED
      BY <2>1, <2>2, <3>1, FreeKeepsBuffers
  <2>3. CASE addr[h] = 0 /\ UNCHANGED heapVars
    <3>1. addr' = addr /\ blocks' = blocks
      BY <2>1, <2>3 DEF TypeOK, heapVars
    <3>2. QED
      BY <2>1, <3>1 DEF BuffersOK, BlocksWhole, SystemBlocksStay, SystemBlocks,
         HandlesOwnBlocks, OldIsNoHandles, UploadsInBlocks, ClientBlocks, Extent
  <2>4. QED
    BY <1>6, <2>2, <2>3 DEF FreeBuffer
<1>7. CASE CmdBegin
  BY <1>7, OthersKeepBuffers DEF CmdBegin
<1>8. ASSUME NEW cmd, AddCmd(cmd)
      PROVE  BuffersOK'
  BY <1>8, OthersKeepBuffers DEF AddCmd
<1>9. ASSUME NEW s \in Slots, NEW h \in Handles, Bind(s, h)
      PROVE  BuffersOK'
  BY <1>8, <1>9 DEF Bind
<1>10. ASSUME NEW topology \in {"points", "lines", "triangles"}, Draw(topology)
       PROVE  BuffersOK'
  BY <1>8, <1>10 DEF Draw
<1>11. CASE ClearFrame
  BY <1>8, <1>11 DEF ClearFrame
<1>12. CASE Submit
  BY <1>12, OthersKeepBuffers DEF Submit
<1>13. CASE SubmitFails
  BY <1>13, OthersKeepBuffers DEF SubmitFails
<1>14. ASSUME NEW m \in Modes, SetMode(m)
       PROVE  BuffersOK'
  BY <1>14, OthersKeepBuffers DEF SetMode
<1>15. CASE ExecuteCommand
  <2>1. \A p \in Pages : \/ data'[p] \in {data[p], Stray}
                         \/ p \in Extent(FrameBlock) \cup Extent(DepthBlock)
    <3>1. CASE ExecuteBind
      BY <3>1 DEF ExecuteBind, pageVars
    <3>2. CASE ExecuteClear
      BY <3>2 DEF ExecuteClear
    <3>3. CASE ExecuteDraw
      BY <3>3 DEF ExecuteDraw, DrawsNothing, DrawsPicture, PagesDrawn, pageVars
    <3>4. QED
      BY <1>15, <3>1, <3>2, <3>3 DEF ExecuteCommand
  <2>2. QED
    BY <1>15, <2>1, DrawingKeepsBuffers DEF ExecuteCommand, heapVars
<1>16. CASE SubmitReturns
  BY <1>16, OthersKeepBuffers DEF SubmitReturns
<1>17. CASE GuestReset
  <2>1. blocks' = SystemBlocks /\ oldAddr' = 0 /\ addr' = [h \in Handles |-> 0]
    BY <1>17 DEF GuestReset
  <2>2. BlocksWhole'
    BY <2>1, SystemBlocksWhole DEF BlocksWhole, Extent
  <2>3. SystemBlocksStay'
    BY <2>1 DEF SystemBlocksStay, SystemBlocks
  <2>4. \A h \in Handles : addr'[h] = 0
    BY <2>1
  <2>5. QED
    BY <2>1, <2>2, <2>3, <2>4 DEF BuffersOK, HandlesOwnBlocks, OldIsNoHandles,
       UploadsInBlocks
<1>18. CASE UNCHANGED vars
  BY <1>18, OthersKeepBuffers DEF vars, bufferVars
<1>19. QED
  BY <1>2, <1>3, <1>4, <1>5, <1>6, <1>7, <1>9, <1>10, <1>11, <1>12, <1>13,
     <1>14, <1>15, <1>16, <1>17, <1>18 DEF Next

\* The buffers are sound throughout.
LEMMA BuffersInvariant == Spec => [](TypeOK /\ BuffersOK)
<1>1. Init => BuffersOK
  BY StartHasBuffers DEF Init
<1>2. TypeOK /\ BuffersOK /\ [Next]_vars => BuffersOK'
  BY StepBuffers
<1>3. QED
  BY <1>1, <1>2, InitType, StepType, PTL DEF Spec

\* No client, however it updates and frees its handles, gives back the
\* framebuffer, the z-buffer or the ring (gop3d.c:227, 245).
THEOREM SystemBlocksAreNeverFreed == Spec => []SystemBlocksStay
BY BuffersInvariant, PTL DEF BuffersOK

\* No client gets a dangling handle or two handles of one buffer
\* (gop3d.c:231, 247).
THEOREM HandlesNeverDangle == Spec => []HandlesOwnBlocks
BY BuffersInvariant, PTL DEF BuffersOK

\* Whatever the sizes, no upload of any client, no clear, no triangle and no
\* line that stays on the screen runs over another handle's upload; what a line
\* that leaves the screen stores there is its pixels and never another upload
\* (gop3d.c:214, gpu.c:66-121, renderer.c:27).
THEOREM UploadsAreNeverOverwritten == Spec => []UploadsIntact
<1>1. TypeOK /\ BuffersOK => UploadsIntact
  <2>1. SUFFICES ASSUME TypeOK, BuffersOK, NEW h \in Handles, addr[h] # 0
                 PROVE  \A p \in Extent(BlockOf(addr[h])) : data[p] \in {h, Stray}
    BY DEF UploadsIntact
  <2>2. PICK b \in blocks : b.page = addr[h]
    BY <2>1 DEF BuffersOK, HandlesOwnBlocks, ClientBlocks
  <2>3. BlockOf(addr[h]) = b
    BY <2>1, <2>2, LengthOfBlock DEF BuffersOK
  <2>4. QED
    BY <2>1, <2>2, <2>3 DEF BuffersOK, UploadsInBlocks
<1>2. QED
  BY <1>1, BuffersInvariant, PTL
\* A call that fails has given back and taken no block, has changed no handle
\* and has copied nothing (gop3d.c:181-224).
THEOREM FailuresChangeNothing == Spec => FailureChangesNothing
<1> DEFINE change == \/ blocks' # blocks \/ addr' # addr
                     \/ ~busy /\ pageVars' # pageVars
<1>1. ASSUME TypeOK, BuffersOK, [Next]_vars, change
      PROVE  status' = "success"
  <2>1. ASSUME NEW h \in Handles, NEW n \in Sizes, AllocateAndUpload(h, n)
        PROVE  status' = "success"
    BY <1>1, <2>1, AllocateAndUploadOutcome DEF BuffersOK
  <2>2. ASSUME UNCHANGED bufferVars
        PROVE  FALSE
    BY <1>1, <2>2 DEF bufferVars, pageVars
  <2>3. ASSUME NEW h \in Handles, NEW n \in Sizes,
               TransferBuffer(h, n) \/ UpdateInPlace(h, n) \/ UpdateGrows(h, n)
        PROVE  status' = "success"
    BY <2>1, <2>3 DEF TransferBuffer, UpdateInPlace, UpdateGrows
  <2>4. CASE FreeOld
    BY <1>1, <2>4 DEF FreeOld, BuffersOK, OldIsNoHandles
  <2>5. ASSUME NEW h \in Handles, FreeBuffer(h)
        PROVE  status' = "success"
    BY <2>5 DEF FreeBuffer
  <2>6. ASSUME NEW cmd, AddCmd(cmd)
        PROVE  FALSE
    BY <2>2, <2>6 DEF AddCmd
  <2>7. CASE \/ \E s \in Slots, h \in Handles : Bind(s, h)
             \/ \E topology \in {"points", "lines", "triangles"} : Draw(topology)
             \/ ClearFrame
    BY <2>6, <2>7 DEF Bind, Draw, ClearFrame
  <2>8. CASE CmdBegin \/ Submit \/ SubmitFails \/ SubmitReturns
             \/ \E m \in Modes : SetMode(m)
    BY <2>2, <2>8 DEF CmdBegin, Submit, SubmitFails, SubmitReturns, SetMode
  <2>9. CASE ExecuteCommand
    BY <1>1, <2>9 DEF ExecuteCommand, Queue!Execute, heapVars
  <2>10. CASE GuestReset
    BY <2>10 DEF GuestReset
  <2>11. CASE UNCHANGED vars
    BY <2>2, <2>11 DEF vars, bufferVars
  <2>12. QED
    BY <1>1, <2>3, <2>4, <2>5, <2>7, <2>8, <2>9, <2>10, <2>11 DEF Next
<1>2. TypeOK /\ BuffersOK /\ [Next]_vars => [change => status' = "success"]_vars
  BY <1>1
<1>3. QED
  BY <1>2, BuffersInvariant, PTL DEF Spec, FailureChangesNothing
-----------------------------------------------------------------------------
\* A block the client holds through a handle.
Live(c) == c \in ClientBlocks /\ \E h \in Handles : addr[h] = c.page

\* The commands up to a submission are one frame: every bind names a live
\* block, and before every draw each slot is bound or, on the device's side,
\* configured already.
BindsLive(cmds) ==
  \A i \in DOMAIN cmds :
    cmds[i].op = "bind" => Live([page |-> cmds[i].page, pages |-> cmds[i].pages])

BoundBefore(cmds, i, s) ==
  \E j \in DOMAIN cmds : j < i /\ cmds[j].op = "bind" /\ cmds[j].slot = s

IsDraw(cmd) == cmd.op \in {"points", "lines", "triangles"}

FrameOK ==
  /\ ~busy => queue = <<>>
  /\ oldAddr # 0 => ~busy /\ ~inFrame
  /\ inFrame =>
       /\ BindsLive(recorded)
       /\ \A i \in DOMAIN recorded : IsDraw(recorded[i]) =>
            \A s \in Slots : BoundBefore(recorded, i, s)
  /\ busy =>
       /\ ~inFrame
       /\ BindsLive(queue)
       /\ \A i \in DOMAIN queue : IsDraw(queue[i]) =>
            \A s \in Slots : Live(config[s]) \/ BoundBefore(queue, i, s)

\* As long as neither frame nor submission is under way, the buffers may
\* change (gop3d.c:161-251).
LEMMA IdleFrame ==
  ASSUME FrameOK, ~busy, ~inFrame, UNCHANGED <<queue, busy, inFrame>>
  PROVE  FrameOK'
BY DEF FrameOK

\* A bind, a draw or a clear at the end of a frame (ringbuffer.c:163).
LEMMA RecordKeepsFrame ==
  ASSUME TypeOK, FrameOK, Careful, NEW cmd \in Cmds, AddCmd(cmd),
         cmd.op = "bind" => Live([page |-> cmd.page, pages |-> cmd.pages]),
         IsDraw(cmd) => BindsAll(recorded)
  PROVE  FrameOK'
<1>1. inFrame /\ ~busy /\ oldAddr = 0 /\ recorded' = Append(recorded, cmd)
      /\ UNCHANGED <<blocks, addr, oldAddr, queue, busy, inFrame>>
  BY DEF AddCmd, Ready, bufferVars, Queue!Record
<1>2. recorded \in Seq(Cmds)
  BY DEF TypeOK
<1>3. /\ DOMAIN recorded' = 1 .. Len(recorded) + 1
      /\ DOMAIN recorded = 1 .. Len(recorded) /\ Len(recorded) \in Nat
      /\ recorded'[Len(recorded) + 1] = cmd
      /\ \A i \in 1 .. Len(recorded) : recorded'[i] = recorded[i]
  BY <1>1, <1>2
<1>4. BindsLive(recorded')
  <2>1. SUFFICES ASSUME NEW i \in DOMAIN recorded', recorded'[i].op = "bind"
                 PROVE  Live([page |-> recorded'[i].page, pages |-> recorded'[i].pages])
    BY DEF BindsLive
  <2>2. CASE i = Len(recorded) + 1
    BY <1>3, <2>1, <2>2
  <2>3. CASE i \in 1 .. Len(recorded)
    BY <1>1, <1>3, <2>1, <2>3 DEF FrameOK, BindsLive
  <2>4. QED
    BY <1>3, <2>1, <2>2, <2>3
<1>5. BindsLive(recorded)'
  BY <1>1, <1>4 DEF BindsLive, Live, ClientBlocks, SystemBlocks
<1>6. \A i \in DOMAIN recorded' : IsDraw(recorded'[i]) =>
        \A s \in Slots : BoundBefore(recorded', i, s)
  <2>1. SUFFICES ASSUME NEW i \in DOMAIN recorded', IsDraw(recorded'[i]),
                        NEW s \in Slots
                 PROVE  BoundBefore(recorded', i, s)
    OBVIOUS
  <2>2. CASE i = Len(recorded) + 1
    <3>1. PICK j \in DOMAIN recorded : recorded[j].op = "bind" /\ recorded[j].slot = s
      BY <1>3, <2>1, <2>2 DEF BindsAll
    <3>2. QED
      BY <1>3, <2>2, <3>1 DEF BoundBefore
  <2>3. CASE i \in 1 .. Len(recorded)
    <3>1. BoundBefore(recorded, i, s)
      BY <1>1, <1>3, <2>1, <2>3 DEF FrameOK
    <3>2. QED
      BY <1>3, <3>1 DEF BoundBefore
  <2>4. QED
    BY <1>3, <2>1, <2>2, <2>3
<1>7. QED
  BY <1>1, <1>5, <1>6 DEF FrameOK

\* The oldest command is executed (gpu.c:66-121).
LEMMA ExecuteKeepsFrame ==
  ASSUME TypeOK, FrameOK, ExecuteCommand
  PROVE  FrameOK'
<1>1. busy /\ queue # <<>> /\ queue' = Tail(queue)
      /\ UNCHANGED <<blocks, addr, oldAddr, busy, inFrame>>
  BY DEF ExecuteCommand, Queue!Execute, heapVars
<1>2. queue \in Seq(Cmds)
  BY DEF TypeOK
<1>3. /\ Len(queue) \in Nat \ {0} /\ DOMAIN queue = 1 .. Len(queue)
      /\ DOMAIN queue' = 1 .. Len(queue) - 1
      /\ \A i \in 1 .. Len(queue) - 1 : queue'[i] = queue[i + 1]
      /\ Head(queue) = queue[1]
  BY <1>1, <1>2
<1>4. /\ BindsLive(queue)
      /\ \A i \in DOMAIN queue : IsDraw(queue[i]) =>
           \A s \in Slots : Live(config[s]) \/ BoundBefore(queue, i, s)
  BY <1>1 DEF FrameOK
<1>5. BindsLive(queue')
  <2>1. SUFFICES ASSUME NEW i \in DOMAIN queue', queue'[i].op = "bind"
                 PROVE  Live([page |-> queue'[i].page, pages |-> queue'[i].pages])
    BY DEF BindsLive
  <2>2. i + 1 \in DOMAIN queue /\ queue'[i] = queue[i + 1]
    BY <1>3, <2>1
  <2>3. QED
    BY <1>4, <2>1, <2>2 DEF BindsLive
<1>6. BindsLive(queue)'
  BY <1>1, <1>5 DEF BindsLive, Live, ClientBlocks, SystemBlocks
<1>7. \A s \in Slots :
        config'[s] = IF queue[1].op = "bind" /\ queue[1].slot = s
                       THEN [page |-> queue[1].page, pages |-> queue[1].pages]
                       ELSE config[s]
  <2>1. CASE ExecuteBind
    BY <1>3, <2>1 DEF ExecuteBind, TypeOK
  <2>2. CASE ExecuteClear
    BY <1>3, <2>2 DEF ExecuteClear
  <2>3. CASE ExecuteDraw
    <3>1. queue[1].op # "bind" /\ config' = config
      BY <1>3, <2>3 DEF ExecuteDraw
    <3>2. QED
      BY <3>1
  <2>4. QED
    BY <2>1, <2>2, <2>3 DEF ExecuteCommand
<1>8. ASSUME NEW i \in DOMAIN queue', IsDraw(queue'[i]), NEW s \in Slots
      PROVE  Live(config[s])' \/ BoundBefore(queue', i, s)
  <2>1. i + 1 \in DOMAIN queue /\ queue'[i] = queue[i + 1] /\ i \in Nat
    BY <1>3, <1>8
  <2>2. Live(config[s]) \/ BoundBefore(queue, i + 1, s)
    BY <1>4, <1>8, <2>1
  <2>3. CASE queue[1].op = "bind" /\ queue[1].slot = s
    <3>1. Live([page |-> queue[1].page, pages |-> queue[1].pages])
      BY <1>3, <1>4, <2>3 DEF BindsLive
    <3>2. config'[s] = [page |-> queue[1].page, pages |-> queue[1].pages]
      BY <1>7, <2>3
    <3>3. QED
      BY <1>1, <3>1, <3>2 DEF Live, ClientBlocks, SystemBlocks
  <2>4. CASE ~(queue[1].op = "bind" /\ queue[1].slot = s) /\ Live(config[s])
    <3>1. config'[s] = config[s]
      BY <1>7, <2>4
    <3>2. QED
      BY <1>1, <2>4, <3>1 DEF Live, ClientBlocks, SystemBlocks
  <2>5. CASE ~(queue[1].op = "bind" /\ queue[1].slot = s)
             /\ BoundBefore(queue, i + 1, s)
    <3>1. PICK j \in DOMAIN queue :
            j < i + 1 /\ queue[j].op = "bind" /\ queue[j].slot = s
      BY <2>5 DEF BoundBefore
    <3>2. j # 1
      BY <2>5, <3>1
    <3>3. j - 1 \in DOMAIN queue' /\ queue'[j - 1] = queue[j] /\ j - 1 < i
      BY <1>3, <2>1, <3>1, <3>2
    <3>4. QED
      BY <3>1, <3>3 DEF BoundBefore
  <2>6. QED
    BY <2>2, <2>3, <2>4, <2>5
<1>9. QED
  BY <1>1, <1>6, <1>8 DEF FrameOK
\* What a careful client binds is live and whole (gop3d.c:81-155).
LEMMA BoundIsLive ==
  ASSUME TypeOK, BuffersOK, NEW h \in Handles, addr[h] # 0
  PROVE  Live([page |-> addr[h], pages |-> AllocatedPages(addr[h])])
<1>1. PICK b \in ClientBlocks : b.page = addr[h]
  BY DEF BuffersOK, HandlesOwnBlocks
<1>2. b \in blocks /\ b \in [page : Pages, pages : Nat \ {0}]
  BY DEF ClientBlocks, TypeOK
<1>3. AllocatedPages(addr[h]) = b.pages
  BY <1>1, <1>2, LengthOfBlock DEF BuffersOK
<1>4. b = [page |-> addr[h], pages |-> AllocatedPages(addr[h])]
  BY <1>1, <1>2, <1>3
<1>5. QED
  BY <1>1, <1>4 DEF Live

\* Every step of a careful client and of the device keeps its frame sound.
LEMMA StepFrame ==
  ASSUME TypeOK, BuffersOK, FrameOK, Careful, [Next]_vars
  PROVE  FrameOK'
<1>1. ASSUME NEW h \in Handles, NEW n \in Sizes,
             TransferBuffer(h, n) \/ UpdateInPlace(h, n) \/ UpdateGrows(h, n)
      PROVE  FrameOK'
  BY <1>1, IdleFrame DEF TransferBuffer, UpdateInPlace, UpdateGrows, Ready,
     BetweenFrames, queueVars
<1>2. ASSUME NEW h \in Handles, FreeBuffer(h)
      PROVE  FrameOK'
  BY <1>2, IdleFrame DEF FreeBuffer, Ready, BetweenFrames, queueVars
<1>3. CASE FreeOld
  BY <1>3, IdleFrame DEF FreeOld, FrameOK, queueVars
<1>4. CASE CmdBegin
  <2>1. /\ ~busy /\ oldAddr = 0 /\ recorded' = <<>> /\ inFrame'
        /\ UNCHANGED <<oldAddr, queue, busy>>
    BY <1>4 DEF CmdBegin, Ready, Queue!Discard, bufferVars
  <2>2. DOMAIN recorded' = {}
    BY <2>1
  <2>3. QED
    BY <2>1, <2>2 DEF FrameOK, BindsLive
<1>5. ASSUME NEW s \in Slots, NEW h \in Handles, Bind(s, h)
      PROVE  FrameOK'
  <2>1. addr[h] # 0
    BY <1>5 DEF Bind
  <2>2. addr[h] \in Pages /\ AllocatedPages(addr[h]) \in Nat
    BY AllocatedPagesNat DEF TypeOK
  <2>3. [op |-> "bind", slot |-> s, page |-> addr[h],
         pages |-> AllocatedPages(addr[h])] \in Cmds
    BY <2>2 DEF Cmds
  <2>4. QED
    BY <1>5, <2>1, <2>3, BoundIsLive, RecordKeepsFrame DEF Bind, IsDraw
<1>6. ASSUME NEW topology \in {"points", "lines", "triangles"}, Draw(topology)
      PROVE  FrameOK'
  <2>1. [op |-> topology] \in Cmds /\ BindsAll(recorded)
    BY <1>6 DEF Cmds, Draw
  <2>2. QED
    BY <1>6, <2>1, RecordKeepsFrame DEF Draw
<1>7. CASE ClearFrame
  BY <1>7, RecordKeepsFrame DEF ClearFrame, Cmds, IsDraw
<1>8. CASE Submit
  <2>1. /\ inFrame /\ ~busy /\ oldAddr = 0 /\ ~inFrame'
        /\ queue' = queue \o recorded
        /\ UNCHANGED <<blocks, addr, oldAddr>>
    BY <1>8 DEF Submit, Ready, Queue!Submit, bufferVars
  <2>2. busy'
    BY <1>8 DEF Submit, Queue!Submit
  <2>3. queue' = recorded
    BY <2>1 DEF FrameOK, TypeOK
  <2>4. BindsLive(queue)'
    <3>1. BindsLive(queue')
      BY <2>1, <2>3 DEF FrameOK
    <3>2. QED
      BY <2>1, <3>1 DEF BindsLive, Live, ClientBlocks, SystemBlocks
  <2>5. \A i \in DOMAIN queue' : IsDraw(queue'[i]) =>
          \A s \in Slots : BoundBefore(queue', i, s)
    BY <2>1, <2>3 DEF FrameOK
  <2>6. QED
    BY <2>1, <2>2, <2>4, <2>5 DEF FrameOK
<1>9. CASE SubmitFails
  BY <1>9 DEF SubmitFails, Ready, FrameOK, bufferVars, queueVars
<1>10. ASSUME NEW m \in Modes, SetMode(m)
       PROVE  FrameOK'
  BY <1>10, IdleFrame DEF SetMode, Ready, queueVars
<1>11. CASE ExecuteCommand
  BY <1>11, ExecuteKeepsFrame
<1>12. CASE SubmitReturns
  BY <1>12 DEF SubmitReturns, Queue!Return, FrameOK, bufferVars
<1>13. CASE GuestReset
  BY <1>13 DEF GuestReset, FrameOK
<1>14. CASE UNCHANGED vars
  BY <1>14 DEF vars, FrameOK, BindsLive, BoundBefore, IsDraw, Live, ClientBlocks,
     SystemBlocks
<1>15. QED
  BY <1>1, <1>2, <1>3, <1>4, <1>5, <1>6, <1>7, <1>8, <1>9, <1>10, <1>11,
     <1>12, <1>13, <1>14 DEF Next

\* A draw of a careful client reads whole live buffers, each with what was
\* uploaded for its handle but for pixels of lines that left the screen, however
\* many updates, moves, frees, failed flushes and resets came before
\* (gpu.c:108, gop3d.c:228, renderer.c:27).
THEOREM DrawsReadLiveUploads == Spec => []DrawsReadUploads
<1>1. CASE ~Careful
  <2>1. DrawsReadUploads
    BY <1>1 DEF DrawsReadUploads
  <2>2. QED
    BY <2>1, PTL
<1>2. CASE Careful
  <2>1. Init => FrameOK
    BY DEF Init, FrameOK
  <2>2. TypeOK /\ BuffersOK /\ FrameOK /\ [Next]_vars => FrameOK'
    BY <1>2, StepFrame
  <2>3. TypeOK /\ BuffersOK /\ FrameOK => DrawsReadUploads
    <3>1. SUFFICES ASSUME TypeOK, BuffersOK, FrameOK, Drawing, NEW s \in Slots
                   PROVE  /\ config[s] \in ClientBlocks
                          /\ \E h \in Handles :
                               /\ addr[h] = config[s].page
                               /\ \A p \in Extent(config[s]) : data[p] \in {h, Stray}
      BY DEF DrawsReadUploads
    <3>2. busy /\ queue # <<>> /\ IsDraw(Head(queue))
      BY <3>1 DEF Drawing, Draws, IsDraw
    <3>3. 1 \in DOMAIN queue /\ Head(queue) = queue[1] /\ DOMAIN queue \subseteq Nat \ {0}
      BY <3>1, <3>2 DEF TypeOK
    <3>4. ~BoundBefore(queue, 1, s)
      BY <3>3 DEF BoundBefore
    <3>5. \A i \in DOMAIN queue : IsDraw(queue[i]) =>
            \A t \in Slots : Live(config[t]) \/ BoundBefore(queue, i, t)
      BY <3>1, <3>2 DEF FrameOK
    <3>6. IsDraw(queue[1])
      BY <3>2, <3>3
    <3>7. Live(config[s])
      BY <3>1, <3>3, <3>4, <3>5, <3>6
    <3>8. PICK b \in ClientBlocks : b = config[s]
      BY <3>7 DEF Live
    <3>9. PICK h \in Handles : addr[h] = b.page
      BY <3>7, <3>8 DEF Live
    <3>10. b \in blocks /\ b # FrameBlock /\ FrameBlock \in blocks
      BY <3>1 DEF ClientBlocks, BuffersOK, SystemBlocksStay, SystemBlocks
    <3>11. addr[h] # 0
      <4>1. b.page # FrameBlock.page
        BY <3>1, <3>10, StartsDiffer DEF BuffersOK
      <4>2. QED
        BY <3>9, <4>1 DEF FrameBlock
    <3>12. \A p \in Extent(b) : data[p] \in {h, Stray}
      BY <3>1, <3>9, <3>10, <3>11 DEF BuffersOK, UploadsInBlocks
    <3>13. QED
      BY <3>8, <3>9, <3>12
  <2>4. QED
    BY <2>1, <2>2, <2>3, BuffersInvariant, PTL DEF Spec
<1>3. QED
  BY <1>1, <1>2
\* No buffer of a client that transfers into empty handles only is ever lost:
\* an update that moves one frees the old (gop3d.c:227), a failed one keeps it.
THEOREM NoBlockIsLost == Spec => []NoBlockLost
<1>1. CASE ~Careful
  <2>1. NoBlockLost
    BY <1>1 DEF NoBlockLost
  <2>2. QED
    BY <2>1, PTL
<1>2. CASE Careful
  <2> DEFINE Held(b) == b.page = oldAddr \/ \E h \in Handles : addr[h] = b.page
  <2>1. Init => NoBlockLost
    BY DEF Init, NoBlockLost, ClientBlocks
  <2>2. ASSUME TypeOK, BuffersOK, NoBlockLost, [Next]_vars
        PROVE  NoBlockLost'
    <3>1. SUFFICES ASSUME NEW b \in blocks', b \notin SystemBlocks
                   PROVE  Held(b)'
      BY DEF NoBlockLost, ClientBlocks, SystemBlocks
    <3>2. \A c \in blocks : c \notin SystemBlocks => Held(c)
      BY <1>2, <2>2 DEF NoBlockLost, ClientBlocks
    <3>3. ASSUME UNCHANGED <<blocks, addr, oldAddr>>
          PROVE  Held(b)'
      BY <3>1, <3>2, <3>3
    <3>4. ASSUME NEW h \in Handles, NEW n \in Sizes, AllocateAndUpload(h, n),
                 oldAddr = 0,
                 \/ addr[h] = 0 /\ oldAddr' = 0
                 \/ oldAddr' = IF status' = "success" THEN addr[h] ELSE 0
          PROVE  Held(b)'
      <4>1. CASE status' = "error" /\ UNCHANGED <<blocks, addr, pageVars>>
        BY <3>3, <3>4, <4>1
      <4>2. CASE /\ status' = "success"
                 /\ Heap!Allocate(n)
                 /\ answer' \in Pages \ {0} /\ answer' # Heap!Refused
                 /\ addr' = [addr EXCEPT ![h] = answer']
        <5>1. b.page = answer' \/ b \in blocks
          BY <2>2, <3>1, <4>2, GrantIsFree
        <5>2. addr'[h] = answer'
          BY <2>2, <4>2 DEF TypeOK
        <5>3. ASSUME b \in blocks, b.page # answer' PROVE Held(b)'
          <6>1. \E k \in Handles : addr[k] = b.page
            <7>1. b.page # 0
              BY <2>2, <3>1, <5>3, StartsDiffer
              DEF BuffersOK, SystemBlocksStay, SystemBlocks, FrameBlock
            <7>2. QED
              BY <3>1, <3>2, <3>4, <5>3, <7>1
          <6>2. PICK k \in Handles : addr[k] = b.page
            BY <6>1
          <6>3. CASE k # h
            <7>1. addr'[k] = b.page
              BY <2>2, <4>2, <6>2, <6>3 DEF TypeOK
            <7>2. QED
              BY <7>1
          <6>4. CASE k = h
            <7>1. addr[h] # 0
              BY <2>2, <3>1, <5>3, <6>2, <6>4, StartsDiffer
              DEF BuffersOK, SystemBlocksStay, SystemBlocks, FrameBlock
            <7>2. oldAddr' = b.page
              BY <3>4, <4>2, <6>2, <6>4, <7>1
            <7>3. QED
              BY <7>2
          <6>5. QED
            BY <6>3, <6>4
        <5>4. QED
          BY <5>1, <5>2, <5>3
      <4>3. QED
        BY <2>2, <3>4, <4>1, <4>2, AllocateAndUploadOutcome DEF BuffersOK
    <3>5. ASSUME NEW h \in Handles, NEW n \in Sizes,
                 TransferBuffer(h, n) \/ UpdateInPlace(h, n) \/ UpdateGrows(h, n)
          PROVE  Held(b)'
      BY <1>2, <3>3, <3>4, <3>5 DEF TransferBuffer, UpdateInPlace, UpdateGrows, Ready,
         heapVars
    <3>6. CASE FreeOld
      <4>1. PICK c \in blocks : c.page = oldAddr /\ blocks' = blocks \ {c}
        BY <2>2, <3>6 DEF FreeOld, Heap!Free, BuffersOK, OldIsNoHandles, ClientBlocks
      <4>2. b.page # oldAddr
        BY <2>2, <3>1, <4>1, StartsDiffer DEF BuffersOK
      <4>3. QED
        BY <3>1, <3>2, <3>6, <4>1, <4>2 DEF FreeOld
    <3>7. ASSUME NEW h \in Handles, FreeBuffer(h)
          PROVE  Held(b)'
      <4>1. CASE addr[h] = 0 /\ UNCHANGED heapVars
        <5>1. UNCHANGED <<blocks, addr, oldAddr>>
          BY <2>2, <3>7, <4>1 DEF TypeOK, FreeBuffer, heapVars
        <5>2. QED
          BY <3>3, <5>1
      <4>2. CASE addr[h] # 0 /\ Heap!Free(addr[h])
        <5>1. PICK c \in blocks : c.page = addr[h] /\ blocks' = blocks \ {c}
          BY <2>2, <4>2 DEF Heap!Free, BuffersOK, HandlesOwnBlocks, ClientBlocks
        <5>2. b.page # addr[h] /\ b \in blocks
          BY <2>2, <3>1, <5>1, StartsDiffer DEF BuffersOK
        <5>3. oldAddr' = oldAddr /\ addr' = [addr EXCEPT ![h] = 0]
          BY <3>7 DEF FreeBuffer
        <5>4. CASE b.page = oldAddr
          BY <5>3, <5>4
        <5>5. CASE \E k \in Handles : addr[k] = b.page
          <6>1. PICK k \in Handles : addr[k] = b.page
            BY <5>5
          <6>2. addr'[k] = b.page
            BY <2>2, <5>2, <5>3, <6>1 DEF TypeOK
          <6>3. QED
            BY <6>2
        <5>6. QED
          BY <3>1, <3>2, <5>2, <5>4, <5>5
      <4>3. QED
        BY <3>7, <4>1, <4>2 DEF FreeBuffer
    <3>8. ASSUME NEW cmd, AddCmd(cmd)
          PROVE  Held(b)'
      BY <3>3, <3>8 DEF AddCmd, bufferVars
    <3>9. CASE \/ \E s \in Slots, h \in Handles : Bind(s, h)
               \/ \E topology \in {"points", "lines", "triangles"} : Draw(topology)
               \/ ClearFrame
      BY <3>8, <3>9 DEF Bind, Draw, ClearFrame
    <3>10. CASE CmdBegin \/ Submit \/ SubmitFails \/ SubmitReturns \/ ExecuteCommand
                \/ \E m \in Modes : SetMode(m)
      BY <3>3, <3>10 DEF CmdBegin, Submit, SubmitFails, SubmitReturns,
         ExecuteCommand, SetMode, bufferVars, heapVars
    <3>11. CASE GuestReset
      BY <3>1, <3>11 DEF GuestReset
    <3>12. CASE UNCHANGED vars
      BY <3>3, <3>12 DEF vars
    <3>13. QED
      BY <2>2, <3>5, <3>6, <3>7, <3>9, <3>10, <3>11, <3>12 DEF Next
  <2>3. TypeOK /\ BuffersOK /\ NoBlockLost /\ [Next]_vars => NoBlockLost'
    BY <2>2
  <2>4. QED
    BY <2>1, <2>3, BuffersInvariant, PTL DEF Spec
<1>3. QED
  BY <1>1, <1>2
=============================================================================
