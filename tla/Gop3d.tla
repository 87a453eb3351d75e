------------------------------- MODULE Gop3d -------------------------------
(***************************************************************************)
(* The buffers of the GOP3D protocol (UEFI/OptionRom/gop3d.c) and the      *)
(* pipeline that reads them (execute_command in gpu/gpu.c).  The client    *)
(* keeps handles, which are VRAM addresses; the protocol allocates, copies *)
(* and frees; recorded commands and the device's configuration name the    *)
(* addresses again, and nothing connects them to the handles.  The         *)
(* allocator is VramHeap and submission is CommandQueue, which GpuMemory   *)
(* and RingBuffer implement.  Addresses and sizes count pages.             *)
(***************************************************************************)
EXTENDS Integers, Sequences

CONSTANTS
  PageCount,    \* pages of VRAM
  FramePages,   \* pages of the framebuffer
  DepthPages,   \* pages of the z-buffer
  RingPages,    \* pages of the ring
  Handles,      \* the client's handles
  Slots,        \* the StateIDs the client binds, "vbo" among them
  Sizes,        \* the sizes of buffers in pages
  MaxBatch,     \* bound: the most commands a client records before it submits
  MaxQueue,     \* bound: the most commands the ring holds
  Careful       \* TRUE iff the client calls as the applications do

ASSUME Gop3dAssumption ==
  /\ {PageCount, FramePages, DepthPages, RingPages} \subseteq Nat \ {0}
  /\ FramePages + DepthPages + RingPages <= PageCount
  /\ "vbo" \in Slots
  /\ Sizes \subseteq Nat \ {0}
  /\ {MaxBatch, MaxQueue} \subseteq Nat \ {0}
  /\ Careful \in BOOLEAN

VARIABLES
  blocks,    \* the allocated blocks
  answer,    \* what the allocator returned last
  addr,      \* *GpuAddress of each handle; 0 means that there is no buffer
  oldAddr,   \* OldAddr of an UpdateBuffer that has still to free it, else 0
  data,      \* whose upload, or what of the device's, a page holds
  shaded,    \* the pages of uploads whose colours a shader has replaced since
  recorded, queue, executed, busy,  \* as in CommandQueue
  mode,      \* the mode register
  config,    \* vbo_config and its like: a page and the pages behind it
  inFrame,   \* TRUE from CmdBegin to the submission that follows
  status     \* what the last Transfer-, Update- or FreeBuffer returned

vars == <<blocks, answer, addr, oldAddr, data, shaded, recorded, queue, executed,
          busy, mode, config, inFrame, status>>

heapVars   == <<blocks, answer>>
queueVars  == <<recorded, queue, executed, busy>>
pageVars   == <<data, shaded>>
bufferVars == <<blocks, answer, addr, oldAddr, data, shaded, status>>

Pages == 0 .. PageCount - 1
Modes == {"gop", "3d", "idle"}

Nothing == "nothing"   \* no upload: what VRAM held, or what was freed
Screen  == "screen"    \* pixels or depths
Stray   == "stray"     \* pixels of a line that left the screen

\* What the client can record.
Cmds ==
  [op : {"bind"}, slot : Slots, page : Pages, pages : Nat]
    \cup [op : {"clear", "points", "lines", "triangles"}]

Heap  == INSTANCE VramHeap
Queue == INSTANCE CommandQueue WITH
  Commands <- {}, enabled <- (mode # "gop")

FrameBlock == [page |-> 0, pages |-> FramePages]
DepthBlock == [page |-> FramePages, pages |-> DepthPages]
RingBlock  == [page |-> FramePages + DepthPages, pages |-> RingPages]

\* Start allocates the framebuffer at 0, then the z-buffer, then the ring.
SystemBlocks == {FrameBlock, DepthBlock, RingBlock}

Extent(b) == b.page .. b.page + b.pages - 1

Init ==
  /\ blocks = SystemBlocks
  /\ answer = RingBlock.page
  /\ addr = [h \in Handles |-> 0]
  /\ oldAddr = 0
  /\ data = [p \in Pages |-> Nothing]
  /\ shaded = {}
  /\ recorded = <<>> /\ queue = <<>> /\ executed = <<>> /\ busy = FALSE
  /\ mode = "3d"
  /\ config = [s \in Slots |-> [page |-> 0, pages |-> 0]]
  /\ inFrame = FALSE
  /\ status = "success"

\* The driver runs the client's next call.
Ready == ~busy /\ oldAddr = 0

-----------------------------------------------------------------------------
(***************************************************************************)
(* Buffers.  A careful client transfers into handles that have no buffer,  *)
(* updates those that have one, and does both, as frees, between frames.   *)
(***************************************************************************)
BetweenFrames == Careful => ~inFrame

\* GpuVramWrite of n pages for handle h.
Upload(h, page, n) ==
  /\ data' = [p \in Pages |-> IF p \in page .. page + n - 1 THEN h ELSE data[p]]
  /\ shaded' = shaded \ (page .. page + n - 1)

\* Fault: the copy's status is not looked at.
AllocateUnchecked(h, n) ==
  /\ Heap!Allocate(n)
  /\ IF answer' = 0
       THEN status' = "error" /\ UNCHANGED <<addr, pageVars>>
       ELSE /\ status' = "success"
            /\ addr' = [addr EXCEPT ![h] = answer']
            /\ Upload(h, answer', n)

\* GpuTransferBuffer behind its checks.  The allocator's failure is not
\* recognised, but it is no address inside VRAM, so that the copy fails; a
\* buffer at 0 is taken for a failure.
AllocateAndUpload(h, n) ==
  /\ Heap!Allocate(n)
  /\ IF answer' \in {0, Heap!Refused}
       THEN status' = "error" /\ UNCHANGED <<addr, pageVars>>
       ELSE /\ status' = "success"
            /\ addr' = [addr EXCEPT ![h] = answer']
            /\ Upload(h, answer', n)

TransferBuffer(h, n) ==
  /\ Ready /\ BetweenFrames
  /\ Careful => addr[h] = 0
  /\ AllocateAndUpload(h, n)
  /\ UNCHANGED <<oldAddr, queueVars, mode, config, inFrame>>

\* Fault: the length is read where the next block may start.
AllocatedPagesNext(page) ==
  LET starts == {b \in blocks : b.page = page}
  IN  IF starts = {} THEN 0 ELSE (CHOOSE b \in starts : TRUE).pages + 1

\* GpuGetAllocatedSize: the block that starts at the page has a length.
AllocatedPages(page) ==
  LET starts == {b \in blocks : b.page = page}
  IN  IF starts = {} THEN 0 ELSE (CHOOSE b \in starts : TRUE).pages

\* GpuUpdateBuffer of a buffer that is large enough: it is overwritten.
UpdateInPlace(h, n) ==
  /\ Ready /\ BetweenFrames
  /\ Careful => addr[h] # 0
  /\ AllocatedPages(addr[h]) >= n
  /\ Upload(h, addr[h], n)
  /\ status' = "success"
  /\ UNCHANGED <<heapVars, addr, oldAddr, queueVars, mode, config, inFrame>>

\* Fault: the old buffer is given up before the new one is there.
UpdateFreesFirst(h, n) ==
  /\ Ready /\ BetweenFrames
  /\ Careful => addr[h] # 0
  /\ AllocatedPages(addr[h]) < n
  /\ AllocateAndUpload(h, n)
  /\ oldAddr' = addr[h]
  /\ UNCHANGED <<queueVars, mode, config, inFrame>>

\* Fault: the old buffer is kept.
UpdateKeepsOld(h, n) ==
  /\ Ready /\ BetweenFrames
  /\ Careful => addr[h] # 0
  /\ AllocatedPages(addr[h]) < n
  /\ AllocateAndUpload(h, n)
  /\ UNCHANGED <<oldAddr, queueVars, mode, config, inFrame>>

\* GpuUpdateBuffer of one that is too small: a new buffer first, then the old
\* one is freed.
UpdateGrows(h, n) ==
  /\ Ready /\ BetweenFrames
  /\ Careful => addr[h] # 0
  /\ AllocatedPages(addr[h]) < n
  /\ AllocateAndUpload(h, n)
  /\ oldAddr' = IF status' = "success" THEN addr[h] ELSE 0
  /\ UNCHANGED <<queueVars, mode, config, inFrame>>

FreeOld ==
  /\ oldAddr # 0
  /\ Heap!Free(oldAddr)
  /\ oldAddr' = 0
  /\ UNCHANGED <<addr, pageVars, status, queueVars, mode, config, inFrame>>

\* Fault: the handle is not cleared.
FreeKeepsHandle(h) ==
  /\ Ready /\ BetweenFrames
  /\ \/ addr[h] # 0 /\ Heap!Free(addr[h])
     \/ addr[h] = 0 /\ UNCHANGED heapVars
  /\ status' = "success"
  /\ UNCHANGED <<addr, oldAddr, pageVars, queueVars, mode, config, inFrame>>

\* Fault: the address 0 is freed as any other.
FreeUnguarded(h) ==
  /\ Ready /\ BetweenFrames
  /\ Heap!Free(addr[h])
  /\ addr' = [addr EXCEPT ![h] = 0]
  /\ status' = "success"
  /\ UNCHANGED <<oldAddr, pageVars, queueVars, mode, config, inFrame>>

FreeBuffer(h) ==
  /\ Ready /\ BetweenFrames
  /\ \/ addr[h] # 0 /\ Heap!Free(addr[h])
     \/ addr[h] = 0 /\ UNCHANGED heapVars
  /\ addr' = [addr EXCEPT ![h] = 0]
  /\ status' = "success"
  /\ UNCHANGED <<oldAddr, pageVars, queueVars, mode, config, inFrame>>

-----------------------------------------------------------------------------
(***************************************************************************)
(* Recording and submission.  A careful client begins every frame with     *)
(* CmdBegin, binds every slot before it draws, and submits in a mode in    *)
(* which the device serves it.                                             *)
(***************************************************************************)
\* Fault: the cursor is not reset.
CmdBeginKeeps ==
  /\ Ready
  /\ inFrame' = TRUE
  /\ UNCHANGED <<bufferVars, queueVars, mode, config>>

CmdBegin ==
  /\ Ready
  /\ UNCHANGED <<bufferVars, mode, config>>
  /\ Queue!Discard
  /\ inFrame' = TRUE

AddCmd(cmd) ==
  /\ Ready
  /\ Careful => inFrame
  /\ Len(recorded) < MaxBatch
  /\ UNCHANGED <<bufferVars, mode, config, inFrame>>
  /\ Queue!Record(cmd)

Bind(slot, h) ==
  /\ Careful => addr[h] # 0
  /\ AddCmd([op |-> "bind", slot |-> slot, page |-> addr[h],
             pages |-> AllocatedPages(addr[h])])

BindsAll(batch) ==
  \A s \in Slots : \E i \in DOMAIN batch : batch[i].op = "bind" /\ batch[i].slot = s

\* GpuDraw of points, lines or triangles.
Draw(topology) ==
  /\ Careful => BindsAll(recorded)
  /\ AddCmd([op |-> topology])

ClearFrame == AddCmd([op |-> "clear"])

\* GpuSubmitCmd, and GpuPresent, which drops its status.
Submit ==
  /\ Ready
  /\ Careful => inFrame /\ mode # "gop"
  /\ Len(queue) + Len(recorded) <= MaxQueue
  /\ UNCHANGED <<bufferVars, mode, config>>
  /\ Queue!Submit
  /\ inFrame' = FALSE

\* A flush that times out: the batch stays where it is.
SubmitFails ==
  /\ Ready
  /\ Careful => inFrame
  /\ recorded # <<>>
  /\ inFrame' = FALSE
  /\ UNCHANGED <<bufferVars, queueVars, mode, config>>

SetMode(m) ==
  /\ Ready
  /\ Careful => ~inFrame
  /\ mode' = m
  /\ UNCHANGED <<bufferVars, queueVars, config, inFrame>>

-----------------------------------------------------------------------------
(***************************************************************************)
(* The device: execute_command, one command a step.                        *)
(***************************************************************************)
ExecuteBind ==
  /\ Head(queue).op = "bind"
  /\ config' = [config EXCEPT ![Head(queue).slot] =
                  [page |-> Head(queue).page, pages |-> Head(queue).pages]]
  /\ UNCHANGED pageVars

ExecuteClear ==
  /\ Head(queue).op = "clear"
  /\ data' = [p \in Pages |->
                IF p \in Extent(FrameBlock) \cup Extent(DepthBlock)
                  THEN Screen ELSE data[p]]
  /\ UNCHANGED <<shaded, config>>

\* Nothing is drawn in the idle mode, and points are not drawn at all.
Draws(op) == mode = "3d" /\ op \in {"lines", "triangles"}

\* Fault: the bounds of a triangle are not cut to the screen.
PagesDrawnFar(op) == IF op = "lines" THEN Extent(FrameBlock) ELSE Pages \ Extent(RingBlock)

\* Triangles are cut to the screen and write pixels and depths; lines write
\* pixels, and the shaded colours back into the vertex buffer.
PagesDrawn(op) ==
  Extent(FrameBlock) \cup (IF op = "lines" THEN {} ELSE Extent(DepthBlock))

PagesShaded(op) ==
  IF op = "lines" THEN {p \in Extent(config["vbo"]) \cap Pages : data[p] \in Handles} ELSE {}

\* Nothing cuts a line to the screen: the pixels of one that leaves it may be
\* stored into any page behind the frame.  Bound: they miss the ring, and the
\* z-buffer, where no property looks.
StrayPages(op) ==
  IF op = "lines" THEN {p \in Pages : \A b \in SystemBlocks : p \notin Extent(b)} ELSE {}

DrawsNothing ==
  /\ ~Draws(Head(queue).op)
  /\ UNCHANGED pageVars

DrawsPicture ==
  LET op == Head(queue).op
  IN  /\ Draws(op)
      /\ \E stray \in SUBSET StrayPages(op) :
           data' = [p \in Pages |-> IF p \in PagesDrawn(op) THEN Screen
                                    ELSE IF p \in stray THEN Stray
                                    ELSE data[p]]
      /\ shaded' = shaded \cup PagesShaded(op)

ExecuteDraw ==
  /\ Head(queue).op \in {"points", "lines", "triangles"}
  /\ DrawsNothing \/ DrawsPicture
  /\ UNCHANGED config

ExecuteCommand ==
  /\ UNCHANGED <<heapVars, addr, oldAddr, status, mode, inFrame>>
  /\ Queue!Execute
  /\ ExecuteBind \/ ExecuteClear \/ ExecuteDraw

SubmitReturns ==
  /\ UNCHANGED <<bufferVars, mode, config, inFrame>>
  /\ Queue!Return

\* The guest restarts and the driver starts: the allocator's arrays and the
\* ring are set up anew, the mode ends as 3D; VRAM and configuration stay.
GuestReset ==
  /\ busy => queue = <<>>
  /\ blocks' = SystemBlocks
  /\ answer' = RingBlock.page
  /\ addr' = [h \in Handles |-> 0]
  /\ oldAddr' = 0
  /\ recorded' = <<>> /\ queue' = <<>> /\ executed' = <<>> /\ busy' = FALSE
  /\ mode' = "3d"
  /\ inFrame' = FALSE
  /\ status' = "success"
  /\ UNCHANGED <<pageVars, config>>

Next ==
  \/ \E h \in Handles, n \in Sizes :
       TransferBuffer(h, n) \/ UpdateInPlace(h, n) \/ UpdateGrows(h, n)
  \/ FreeOld
  \/ \E h \in Handles : FreeBuffer(h)
  \/ CmdBegin
  \/ \E s \in Slots, h \in Handles : Bind(s, h)
  \/ \E topology \in {"points", "lines", "triangles"} : Draw(topology)
  \/ ClearFrame
  \/ Submit
  \/ SubmitFails
  \/ \E m \in Modes : SetMode(m)
  \/ ExecuteCommand
  \/ SubmitReturns
  \/ GuestReset

Spec == Init /\ [][Next]_vars

TypeOK ==
  /\ blocks \subseteq [page : Pages, pages : Nat \ {0}]
  /\ answer \in Pages \cup {Heap!Refused}
  /\ addr \in [Handles -> Pages]
  /\ oldAddr \in Pages
  /\ data \in [Pages -> Handles \cup {Nothing, Screen, Stray}]
  /\ shaded \subseteq Pages
  /\ recorded \in Seq(Cmds) /\ queue \in Seq(Cmds)
  /\ config \in [Slots -> [page : Pages, pages : Nat]]
  /\ busy \in BOOLEAN
  /\ mode \in Modes
  /\ inFrame \in BOOLEAN
  /\ status \in {"success", "error"}
-----------------------------------------------------------------------------
ClientBlocks == blocks \ SystemBlocks

BlockOf(page) == CHOOSE b \in blocks : b.page = page

\* The framebuffer, the z-buffer and the ring are never given back, whatever
\* handles are freed and updated, although the framebuffer's address is the one
\* that means "no buffer" (gop3d.c:245).
SystemBlocksStay == SystemBlocks \subseteq blocks

\* A handle is 0 or the start of a block that is no other handle's and none of
\* the system's (gop3d.c:231, 247): no handle dangles and no two share memory.
HandlesOwnBlocks ==
  /\ \A h \in Handles : addr[h] # 0 => \E b \in ClientBlocks : b.page = addr[h]
  /\ \A h, k \in Handles : h # k /\ addr[h] # 0 => addr[h] # addr[k]

\* As long as the client transfers into empty handles only, every block is
\* somebody's (gop3d.c:228): an update that moves a buffer leaks none.
NoBlockLost ==
  Careful => \A b \in ClientBlocks :
               b.page = oldAddr \/ \E h \in Handles : addr[h] = b.page

\* What was uploaded for a handle is overwritten by no upload for another, no
\* clear, no triangle and no line that stays on the screen (gop3d.c:214): only
\* the pixels of a line that leaves the screen can be found in a buffer.
UploadsIntact ==
  \A h \in Handles : addr[h] # 0 =>
    \A p \in Extent(BlockOf(addr[h])) : data[p] \in {h, Stray}

\* A draw of a careful client reads, in every slot, the whole live buffer of a
\* handle (gpu.c:108): whatever was updated, moved and freed since, whichever
\* flushes failed and whatever configuration a guest that was reset left.  It
\* finds there what was uploaded, but for pixels of lines that left the screen.
Drawing == busy /\ queue # <<>> /\ Draws(Head(queue).op)

DrawsReadUploads ==
  Careful /\ Drawing =>
    \A s \in Slots :
      /\ config[s] \in ClientBlocks
      /\ \E h \in Handles :
           /\ addr[h] = config[s].page
           /\ \A p \in Extent(config[s]) : data[p] \in {h, Stray}

\* A transfer or an update that fails has changed no handle, no block and no
\* upload (gop3d.c:223).
FailureChangesNothing ==
  [][(blocks' # blocks \/ addr' # addr \/ (~busy /\ pageVars' # pageVars))
       => status' = "success"]_vars

\* No upload ends in the framebuffer (gop3d.c:214).
FrameHoldsNoUpload == \A p \in Extent(FrameBlock) : data[p] \notin Handles
=============================================================================
