----------------------------- MODULE DriverStart -----------------------------
(***************************************************************************)
(* GpuVideoControllerDriverStart (UEFI/OptionRom/rom.c) with the setup of  *)
(* GOP and GOP3D: from opening the PCI device to publishing the protocols. *)
(* The firmware's calls may fail; stage names the one the driver makes     *)
(* next.  A start that fails undoes nothing, and the firmware may start    *)
(* the driver again.  The allocator is VramHeap, in words.  Task priority  *)
(* levels and the contents of handles and device paths are left out.       *)
(***************************************************************************)
EXTENDS Display

CONSTANT
  RingWords   \* the words of the ring

ASSUME StartAssumption ==
  /\ RingWords \in Nat \ {0}
  /\ 2 * FbWidth * FbHeight + RingWords < VramWords

VARIABLES
  stage,       \* the call of Start that comes next, or how Start has ended
  opened,      \* the driver has PciIo open BY_DRIVER
  published,   \* the protocols that clients can locate
  configured,  \* GOP has the buffer that FrameBufferBlt is configured in
  batched,     \* cmdBatchBufferPtr is not NULL
  blocks, answer   \* the allocator, as in VramHeap

startVars == <<stage, opened, published, configured, batched, blocks, answer>>

\* What the driver keeps besides the allocator and its place in Start.
kept == <<opened, published, configured, batched>>

FrameWords == FbWidth * FbHeight

Heap == INSTANCE VramHeap WITH PageCount <- VramWords

\* Stages whose call changes nothing that is modelled, and what follows them.
\* "path" stands for the three that make and publish the device path.
PlainStages ==
  [pool |-> "open", attributes |-> "allocator", path |-> "gop", child |-> "done"]

\* Stages at which Start gives up when the call fails.
FailingStages == DOMAIN PlainStages \cup {"open", "gop"}

RingStages == <<"modeOff", "start", "end", "tail", "head", "modeOn">>

Stages ==
  {"stopped", "failed", "lost", "done", "open", "allocator", "frame", "depth",
   "zregister", "gop", "fill", "ring", "batch", "publishGop", "publishGop3d"}
    \cup DOMAIN PlainStages \cup {RingStages[k] : k \in 1 .. 6}

\* No step of Start is under way: it has not begun or has come to its end.
Resting == stage \in {"stopped", "failed", "lost", "done"}

\* The firmware connects the driver, for the first time or once more.
\* GpuVideoControllerDriverSupported finds PciIo free and leaves it so.
BeginStart ==
  /\ stage \in {"stopped", "failed", "done"} /\ ~opened
  /\ stage' = "pool"
  /\ UNCHANGED <<registerVars, displayVars, kept, blocks, answer>>

CallSucceeds ==
  /\ stage \in DOMAIN PlainStages
  /\ stage' = PlainStages[stage]
  /\ UNCHANGED <<registerVars, displayVars, kept, blocks, answer>>

CallFails ==
  /\ stage \in FailingStages
  /\ stage' = "failed"
  /\ UNCHANGED <<registerVars, displayVars, kept, blocks, answer>>

\* Fault: PciIo is opened without claiming the device.
OpenPciIoShared ==
  /\ stage = "open"
  /\ opened' = FALSE /\ stage' = "attributes"
  /\ UNCHANGED <<registerVars, displayVars, published, configured, batched, blocks, answer>>

\* BY_DRIVER succeeds only once: nothing closes it again.
OpenPciIo ==
  /\ stage = "open" /\ ~opened
  /\ opened' = TRUE /\ stage' = "attributes"
  /\ UNCHANGED <<registerVars, displayVars, published, configured, batched, blocks, answer>>

\* GpuMemoryAllocatorInit forgets what was allocated.
InitAllocator ==
  /\ stage = "allocator"
  /\ blocks' = {} /\ UNCHANGED answer
  /\ stage' = "frame"
  /\ UNCHANGED <<registerVars, displayVars, kept>>

\* Its status, as that of GetBarAttributes, is not looked at: without the
\* allocator's arrays or the BAR's description the next line uses a NULL.
InitAllocatorFails ==
  /\ stage = "allocator"
  /\ stage' = "lost"
  /\ UNCHANGED <<registerVars, displayVars, kept, blocks, answer>>

AllocateFrame ==
  /\ stage = "frame"
  /\ Heap!AllocateAt(0, FrameWords)
  /\ stage' = "depth"
  /\ UNCHANGED <<registerVars, displayVars, kept>>

AllocateDepth ==
  /\ stage = "depth"
  /\ Heap!Allocate(FrameWords)
  /\ stage' = "zregister"
  /\ UNCHANGED <<registerVars, displayVars, kept>>

\* Fault: a register that an earlier boot has written is left as it is.
WriteDepthRegisterOnce ==
  /\ stage = "zregister"
  /\ IF file["z"] = 0 THEN GpuMmioWrite32("z", answer) ELSE UNCHANGED registerVars
  /\ stage' = "path"
  /\ UNCHANGED <<displayVars, kept, blocks, answer>>

\* The status of the store is not looked at.
WriteDepthRegister ==
  /\ stage = "zregister"
  /\ GpuMmioWrite32("z", answer)
  /\ stage' = "path"
  /\ UNCHANGED <<displayVars, kept, blocks, answer>>

\* GopSetup calls SetMode, which fills the screen with zeros.
BeginGopSetup ==
  /\ stage = "gop"
  /\ Fill(Whole, Blank)
  /\ configured' = TRUE
  /\ stage' = "fill"
  /\ UNCHANGED <<registerVars, vram, surface, refresh, opened, published, batched, blocks, answer>>

\* The result of AllocateZeroPool is not looked at, and SetMode tests only for
\* a buffer that is too small: FrameBufferBlt fills nothing, and
\* ASSERT_RETURN_ERROR stops a debug build and passes over it in another.
GopSetupWithoutBuffer ==
  /\ stage = "gop"
  /\ configured' = FALSE
  /\ stage' \in {"lost", "fill"}
  /\ UNCHANGED <<registerVars, displayVars, opened, published, batched, blocks, answer>>

EndGopSetup ==
  /\ stage = "fill" /\ blt.words = <<>>
  /\ stage' = "ring"
  /\ UNCHANGED <<registerVars, displayVars, kept, blocks, answer>>

\* Gop3DSetup calls GpuRingBufferInit and ignores its status.
AllocateRing ==
  /\ stage = "ring"
  /\ Heap!Allocate(RingWords)
  /\ stage' = RingStages[1]
  /\ UNCHANGED <<registerVars, displayVars, kept>>

RingStore(s) ==
  \/ s = "modeOff" /\ GpuMmioWrite32("mode", ModeGop)
  \/ s \in {"start", "tail", "head"} /\ GpuMmioWrite32(s, answer)
  \/ s = "end" /\ GpuMmioWrite32("end", answer + RingWords)
  \/ s = "modeOn" /\ GpuMmioWrite32("mode", Mode3d)

\* One register store of GpuRingBufferInit.
InitRingRegister ==
  \E k \in 1 .. 6 :
    /\ stage = RingStages[k]
    /\ RingStore(stage)
    /\ stage' = IF k = 6 THEN "batch" ELSE RingStages[k + 1]
    /\ UNCHANGED <<displayVars, kept, blocks, answer>>

AllocateBatch ==
  /\ stage = "batch"
  /\ batched' = TRUE
  /\ stage' = "publishGop"
  /\ UNCHANGED <<registerVars, displayVars, opened, published, configured, blocks, answer>>

\* Without memory for the batch the ring's block is given back.
BatchFails ==
  /\ stage = "batch"
  /\ Heap!Free(answer)
  /\ stage' = "publishGop"
  /\ UNCHANGED <<registerVars, displayVars, kept>>

PublishGop ==
  /\ stage = "publishGop"
  /\ published' = published \cup {"gop"} /\ stage' = "publishGop3d"
  /\ UNCHANGED <<registerVars, displayVars, opened, configured, batched, blocks, answer>>

\* The context is freed and then used: what follows is not followed further.
PublishGopFails ==
  /\ stage = "publishGop"
  /\ stage' = "lost"
  /\ UNCHANGED <<registerVars, displayVars, kept, blocks, answer>>

\* A failure to publish GOP3D is only reported.
PublishGop3d ==
  /\ stage = "publishGop3d"
  /\ published' \in {published, published \cup {"gop3d"}} /\ stage' = "child"
  /\ UNCHANGED <<registerVars, displayVars, opened, configured, batched, blocks, answer>>

StartStep ==
  \/ BeginStart \/ CallSucceeds \/ CallFails \/ OpenPciIo \/ InitAllocator \/ InitAllocatorFails
  \/ AllocateFrame \/ AllocateDepth \/ WriteDepthRegister
  \/ BeginGopSetup \/ GopSetupWithoutBuffer \/ EndGopSetup \/ AllocateRing \/ InitRingRegister
  \/ AllocateBatch \/ BatchFails
  \/ PublishGop \/ PublishGopFails \/ PublishGop3d

\* Nothing of it outlives a reset of the guest.
StartInit ==
  /\ stage = "stopped" /\ opened = FALSE /\ published = {}
  /\ configured = FALSE /\ batched = FALSE
  /\ blocks = {} /\ answer = Heap!Refused
=============================================================================
