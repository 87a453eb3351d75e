----------------------------- MODULE RingBuffer -----------------------------
(***************************************************************************)
(* The driver side of command submission (UEFI/OptionRom/ringbuffer.c and  *)
(* the protocol entry points of gop3d.c that reach it) against GpuDevice.  *)
(* A client records commands into a batch in system memory; a flush copies *)
(* the batch into the ring in VRAM, never splitting it over the ring's     *)
(* end, and writes the head register.                                      *)
(*                                                                         *)
(* The driver is one thread; pc says where it is.  A step ends where       *)
(* something else can happen: a register or VRAM access after which the    *)
(* guest may reset, one turn of a polling loop, the trap into the device.  *)
(***************************************************************************)
EXTENDS GpuDevice, SeqFilter

CONSTANTS
  RingStart,    \* bufferStartAddr: what the allocator returned, never 0
  RingWords,    \* RingSize in words: the size of the ring and of the batch buffer
  MaxBatch,     \* bound: the most commands a client records before it submits
  MaxAttempts,  \* 100000 in GpuRingBufferWaitSpace
  ClientModes,  \* the modes the client passes to GpuSetMode
  PoolMayFail   \* TRUE iff AllocatePool and AllocateZeroPool may return NULL

ASSUME RingAssumption ==
  /\ RingStart \in Nat \ {0}
  /\ RingWords \in Nat /\ RingWords >= CmdWords
  /\ RingStart + RingWords <= VramWords
  /\ MaxBatch \in Nat \ {0}
  /\ MaxAttempts \in Nat
  /\ ClientModes \subseteq {ModeGop, Mode3d, ModeIdle}
  /\ PoolMayFail \in BOOLEAN
  /\ Commands \cap {"submit", "present"} = {}

VARIABLES
  pc,           \* where the driver is
  initStep,     \* register writes of GpuRingBufferInit done since the guest started
  ringHead,     \* where the driver writes next
  ringTail,     \* the device's tail as the driver last read it
  batch,        \* the commands between cmdBatchBufferPtr and the cursor
  batchWords,   \* cmdBatchBufferSize, 0 while there is no batch buffer
  caller,       \* what the flush in progress returns to
  attempts,     \* turns of the stall loop taken
  status        \* what the last GpuRingBufferFlush returned

vars == <<regs, vram, processing, executed, pc, initStep, ringHead, ringTail,
          batch, batchWords, caller, attempts, status>>

RingEnd == RingStart + RingWords

\* GpuSubmitCmd, GpuPresent, or the GpuRingBufferAddCmd of a command.
Callers == {"submit", "present"} \cup Commands

WaitSteps  == {"wait", "rewait"}
StallSteps == {"stall", "restall"}
FlushSteps == WaitSteps \cup StallSteps \cup {"place", "write", "kick", "kicked"}
Steps      == FlushSteps \cup {"init", "client", "append", "sync", "destroy", "fault"}

\* The register writes of GpuRingBufferInit, in order.
InitWrites ==
  << <<"mode", ModeGop>>, <<"start", RingStart>>, <<"end", RingEnd>>,
     <<"tail", RingStart>>, <<"head", RingStart>>, <<"mode", Mode3d>> >>

Init ==
  /\ DeviceInit
  /\ pc = "init"
  /\ initStep = 0
  /\ ringHead = 0
  /\ ringTail = 0
  /\ batch = <<>>
  /\ batchWords = 0
  /\ caller = "submit"
  /\ attempts = 0
  /\ status = "success"

-----------------------------------------------------------------------------
(***************************************************************************)
(* GpuRingBufferInit.  The device still holds the registers and the VRAM   *)
(* of the previous boot when it runs.  After the last write the batch      *)
(* buffer is allocated; Gop3DSetup ignores the error of a failure, so the  *)
(* client can go on without one.                                           *)
(***************************************************************************)
InitWrite ==
  /\ pc = "init"
  /\ initStep < Len(InitWrites)
  /\ MmioWrite(InitWrites[initStep + 1][1], InitWrites[initStep + 1][2])
  /\ initStep' = initStep + 1
  /\ ringHead' = RingStart
  /\ ringTail' = RingStart
  /\ UNCHANGED <<vram, executed, pc, batch, batchWords, caller, attempts, status>>

InitBatch ==
  /\ pc = "init"
  /\ initStep = Len(InitWrites)
  /\ batchWords' \in {RingWords} \cup (IF PoolMayFail THEN {0} ELSE {})
  /\ pc' = "client"
  /\ UNCHANGED <<regs, vram, processing, executed, initStep, ringHead, ringTail,
                 batch, caller, attempts, status>>

-----------------------------------------------------------------------------
(***************************************************************************)
(* The client's calls.                                                     *)
(***************************************************************************)
SetMode(mode) ==
  /\ pc = "client"
  /\ MmioWrite("mode", mode)
  /\ UNCHANGED <<vram, executed, pc, initStep, ringHead, ringTail, batch,
                 batchWords, caller, attempts, status>>

\* GpuInit and GpuCmdBegin both do nothing but reset the cursor.
CmdBegin ==
  /\ pc = "client"
  /\ batch' = <<>>
  /\ UNCHANGED <<regs, vram, processing, executed, pc, initStep, ringHead,
                 ringTail, batchWords, caller, attempts, status>>

\* Fault: GpuPresent goes on as GpuRingBufferAddCmd does.
AfterFlushAppends(who) == IF who = "submit" THEN "client" ELSE "append"

AfterFlush(who) ==
  CASE who = "submit"  -> "client"
    [] who = "present" -> "sync"
    [] OTHER           -> "append"

FlushReturns(who, result) ==
  /\ status' = result
  /\ pc' = AfterFlush(who)

\* GpuRingBufferFlush up to its first wait.
Flush(who) ==
  /\ caller' = who
  /\ \/ batch = <<>> /\ FlushReturns(who, "success")
     \/ batch # <<>> /\ pc' = "wait" /\ UNCHANGED status
  /\ UNCHANGED <<regs, vram, processing, executed, initStep, ringHead, ringTail,
                 batch, batchWords, attempts>>

Submit  == pc = "client" /\ Flush("submit")
Present == pc = "client" /\ Flush("present")

\* A command that does not fit behind the cursor makes GpuRingBufferAddCmd
\* flush first; the status of that flush is not looked at.
BatchOverflows == CmdWords * (Len(batch) + 1) > batchWords

AddCmd(cmd) ==
  /\ pc = "client"
  /\ Len(batch) < MaxBatch
  /\ \/ BatchOverflows /\ Flush(cmd)
     \/ /\ ~BatchOverflows
        /\ caller' = cmd
        /\ pc' = "append"
        /\ UNCHANGED <<regs, vram, processing, executed, initStep, ringHead,
                       ringTail, batch, batchWords, attempts, status>>

\* CopyMem behind the cursor.  A copy past the end of the batch buffer is
\* undefined behaviour: nothing is known of the driver until the guest resets.
AppendCmd ==
  /\ pc = "append"
  /\ \/ BatchOverflows /\ pc' = "fault" /\ UNCHANGED batch
     \/ ~BatchOverflows /\ pc' = "client" /\ batch' = Append(batch, caller)
  /\ UNCHANGED <<regs, vram, processing, executed, initStep, ringHead, ringTail,
                 batchWords, caller, attempts, status>>

-----------------------------------------------------------------------------
(***************************************************************************)
(* GpuRingBufferWaitSpace and the rest of GpuRingBufferFlush.              *)
(***************************************************************************)
BytesToWrite == CmdWords * Len(batch)     \* in words, as every size here

\* Fault: the reserved word is forgotten.
FreeSpaceUnreserved(head, tail) ==
  IF head >= tail THEN RingWords - (head - tail) ELSE tail - head

\* GpuRingBufferGetFreeSpace: one word short of what is there, so that a full
\* ring and an empty ring differ.
FreeSpace(head, tail) ==
  IF head >= tail THEN (RingWords - (head - tail)) - 1 ELSE (tail - head) - 1

\* Where the flush goes once it has the space it waited for.
Granted(step) == IF step \in {"wait", "stall"} THEN "place" ELSE "write"
Stalled(step) == IF step = "wait" THEN "stall" ELSE "restall"

\* The two fast paths: the cached tail, then the tail register.
WaitSpace ==
  /\ pc \in WaitSteps
  /\ \/ /\ FreeSpace(ringHead, ringTail) >= BytesToWrite
        /\ pc' = Granted(pc)
        /\ UNCHANGED ringTail
     \/ /\ FreeSpace(ringHead, ringTail) < BytesToWrite
        /\ ringTail' = regs["tail"]
        /\ pc' = IF FreeSpace(ringHead, regs["tail"]) >= BytesToWrite
                   THEN Granted(pc) ELSE Stalled(pc)
  /\ attempts' = 0
  /\ UNCHANGED <<regs, vram, processing, executed, initStep, ringHead, batch,
                 batchWords, caller, status>>

\* One turn of the stall loop: wait, read the tail, give up when the turns are
\* used up, else look at the space again.
Stall ==
  /\ pc \in StallSteps
  /\ ringTail' = regs["tail"]
  /\ \/ /\ attempts = MaxAttempts
        /\ FlushReturns(caller, "timeout")
        /\ UNCHANGED attempts
     \/ /\ attempts < MaxAttempts
        /\ attempts' = attempts + 1
        /\ pc' = IF FreeSpace(ringHead, regs["tail"]) >= BytesToWrite
                   THEN Granted(pc) ELSE pc
        /\ UNCHANGED status
  /\ UNCHANGED <<regs, vram, processing, executed, initStep, ringHead, batch,
                 batchWords, caller>>

SpaceAtEnd == RingEnd - ringHead

\* Fault: the dead space keeps what it held, and the space at the ring's start
\* is waited for.
WrapHeadUnpadded ==
  /\ pc = "place"
  /\ BytesToWrite > SpaceAtEnd
  /\ ringHead' = RingStart
  /\ pc' = "rewait"
  /\ UNCHANGED <<regs, vram, processing, executed, initStep, ringTail, batch,
                 batchWords, caller, attempts, status>>

\* Fault: the dead space is padded, and the space at the ring's start is not
\* waited for.
WrapHeadUnwaited ==
  /\ pc = "place"
  /\ BytesToWrite > SpaceAtEnd
  /\ vram' = [a \in DOMAIN vram |->
                IF a \in ringHead .. RingEnd - 1 THEN Noop ELSE vram[a]]
  /\ ringHead' = RingStart
  /\ pc' = "write"
  /\ UNCHANGED <<regs, processing, executed, initStep, ringTail, batch,
                 batchWords, caller, attempts, status>>

\* A batch that does not fit before the ring's end goes to its start.  The dead
\* words are zeroed, unless the pool has no room for the zeroes; then the ring
\* keeps what it held.
WrapHead ==
  /\ pc = "place"
  /\ BytesToWrite > SpaceAtEnd
  /\ \/ vram' = [a \in DOMAIN vram |->
                   IF a \in ringHead .. RingEnd - 1 THEN Noop ELSE vram[a]]
     \/ PoolMayFail /\ UNCHANGED vram
  /\ ringHead' = RingStart
  /\ pc' = "rewait"
  /\ UNCHANGED <<regs, processing, executed, initStep, ringTail, batch,
                 batchWords, caller, attempts, status>>

BatchWord(i) == IF i % CmdWords = 0 THEN batch[i \div CmdWords + 1] ELSE Payload

WriteBatch ==
  /\ pc = "write" \/ (pc = "place" /\ BytesToWrite <= SpaceAtEnd)
  /\ vram' = [a \in DOMAIN vram |->
                IF a \in ringHead .. ringHead + BytesToWrite - 1
                  THEN BatchWord(a - ringHead) ELSE vram[a]]
  /\ ringHead' = IF ringHead + BytesToWrite = RingEnd
                   THEN RingStart ELSE ringHead + BytesToWrite
  /\ pc' = "kick"
  /\ UNCHANGED <<regs, processing, executed, initStep, ringTail, batch,
                 batchWords, caller, attempts, status>>

Kick ==
  /\ pc = "kick"
  /\ MmioWrite("head", ringHead)
  /\ pc' = "kicked"
  /\ UNCHANGED <<vram, executed, initStep, ringHead, ringTail, batch, batchWords,
                 caller, attempts, status>>

\* Fault: the head write returns while the device still processes.
KickReturnsEarly ==
  /\ pc = "kicked"
  /\ executed' = <<>>
  /\ batch' = <<>>
  /\ FlushReturns(caller, "success")
  /\ UNCHANGED <<regs, vram, processing, initStep, ringHead, ringTail,
                 batchWords, caller, attempts>>

\* The head write is over: the cursor is reset and the flush has succeeded.
KickReturns ==
  /\ pc = "kicked"
  /\ ~processing
  /\ executed' = <<>>
  /\ batch' = <<>>
  /\ FlushReturns(caller, "success")
  /\ UNCHANGED <<regs, vram, processing, initStep, ringHead, ringTail,
                 batchWords, caller, attempts>>

-----------------------------------------------------------------------------
\* GpuPresent's GpuRingBufferWaitSpace(0): zero words are free in the cache.
PresentSync ==
  /\ pc = "sync"
  /\ FreeSpace(ringHead, ringTail) >= 0
  /\ pc' = "client"
  /\ UNCHANGED <<regs, vram, processing, executed, initStep, ringHead, ringTail,
                 batch, batchWords, caller, attempts, status>>

Destroy ==
  /\ pc = "client"
  /\ pc' = "destroy"
  /\ UNCHANGED <<regs, vram, processing, executed, initStep, ringHead, ringTail,
                 batch, batchWords, caller, attempts, status>>

\* Fault: the loop looks at the remembered tail and never reads the register.
DestroyPollCached ==
  /\ pc = "destroy"
  /\ \/ ringTail = ringHead /\ batch' = <<>> /\ pc' = "client"
     \/ ringTail # ringHead /\ UNCHANGED <<batch, pc>>
  /\ UNCHANGED <<regs, vram, processing, executed, initStep, ringHead, ringTail,
                 batchWords, caller, attempts, status>>

\* One turn of GpuDestroy's loop: GpuRingBufferIsIdle, and the cursor's reset
\* once it holds.
DestroyPoll ==
  /\ pc = "destroy"
  /\ ringTail' = regs["tail"]
  /\ \/ regs["tail"] = ringHead /\ batch' = <<>> /\ pc' = "client"
     \/ regs["tail"] # ringHead /\ UNCHANGED <<batch, pc>>
  /\ UNCHANGED <<regs, vram, processing, executed, initStep, ringHead,
                 batchWords, caller, attempts, status>>

\* The guest restarts between two of the driver's steps.  No reset handler is
\* registered for the device: its registers and the VRAM stay as they are.
GuestReset ==
  /\ ~processing
  /\ pc' = "init"
  /\ initStep' = 0
  /\ ringHead' = 0
  /\ ringTail' = 0
  /\ batch' = <<>>
  /\ batchWords' = 0
  /\ caller' = "submit"
  /\ attempts' = 0
  /\ status' = "success"
  /\ executed' = <<>>
  /\ UNCHANGED <<regs, vram, processing>>

DeviceStep ==
  /\ ProcessCommand
  /\ UNCHANGED <<pc, initStep, ringHead, ringTail, batch, batchWords, caller,
                 attempts, status>>

ClientStep ==
  \/ \E mode \in ClientModes : SetMode(mode)
  \/ CmdBegin
  \/ \E cmd \in Commands : AddCmd(cmd)
  \/ Submit
  \/ Present
  \/ Destroy

DriverStep ==
  \/ InitWrite \/ InitBatch
  \/ AppendCmd
  \/ WaitSpace \/ Stall \/ WrapHead \/ WriteBatch \/ Kick \/ KickReturns
  \/ PresentSync
  \/ DestroyPoll

Next == ClientStep \/ DriverStep \/ DeviceStep \/ GuestReset

\* The driver's code runs on once it is called, and the device's loop runs on
\* once it is entered; nothing makes the client call or the guest reset.
Fairness == WF_vars(DriverStep) /\ WF_vars(DeviceStep)

Spec     == Init /\ [][Next]_vars
FairSpec == Spec /\ Fairness

TypeOK ==
  /\ DeviceTypeOK
  /\ pc \in Steps
  /\ initStep \in 0 .. Len(InitWrites)
  /\ ringHead \in Nat
  /\ ringTail \in Nat
  /\ batch \in Seq(Commands)
  /\ batchWords \in {0, RingWords}
  /\ caller \in Callers
  /\ attempts \in 0 .. MaxAttempts
  /\ status \in {"success", "timeout"}
-----------------------------------------------------------------------------
(***************************************************************************)
(* Where the four pointers are.  Going round the ring from the tail the    *)
(* driver remembers, one meets the device's tail, the device's head and    *)
(* the driver's head.                                                      *)
(***************************************************************************)
SlotAddresses ==
  {a \in RingStart .. RingEnd - 1 : (a - RingStart) % CmdWords = 0}

Distance(a, b) == IF a <= b THEN b - a ELSE RingWords - (a - b)

\* The words the device has still to read.
Pending(a) ==
  Distance(regs["tail"], a) < Distance(regs["tail"], regs["head"])

\* Every pointer of driver and device stands at the first word of a command,
\* through every wrap, although the ring's size is no multiple of a command's:
\* the device's loop ends only by meeting the head exactly (gpu.c:146).
PointersOnSlots ==
  pc # "init" =>
    {ringTail, ringHead, regs["tail"], regs["head"]} \subseteq SlotAddresses

InOrder(a, b, c, d) == Distance(a, b) + Distance(b, c) + Distance(c, d) = Distance(a, d)

\* The tail the driver remembers may be old but never runs ahead, and no head
\* overtakes a tail: free space computed from it is space that is free
\* (ringbuffer.c:68).
PointersInOrder ==
  pc # "init" => InOrder(ringTail, regs["tail"], regs["head"], ringHead)

\* Neither a batch nor the padding before a wrap overwrites a command the
\* device has been told of and has not read (ringbuffer.c:124, 137).
PendingUntouched ==
  [][pc # "init" =>
       \A a \in RingStart .. RingEnd - 1 : Pending(a) => vram'[a] = vram[a]]_vars

\* The stall loop never gets what it waits for: the device moves its tail only
\* inside a head write, which the driver makes after the wait
\* (ringbuffer.c:93).  A flush that stalls times out.
StallIsFutile ==
  [][(pc \in StallSteps) => (pc' \notin {"place", "write"})]_vars

\* No flush gives up (ringbuffer.c:99).
NoTimeout == status = "success"

\* Nothing is copied past the end of the batch buffer (ringbuffer.c:163),
\* although the flush that should have emptied it may have failed.
BatchInBounds == pc # "fault"

\* A head write always returns to the guest: the device's loop ends
\* (gpu.c:146).
HeadWriteReturns == processing ~> ~processing

\* A client's call returns: every flush ends in success or in a timeout, and
\* the polling loop of GpuDestroy (gop3d.c:38) meets an idle ring.
CallsReturn == (pc \notin {"client", "init", "fault"}) ~> (pc \in {"client", "init"})

-----------------------------------------------------------------------------
(***************************************************************************)
(* The ring implements CommandQueue.                                       *)
(***************************************************************************)
SlotCount == (RingWords + CmdWords - 1) \div CmdWords

SlotIndex(a) == (a - RingStart) \div CmdWords

\* The number of slots from slot a to slot b, round the ring.
SlotsFrom(a, b) ==
  IF a <= b THEN SlotIndex(b) - SlotIndex(a)
            ELSE SlotCount - (SlotIndex(a) - SlotIndex(b))

\* The slot i slots on from slot a.
SlotOn(a, i) ==
  LET k == SlotIndex(a) + i
  IN  RingStart + CmdWords * (IF k < SlotCount THEN k ELSE k - SlotCount)

\* The opcodes in the slots from a up to b.
SlotWords(mem, a, b) == [i \in 1 .. SlotsFrom(a, b) |-> mem[SlotOn(a, i - 1)]]

\* What is no no-op.
Opcodes == Commands \cup {Payload}

recorded == IF pc = "kicked" THEN <<>> ELSE batch
queue    == IF pc = "init" THEN <<>>
            ELSE Sift(SlotWords(vram, regs["tail"], regs["head"]), Opcodes)
enabled  == regs["mode"] # ModeGop
busy     == enabled /\ pc = "kicked"

Queue == INSTANCE CommandQueue

\* The commands of every flush run in the order they were recorded, each once,
\* before the head write returns; what a reset guest left behind never runs.
ImplementsQueue == Queue!QueueSpec
=============================================================================
