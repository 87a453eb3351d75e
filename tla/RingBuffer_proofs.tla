------------------------- MODULE RingBuffer_proofs -------------------------
(***************************************************************************)
(* Where the ring's pointers are, for every ring size, ring address, batch *)
(* bound and number of stall attempts; and when no flush times out.        *)
(***************************************************************************)
EXTENDS RingBuffer, TLAPS

-----------------------------------------------------------------------------
(***************************************************************************)
(* Arithmetic of the ring: how four pointers that are in order may move.   *)
(***************************************************************************)
Ring == RingStart .. RingEnd - 1

\* The driver reads the tail register (ringbuffer.c:64).
LEMMA OrderReread ==
  ASSUME NEW a \in Ring, NEW b \in Ring, NEW c \in Ring, NEW d \in Ring,
         InOrder(a, b, c, d)
  PROVE  InOrder(b, b, c, d)
BY RingAssumption DEF InOrder, Distance, Ring, RingEnd

\* The driver writes its head to the head register (ringbuffer.c:146).
LEMMA OrderKick ==
  ASSUME NEW a \in Ring, NEW b \in Ring, NEW c \in Ring, NEW d \in Ring,
         InOrder(a, b, c, d)
  PROVE  InOrder(a, b, d, d)
BY RingAssumption DEF InOrder, Distance, Ring, RingEnd

\* Space that reaches across the ring's end lies before the tail, and neither
\* head nor tail stands at the ring's start (ringbuffer.c:118).
LEMMA WrapSpace ==
  ASSUME NEW head \in Ring, NEW tail \in Ring, NEW size \in Nat,
         FreeSpace(head, tail) >= size, size > RingEnd - head
  PROVE  RingStart < tail /\ tail <= head
BY RingAssumption DEF FreeSpace, Ring, RingEnd

\* The driver's head goes to the ring's start (ringbuffer.c:130).
LEMMA OrderWrap ==
  ASSUME NEW a \in Ring, NEW b \in Ring, NEW c \in Ring, NEW d \in Ring,
         InOrder(a, b, c, d), RingStart < a, a <= d
  PROVE  InOrder(a, b, c, RingStart)
BY RingAssumption DEF InOrder, Distance, Ring, RingEnd

\* Where a batch written at d ends, round the ring's end (ringbuffer.c:138-143).
Behind(d, size) == IF d + size = RingEnd THEN RingStart ELSE d + size

\* The driver's head goes over a batch for which there is space
\* (ringbuffer.c:138-143).
LEMMA OrderWrite ==
  ASSUME NEW a \in Ring, NEW b \in Ring, NEW c \in Ring, NEW d \in Ring,
         NEW size \in Nat,
         InOrder(a, b, c, d), FreeSpace(d, a) >= size, size <= RingEnd - d
  PROVE  InOrder(a, b, c, Behind(d, size)) /\ Behind(d, size) \in Ring
BY RingAssumption DEF InOrder, Distance, FreeSpace, Behind, Ring, RingEnd

\* A slot is an address of the ring, and the ring's start is one.
LEMMA SlotsInRing == SlotAddresses \subseteq Ring /\ RingStart \in SlotAddresses
BY RingAssumption DEF SlotAddresses, Ring, RingEnd, CmdWords

\* Two slots are at least a command apart.
LEMMA SlotsApart ==
  ASSUME NEW a \in SlotAddresses, NEW b \in SlotAddresses, a < b
  PROVE  a + CmdWords <= b
BY RingAssumption DEF SlotAddresses, RingEnd, CmdWords

\* A batch written at a slot ends at one (ringbuffer.c:138-143).
LEMMA BehindSlot ==
  ASSUME NEW d \in SlotAddresses, NEW n \in Nat, CmdWords * n <= RingEnd - d
  PROVE  Behind(d, CmdWords * n) \in SlotAddresses
BY RingAssumption DEF SlotAddresses, Behind, RingEnd, CmdWords

\* The slot behind slot b, round the ring's end (gpu.c:153-160).
NextSlot(b) == IF b + CmdWords >= RingEnd THEN RingStart ELSE b + CmdWords

\* The device's tail goes to the next slot (gpu.c:153-160).
LEMMA NextSlotIsSlot ==
  ASSUME NEW b \in SlotAddresses
  PROVE  NextSlot(b) \in SlotAddresses
BY RingAssumption DEF SlotAddresses, NextSlot, RingEnd, CmdWords

\* The device's tail moves on, and does not pass the head.
LEMMA OrderAdvance ==
  ASSUME NEW a \in SlotAddresses, NEW b \in SlotAddresses,
         NEW c \in SlotAddresses, NEW d \in SlotAddresses,
         b # c, InOrder(a, b, c, d)
  PROVE  InOrder(a, NextSlot(b), c, d)
<1>1. a \in Ring /\ b \in Ring /\ c \in Ring /\ d \in Ring
  BY SlotsInRing
<1>2. CASE b < c
  <2>1. NextSlot(b) = b + CmdWords /\ b + CmdWords <= c
    BY <1>1, <1>2, SlotsApart, RingAssumption DEF NextSlot, Ring, RingEnd, CmdWords
  <2>2. QED
    BY <1>1, <1>2, <2>1, RingAssumption DEF InOrder, Distance, Ring, RingEnd, CmdWords
<1>3. CASE c < b
  BY <1>1, <1>3, RingAssumption
     DEF NextSlot, InOrder, Distance, Ring, RingEnd, CmdWords
<1>4. QED
  BY <1>1, <1>2, <1>3 DEF Ring

\* Neither a batch nor the padding at the ring's end reaches a word the device
\* has still to read (ringbuffer.c:124, 137).
LEMMA WriteAvoidsPending ==
  ASSUME NEW a \in Ring, NEW b \in Ring, NEW c \in Ring, NEW d \in Ring,
         NEW size \in Nat, NEW w \in Ring,
         InOrder(a, b, c, d), FreeSpace(d, a) >= size,
         d <= w, w < d + size
  PROVE  Distance(b, w) >= Distance(b, c)
BY RingAssumption DEF InOrder, Distance, FreeSpace, Ring, RingEnd

-----------------------------------------------------------------------------
(***************************************************************************)
(* The inductive invariant: besides the pointers, what each place in the   *)
(* driver has established.                                                 *)
(***************************************************************************)
InitProgress ==
  pc = "init" =>
    /\ initStep >= 1 => ringHead = RingStart /\ ringTail = RingStart
    /\ initStep \in 1 .. 5 => regs["mode"] = ModeGop
    /\ initStep >= 2 => regs["start"] = RingStart
    /\ initStep >= 3 => regs["end"] = RingEnd
    /\ initStep >= 4 => regs["tail"] = RingStart
    /\ initStep >= 5 => regs["head"] = RingStart

RingRegsSet ==
  pc # "init" => regs["start"] = RingStart /\ regs["end"] = RingEnd

ProcessorRuns ==
  processing => pc = "kicked" /\ regs["tail"] # regs["head"]

FlushProgress ==
  /\ pc \in {"place", "write"} => FreeSpace(ringHead, ringTail) >= BytesToWrite
  /\ pc \in {"rewait", "restall"} => ringHead = RingStart
  /\ pc = "write" => BytesToWrite <= SpaceAtEnd
  /\ pc \in StallSteps =>
       ringTail = regs["tail"] /\ FreeSpace(ringHead, ringTail) < BytesToWrite

AppendHasCommand == pc = "append" => caller \in Commands

IInv ==
  /\ TypeOK
  /\ PointersOnSlots
  /\ PointersInOrder
  /\ InitProgress
  /\ RingRegsSet
  /\ ProcessorRuns
  /\ FlushProgress
  /\ AppendHasCommand

\* The state before GpuRingBufferInit satisfies the invariant.
LEMMA InitIInv == Init => IInv
<1> SUFFICES ASSUME Init PROVE IInv
  OBVIOUS
<1>1. DeviceTypeOK
  BY DeviceAssumption DEF Init, DeviceInit, DeviceTypeOK, RingRegs
<1>2. TypeOK
  BY <1>1, RingAssumption
     DEF Init, DeviceInit, TypeOK, Steps, Callers, InitWrites
<1>3. PointersOnSlots /\ PointersInOrder /\ RingRegsSet
  BY DEF Init, PointersOnSlots, PointersInOrder, RingRegsSet
<1>4. InitProgress /\ ProcessorRuns /\ FlushProgress /\ AppendHasCommand
  BY DEF Init, DeviceInit, InitProgress, ProcessorRuns, FlushProgress,
         AppendHasCommand, StallSteps
<1>5. QED
  BY <1>2, <1>3, <1>4 DEF IInv

\* Behind GpuRingBufferInit the four pointers are slots of the ring.
LEMMA Pointers ==
  ASSUME IInv, pc # "init"
  PROVE  /\ ringTail \in SlotAddresses /\ ringTail \in Ring
         /\ ringHead \in SlotAddresses /\ ringHead \in Ring
         /\ regs["tail"] \in SlotAddresses /\ regs["tail"] \in Ring
         /\ regs["head"] \in SlotAddresses /\ regs["head"] \in Ring
         /\ InOrder(ringTail, regs["tail"], regs["head"], ringHead)
BY SlotsInRing DEF IInv, PointersOnSlots, PointersInOrder

\* A batch has a natural number of words.
LEMMA BatchSize ==
  ASSUME IInv
  PROVE  Len(batch) \in Nat /\ BytesToWrite = CmdWords * Len(batch) /\ BytesToWrite \in Nat
BY DEF IInv, TypeOK, BytesToWrite, CmdWords

\* A step that moves no pointer leaves the pointers where they are.
LEMMA SamePointers ==
  ASSUME IInv, pc # "init", UNCHANGED <<regs, ringHead, ringTail>>
  PROVE  PointersOnSlots' /\ PointersInOrder' /\ RingRegsSet'
BY DEF IInv, PointersOnSlots, PointersInOrder, RingRegsSet

\* Reading the tail register leaves the pointers in order (ringbuffer.c:61-66).
LEMMA RereadPointers ==
  ASSUME IInv, pc # "init", ringTail' = regs["tail"], UNCHANGED <<regs, ringHead>>
  PROVE  PointersOnSlots' /\ PointersInOrder' /\ RingRegsSet' /\ ringTail' \in Nat
<1>1. InOrder(regs["tail"], regs["tail"], regs["head"], ringHead)
  BY Pointers, OrderReread
<1>2. regs["tail"] \in Nat
  BY DEF IInv, TypeOK, DeviceTypeOK, RingRegs
<1>3. QED
  BY <1>1, <1>2, Pointers DEF IInv, PointersOnSlots, PointersInOrder, RingRegsSet

\* The client's calls keep the invariant.
LEMMA ClientKeepsIInv == IInv /\ ClientStep => IInv'
<1> SUFFICES ASSUME IInv, ClientStep PROVE IInv'
  OBVIOUS
<1> USE DEF IInv, TypeOK, Steps, FlushSteps, WaitSteps, StallSteps, InitProgress,
            ProcessorRuns, FlushProgress, AppendHasCommand
<1>1. ASSUME NEW mode \in ClientModes, SetMode(mode) PROVE IInv'
  <2>1. /\ pc = "client" /\ ~processing
        /\ regs' = [regs EXCEPT !["mode"] = mode] /\ processing' = FALSE
        /\ UNCHANGED <<vram, executed, pc, initStep, ringHead, ringTail, batch,
                       batchWords, caller, attempts, status>>
    BY <1>1 DEF SetMode, MmioWrite, Triggers
  <2>2. mode \in Nat
    BY RingAssumption DEF ModeGop, Mode3d, ModeIdle
  <2>3. /\ regs' \in [RingRegs -> Nat]
        /\ \A r \in RingRegs : r # "mode" => regs'[r] = regs[r]
    BY <2>1, <2>2 DEF DeviceTypeOK
  <2>4. PointersOnSlots' /\ PointersInOrder' /\ RingRegsSet'
    BY <2>1, <2>3 DEF PointersOnSlots, PointersInOrder, RingRegsSet, RingRegs
  <2>5. QED
    BY <2>1, <2>3, <2>4 DEF DeviceTypeOK
<1>2. CASE CmdBegin
  <2>1. PointersOnSlots' /\ PointersInOrder' /\ RingRegsSet'
    BY <1>2, SamePointers DEF CmdBegin
  <2>2. QED
    BY <1>2, <2>1 DEF CmdBegin, DeviceTypeOK
<1>3. ASSUME NEW who \in Callers, pc = "client", Flush(who) PROVE IInv'
  <2>1. PointersOnSlots' /\ PointersInOrder' /\ RingRegsSet'
    BY <1>3, SamePointers DEF Flush
  <2>2. AfterFlush(who) \in {"client", "sync", "append"}
        /\ (AfterFlush(who) = "append" => who \in Commands)
    BY DEF AfterFlush, Callers
  <2>3. QED
    BY <1>3, <2>1, <2>2 DEF Flush, FlushReturns, DeviceTypeOK
<1>4. ASSUME NEW cmd \in Commands, AddCmd(cmd) PROVE IInv'
  <2>1. CASE BatchOverflows
    BY <1>3, <1>4, <2>1 DEF AddCmd, Callers
  <2>2. CASE ~BatchOverflows
    <3>1. PointersOnSlots' /\ PointersInOrder' /\ RingRegsSet'
      BY <1>4, <2>2, SamePointers DEF AddCmd
    <3>2. QED
      BY <1>4, <2>2, <3>1 DEF AddCmd, DeviceTypeOK, Callers
  <2>3. QED
    BY <2>1, <2>2
<1>5. CASE Submit \/ Present
  BY <1>3, <1>5 DEF Submit, Present, Callers
<1>6. CASE Destroy
  <2>1. PointersOnSlots' /\ PointersInOrder' /\ RingRegsSet'
    BY <1>6, SamePointers DEF Destroy
  <2>2. QED
    BY <1>6, <2>1 DEF Destroy, DeviceTypeOK
<1>7. QED
  BY <1>1, <1>2, <1>4, <1>5, <1>6 DEF ClientStep

\* A register write that starts no processing changes one register
\* (gpu.c:164-236).
LEMMA PlainWrite ==
  ASSUME NEW r \in RingRegs, NEW value \in Nat, regs \in [RingRegs -> Nat],
         MmioWrite(r, value), r = "head" => regs["mode"] = ModeGop
  PROVE  /\ regs' \in [RingRegs -> Nat]
         /\ regs'[r] = value
         /\ \A s \in RingRegs : s # r => regs'[s] = regs[s]
         /\ ~processing'
BY DEF MmioWrite, Triggers

\* Every step of GpuRingBufferInit keeps the invariant; the last one leaves the
\* four pointers at the ring's start.
LEMMA InitStepKeepsIInv == IInv /\ (InitWrite \/ InitBatch) => IInv'
<1> SUFFICES ASSUME IInv, InitWrite \/ InitBatch PROVE IInv'
  OBVIOUS
<1> USE DEF IInv, TypeOK, Steps, FlushSteps, WaitSteps, StallSteps, InitProgress,
            ProcessorRuns, FlushProgress, AppendHasCommand
<1>1. ASSUME InitWrite PROVE IInv'
  <2> DEFINE r     == InitWrites[initStep + 1][1]
             value == InitWrites[initStep + 1][2]
  <2>1. /\ pc = "init" /\ pc' = "init" /\ initStep' = initStep + 1
        /\ initStep \in 0 .. 5 /\ initStep' \in 0 .. 6
        /\ ringHead' = RingStart /\ ringTail' = RingStart
        /\ MmioWrite(r, value)
        /\ UNCHANGED <<vram, executed, batch, batchWords, caller, attempts, status>>
    BY <1>1 DEF InitWrite, InitWrites
  <2>2. /\ initStep = 0 => r = "mode" /\ value = ModeGop
        /\ initStep = 1 => r = "start" /\ value = RingStart
        /\ initStep = 2 => r = "end" /\ value = RingEnd
        /\ initStep = 3 => r = "tail" /\ value = RingStart
        /\ initStep = 4 => r = "head" /\ value = RingStart
        /\ initStep = 5 => r = "mode" /\ value = Mode3d
    BY DEF InitWrites
  <2>3. RingStart \in Nat /\ RingEnd \in Nat /\ ModeGop \in Nat /\ Mode3d \in Nat
    BY RingAssumption DEF RingEnd, ModeGop, Mode3d
  <2>4. r \in RingRegs /\ value \in Nat /\ (r = "head" => regs["mode"] = ModeGop)
    BY <2>1, <2>2, <2>3 DEF RingRegs
  <2> HIDE DEF r, value
  <2>5. /\ regs' \in [RingRegs -> Nat]
        /\ regs'[r] = value
        /\ \A s \in RingRegs : s # r => regs'[s] = regs[s]
        /\ ~processing'
    BY <2>1, <2>4, PlainWrite DEF DeviceTypeOK
  <2>6. InitProgress'
    BY <2>1, <2>2, <2>5 DEF RingRegs, ModeGop, Mode3d
  <2>7. processing' = FALSE
    BY <2>1, <2>4 DEF MmioWrite, Triggers
  <2>8. TypeOK'
    BY <2>1, <2>3, <2>5, <2>7 DEF DeviceTypeOK, InitWrites
  <2>9. QED
    BY <2>1, <2>6, <2>7, <2>8 DEF PointersOnSlots, PointersInOrder, RingRegsSet
<1>2. ASSUME InitBatch PROVE IInv'
  <2>1. /\ pc = "init" /\ pc' = "client" /\ initStep = 6
        /\ UNCHANGED <<regs, vram, processing, executed, initStep, ringHead,
                       ringTail, batch, caller, attempts, status>>
        /\ batchWords' \in {0, RingWords}
    BY <1>2 DEF InitBatch, InitWrites
  <2>2. /\ regs["start"] = RingStart /\ regs["end"] = RingEnd
        /\ regs["tail"] = RingStart /\ regs["head"] = RingStart
        /\ ringHead = RingStart /\ ringTail = RingStart
    BY <2>1
  <2>3. InOrder(RingStart, RingStart, RingStart, RingStart)
    BY RingAssumption DEF InOrder, Distance
  <2>4. PointersOnSlots' /\ PointersInOrder' /\ RingRegsSet'
    BY <2>1, <2>2, <2>3, SlotsInRing
       DEF PointersOnSlots, PointersInOrder, RingRegsSet
  <2>5. QED
    BY <2>1, <2>4 DEF DeviceTypeOK
<1>3. QED
  BY <1>1, <1>2

\* Waiting for space keeps the invariant: what a wait establishes is what the
\* place it goes to needs (ringbuffer.c:82-103).
LEMMA WaitKeepsIInv == IInv /\ (WaitSpace \/ Stall) => IInv'
<1> SUFFICES ASSUME IInv, WaitSpace \/ Stall PROVE IInv'
  OBVIOUS
<1>1. BytesToWrite \in Nat
  BY BatchSize
<1>2. pc # "init"
  BY DEF WaitSpace, Stall, WaitSteps, StallSteps
<1>3. ASSUME NEW tail \in Ring, FreeSpace(RingStart, tail) >= BytesToWrite
      PROVE  BytesToWrite <= RingEnd - RingStart
  BY <1>1, <1>3, RingAssumption DEF FreeSpace, Ring, RingEnd
<1>4. caller \in Callers /\ AfterFlush(caller) \in {"client", "sync", "append"}
      /\ (AfterFlush(caller) = "append" => caller \in Commands)
  BY DEF AfterFlush, Callers, IInv, TypeOK
<1> USE DEF IInv, TypeOK, Steps, FlushSteps, WaitSteps, StallSteps, InitProgress,
            ProcessorRuns, FlushProgress, AppendHasCommand
<1>5. ASSUME WaitSpace PROVE IInv'
  <2>1. PointersOnSlots' /\ PointersInOrder' /\ RingRegsSet' /\ ringTail' \in Nat
    <3>1. CASE UNCHANGED ringTail
      BY <1>2, <1>5, <3>1, SamePointers DEF WaitSpace
    <3>2. CASE ringTail' = regs["tail"]
      BY <1>2, <1>5, <3>2, RereadPointers DEF WaitSpace
    <3>3. QED
      BY <1>5, <3>1, <3>2 DEF WaitSpace
  <2>2. /\ pc' \in {"place", "write", "stall", "restall"}
        /\ pc' \in {"place", "write"} =>
             FreeSpace(ringHead, ringTail') >= BytesToWrite
        /\ pc' \in {"restall", "write"} => pc = "rewait"
        /\ pc' \in {"stall", "restall"} =>
             ringTail' = regs["tail"] /\ ~(FreeSpace(ringHead, ringTail') >= BytesToWrite)
    BY <1>5 DEF WaitSpace, Granted, Stalled
  <2>3. ringTail' \in Ring /\ ringHead \in Ring
    BY <1>2, <2>1, <2>2, Pointers, SlotsInRing DEF PointersOnSlots
  <2>4. FreeSpace(ringHead, ringTail') \in Int
    BY <2>3, RingAssumption DEF FreeSpace, Ring, RingEnd
  <2>5. UNCHANGED <<regs, vram, processing, executed, initStep, ringHead, batch,
                    batchWords, caller, status>> /\ attempts' = 0
    BY <1>5 DEF WaitSpace
  <2>6. FlushProgress'
    BY <1>1, <1>3, <2>2, <2>3, <2>4, <2>5 DEF BytesToWrite, FreeSpace, SpaceAtEnd
  <2>7. QED
    BY <1>2, <1>5, <2>1, <2>2, <2>5, <2>6, RingAssumption
       DEF WaitSpace, DeviceTypeOK
<1>6. ASSUME Stall PROVE IInv'
  <2>1. PointersOnSlots' /\ PointersInOrder' /\ RingRegsSet' /\ ringTail' \in Nat
    BY <1>2, <1>6, RereadPointers DEF Stall
  <2>2. ringTail' = ringTail /\ FreeSpace(ringHead, ringTail) < BytesToWrite
    BY <1>6 DEF Stall
  <2>3. FreeSpace(ringHead, ringTail) \in Int
    BY <1>2, Pointers, RingAssumption DEF FreeSpace, Ring, RingEnd
  <2>4. ~(FreeSpace(ringHead, regs["tail"]) >= BytesToWrite)
    BY <1>1, <1>6, <2>2, <2>3 DEF Stall
  <2>5. UNCHANGED <<regs, vram, processing, executed, initStep, ringHead, ringTail,
                    batch, batchWords, caller>>
    BY <1>6, <2>2 DEF Stall
  <2>6. CASE attempts = MaxAttempts /\ FlushReturns(caller, "timeout")
              /\ UNCHANGED attempts
    <3>1. pc' \in {"client", "sync", "append"} /\ status' = "timeout"
          /\ (pc' = "append" => caller \in Commands)
      BY <1>4, <2>6 DEF FlushReturns
    <3>2. FlushProgress' /\ InitProgress' /\ AppendHasCommand'
      BY <2>5, <3>1
    <3>3. ProcessorRuns'
      BY <1>6, <2>5 DEF Stall
    <3>4. TypeOK'
      BY <2>1, <2>5, <2>6, <3>1 DEF DeviceTypeOK
    <3>5. QED
      BY <2>1, <3>2, <3>3, <3>4
  <2>7. CASE attempts < MaxAttempts /\ attempts' = attempts + 1 /\ pc' = pc
              /\ UNCHANGED status
    <3>1. FlushProgress'
      BY <1>6, <2>5, <2>7 DEF Stall, BytesToWrite, FreeSpace, SpaceAtEnd
    <3>2. attempts' \in 0 .. MaxAttempts
      BY <2>7, RingAssumption
    <3>3. QED
      BY <1>2, <1>6, <2>1, <2>5, <2>7, <3>1, <3>2 DEF DeviceTypeOK, Stall
  <2>8. QED
    BY <1>6, <2>4, <2>6, <2>7 DEF Stall
<1>7. QED
  BY <1>5, <1>6

\* Wrapping the head keeps the invariant (ringbuffer.c:118-130).
LEMMA WrapKeepsIInv == IInv /\ WrapHead => IInv'
<1> SUFFICES ASSUME IInv, WrapHead PROVE IInv'
  OBVIOUS
<1>1. pc = "place" /\ pc' = "rewait" /\ BytesToWrite > RingEnd - ringHead
      /\ ringHead' = RingStart
      /\ UNCHANGED <<regs, processing, executed, initStep, ringTail, batch,
                     batchWords, caller, attempts, status>>
  BY DEF WrapHead, SpaceAtEnd
<1>2. RingStart < ringTail /\ ringTail <= ringHead
  BY <1>1, Pointers, BatchSize, WrapSpace DEF IInv, FlushProgress
<1>3. InOrder(ringTail, regs["tail"], regs["head"], RingStart)
  BY <1>1, <1>2, Pointers, OrderWrap
<1>4. PointersOnSlots' /\ PointersInOrder' /\ RingRegsSet'
  BY <1>1, <1>3, Pointers, SlotsInRing
     DEF PointersOnSlots, PointersInOrder, RingRegsSet, IInv
<1>5. vram' \in [0 .. VramWords - 1 -> Commands \cup {Noop, Payload}]
  BY DEF WrapHead, IInv, TypeOK, DeviceTypeOK
<1>6. QED
  BY <1>1, <1>4, <1>5, RingAssumption
     DEF IInv, TypeOK, DeviceTypeOK, Steps, FlushSteps, WaitSteps, StallSteps,
         InitProgress, ProcessorRuns, FlushProgress, AppendHasCommand

\* Copying the batch into the ring keeps the invariant (ringbuffer.c:137-143).
LEMMA WriteKeepsIInv == IInv /\ WriteBatch => IInv'
<1> SUFFICES ASSUME IInv, WriteBatch PROVE IInv'
  OBVIOUS
<1>1. /\ pc \in {"place", "write"} /\ pc' = "kick"
      /\ BytesToWrite <= RingEnd - ringHead
      /\ FreeSpace(ringHead, ringTail) >= BytesToWrite
      /\ ringHead' = Behind(ringHead, BytesToWrite)
      /\ UNCHANGED <<regs, processing, executed, initStep, ringTail, batch,
                     batchWords, caller, attempts, status>>
  BY DEF WriteBatch, SpaceAtEnd, IInv, FlushProgress, Behind
<1>2. InOrder(ringTail, regs["tail"], regs["head"], ringHead')
  BY <1>1, Pointers, BatchSize, OrderWrite
<1>3. ringHead' \in SlotAddresses
  BY <1>1, Pointers, BatchSize, BehindSlot
<1>4. PointersOnSlots' /\ PointersInOrder' /\ RingRegsSet'
  BY <1>1, <1>2, <1>3, Pointers
     DEF PointersOnSlots, PointersInOrder, RingRegsSet, IInv
<1>5. ringHead' \in Nat
  BY <1>3, SlotsInRing, RingAssumption DEF Ring
<1>6. vram' \in [0 .. VramWords - 1 -> Commands \cup {Noop, Payload}]
  <2>1. SUFFICES ASSUME NEW w \in 0 .. VramWords - 1,
                        w \in ringHead .. ringHead + BytesToWrite - 1
                 PROVE  BatchWord(w - ringHead) \in Commands \cup {Payload}
    BY DEF WriteBatch, IInv, TypeOK, DeviceTypeOK
  <2>2. w - ringHead \in Nat /\ w - ringHead < CmdWords * Len(batch)
    BY <2>1, BatchSize DEF IInv, TypeOK
  <2>3. (w - ringHead) \div CmdWords + 1 \in 1 .. Len(batch)
    BY <2>2, BatchSize DEF CmdWords
  <2>4. QED
    BY <2>3 DEF BatchWord, IInv, TypeOK
<1>7. QED
  BY <1>1, <1>4, <1>5, <1>6
     DEF IInv, TypeOK, DeviceTypeOK, Steps, FlushSteps, WaitSteps, StallSteps,
         InitProgress, ProcessorRuns, FlushProgress, AppendHasCommand

\* The head write keeps the invariant: the tail is inside the ring, so the
\* device starts from where it stopped (gpu.c:120-143, ringbuffer.c:146).
LEMMA KickKeepsIInv == IInv /\ Kick => IInv'
<1> SUFFICES ASSUME IInv, Kick PROVE IInv'
  OBVIOUS
<1> DEFINE written == [regs EXCEPT !["head"] = ringHead]
<1>1. /\ pc = "kick" /\ pc' = "kicked" /\ MmioWrite("head", ringHead)
      /\ UNCHANGED <<vram, executed, initStep, ringHead, ringTail, batch,
                     batchWords, caller, attempts, status>>
  BY DEF Kick
<1>2. /\ written \in [RingRegs -> Nat]
      /\ written["head"] = ringHead
      /\ \A r \in RingRegs : r # "head" => written[r] = regs[r]
  BY DEF IInv, TypeOK, DeviceTypeOK, RingRegs
<1>3. written["start"] = RingStart /\ written["end"] = RingEnd
  BY <1>1, <1>2 DEF IInv, RingRegsSet, RingRegs
<1>4. written["tail"] = regs["tail"] /\ regs["tail"] \in Ring
  BY <1>1, <1>2, Pointers DEF RingRegs
<1> HIDE DEF written
<1>5. TailInBounds(written) = written
  BY <1>3, <1>4, RingAssumption DEF TailInBounds, Ring, RingEnd
<1>6. regs' = written /\ processing' \in BOOLEAN
      /\ (processing' => written["tail"] # written["head"])
  BY <1>1, <1>5 DEF MmioWrite, Triggers, written
<1>7. InOrder(ringTail, regs["tail"], ringHead, ringHead)
  BY <1>1, Pointers, OrderKick
<1>8. PointersOnSlots' /\ PointersInOrder' /\ RingRegsSet'
  BY <1>1, <1>2, <1>3, <1>4, <1>6, <1>7, Pointers
     DEF PointersOnSlots, PointersInOrder, RingRegsSet
<1>9. QED
  BY <1>1, <1>2, <1>6, <1>8
     DEF IInv, TypeOK, DeviceTypeOK, Steps, FlushSteps, WaitSteps, StallSteps,
         InitProgress, ProcessorRuns, FlushProgress, AppendHasCommand

\* The driver's other steps move no pointer but the tail it remembers.
LEMMA DriverKeepsIInv == IInv /\ DriverStep => IInv'
<1> SUFFICES ASSUME IInv, DriverStep PROVE IInv'
  OBVIOUS
<1>0. caller \in Callers /\ AfterFlush(caller) \in {"client", "sync", "append"}
      /\ (AfterFlush(caller) = "append" => caller \in Commands)
  BY DEF AfterFlush, Callers, IInv, TypeOK
<1> USE DEF Steps, FlushSteps, WaitSteps, StallSteps, InitProgress, ProcessorRuns,
            FlushProgress, AppendHasCommand
<1>1. CASE AppendCmd
  <2>1. PointersOnSlots' /\ PointersInOrder' /\ RingRegsSet'
    BY <1>1, SamePointers DEF AppendCmd
  <2>2. batch' \in Seq(Commands)
    BY <1>1 DEF AppendCmd, IInv, TypeOK
  <2>3. QED
    BY <1>1, <2>1, <2>2 DEF AppendCmd, IInv, TypeOK, DeviceTypeOK
<1>2. CASE KickReturns
  <2>1. PointersOnSlots' /\ PointersInOrder' /\ RingRegsSet'
    BY <1>2, SamePointers DEF KickReturns
  <2>2. pc' = AfterFlush(caller) /\ status' = "success"
    BY <1>2 DEF KickReturns, FlushReturns
  <2>3. QED
    BY <1>0, <1>2, <2>1, <2>2 DEF KickReturns, IInv, TypeOK, DeviceTypeOK
<1>3. CASE PresentSync
  <2>1. PointersOnSlots' /\ PointersInOrder' /\ RingRegsSet'
    BY <1>3, SamePointers DEF PresentSync
  <2>2. QED
    BY <1>3, <2>1 DEF PresentSync, IInv, TypeOK, DeviceTypeOK
<1>4. CASE DestroyPoll
  <2>1. PointersOnSlots' /\ PointersInOrder' /\ RingRegsSet' /\ ringTail' \in Nat
    BY <1>4, RereadPointers DEF DestroyPoll
  <2>2. batch' \in Seq(Commands) /\ pc' \in {"client", "destroy"}
    <3>1. batch \in Seq(Commands) /\ <<>> \in Seq(Commands)
      BY DEF IInv, TypeOK
    <3>2. QED
      BY <1>4, <3>1 DEF DestroyPoll
  <2>3. UNCHANGED <<regs, vram, processing, executed, initStep, ringHead,
                    batchWords, caller, attempts, status>> /\ pc = "destroy"
    BY <1>4 DEF DestroyPoll
  <2>4. TypeOK'
    BY <2>1, <2>2, <2>3 DEF IInv, TypeOK, DeviceTypeOK
  <2>5. InitProgress' /\ ProcessorRuns' /\ FlushProgress' /\ AppendHasCommand'
    BY <2>2, <2>3 DEF IInv
  <2>6. QED
    BY <2>1, <2>4, <2>5 DEF IInv
<1>5. QED
  BY <1>1, <1>2, <1>3, <1>4, InitStepKeepsIInv, WaitKeepsIInv, WrapKeepsIInv,
     WriteKeepsIInv, KickKeepsIInv
     DEF DriverStep

\* An iteration of the command processor keeps the invariant: the tail moves to
\* the next slot and does not pass the head (gpu.c:146-161).
LEMMA DeviceKeepsIInv == IInv /\ DeviceStep => IInv'
<1> SUFFICES ASSUME IInv, DeviceStep PROVE IInv'
  OBVIOUS
<1> DEFINE next == NextSlot(regs["tail"])
<1>1. /\ processing /\ pc = "kicked" /\ regs["tail"] # regs["head"]
      /\ UNCHANGED <<vram, pc, initStep, ringHead, ringTail, batch, batchWords,
                     caller, attempts, status>>
  BY DEF DeviceStep, ProcessCommand, IInv, ProcessorRuns
<1>2. AdvanceTail(regs) = next
  BY <1>1 DEF AdvanceTail, NextSlot, IInv, RingRegsSet
<1>3. next \in SlotAddresses /\ InOrder(ringTail, next, regs["head"], ringHead)
  BY <1>1, Pointers, NextSlotIsSlot, OrderAdvance
<1> HIDE DEF next
<1>4. next \in Nat
  <2>1. next \in Ring
    BY <1>3, SlotsInRing
  <2>2. QED
    BY <2>1, RingAssumption DEF Ring, RingEnd
<1>5. /\ regs' \in [RingRegs -> Nat]
      /\ regs'["tail"] = next
      /\ \A r \in RingRegs : r # "tail" => regs'[r] = regs[r]
      /\ processing' = (next # regs["head"])
  BY <1>2, <1>4 DEF DeviceStep, ProcessCommand, IInv, TypeOK, DeviceTypeOK, RingRegs
<1>6. PointersOnSlots' /\ PointersInOrder' /\ RingRegsSet'
  BY <1>1, <1>3, <1>5, Pointers
     DEF PointersOnSlots, PointersInOrder, RingRegsSet, IInv, RingRegs
<1>7. executed' \in Seq(Commands \cup {Payload})
  <2>1. regs["tail"] \in 0 .. VramWords - 1
    BY <1>1, Pointers, RingAssumption, DeviceAssumption DEF Ring, RingEnd
  <2>2. vram[regs["tail"]] \in Commands \cup {Noop, Payload}
    BY <2>1 DEF IInv, TypeOK, DeviceTypeOK
  <2>3. QED
    BY <2>2 DEF DeviceStep, ProcessCommand, IInv, TypeOK, DeviceTypeOK
<1>8. TypeOK'
  BY <1>1, <1>5, <1>7 DEF IInv, TypeOK, DeviceTypeOK
<1>9. ProcessorRuns'
  BY <1>1, <1>5 DEF ProcessorRuns, RingRegs
<1>10. QED
  BY <1>1, <1>6, <1>8, <1>9
     DEF IInv, StallSteps, InitProgress, FlushProgress, AppendHasCommand

\* A guest reset keeps the invariant: nothing is asked of the registers until
\* GpuRingBufferInit has written them.
LEMMA ResetKeepsIInv == IInv /\ GuestReset => IInv'
BY RingAssumption
   DEF GuestReset, IInv, TypeOK, DeviceTypeOK, Steps, FlushSteps, WaitSteps,
       StallSteps, Callers, InitWrites, PointersOnSlots, PointersInOrder,
       InitProgress, RingRegsSet, ProcessorRuns, FlushProgress, AppendHasCommand

\* A stuttering step keeps the invariant.
LEMMA StutterKeepsIInv == IInv /\ UNCHANGED vars => IInv'
BY DEF vars, IInv, TypeOK, DeviceTypeOK, PointersOnSlots, PointersInOrder,
       InitProgress, RingRegsSet, ProcessorRuns, FlushProgress, AppendHasCommand,
       BytesToWrite, SpaceAtEnd

\* Every step keeps the invariant.
LEMMA NextIInv == IInv /\ [Next]_vars => IInv'
BY ClientKeepsIInv, DriverKeepsIInv, DeviceKeepsIInv, ResetKeepsIInv,
   StutterKeepsIInv
   DEF Next

-----------------------------------------------------------------------------
\* Every reachable state satisfies the invariant.
THEOREM Invariant == Spec => []IInv
BY InitIInv, NextIInv, PTL DEF Spec

\* Registers, VRAM and the driver's variables keep their types (gpu.h:110,
\* ringbuffer.h:7).
THEOREM TypeCorrect == Spec => []TypeOK
<1>1. IInv => TypeOK
  BY DEF IInv
<1>2. QED
  BY <1>1, Invariant, PTL

\* Behind GpuRingBufferInit every pointer of driver and device stands at the
\* first word of a command, for rings of any size, whether or not a multiple of
\* a command's (gpu.c:146, ringbuffer.c:138).
THEOREM PointersStayOnSlots == Spec => []PointersOnSlots
<1>1. IInv => PointersOnSlots
  BY DEF IInv
<1>2. QED
  BY <1>1, Invariant, PTL

\* No pointer overtakes another, with batches of any size, flushes that time
\* out halfway and resets at any moment (ringbuffer.c:68).
THEOREM PointersStayInOrder == Spec => []PointersInOrder
<1>1. IInv => PointersInOrder
  BY DEF IInv
<1>2. QED
  BY <1>1, Invariant, PTL

\* A flush that enters the stall loop never writes its batch, however many
\* turns the loop takes (ringbuffer.c:93).
THEOREM StallingNeverHelps == Spec => StallIsFutile
<1>1. IInv /\ [Next]_vars => [(pc \in StallSteps) => (pc' \notin {"place", "write"})]_vars
  <2> SUFFICES ASSUME IInv, Next, pc \in StallSteps
               PROVE  pc' \notin {"place", "write"}
    OBVIOUS
  <2>1. pc # "init" /\ pc \in {"stall", "restall"}
    BY DEF StallSteps
  <2>2. CASE Stall
    <3>1. FreeSpace(ringHead, regs["tail"]) < BytesToWrite
      BY DEF IInv, FlushProgress
    <3>2. FreeSpace(ringHead, regs["tail"]) \in Int
      BY <2>1, Pointers, RingAssumption DEF FreeSpace, Ring, RingEnd
    <3>3. pc' = pc \/ pc' = AfterFlush(caller)
      BY <2>2, <3>1, <3>2, BatchSize DEF Stall, FlushReturns
    <3>4. QED
      BY <2>1, <3>3 DEF AfterFlush
  <2>3. CASE GuestReset
    BY <2>3 DEF GuestReset
  <2>4. ~DeviceStep
    BY <2>1 DEF DeviceStep, ProcessCommand, IInv, ProcessorRuns
  <2>5. QED
    BY <2>1, <2>2, <2>3, <2>4
       DEF Next, ClientStep, DriverStep, SetMode, CmdBegin, AddCmd, Submit,
           Present, Destroy, InitWrite, InitBatch, AppendCmd, WaitSpace, WaitSteps,
           WrapHead, WriteBatch, Kick, KickReturns, PresentSync, DestroyPoll
<1>2. QED
  BY <1>1, Invariant, PTL DEF Spec, StallIsFutile

\* Only a batch and the padding before a wrap write to VRAM.
LEMMA OtherStepsKeepVram == Next => UNCHANGED vram \/ WrapHead \/ WriteBatch
BY DEF Next, ClientStep, DriverStep, DeviceStep, ProcessCommand, SetMode, CmdBegin,
       AddCmd, Flush, Submit, Present, Destroy, InitWrite, InitBatch, AppendCmd,
       WaitSpace, Stall, Kick, KickReturns, PresentSync, DestroyPoll, GuestReset

\* No step of the driver changes a word the device has been told of and has not
\* read, in rings of any size and with tails however old (ringbuffer.c:124,
\* 137).
THEOREM PendingStaysUntouched == Spec => PendingUntouched
<1> DEFINE Kept == pc # "init" =>
                     \A a \in RingStart .. RingEnd - 1 : Pending(a) => vram'[a] = vram[a]
<1>1. IInv /\ [Next]_vars => [Kept]_vars
  <2> SUFFICES ASSUME IInv, Next, pc # "init",
                      NEW w \in Ring, Pending(w), UNCHANGED vram \/ WrapHead \/ WriteBatch
               PROVE  vram'[w] = vram[w]
    BY OtherStepsKeepVram DEF Ring
  <2>1. w \in DOMAIN vram
    <3>1. w \in 0 .. VramWords - 1
      BY RingAssumption, DeviceAssumption DEF Ring, RingEnd
    <3>2. QED
      BY <3>1 DEF IInv, TypeOK, DeviceTypeOK
  <2>2. Distance(regs["tail"], w) \in Int
        /\ Distance(regs["tail"], regs["head"]) \in Int
    BY Pointers, RingAssumption DEF Distance, Ring, RingEnd
  <2>3. ASSUME FreeSpace(ringHead, ringTail) >= BytesToWrite
        PROVE  ~(ringHead <= w /\ w < ringHead + BytesToWrite)
    BY <2>2, <2>3, Pointers, BatchSize, WriteAvoidsPending DEF Pending
  <2>4. ringHead \in Int /\ BytesToWrite \in Int /\ w \in Int
    BY Pointers, BatchSize, RingAssumption DEF Ring, RingEnd
  <2>5. CASE WrapHead
    <3>1. FreeSpace(ringHead, ringTail) >= BytesToWrite
          /\ BytesToWrite > RingEnd - ringHead
      BY <2>5 DEF WrapHead, SpaceAtEnd, IInv, FlushProgress
    <3>2. w \notin ringHead .. RingEnd - 1
      BY <2>3, <2>4, <3>1, RingAssumption DEF RingEnd
    <3>3. QED
      BY <2>1, <2>5, <3>2 DEF WrapHead
  <2>6. CASE WriteBatch
    <3>1. FreeSpace(ringHead, ringTail) >= BytesToWrite
      BY <2>6 DEF WriteBatch, IInv, FlushProgress
    <3>2. w \notin ringHead .. ringHead + BytesToWrite - 1
      BY <2>3, <2>4, <3>1
    <3>3. QED
      BY <2>1, <2>6, <3>2 DEF WriteBatch
  <2>7. CASE UNCHANGED vram
    BY <2>7
  <2>8. QED
    BY <2>5, <2>6, <2>7
<1>2. QED
  BY <1>1, Invariant, PTL DEF Spec, PendingUntouched

-----------------------------------------------------------------------------
(***************************************************************************)
(* When no flush times out, for every ring size.  A client that never      *)
(* switches the processor off and submits at most half a ring at a time    *)
(* finds an empty ring at every flush, and a wrap that leaves room for the *)
(* batch before the head it came from.                                     *)
(***************************************************************************)
HalfBatches ==
  /\ ModeGop \notin ClientModes
  /\ 2 * (CmdWords * MaxBatch) <= RingWords

\* The device has read all it was told of.
Drained == regs["tail"] = regs["head"]

ProcessorOn == pc # "init" \/ initStep = Len(InitWrites) => regs["mode"] # ModeGop

RingDrained ==
  /\ pc \notin {"init", "kicked"} => Drained
  /\ pc \in {"client", "append", "sync", "destroy", "wait", "place"} =>
       ringHead = regs["head"]
  /\ pc = "kicked" => ringHead = regs["head"] /\ (~processing => Drained)
  /\ pc = "rewait" => regs["head"] > RingEnd - BytesToWrite
  /\ pc \notin StallSteps

BatchIsSmall ==
  /\ Len(batch) <= MaxBatch
  /\ pc = "append" => Len(batch) < MaxBatch
  /\ pc \in FlushSteps /\ caller \in Commands => Len(batch) < MaxBatch

DInv == ProcessorOn /\ RingDrained /\ BatchIsSmall /\ NoTimeout

\* Nothing has been recorded and nothing is drained before GpuRingBufferInit.
LEMMA InitDInv == Init => DInv
BY RingAssumption
   DEF Init, DInv, ProcessorOn, RingDrained, BatchIsSmall, NoTimeout, InitWrites,
       FlushSteps, WaitSteps, StallSteps

\* GpuRingBufferInit leaves the processor on and the ring empty.
LEMMA InitStepKeepsDInv == IInv /\ DInv /\ (InitWrite \/ InitBatch) => DInv'
<1> SUFFICES ASSUME IInv, DInv, InitWrite \/ InitBatch PROVE DInv'
  OBVIOUS
<1> USE DEF DInv, ProcessorOn, RingDrained, BatchIsSmall, NoTimeout, FlushSteps,
            WaitSteps, StallSteps
<1>1. ASSUME InitWrite PROVE DInv'
  <2>1. /\ pc = "init" /\ pc' = "init" /\ initStep' = initStep + 1
        /\ initStep \in 0 .. 5 /\ Len(InitWrites) = 6
        /\ UNCHANGED <<batch, status>>
    BY <1>1 DEF InitWrite, InitWrites, IInv, TypeOK
  <2>2. ASSUME initStep = 5 PROVE regs'["mode"] = Mode3d
    <3>1. MmioWrite("mode", Mode3d) /\ "mode" \in RingRegs /\ Mode3d \in Nat
      BY <1>1, <2>2 DEF InitWrite, InitWrites, RingRegs, Mode3d
    <3>2. QED
      BY <3>1, PlainWrite DEF IInv, TypeOK, DeviceTypeOK
  <2>3. QED
    BY <2>1, <2>2 DEF Mode3d, ModeGop
<1>2. ASSUME InitBatch PROVE DInv'
  <2>1. /\ pc = "init" /\ initStep = 6 /\ initStep = Len(InitWrites) /\ pc' = "client"
        /\ UNCHANGED <<regs, ringHead, batch, status>>
    BY <1>2 DEF InitBatch, InitWrites
  <2>2. regs["tail"] = RingStart /\ regs["head"] = RingStart /\ ringHead = RingStart
    BY <2>1 DEF IInv, InitProgress
  <2>3. QED
    BY <2>1, <2>2 DEF Drained
<1>3. QED
  BY <1>1, <1>2

\* The client's calls leave the ring as it is and record at most MaxBatch
\* commands.
LEMMA ClientKeepsDInv ==
  ASSUME HalfBatches, IInv, DInv, ClientStep
  PROVE  DInv'
<1> USE DEF DInv, ProcessorOn, RingDrained, BatchIsSmall, NoTimeout, FlushSteps,
            WaitSteps, StallSteps, Drained
<1>1. ASSUME NEW mode \in ClientModes, SetMode(mode) PROVE DInv'
  <2>1. /\ pc = "client" /\ pc' = "client"
        /\ MmioWrite("mode", mode)
        /\ UNCHANGED <<initStep, ringHead, batch, status>>
    BY <1>1 DEF SetMode
  <2>2. mode \in Nat /\ mode # ModeGop /\ "mode" \in RingRegs
    BY RingAssumption DEF HalfBatches, ModeGop, Mode3d, ModeIdle, RingRegs
  <2>3. /\ regs'["mode"] = mode
        /\ regs'["head"] = regs["head"] /\ regs'["tail"] = regs["tail"]
    BY <2>1, <2>2, PlainWrite DEF IInv, TypeOK, DeviceTypeOK, RingRegs
  <2>4. QED
    BY <2>1, <2>2, <2>3
<1>2. CASE CmdBegin
  BY <1>2, RingAssumption DEF CmdBegin
<1>3. ASSUME NEW who \in Callers, pc = "client", Flush(who),
             who \in Commands => Len(batch) < MaxBatch
      PROVE  DInv'
  <2>1. AfterFlush(who) \in {"client", "sync", "append"}
        /\ (AfterFlush(who) = "append" => who \in Commands)
    BY DEF AfterFlush, Callers
  <2>2. pc' \in {"client", "sync", "append", "wait"}
        /\ UNCHANGED <<regs, initStep, ringHead, batch>>
        /\ status' = "success" /\ caller' = who
        /\ (pc' = "append" => who \in Commands)
    BY <1>3, <2>1 DEF Flush, FlushReturns
  <2>3. QED
    BY <1>3, <2>2
<1>4. ASSUME NEW cmd \in Commands, AddCmd(cmd) PROVE DInv'
  <2>1. CASE BatchOverflows
    BY <1>3, <1>4, <2>1 DEF AddCmd, Callers
  <2>2. CASE ~BatchOverflows
    BY <1>4, <2>2 DEF AddCmd
  <2>3. QED
    BY <2>1, <2>2
<1>5. CASE Submit \/ Present
  BY <1>3, <1>5, RingAssumption DEF Submit, Present, Callers
<1>6. CASE Destroy
  BY <1>6 DEF Destroy
<1>7. QED
  BY <1>1, <1>2, <1>4, <1>5, <1>6 DEF ClientStep

\* A batch is at most half the ring.
LEMMA HalfTheRing ==
  ASSUME HalfBatches, IInv, DInv
  PROVE  BytesToWrite \in Nat /\ 2 * BytesToWrite <= RingWords
<1>1. Len(batch) \in Nat /\ Len(batch) <= MaxBatch /\ BytesToWrite = 9 * Len(batch)
  BY BatchSize DEF DInv, BatchIsSmall, CmdWords
<1>2. MaxBatch \in Nat /\ 2 * (9 * MaxBatch) <= RingWords
  BY RingAssumption DEF HalfBatches, CmdWords
<1>3. QED
  BY <1>1, <1>2, RingAssumption

\* Neither wait stalls: the first finds an empty ring, the second the space
\* between the ring's start and the head it came from (ringbuffer.c:112, 133).
LEMMA WaitKeepsDInv ==
  ASSUME HalfBatches, IInv, DInv, WaitSpace
  PROVE  DInv'
<1>1. pc \in {"wait", "rewait"}
      /\ UNCHANGED <<regs, initStep, ringHead, batch, caller, status>>
  BY DEF WaitSpace, WaitSteps
<1>2. FreeSpace(ringHead, regs["tail"]) >= BytesToWrite
  <2>1. ringHead \in Ring /\ regs["tail"] \in Ring /\ regs["tail"] = regs["head"]
    BY <1>1, Pointers DEF DInv, RingDrained, Drained
  <2>2. BytesToWrite \in Nat /\ 2 * BytesToWrite <= RingWords
    BY HalfTheRing
  <2>3. CASE pc = "wait"
    <3>1. ringHead = regs["tail"]
      BY <2>1, <2>3 DEF DInv, RingDrained
    <3>2. QED
      BY <2>1, <2>2, <3>1, RingAssumption DEF FreeSpace, Ring, RingEnd, CmdWords
  <2>4. CASE pc = "rewait"
    <3>1. ringHead = RingStart /\ regs["tail"] > RingEnd - BytesToWrite
      BY <2>1, <2>4 DEF DInv, RingDrained, IInv, FlushProgress
    <3>2. QED
      BY <2>1, <2>2, <3>1, RingAssumption DEF FreeSpace, Ring, RingEnd, CmdWords
  <2>5. QED
    BY <1>1, <2>3, <2>4
<1>3. pc' = Granted(pc)
  BY <1>1, <1>2 DEF WaitSpace
<1>4. QED
  BY <1>1, <1>3
     DEF Granted, DInv, ProcessorOn, RingDrained, BatchIsSmall, NoTimeout,
         FlushSteps, WaitSteps, StallSteps, Drained

\* The rest of a flush: the wrap leaves the head behind, the head write finds
\* the processor on and the tail behind the head, and returns when the device
\* has read everything.
LEMMA FlushKeepsDInv ==
  ASSUME IInv, DInv, WrapHead \/ WriteBatch \/ Kick \/ KickReturns \/ DeviceStep
  PROVE  DInv'
<1> USE DEF DInv, ProcessorOn, RingDrained, BatchIsSmall, NoTimeout, FlushSteps,
            WaitSteps, StallSteps
<1>1. CASE WrapHead
  <2>1. /\ pc = "place" /\ pc' = "rewait"
        /\ UNCHANGED <<regs, initStep, batch, caller, status>>
        /\ BytesToWrite > RingEnd - ringHead
    BY <1>1 DEF WrapHead, SpaceAtEnd
  <2>2. ringHead = regs["head"] /\ ringHead \in Ring
    BY <2>1, Pointers
  <2>3. regs["head"] > RingEnd - BytesToWrite
    BY <2>1, <2>2, BatchSize, RingAssumption DEF Ring, RingEnd
  <2>4. QED
    BY <2>1, <2>3 DEF Drained, BytesToWrite
<1>2. CASE WriteBatch
  BY <1>2 DEF WriteBatch, Drained
<1>3. CASE Kick
  <2> DEFINE written == [regs EXCEPT !["head"] = ringHead]
  <2>1. /\ pc = "kick" /\ pc' = "kicked" /\ MmioWrite("head", ringHead)
        /\ UNCHANGED <<initStep, ringHead, ringTail, batch, caller, status>>
    BY <1>3 DEF Kick
  <2>2. /\ \A r \in RingRegs : r # "head" => written[r] = regs[r]
        /\ written["head"] = ringHead
    BY DEF IInv, TypeOK, DeviceTypeOK, RingRegs
  <2>3. written["start"] = RingStart /\ written["end"] = RingEnd
    BY <2>1, <2>2 DEF IInv, RingRegsSet, RingRegs
  <2>4. written["tail"] \in Ring
    BY <2>1, <2>2, Pointers DEF RingRegs
  <2>5. written["mode"] = regs["mode"]
    BY <2>2 DEF RingRegs
  <2> HIDE DEF written
  <2>6. TailInBounds(written) = written /\ RingConfigured(written)
    BY <2>3, <2>4, RingAssumption
       DEF TailInBounds, RingConfigured, Ring, RingEnd, CmdWords
  <2>7. regs["mode"] # ModeGop
    BY <2>1
  <2>8. regs' = written /\ processing' = (written["tail"] # written["head"])
    BY <2>1, <2>6, <2>7 DEF MmioWrite, Triggers, written
  <2>9. QED
    BY <2>1, <2>2, <2>5, <2>7, <2>8 DEF Drained
<1>4. CASE KickReturns
  <2>1. AfterFlush(caller) \in {"client", "sync", "append"}
    BY DEF AfterFlush
  <2>2. /\ pc = "kicked" /\ ~processing /\ pc' \in {"client", "sync", "append"}
        /\ status' = "success" /\ batch' = <<>>
        /\ UNCHANGED <<regs, initStep, ringHead>>
    BY <1>4, <2>1 DEF KickReturns, FlushReturns
  <2>3. Len(batch') < MaxBatch
    BY <2>2, RingAssumption
  <2>4. Len(batch') <= MaxBatch
    BY <2>2, RingAssumption
  <2>5. QED
    BY <2>2, <2>3, <2>4 DEF Drained
<1>5. CASE DeviceStep
  <2>1. /\ pc = "kicked" /\ pc' = "kicked"
        /\ UNCHANGED <<initStep, ringHead, batch, caller, status>>
        /\ processing' = (AdvanceTail(regs) # regs["head"])
        /\ regs' = [regs EXCEPT !["tail"] = AdvanceTail(regs)]
    BY <1>5 DEF DeviceStep, ProcessCommand, IInv, ProcessorRuns
  <2>2. /\ regs'["tail"] = AdvanceTail(regs)
        /\ regs'["head"] = regs["head"] /\ regs'["mode"] = regs["mode"]
    BY <2>1 DEF IInv, TypeOK, DeviceTypeOK, RingRegs
  <2>3. QED
    BY <2>1, <2>2 DEF Drained
<1>6. QED
  BY <1>1, <1>2, <1>3, <1>4, <1>5

\* Every step keeps the invariant; a stall and a timeout never come.
LEMMA NextDInv ==
  ASSUME HalfBatches
  PROVE  IInv /\ DInv /\ [Next]_vars => DInv'
<1> SUFFICES ASSUME IInv, DInv, [Next]_vars PROVE DInv'
  OBVIOUS
<1> USE DEF DInv, ProcessorOn, RingDrained, BatchIsSmall, NoTimeout, FlushSteps,
            WaitSteps, StallSteps, Drained
<1>1. CASE AppendCmd
  <2>1. /\ pc = "append" /\ pc' \in {"fault", "client"}
        /\ UNCHANGED <<regs, initStep, ringHead, caller, status>>
        /\ batch' = batch \/ batch' = Append(batch, caller)
    BY <1>1 DEF AppendCmd
  <2>2. Len(batch') <= MaxBatch
    BY <2>1, RingAssumption DEF IInv, TypeOK
  <2>3. QED
    BY <2>1, <2>2
<1>2. CASE PresentSync
  BY <1>2 DEF PresentSync
<1>3. CASE DestroyPoll
  <2>1. /\ pc = "destroy" /\ pc' \in {"client", "destroy"}
        /\ UNCHANGED <<regs, initStep, ringHead, caller, status>>
        /\ batch' = batch \/ batch' = <<>>
    BY <1>3 DEF DestroyPoll
  <2>2. Len(batch') <= MaxBatch
    BY <2>1, RingAssumption
  <2>3. QED
    BY <2>1, <2>2
<1>4. CASE GuestReset
  BY <1>4, RingAssumption DEF GuestReset, InitWrites
<1>5. CASE UNCHANGED vars
  BY <1>5 DEF vars, BytesToWrite
<1>6. ~Stall
  BY DEF Stall
<1>7. QED
  BY <1>1, <1>2, <1>3, <1>4, <1>5, <1>6, ClientKeepsDInv, InitStepKeepsDInv,
     WaitKeepsDInv, FlushKeepsDInv
     DEF Next, DriverStep

-----------------------------------------------------------------------------
\* With batches of at most half the ring, and the processor never switched off,
\* no flush times out (ringbuffer.c:97-100), for rings of every size.
THEOREM HalfBatchesNeverTimeOut ==
  ASSUME HalfBatches
  PROVE  Spec => []NoTimeout
<1>1. Init => DInv
  BY InitDInv
<1>2. IInv /\ DInv /\ [Next]_vars => DInv'
  BY NextDInv
<1>3. DInv => NoTimeout
  BY DEF DInv
<1>4. QED
  BY <1>1, <1>2, <1>3, Invariant, PTL DEF Spec
=============================================================================
