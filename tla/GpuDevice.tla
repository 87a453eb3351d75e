----------------------------- MODULE GpuDevice -----------------------------
(***************************************************************************)
(* The device side of command submission (gpu/gpu.c): the ring registers,  *)
(* the VRAM words and the command processor.  A write to the head register *)
(* runs process_ring_buffer inside the MMIO handler, so the virtual CPU    *)
(* that wrote it is trapped until the loop ends; one iteration of the loop *)
(* is one step here.  Addresses count 32-bit words: every address and      *)
(* every size on this path is a multiple of four bytes.                    *)
(***************************************************************************)
EXTENDS Integers, Sequences

CONSTANTS
  Commands,    \* the commands a client can record, other than the no-op
  Noop,        \* the word 0, which decodes as CMD_NOOP
  Payload,     \* a word of a command other than its first
  VramWords    \* bound: the size of the modelled VRAM

ASSUME DeviceAssumption ==
  /\ Noop \notin Commands
  /\ Payload \notin Commands \cup {Noop}
  /\ VramWords \in Nat \ {0}

VARIABLES
  regs,        \* the ring registers and the mode register
  vram,        \* the words of VRAM
  processing,  \* TRUE while process_ring_buffer's loop holds the virtual CPU
  executed     \* what the loop has executed since the head write that began it

deviceVars == <<regs, vram, processing, executed>>

ModeGop  == 0
Mode3d   == 1
ModeIdle == 2

\* sizeof(Command), packed: the opcode and eight words of payload.
CmdWords == 9

RingRegs == {"mode", "head", "tail", "start", "end"}

DeviceTypeOK ==
  /\ regs \in [RingRegs -> Nat]
  /\ vram \in [0 .. VramWords - 1 -> Commands \cup {Noop, Payload}]
  /\ processing \in BOOLEAN
  /\ executed \in Seq(Commands \cup {Payload})

\* Every register is zero when the machine is switched on; nothing clears
\* them when the guest resets.
DeviceInit ==
  /\ regs = [r \in RingRegs |-> 0]
  /\ vram = [a \in 0 .. VramWords - 1 |-> Noop]
  /\ processing = FALSE
  /\ executed = <<>>

\* process_ring_buffer up to its loop: a ring that was never configured is
\* ignored, a tail outside the ring is reset to its start.
RingConfigured(r) == r.start # 0 /\ r.end > r.start

TailInBounds(r) ==
  IF r.tail < r.start \/ r.tail >= r.end THEN [r EXCEPT !.tail = r.start] ELSE r

\* Fault: a head write is served in the 3D mode only, not in the idle mode.
Triggers3dOnly(r) == r = "head" /\ regs["mode"] = Mode3d

\* Only a write to the head, and only out of the GOP mode, launches processing.
Triggers(r) == r = "head" /\ regs["mode"] # ModeGop

\* gpu_mmio_write of an aligned word to ring register r.
MmioWrite(r, value) ==
  LET written  == [regs EXCEPT ![r] = value]
      launched == Triggers(r) /\ RingConfigured(written)
      checked  == IF launched THEN TailInBounds(written) ELSE written
  IN  /\ ~processing
      /\ regs' = checked
      /\ processing' = (launched /\ checked.tail # checked.head)

\* Fault: the tail wraps only when it meets the ring's end exactly.
AdvanceTailExact(r) ==
  IF r.tail + CmdWords = r.end THEN r.start ELSE r.tail + CmdWords

\* The tail moves over a command, and wraps at the ring's end or behind it.
AdvanceTail(r) ==
  IF r.tail + CmdWords >= r.end THEN r.start ELSE r.tail + CmdWords

\* Fault: the loop goes round at a no-op before it has moved the tail.
ProcessCommandStands ==
  /\ processing
  /\ vram[regs.tail] # Noop
  /\ executed' = Append(executed, vram[regs.tail])
  /\ regs' = [regs EXCEPT !.tail = AdvanceTail(regs)]
  /\ processing' = (AdvanceTail(regs) # regs.head)
  /\ UNCHANGED vram

\* One iteration of process_ring_buffer's loop.  The opcode decides what
\* execute_command does; an opcode it does not know is ignored as a no-op is,
\* but a Payload word taken for an opcode is recorded: it means the processor
\* lost the command boundaries.
ProcessCommand ==
  /\ processing
  /\ executed' = IF vram[regs.tail] = Noop
                   THEN executed ELSE Append(executed, vram[regs.tail])
  /\ regs' = [regs EXCEPT !.tail = AdvanceTail(regs)]
  /\ processing' = (AdvanceTail(regs) # regs.head)
  /\ UNCHANGED vram
=============================================================================
