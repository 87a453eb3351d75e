------------------------------ MODULE Registers ------------------------------
(***************************************************************************)
(* The register window of the device (gpu_mmio_write and gpu_mmio_read in  *)
(* gpu/gpu.c) and the accessors of the driver in front of it.  A register  *)
(* is a word of four bytes; software stores and loads one, two or four of  *)
(* them.  The handlers find the register with a division, and the bytes    *)
(* with shifts and masks, here multiplications and remainders.             *)
(* What a store to the head sets off is GpuDevice's and Adapter's.         *)
(***************************************************************************)
EXTENDS Integers, Sequences

CONSTANT
  LaneBase   \* the number of values of a byte, 256

ASSUME RegistersAssumption == LaneBase \in Nat \ {0, 1}

VARIABLES
  file,      \* the values of the registers
  request,   \* the last access: its kind, its address and its bytes
  loaded     \* the number of bytes and the value of the last load

registerVars == <<file, request, loaded>>

\* The registers in the order of their addresses.
RegisterAt ==
  <<"mode", "head", "tail", "start", "end", "vs", "fs",
    "width", "height", "fb", "time", "z">>

Names == {RegisterAt[k] : k \in 1 .. 12}

AddrOf(name) == 4 * (CHOOSE k \in 0 .. 11 : RegisterAt[k + 1] = name)

ModeGop  == 0
Mode3d   == 1
ModeIdle == 2

\* LaneBase to the power n: the weight of byte n of a word.
Weight(n) ==
  LET square == LaneBase * LaneBase IN
  <<1, LaneBase, square, square * LaneBase, square * square>>[n + 1]

Word == 0 .. Weight(4) - 1

\* Byte n of a value.
Lane(value, n) == (value \div Weight(n)) % LaneBase

\* n bytes of a value from byte off on, shifted down.
Field(value, off, n) == (value \div Weight(off)) % Weight(n)

\* The value that a store instruction's bytes make, lowest first.
Value(data) ==
  data[1]
    + (IF Len(data) >= 2 THEN data[2] * Weight(1) ELSE 0)
    + (IF Len(data) = 4 THEN data[3] * Weight(2) + data[4] * Weight(3) ELSE 0)

BytesOf(value, n) == [k \in 1 .. n |-> Lane(value, k - 1)]

Offset(addr) == addr % 4

IsRegister(addr) == addr - Offset(addr) < 48

Register(addr) == RegisterAt[addr \div 4 + 1]

\* Fault: the bytes are put where the word begins.
UpdateLowLanes(old, off, value, n) ==
  old - Field(old, off, n) * Weight(off) + Field(value, 0, n)

\* update_32bit_register: clear the bytes of the mask, put the value's there.
UpdateRegister(old, off, value, n) ==
  old - Field(old, off, n) * Weight(off) + Field(value, 0, n) * Weight(off)

\* gpu_mmio_write lets GPU_TIME and addresses without a register alone, and
\* so it does a store that crosses the end of a word.
Accepts(addr, n) ==
  IsRegister(addr) /\ Register(addr) # "time" /\ Offset(addr) + n <= 4

MmioWrite(addr, data) ==
  file' = IF Accepts(addr, Len(data))
            THEN [file EXCEPT ![Register(addr)] =
                    UpdateRegister(@, Offset(addr), Value(data), Len(data))]
            ELSE file

\* gpu_mmio_read has no case for the ring's start and end.
MmioRead(addr, n) ==
  IF IsRegister(addr) /\ Register(addr) \notin {"start", "end"}
    THEN Field(file[Register(addr)], Offset(addr), n) ELSE 0

Store(addr, data) ==
  /\ MmioWrite(addr, data)
  /\ request' = [op |-> "store", addr |-> addr, data |-> data]
  /\ loaded' = [n |-> 0, value |-> 0]

\* A load names as many bytes as data has.
Load(addr, data) ==
  /\ loaded' = [n |-> Len(data), value |-> MmioRead(addr, Len(data))]
  /\ request' = [op |-> "load", addr |-> addr, data |-> data]
  /\ UNCHANGED file

\* GpuMmioWrite32, with which the driver writes every register.
GpuMmioWrite32(name, value) == Store(AddrOf(name), BytesOf(value, 4))

NoRequest == [op |-> "none", addr |-> 0, data |-> <<>>]

\* pci_gpu_realize: every register is 0 but the size of the frame.
PowerOnFile(width, height) ==
  [r \in Names |-> IF r = "width" THEN width ELSE IF r = "height" THEN height ELSE 0]

RegistersInit(width, height) ==
  /\ file = PowerOnFile(width, height)
  /\ request = NoRequest
  /\ loaded = [n |-> 0, value |-> 0]

RegistersTypeOK ==
  /\ file \in [Names -> Word]
  /\ request \in [op : {"none", "store", "load"}, addr : Nat, data : Seq(0 .. LaneBase - 1)]
  /\ loaded \in [n : 0 .. 4, value : Word]
-----------------------------------------------------------------------------
\* The registers as bytes, whose lowest comes first.
LaneAt == [c \in 0 .. 47 |-> Lane(file[Register(c)], Offset(c))]

Reply == BytesOf(loaded.value, loaded.n)

Bytes    == INSTANCE RegisterBytes WITH Silent <- {}, bytes <- LaneAt, reply <- Reply
Readable == INSTANCE RegisterBytes WITH Silent <- 12 .. 19, bytes <- LaneAt, reply <- Reply

\* The registers are bytes that software stores and loads, the ring's start and
\* end among them (gpuSpec.md:39-40: "RING_START | RW", "RING_END | RW"): a load
\* finds in each byte what was stored there last (gpu/gpu.c, gpu_mmio_read).
ImplementsBytes == Bytes!BytesSpec

\* Stores of any size, in any order, by the driver, by other software and by
\* the device, leave in each byte what was stored there last, and loads of
\* every register but the ring's start and end find it (gpu/gpu.c,
\* update_32bit_register, gpu_mmio_write and gpu_mmio_read).
ReadableAsBytes == Readable!BytesSpec
=============================================================================
