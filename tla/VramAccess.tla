----------------------------- MODULE VramAccess -----------------------------
(***************************************************************************)
(* GpuVramWrite, GpuVramRead and GpuVramSet (UEFI/OptionRom/gpu_memory.c): *)
(* a call is cut into accesses of a word each, and of a byte each for the  *)
(* rest, and ends with the first access that PciIo refuses.  PciIo refuses *)
(* what leaves the BAR and what is not aligned to its width.               *)
(***************************************************************************)
EXTENDS Integers

CONSTANTS
  MemBytes,   \* the bytes of the BAR
  HostBytes   \* bound: the bytes of the longest call

ASSUME VramAccessAssumption == MemBytes \in Nat /\ HostBytes \in Nat

VARIABLES
  mem,    \* the bytes of VRAM
  host,   \* the bytes of the caller's buffer
  call    \* the call: what it is, how far it has come, how it ended, and
          \* what VRAM and the buffer held before it

accessVars == <<mem, host, call>>

\* GpuVramSet fills with a byte of its own.
SetByte == MemBytes + HostBytes

WordBytes == 4

NoCall == [op |-> "none", at |-> 0, size |-> 0, i |-> 0, status |-> "none",
           mem |-> mem, host |-> host]

CallVram(op, at, size) ==
  /\ call' = [op |-> op, at |-> at, size |-> size, i |-> 0, status |-> "busy",
              mem |-> mem, host |-> host]
  /\ UNCHANGED <<mem, host>>

\* Fault: the rest of less than a word is copied as a word.
ChunkWords == WordBytes

\* A word while one is left, then single bytes.
Chunk == IF call.i + WordBytes <= call.size THEN WordBytes ELSE 1

PciServes(addr, n) == addr + n <= MemBytes /\ addr % n = 0

AccessChunk ==
  /\ call.status = "busy" /\ call.i < call.size
  /\ PciServes(call.at + call.i, Chunk)
  /\ LET ks == call.i .. call.i + Chunk - 1 IN
     /\ mem' = [a \in DOMAIN mem |->
          IF call.op # "read" /\ a - call.at \in ks
            THEN IF call.op = "set" THEN SetByte ELSE host[a - call.at]
            ELSE mem[a]]
     /\ host' = [k \in DOMAIN host |->
          IF call.op = "read" /\ k \in ks THEN mem[call.at + k] ELSE host[k]]
  /\ call' = [call EXCEPT !.i = @ + Chunk]

AccessFails ==
  /\ call.status = "busy" /\ call.i < call.size
  /\ ~PciServes(call.at + call.i, Chunk)
  /\ call' = [call EXCEPT !.status = "error"]
  /\ UNCHANGED <<mem, host>>

AccessReturns ==
  /\ call.status = "busy" /\ call.i >= call.size
  /\ call' = [call EXCEPT !.status = "success"]
  /\ UNCHANGED <<mem, host>>

AccessStep == AccessChunk \/ AccessFails \/ AccessReturns

\* Bytes are told apart by where they came from.
AccessInit ==
  /\ mem = [a \in 0 .. MemBytes - 1 |-> a]
  /\ host = [k \in 0 .. HostBytes - 1 |-> MemBytes + k]
  /\ call = NoCall
-----------------------------------------------------------------------------
Written(k) == IF call.op = "set" THEN SetByte ELSE call.host[k]

\* However a call is cut, at every moment it has copied the first call.i bytes
\* of what was asked for, and no other byte has changed, in VRAM or in the
\* caller's buffer; it succeeds only when all are copied, and fails only when
\* they do not all lie in the BAR or do not begin at a word (GpuVramWrite,
\* GpuVramRead and GpuVramSet in UEFI/OptionRom/gpu_memory.c).
CopyIsExact ==
  call.op # "none" =>
    /\ \A a \in DOMAIN mem :
         mem[a] = IF call.op # "read" /\ a \in call.at .. call.at + call.i - 1
                    THEN Written(a - call.at) ELSE call.mem[a]
    /\ \A k \in DOMAIN host :
         host[k] = IF call.op = "read" /\ k < call.i
                     THEN call.mem[call.at + k] ELSE call.host[k]
    /\ call.status = "success" => call.i = call.size
    /\ call.status = "error" =>
         call.at + call.size > MemBytes \/ call.at % WordBytes # 0
=============================================================================
