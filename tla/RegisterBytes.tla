---------------------------- MODULE RegisterBytes ----------------------------
(***************************************************************************)
(* What the device's register window promises to software: bytes.  A store *)
(* changes the bytes it names, in the order they have in memory, and no    *)
(* others; a load returns the bytes that are there.  A store that crosses  *)
(* from one register into the next, or names a register that software      *)
(* cannot write, changes nothing.  The device itself changes its mode and  *)
(* its tail.                                                               *)
(***************************************************************************)
EXTENDS Integers, Sequences

CONSTANT
  Silent    \* the bytes of which a load promises nothing: none, if all is well

VARIABLES
  bytes,    \* the bytes of the registers
  request,  \* the last access: its kind, its address and its bytes
  reply     \* the bytes the last load returned

byteVars == <<bytes, request, reply>>

Cells == 0 .. 47

\* The bytes from a on, n of them.
Span(a, n) == a .. a + n - 1

InOneWord(a, n) == (a % 4) + n <= 4

\* GPU_TIME.
ReadOnly == Span(40, 4)

\* The mode and the tail.
DeviceOwned == Span(0, 4) \cup Span(8, 4)

StoreBytes(a, data) ==
  LET span == Span(a, Len(data)) IN
  /\ bytes' = IF InOneWord(a, Len(data)) /\ span \subseteq Cells \ ReadOnly
                THEN [c \in Cells |-> IF c \in span THEN data[c - a + 1] ELSE bytes[c]]
                ELSE bytes
  /\ reply' = <<>>

\* Bytes behind the register's last come as 0.
LoadBytes(a, n) ==
  /\ DOMAIN reply' = 1 .. n
  /\ \A k \in 1 .. n :
       IF a + k - 1 \in Span(a - (a % 4), 4) \cap Cells
         THEN a + k - 1 \notin Silent => reply'[k] = bytes[a + k - 1]
         ELSE reply'[k] = 0
  /\ UNCHANGED bytes

Access ==
  \/ request'.op = "store" /\ StoreBytes(request'.addr, request'.data)
  \/ request'.op = "load" /\ LoadBytes(request'.addr, Len(request'.data))

DeviceStores ==
  /\ \A c \in Cells \ DeviceOwned : bytes'[c] = bytes[c]
  /\ UNCHANGED <<request, reply>>

BytesInit == request.op = "none" /\ reply = <<>>

BytesNext == Access \/ DeviceStores

BytesSpec == BytesInit /\ [][BytesNext]_byteVars
=============================================================================
