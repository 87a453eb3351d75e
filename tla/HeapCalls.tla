----------------------------- MODULE HeapCalls -----------------------------
(***************************************************************************)
(* What the VRAM allocator promises its callers.  A call and what it asks  *)
(* for are visible, so that an answer is right or wrong for that call: an  *)
(* allocation of n pages is answered with the lowest place where n pages   *)
(* fit and refused only when they fit nowhere, an allocation at a place is *)
(* refused only when it does not fit there, and a free only when no block  *)
(* starts there.  Looking for a place takes time, and meanwhile the answer *)
(* is pending; the other calls are answered at once.                       *)
(***************************************************************************)
EXTENDS VramHeap

CONSTANT
  Sizes        \* the numbers of pages asked for

VARIABLE
  call         \* the call that is pending, or was answered last

heapVars == <<blocks, answer, call>>

Pending == -2

\* An address that no page starts at.
Nowhere == -1

Places == Pages \cup {Nowhere}

NoCall == [op |-> "none", pages |-> 0, page |-> 0]

HeapInit == NoBlocks /\ call = NoCall

Ask(n) ==
  /\ answer # Pending
  /\ call' = [op |-> "allocate", pages |-> n, page |-> 0]
  /\ answer' = Pending
  /\ UNCHANGED blocks

Reply ==
  /\ answer = Pending
  /\ Allocate(call.pages)
  /\ UNCHANGED call

AskAt(p, n) ==
  /\ answer # Pending
  /\ call' = [op |-> "allocateAt", pages |-> n, page |-> p]
  /\ AllocateAt(p, n)

GiveBack(p) ==
  /\ answer # Pending
  /\ call' = [op |-> "free", pages |-> 0, page |-> p]
  /\ Free(p)

HeapNext ==
  \/ \E n \in Sizes : Ask(n)
  \/ Reply
  \/ \E p \in Places, n \in Sizes \ {0} : AskAt(p, n)
  \/ \E p \in Places : GiveBack(p)

HeapSpec == HeapInit /\ [][HeapNext]_heapVars
=============================================================================
