------------------------------ MODULE VramHeap ------------------------------
(***************************************************************************)
(* What the VRAM allocator does in one step: a set of blocks of whole      *)
(* pages that never overlap.  An allocation takes the lowest place where   *)
(* it fits and fails only when there is none; a free gives back the block  *)
(* that starts at the page it is given, if one does, and changes nothing   *)
(* otherwise.  HeapCalls says of every call what it may answer.            *)
(***************************************************************************)
EXTENDS Integers

CONSTANTS
  PageCount    \* pages of VRAM

VARIABLES
  blocks,      \* the allocated blocks
  answer       \* the page the last call was about, or Refused

Refused == -1

Pages == 0 .. PageCount - 1

Unused(p) == \A b \in blocks : p \notin b.page .. b.page + b.pages - 1

\* p is a free page and n pages from it on are: a request for no pages needs p.
Fits(p, n) ==
  /\ p \in Pages
  /\ Unused(p)
  /\ p + n <= PageCount
  /\ \A q \in p .. p + n - 1 : Unused(q)

Grant(p, n) ==
  /\ blocks' = IF n = 0 THEN blocks ELSE blocks \cup {[page |-> p, pages |-> n]}
  /\ answer' = p

Refuse == UNCHANGED blocks /\ answer' = Refused

NoBlocks == blocks = {} /\ answer = Refused

Allocate(n) ==
  \/ \E p \in Pages :
       /\ Fits(p, n)
       /\ \A q \in 0 .. p - 1 : ~Fits(q, n)
       /\ Grant(p, n)
  \/ (\A p \in Pages : ~Fits(p, n)) /\ Refuse

AllocateAt(p, n) ==
  \/ Fits(p, n) /\ Grant(p, n)
  \/ ~Fits(p, n) /\ Refuse

Free(p) ==
  \/ \E b \in blocks : b.page = p /\ blocks' = blocks \ {b} /\ answer' = p
  \/ (\A b \in blocks : b.page # p) /\ Refuse
=============================================================================
