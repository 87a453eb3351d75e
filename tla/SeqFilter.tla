----------------------------- MODULE SeqFilter -----------------------------
(***************************************************************************)
(* A filter on sequences.  It is what SelectSeq of the Sequences module    *)
(* is, as a recursive function, which a proof can expand.                  *)
(***************************************************************************)
EXTENDS Integers, Sequences

\* The elements of s that are in T, in their order.
Sift(s, T) ==
  LET kept[i \in 0 .. Len(s)] ==
        IF i = 0 THEN << >>
        ELSE IF s[i] \in T THEN Append(kept[i - 1], s[i]) ELSE kept[i - 1]
  IN  kept[Len(s)]
=============================================================================
