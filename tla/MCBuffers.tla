----------------------------- MODULE MCBuffers -----------------------------
(***************************************************************************)
(* Gop3d for TLC.  Nothing tells one of the client's handles from another, *)
(* and only safety is checked: they may be swapped.                        *)
(***************************************************************************)
EXTENDS Gop3d, TLC

Symmetry == Permutations(Handles)
=============================================================================
