--------------------------- MODULE MCUnlockedHandle ---------------------------
(***************************************************************************)
(* An instance of UnlockedHandle for TLC, with handles of every kind.      *)
(***************************************************************************)
EXTENDS UnlockedHandle, TLC

Symmetry == Permutations(Zone) \cup Permutations(Path)
===============================================================================
