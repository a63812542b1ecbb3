---------------------------- MODULE MCPermHandle ----------------------------
(***************************************************************************)
(* Instances of PermHandle for TLC.  Zones and paths are interchangeable,  *)
(* and so are goroutines when all of them may do the same.                 *)
(***************************************************************************)
EXTENDS PermHandle, TLC

Symmetry == Permutations(Zone) \cup Permutations(Path)
EqualCallers == Symmetry \cup Permutations(Caller)
===============================================================================
