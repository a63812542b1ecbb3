--------------------------- MODULE MCRuntimeElements ---------------------------
(***************************************************************************)
(* Instances of RuntimeElements for TLC: every collection, and timeouts    *)
(* around a second and around the largest that can be sent.                *)
(***************************************************************************)
EXTENDS RuntimeElements, TLC

AllKinds == DOMAIN Operations
Symmetry == Permutations(Element) \cup Permutations(Zone)

\* Two ticks a second, int32 in -4 .. 3: none, one half, 1.5, 2 and, too long, 9 seconds.
Timeouts == {-1, 1, 3, 4, 18}
HalfSecond == {1}
===============================================================================
