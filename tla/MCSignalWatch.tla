---------------------------- MODULE MCSignalWatch ----------------------------
(***************************************************************************)
(* Instances of SignalWatch for TLC.  Interfaces are interchangeable, and  *)
(* so are watchers.                                                        *)
(***************************************************************************)
EXTENDS SignalWatch, TLC

Symmetry == Permutations(Watcher) \cup Permutations(Iface)
===============================================================================
