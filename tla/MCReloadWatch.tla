---------------------------- MODULE MCReloadWatch ----------------------------
(***************************************************************************)
(* An instance of ReloadWatch for TLC: all but the second firewalld signal *)
(* are Reloaded.                                                           *)
(***************************************************************************)
EXTENDS ReloadWatch, TLC

AllButSecond == (1 .. MaxSignals) \ {2}
===============================================================================
