-------------------------- MODULE MCSettingsTransport --------------------------
(***************************************************************************)
(* Instances of SettingsTransport for TLC: an old server, an intermediate  *)
(* one and two new ones.                                                   *)
(***************************************************************************)
EXTENDS SettingsTransport

AllKinds == DOMAIN KindOf
Versions == {<<0, 6>>, <<0, 9>>, <<1, 3>>, <<2, 0>>}
===============================================================================
