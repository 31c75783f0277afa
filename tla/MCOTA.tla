------------------------------- MODULE MCOTA -------------------------------
(* Instance of OTA for TLC: the factory version and two newer ones. *)
EXTENDS OTA

MCFactory == <<1, 0, 0>>
MCVersions == {MCFactory, <<1, 0, 1>>, <<1, 1, 0>>}
MCTwoVersions == {MCFactory, <<1, 0, 1>>}
=============================================================================
