---------------------------- MODULE MCSupervisor ----------------------------
(***************************************************************************)
(* A small instance of Supervisor for TLC.                                 *)
(***************************************************************************)
EXTENDS Supervisor

MCWlans == <<"wlan1", "wlan2">>
=============================================================================
