--------------------------- MODULE MCVideoSource ---------------------------
(***************************************************************************)
(* A small instance of VideoSource for TLC: two wlans.                     *)
(***************************************************************************)
EXTENDS VideoSource

MCSizes == {7, 100}
=============================================================================
