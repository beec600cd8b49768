----------------------------- MODULE MCWfbLink -----------------------------
(***************************************************************************)
(* Small instances of WfbLink for TLC.                                     *)
(***************************************************************************)
EXTENDS WfbLink

CONSTANTS c1, c2

MCOneCard  == {c1}
MCTwoCards == {c1, c2}
MCSizes    == {7}
=============================================================================
