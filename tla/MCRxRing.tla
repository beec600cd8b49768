------------------------------ MODULE MCRxRing ------------------------------
(***************************************************************************)
(* Small instances of RxRing for TLC.  The keys are interchangeable.       *)
(***************************************************************************)
EXTENDS RxRing, TLC

CONSTANTS k1, k2, a1

MCKeys     == {k1, k2}
MCOneKey   == {k1}
MCAntennas == {a1}
MCSymmetry == Permutations(MCKeys)
=============================================================================
