----------------------------- MODULE MCUdpProxy -----------------------------
(***************************************************************************)
(* A small instance of UdpProxy for TLC, with empty datagrams.             *)
(***************************************************************************)
EXTENDS UdpProxy

CONSTANTS a1, a2

MCAddrs     == {a1, a2}
MCWithEmpty == {0, 2, 4}

V1(n)         == [version |-> "mavlink1", payload |-> n, signed |-> FALSE]
V2(n, signed) == [version |-> "mavlink2", payload |-> n, signed |-> signed]
MCOneBatch    == {[len |-> 23, headers |-> <<V1(0), V2(3, FALSE)>>]}
=============================================================================
