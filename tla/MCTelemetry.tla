---------------------------- MODULE MCTelemetry ----------------------------
(***************************************************************************)
(* A small instance of Telemetry for TLC: one client, two wlans, one of    *)
(* them with two antennas.                                                 *)
(***************************************************************************)
EXTENDS Telemetry

CONSTANTS a1

MCAddrs == {a1}

\* Sizes about the limit of 4.
MCSizes == {1, 3, 5}

V1(n)         == [version |-> "mavlink1", payload |-> n, signed |-> FALSE]
V2(n, signed) == [version |-> "mavlink2", payload |-> n, signed |-> signed]
Unknown       == [version |-> "unsupported", payload |-> 0, signed |-> FALSE]

\* The payload of RADIO_STATUS has 9 bytes.
MCStatus == [len |-> 21, headers |-> <<V2(9, FALSE)>>]

\* Two packets, whole or cut anywhere: in the first header, after the first packet, in the
\* second header, in the second packet.
Batch(n, pair) == [len |-> n, headers |-> pair]
MCBatches == {MCStatus} \cup {Batch(n, <<V1(0), V2(3, FALSE)>>) : n \in {7, 8, 16, 23}}
                        \cup {Batch(35, <<V2(0, TRUE), V1(2)>>), Batch(17, <<V1(1), Unknown>>)}

\* Antenna 1 is of wlan 0, antennas 2 and 3 of wlan 1; levels about the hysteresis of 3.
MCAntennas == {1, 2, 3}
MCWlanOf   == [a \in MCAntennas |-> IF a = 1 THEN 0 ELSE 1]
MCLevels   == {-60, -57, -56}
MCCounters == {[dec_err |-> 0, bad |-> 0, lost |-> 0, fec_rec |-> 4],
               [dec_err |-> 1, bad |-> 1, lost |-> 2, fec_rec |-> 0]}
=============================================================================
