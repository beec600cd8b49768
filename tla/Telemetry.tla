----------------------------- MODULE Telemetry -----------------------------
(***************************************************************************)
(* The MAVLink service of the telemetry server (init_mavlink): the         *)
(* aggregating proxy, the choice of the wlan its datagrams leave on, and   *)
(* the status message that every period of wfb_rx injects for its client.  *)
(***************************************************************************)
EXTENDS Integers, Sequences

CONSTANTS AggMaxSize, AggTimeout, Sizes, Addrs, NoAddr, Batches, MaxMessages,
          Antennas, WlanOf, Levels, Counters, Delta, MaxCount,
          StatusBatch  \* the RADIO_STATUS message as a batch

VARIABLES reply_addr, agg_queue, agg_queue_size, agg_queue_timer, timer_left,
          to_peer, to_client, accepted, sent, age,
          ant, tx_sel, peer, heard

Prx == INSTANCE UdpProxy
Ant == INSTANCE AntennaSelect

ASSUME ConstantsOK == Prx!AggAssumption /\ Prx!BatchAssumption /\ Ant!AntennaAssumption

proxy_vars   == <<reply_addr, agg_queue, agg_queue_size, agg_queue_timer, timer_left,
                  to_peer, to_client, accepted, sent, age>>
antenna_vars == <<ant, tx_sel, peer, heard>>
vars         == <<proxy_vars, antenna_vars>>

Init == Prx!Init /\ Ant!Init

\* send_rssi writes to the client, if there is one by then.
Injected == IF reply_addr = NoAddr THEN UNCHANGED proxy_vars ELSE Prx!write(StatusBatch)

ProxyStep == Prx!Next /\ UNCHANGED antenna_vars
LineStep  == /\ \E a \in Antennas, level \in Levels : Ant!AntLine(a, level)
             /\ UNCHANGED proxy_vars
Report    == /\ \E p \in Counters : Ant!PktLine(p)
             /\ Injected

Next == ProxyStep \/ LineStep \/ Report

Spec == /\ Init /\ [][Next]_vars
        /\ WF_vars(Prx!flush_queue /\ UNCHANGED antenna_vars)
        /\ WF_vars(Prx!Tick /\ UNCHANGED antenna_vars)
-----------------------------------------------------------------------------
WaitsAtMostTimeout == Prx!WaitsAtMostTimeout
InOrder            == Prx!InOrder
Leaves             == Prx!Leaves
PacketsCutUp       == Prx!PacketsCutUp
ChoiceGoodEnough   == Ant!ChoiceGoodEnough
StatusFits         == Ant!StatusFits
=============================================================================
