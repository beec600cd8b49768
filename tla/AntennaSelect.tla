---------------------------- MODULE AntennaSelect ----------------------------
(***************************************************************************)
(* AntennaProtocol and AntennaFactory of telemetry/server.py (wfb and      *)
(* main.py hold copies): the lines wfb_rx prints about its antennas, and   *)
(* the choice of the wlan to transmit on.                                  *)
(*                                                                         *)
(* A period of wfb_rx is some ANT lines, one for each antenna that heard   *)
(* something, and then one PKT line with the counters.  Totals and the     *)
(* copies for the statistics console, which nothing else reads, are left   *)
(* out.                                                                    *)
(***************************************************************************)
EXTENDS Integers, FiniteSetsExt

CONSTANTS Antennas,  \* antenna numbers of the lines
          WlanOf,    \* the wlan each belongs to: the second byte of the number
          Levels,    \* values of rssi_avg
          Counters,  \* what a PKT line says, as records of the counters used
          Delta,     \* tx_sel_delta
          MaxCount   \* the largest value of a uint16_t field, 65535

Unheard == -200      \* for a wlan without a reading

\* What is assumed of them (Telemetry states it).
AntennaAssumption == /\ WlanOf \in [Antennas -> Nat]
                     /\ Levels \subseteq (Unheard + 1)..0
                     /\ Counters \subseteq [dec_err : Nat, bad : Nat, lost : Nat, fec_rec : Nat]
                     /\ Delta \in Nat /\ MaxCount \in Nat

VARIABLES ant,    \* readings since the last PKT line
          tx_sel,
          peer,   \* the socket p_in.peer is: that of which wlan's wfb_tx
          heard   \* history: antennas with a line since the last PKT line

vars == <<ant, tx_sel, peer, heard>>

Init == ant = <<>> /\ tx_sel = 0 /\ peer = 0 /\ heard = {}
-----------------------------------------------------------------------------
(***************************************************************************)
(* The choice                                                              *)
(***************************************************************************)
Wlans(readings) == {WlanOf[a] : a \in DOMAIN readings}

\* Mutant: the weakest antenna speaks for its wlan.
Bug_WlanRssi(readings, w) ==
  IF w \in Wlans(readings) THEN Min({readings[a] : a \in {b \in DOMAIN readings : WlanOf[b] = w}})
  ELSE Unheard

\* The best antenna of a wlan speaks for it.
WlanRssi(readings, w) ==
  IF w \in Wlans(readings) THEN Max({readings[a] : a \in {b \in DOMAIN readings : WlanOf[b] = w}})
  ELSE Unheard

Best(readings) == Max({WlanRssi(readings, w) : w \in Wlans(readings)})

\* The loop over wlan_rssi, whose keys rise, keeps the first of equals.
TxMax(readings) == Min({w \in Wlans(readings) : WlanRssi(readings, w) = Best(readings)})

Better(readings) == Best(readings) > WlanRssi(readings, tx_sel) + Delta

select_tx_antenna(readings) ==
  IF readings # <<>> /\ Better(readings)
  THEN tx_sel' = TxMax(readings) /\ peer' = TxMax(readings)
  ELSE UNCHANGED <<tx_sel, peer>>
-----------------------------------------------------------------------------
(***************************************************************************)
(* What the autopilot is told (send_rssi)                                  *)
(***************************************************************************)
\* Mutant: the sum of the counters is sent as it is.
Bug_Capped(n) == n

Capped(n) == Min({n, MaxCount})

\* The flag for a jammed link compares a pair with 0 and is never set.
Status(readings, p) ==
  [rssi   |-> (IF readings = <<>> THEN -128 ELSE Best(readings)) % 256,
   errors |-> Capped(p.dec_err + p.bad + p.lost),
   fec    |-> Capped(p.fec_rec),
   lost   |-> readings = <<>>]
-----------------------------------------------------------------------------
(***************************************************************************)
(* Lines                                                                   *)
(***************************************************************************)
AntLine(a, level) ==
  /\ ant' = [b \in DOMAIN ant \cup {a} |-> IF b = a THEN level ELSE ant[b]]
  /\ heard' = heard \cup {a}
  /\ UNCHANGED <<tx_sel, peer>>

\* update_stats, then the period begins anew.
PktLine(p) == /\ p \in Counters
              /\ select_tx_antenna(ant)
              /\ ant' = <<>> /\ heard' = {}

Next == \/ \E a \in Antennas, level \in Levels : AntLine(a, level)
        \/ \E p \in Counters : PktLine(p)
-----------------------------------------------------------------------------
\* The strongest reading of any antenna heard in this period, and the wlans with an antenna
\* no more than the hysteresis below it.
Strongest == Max({ant[a] : a \in heard})
GoodEnough(w) == \E a \in heard : WlanOf[a] = w /\ ant[a] + Delta >= Strongest

\* After each period in which something was heard the proxy's datagrams go out on a wlan that
\* is good enough by the readings of that very period, also when the one used before went
\* silent; a wlan that still is good enough is kept, and so is any when nothing was heard
\* (server.py:119-144, 186-214).
ChoiceGoodEnough ==
  [][\A p \in Counters : PktLine(p) =>
       IF heard = {} THEN peer' = peer
       ELSE GoodEnough(peer') /\ (GoodEnough(peer) => peer' = peer)]_vars

\* Every status fits the fields of RADIO_STATUS (uint8_t and uint16_t), whatever the
\* counters of a period add up to: packing it never fails.
StatusFits == [][\A p \in Counters : PktLine(p) =>
                   /\ Status(ant, p).rssi \in 0..255
                   /\ Status(ant, p).errors \in 0..MaxCount
                   /\ Status(ant, p).fec \in 0..MaxCount]_vars
=============================================================================
