-------------------------- MODULE TelemetryProofs --------------------------
(***************************************************************************)
(* Proofs about Telemetry for any timeout, any clients, any batches and    *)
(* any antennas.                                                           *)
(***************************************************************************)
EXTENDS Telemetry, WellFoundedInduction, TLAPS

-----------------------------------------------------------------------------
(***************************************************************************)
(* The queue.  A client that sends no empty datagram keeps the timer and   *)
(* the queue together: one is pending just as long as the other waits, and *)
(* the age of the oldest byte and the rest of the timer are the timeout.   *)
(* An empty datagram breaks this (the run proxy_empty).                    *)
(***************************************************************************)
QueueInv ==
  /\ agg_queue_size \in Nat /\ agg_queue_timer \in {"None", "pending"}
  /\ age \in Nat /\ timer_left \in Nat
  /\ agg_queue_timer = "None"    => agg_queue_size = 0 /\ age = 0
  /\ agg_queue_timer = "pending" => agg_queue_size > 0 /\ age + timer_left = AggTimeout

LEMMA QueueInit == Init => QueueInv
BY DEF Init, Prx!Init, QueueInv

LEMMA QueueKept == ASSUME QueueInv, UNCHANGED Prx!queue PROVE QueueInv'
BY DEF QueueInv, Prx!queue

LEMMA DatagramKeeps ==
  ASSUME Prx!AggAssumption, 0 \notin Sizes, QueueInv, NEW addr \in Addrs, NEW size \in Sizes,
         Prx!datagramReceived(addr, size)
  PROVE  QueueInv'
<1>1. size \in Nat /\ size > 0 /\ AggTimeout \in Nat
  BY DEF Prx!AggAssumption
<1>2. CASE Prx!TooBig(size) \/ Prx!CancelRaises(size)
  BY <1>2, QueueKept DEF Prx!TooBig, Prx!CancelRaises
<1>3. CASE Prx!Enqueue(size)
  <2>1. agg_queue_size' = agg_queue_size + size /\ age' = age /\ Prx!Schedule
    BY <1>3 DEF Prx!Enqueue
  <2> QED  BY <1>1, <2>1 DEF QueueInv, Prx!Schedule
<1>4. CASE Prx!Overflow(size)
  BY <1>1, <1>4 DEF Prx!Overflow, QueueInv
<1> QED  BY <1>2, <1>3, <1>4 DEF Prx!datagramReceived

LEMMA FlushKeeps == ASSUME QueueInv, Prx!flush_queue PROVE QueueInv'
<1>1. agg_queue_size > 0
  BY DEF QueueInv, Prx!flush_queue
<1> QED  BY <1>1 DEF QueueInv, Prx!flush_queue

LEMMA TickKeeps == ASSUME Prx!AggAssumption, QueueInv, Prx!Tick PROVE QueueInv'
<1>1. AggTimeout \in Nat
  BY DEF Prx!AggAssumption
<1>2. agg_queue_timer = "pending" /\ timer_left # 0
  BY DEF Prx!Tick, QueueInv
<1>3. age < Prx!TooOld /\ agg_queue_size > 0
  BY <1>1, <1>2 DEF QueueInv, Prx!TooOld
<1>4. /\ timer_left' = timer_left - 1 /\ age' = age + 1
      /\ UNCHANGED <<agg_queue_size, agg_queue_timer>>
  BY <1>2, <1>3 DEF Prx!Tick
<1> QED  BY <1>1, <1>2, <1>4 DEF QueueInv

LEMMA QueueStep ==
  ASSUME Prx!AggAssumption, 0 \notin Sizes PROVE QueueInv /\ [Next]_vars => QueueInv'
<1> SUFFICES ASSUME QueueInv, [Next]_vars PROVE QueueInv'
  OBVIOUS
<1>1. CASE Prx!Next
  <2>1. CASE \E batch \in Batches : Prx!write(batch)
    BY <2>1, QueueKept DEF Prx!write
  <2> QED  BY <1>1, <2>1, DatagramKeeps, FlushKeeps, TickKeeps DEF Prx!Next
<1>2. CASE UNCHANGED proxy_vars
  BY <1>2 DEF proxy_vars, QueueInv
<1>3. CASE Prx!write(StatusBatch)
  BY <1>3, QueueKept DEF Prx!write
<1> QED  BY <1>1, <1>2, <1>3 DEF Next, ProxyStep, LineStep, Report, Injected, vars

\* conf/master.cfg:15, proxy.py:129-161: no byte waits longer than agg_timeout for any
\* timeout, radio_mtu and sizes, if no datagram is empty.
THEOREM TimeoutKept ==
  ASSUME Prx!AggAssumption, 0 \notin Sizes PROVE Spec => []WaitsAtMostTimeout
<1>1. QueueInv => WaitsAtMostTimeout
  BY DEF QueueInv, WaitsAtMostTimeout, Prx!WaitsAtMostTimeout, Prx!AggAssumption
<1>2. Spec => []QueueInv
  BY QueueInit, QueueStep, PTL DEF Spec
<1> QED  BY <1>1, <1>2, PTL
-----------------------------------------------------------------------------
(***************************************************************************)
(* The antennas.  The choice compares the best reading of each wlan and    *)
(* keeps what it selected; the socket of that wlan is the one in use, and  *)
(* the readings are those of the antennas heard since the last period.     *)
(* Minima and maxima exist because readings lie under 0 and wlans are      *)
(* numbered from 0.                                                        *)
(***************************************************************************)
LEMMA MinOf ==
  ASSUME NEW S, S # {}, S \subseteq Nat
  PROVE  Ant!Min(S) \in S /\ \A y \in S : Ant!Min(S) <= y
<1>1. PICK m \in S : \A y \in S : <<y, m>> \notin OpToRel(<, Nat)
  BY WFMin, NatLessThanWellFounded
<1>2. ASSUME NEW y \in S, y < m PROVE FALSE
  <2>1. <<y, m>> \in Nat \X Nat /\ <<y, m>>[1] < <<y, m>>[2]
    BY <1>2
  <2>2. <<y, m>> \in OpToRel(<, Nat)
    BY <2>1 DEF OpToRel
  <2> QED  BY <1>1, <2>2
<1>3. \A y \in S : m <= y
  BY <1>2
<1> QED  BY <1>3 DEF Ant!Min

LEMMA MaxOf ==
  ASSUME NEW S, S # {}, \A x \in S : x \in Int /\ x <= 0
  PROVE  Ant!Max(S) \in S /\ \A y \in S : y <= Ant!Max(S)
<1> DEFINE T == {0 - x : x \in S}
<1>1. T # {} /\ T \subseteq Nat
  OBVIOUS
<1>2. Ant!Min(T) \in T /\ \A t \in T : Ant!Min(T) <= t
  BY <1>1, MinOf
<1>3. PICK x \in S : Ant!Min(T) = 0 - x
  BY <1>2
<1>4. ASSUME NEW y \in S PROVE x >= y
  <2>1. 0 - y \in T /\ x \in Int /\ y \in Int
    OBVIOUS
  <2>2. 0 - x <= 0 - y
    BY <1>2, <1>3, <2>1
  <2> QED  BY <2>1, <2>2
<1>5. Ant!Max(S) \in S /\ \A y \in S : Ant!Max(S) >= y
  BY <1>4 DEF Ant!Max
<1> QED  BY <1>5

AntennaInv == /\ peer = tx_sel
              /\ DOMAIN ant = heard /\ heard \subseteq Antennas
              /\ \A a \in heard : ant[a] \in Levels

LEMMA AntennaInit == Init => AntennaInv
BY DEF Init, Ant!Init, AntennaInv

LEMMA AntennaStep == AntennaInv /\ [Next]_vars => AntennaInv'
<1> SUFFICES ASSUME AntennaInv, [Next]_vars PROVE AntennaInv'
  OBVIOUS
<1>1. CASE UNCHANGED antenna_vars
  BY <1>1 DEF antenna_vars, AntennaInv
<1>2. CASE LineStep
  BY <1>2 DEF LineStep, Ant!AntLine, AntennaInv
<1>3. CASE Report
  BY <1>3 DEF Report, Ant!PktLine, Ant!select_tx_antenna, AntennaInv
<1> QED  BY <1>1, <1>2, <1>3 DEF Next, ProxyStep, vars

LEMMA LevelIs ==
  ASSUME Ant!AntennaAssumption PROVE \A level \in Levels : level \in Int /\ level <= 0
<1>1. Levels \subseteq (Ant!Unheard + 1)..0
  BY DEF Ant!AntennaAssumption
<1>2. Ant!Unheard \in Int
  BY DEF Ant!Unheard
<1> QED  BY <1>1, <1>2

\* What the strongest reading, and the best of a wlan, are.
LEMMA StrongestIs ==
  ASSUME Ant!AntennaAssumption, AntennaInv, heard # {}
  PROVE  /\ \E a \in heard : ant[a] = Ant!Strongest
         /\ \A a \in heard : ant[a] \in Int /\ ant[a] <= Ant!Strongest
<1> DEFINE S == {ant[a] : a \in heard}
<1>1. S # {} /\ \A x \in S : x \in Int /\ x <= 0
  BY LevelIs DEF AntennaInv
<1>2. Ant!Max(S) \in S /\ \A y \in S : y <= Ant!Max(S)
  BY <1>1, MaxOf
<1> QED  BY <1>1, <1>2 DEF Ant!Strongest

LEMMA WlanRssiIs ==
  ASSUME Ant!AntennaAssumption, AntennaInv, NEW w \in Ant!Wlans(ant)
  PROVE  /\ \E a \in heard : WlanOf[a] = w /\ ant[a] = Ant!WlanRssi(ant, w)
         /\ \A a \in heard : WlanOf[a] = w => ant[a] <= Ant!WlanRssi(ant, w)
<1> DEFINE S == {ant[a] : a \in {b \in DOMAIN ant : WlanOf[b] = w}}
<1>1. S # {} /\ \A x \in S : x \in Int /\ x <= 0
  BY LevelIs DEF AntennaInv, Ant!Wlans
<1>2. Ant!Max(S) \in S /\ \A y \in S : y <= Ant!Max(S)
  BY <1>1, MaxOf
<1>3. Ant!WlanRssi(ant, w) = Ant!Max(S)
  BY DEF Ant!WlanRssi
<1> QED  BY <1>2, <1>3 DEF AntennaInv

LEMMA BestIs ==
  ASSUME Ant!AntennaAssumption, AntennaInv, heard # {}
  PROVE  /\ Ant!Best(ant) = Ant!Strongest
         /\ Ant!TxMax(ant) \in Ant!Wlans(ant)
         /\ Ant!WlanRssi(ant, Ant!TxMax(ant)) = Ant!Strongest
<1> DEFINE R == {Ant!WlanRssi(ant, w) : w \in Ant!Wlans(ant)}
           B == {w \in Ant!Wlans(ant) : Ant!WlanRssi(ant, w) = Ant!Best(ant)}
<1>1. \A a \in heard : WlanOf[a] \in Ant!Wlans(ant)
  BY DEF Ant!Wlans, AntennaInv
<1>2. \A w \in Ant!Wlans(ant) : w \in Nat
  BY DEF Ant!Wlans, AntennaInv, Ant!AntennaAssumption
<1>3. \A x \in R : \E a \in heard : x = ant[a]
  BY WlanRssiIs
<1>4. \A a \in heard : ant[a] \in Int /\ ant[a] <= 0
  BY LevelIs DEF AntennaInv
<1>5. R # {} /\ \A x \in R : x \in Int /\ x <= 0
  BY <1>1, <1>3, <1>4
<1>6. Ant!Best(ant) \in R /\ \A y \in R : y <= Ant!Best(ant)
  BY <1>5, MaxOf DEF Ant!Best
<1>7. PICK a \in heard : ant[a] = Ant!Strongest
  BY StrongestIs
<1>8. ant[a] <= Ant!WlanRssi(ant, WlanOf[a])
  BY <1>1, WlanRssiIs
<1>9. Ant!Best(ant) = Ant!Strongest
  <2>1. Ant!WlanRssi(ant, WlanOf[a]) \in R
    BY <1>1
  <2>2. Ant!Best(ant) <= Ant!Strongest
    BY <1>3, <1>6, StrongestIs
  <2>3. Ant!Best(ant) \in Int /\ Ant!WlanRssi(ant, WlanOf[a]) \in Int /\ ant[a] \in Int
    BY <1>4, <1>5, <1>6, <2>1
  <2> QED  BY <1>6, <1>7, <1>8, <2>1, <2>2, <2>3
<1>10. B # {} /\ B \subseteq Nat
  BY <1>2, <1>6
<1>11. Ant!TxMax(ant) \in B
  BY <1>10, MinOf DEF Ant!TxMax
<1> QED  BY <1>9, <1>11

\* A wlan is good enough just if the choice would not leave it, provided that no reading is as
\* low as what stands for none.
LEMMA GoodEnoughIs ==
  ASSUME Ant!AntennaAssumption, \A level \in Levels : level > Ant!Unheard + Delta,
         AntennaInv, heard # {}, NEW w
  PROVE  Ant!GoodEnough(w) <=> Ant!WlanRssi(ant, w) + Delta >= Ant!Strongest
<1>1. /\ Delta \in Nat /\ Ant!Strongest \in Int /\ Ant!Strongest > Ant!Unheard + Delta
      /\ \A a \in heard : ant[a] \in Int
  BY StrongestIs DEF AntennaInv, Ant!AntennaAssumption
<1>2. CASE w \in Ant!Wlans(ant)
  <2>1. PICK a \in heard : WlanOf[a] = w /\ ant[a] = Ant!WlanRssi(ant, w)
    BY <1>2, WlanRssiIs
  <2>2. \A b \in heard : WlanOf[b] = w => ant[b] <= ant[a]
    BY <1>2, <2>1, WlanRssiIs
  <2> QED  BY <1>1, <2>1, <2>2 DEF Ant!GoodEnough
<1>3. CASE w \notin Ant!Wlans(ant)
  <2>1. ~Ant!GoodEnough(w)
    BY <1>3 DEF Ant!GoodEnough, Ant!Wlans, AntennaInv
  <2>2. Ant!WlanRssi(ant, w) = Ant!Unheard
    BY <1>3 DEF Ant!WlanRssi
  <2> QED  BY <1>1, <2>1, <2>2 DEF Ant!Unheard
<1> QED  BY <1>2, <1>3

\* server.py:119-144, 186-214: after each period the datagrams go out on a wlan within the
\* hysteresis of the strongest antenna, and one that is so is kept, for any antennas, wlans,
\* readings and hysteresis, as long as no reading is as low as what stands for none.
THEOREM ChoiceHolds ==
  ASSUME Ant!AntennaAssumption, \A level \in Levels : level > Ant!Unheard + Delta
  PROVE  Spec => ChoiceGoodEnough
<1> DEFINE Chosen(p) == IF heard = {} THEN peer' = peer
                        ELSE Ant!GoodEnough(peer') /\ (Ant!GoodEnough(peer) => peer' = peer)
<1>1. ASSUME AntennaInv, NEW p \in Counters, Ant!PktLine(p) PROVE Chosen(p)
  <2>1. peer = tx_sel /\ Ant!select_tx_antenna(ant)
    BY <1>1 DEF AntennaInv, Ant!PktLine
  <2>2. CASE heard = {}
    <3>1. ant = <<>>
      BY <1>1, <2>2 DEF AntennaInv
    <3> QED  BY <2>1, <2>2, <3>1 DEF Ant!select_tx_antenna
  <2>3. CASE heard # {}
    <3>1. ant # <<>>
      BY <1>1, <2>3 DEF AntennaInv
    <3>2. \A w : Ant!GoodEnough(w) <=> Ant!WlanRssi(ant, w) + Delta >= Ant!Strongest
      BY <1>1, <2>3, GoodEnoughIs
    <3>3. Ant!Better(ant) <=> Ant!Strongest > Ant!WlanRssi(ant, tx_sel) + Delta
      BY <1>1, <2>3, BestIs DEF Ant!Better
    <3>4. /\ Delta \in Nat /\ Ant!Strongest \in Int
          /\ Ant!WlanRssi(ant, tx_sel) \in Int
      <4>1. Ant!Strongest \in Int
        BY <1>1, <2>3, StrongestIs
      <4>2. CASE tx_sel \in Ant!Wlans(ant)
        <5>1. PICK a \in heard : ant[a] = Ant!WlanRssi(ant, tx_sel)
          BY <1>1, <4>2, WlanRssiIs
        <5>2. ant[a] \in Int
          BY <1>1, <2>3, StrongestIs
        <5> QED  BY <4>1, <5>1, <5>2 DEF Ant!AntennaAssumption
      <4>3. CASE tx_sel \notin Ant!Wlans(ant)
        <5>1. Ant!WlanRssi(ant, tx_sel) = Ant!Unheard
          BY <4>3 DEF Ant!WlanRssi
        <5>2. Ant!Unheard \in Int
          BY DEF Ant!Unheard
        <5> QED  BY <4>1, <5>1, <5>2 DEF Ant!AntennaAssumption
      <4> QED  BY <4>1, <4>2, <4>3 DEF Ant!AntennaAssumption
    <3>5. CASE Ant!Better(ant)
      <4>1. peer' = Ant!TxMax(ant)
        BY <2>1, <3>1, <3>5 DEF Ant!select_tx_antenna
      <4>2. Ant!WlanRssi(ant, peer') + Delta >= Ant!Strongest
        BY <1>1, <2>3, <3>4, <4>1, BestIs
      <4> QED  BY <2>1, <2>3, <3>2, <3>3, <3>4, <3>5, <4>2
    <3>6. CASE ~Ant!Better(ant)
      <4>1. peer' = peer
        BY <2>1, <3>6 DEF Ant!select_tx_antenna
      <4> QED  BY <2>1, <2>3, <3>2, <3>3, <3>4, <3>6, <4>1
    <3> QED  BY <3>5, <3>6
  <2> QED  BY <2>2, <2>3
<1>2. AntennaInv /\ [Next]_vars => [\A p \in Counters : Ant!PktLine(p) => Chosen(p)]_(Ant!vars)
  BY <1>1
<1>3. Spec => []AntennaInv
  BY AntennaInit, AntennaStep, PTL DEF Spec
<1> QED  BY <1>2, <1>3, PTL DEF Spec, ChoiceGoodEnough, Ant!ChoiceGoodEnough

\* server.py:154-163: the status fits its fields for any counters and readings.
THEOREM StatusAlwaysFits ==
  ASSUME Ant!AntennaAssumption PROVE Spec => StatusFits
<1> DEFINE Fit(p) == /\ Ant!Status(ant, p).rssi \in 0..255
                     /\ Ant!Status(ant, p).errors \in 0..MaxCount
                     /\ Ant!Status(ant, p).fec \in 0..MaxCount
<1>1. ASSUME NEW n \in Nat PROVE Ant!Capped(n) \in 0..MaxCount
  <2>1. MaxCount \in Nat
    BY DEF Ant!AntennaAssumption
  <2>2. /\ Ant!Min({n, MaxCount}) \in {n, MaxCount}
        /\ \A y \in {n, MaxCount} : Ant!Min({n, MaxCount}) <= y
    BY <2>1, MinOf
  <2> QED  BY <2>1, <2>2 DEF Ant!Capped
<1>2. ASSUME AntennaInv, NEW p \in Counters PROVE Fit(p)
  <2>1. p.dec_err + p.bad + p.lost \in Nat /\ p.fec_rec \in Nat
    BY DEF Ant!AntennaAssumption
  <2>2. ant # <<>> => Ant!Best(ant) \in Int
    <3>1. ant # <<>> => heard # {}
      BY <1>2 DEF AntennaInv
    <3> QED  BY <1>2, <3>1, BestIs, StrongestIs
  <2>3. (IF ant = <<>> THEN -128 ELSE Ant!Best(ant)) % 256 \in 0..255
    <3>1. PICK x \in Int : x = IF ant = <<>> THEN -128 ELSE Ant!Best(ant)
      BY <2>2
    <3>2. x % 256 \in 0..255
      OBVIOUS
    <3> QED  BY <3>1, <3>2
  <2> QED  BY <1>1, <2>1, <2>3 DEF Ant!Status
<1>3. AntennaInv /\ [Next]_vars => [\A p \in Counters : Ant!PktLine(p) => Fit(p)]_(Ant!vars)
  BY <1>2
<1>4. Spec => []AntennaInv
  BY AntennaInit, AntennaStep, PTL DEF Spec
<1> QED  BY <1>3, <1>4, PTL DEF Spec, StatusFits, Ant!StatusFits
-----------------------------------------------------------------------------
(***************************************************************************)
(* Running sums.  That they exist and what they are follows by taking the  *)
(* least place where they do not.                                          *)
(***************************************************************************)
\* The recursive function is one.
LEMMA SumsExist ==
  ASSUME NEW lens, Len(lens) \in Nat
  PROVE  \E g : g = [n \in 0..Len(lens) |-> IF n = 0 THEN 0 ELSE g[n - 1] + lens[n]]
<1> DEFINE Step(g, n) == IF n = 0 THEN 0 ELSE g[n - 1] + lens[n]
           Good(m) == \E g : g = [n \in 0..m |-> Step(g, n)]
           T == {m \in Nat : ~Good(m)}
<1>1. SUFFICES ASSUME T # {} PROVE FALSE
  OBVIOUS
<1>2. PICK m \in T : \A l \in T : m <= l
  BY <1>1, MinOf
<1>3. m \in Nat /\ m # 0
  <2> DEFINE g == [n \in 0..0 |-> 0]
  <2>1. g = [n \in 0..0 |-> Step(g, n)]
    OBVIOUS
  <2>2. Good(0)
    BY <2>1
  <2> QED  BY <2>2
<1>4. PICK g : g = [n \in 0..(m - 1) |-> Step(g, n)]
  <2>1. m - 1 \in Nat /\ ~(m <= m - 1)
    BY <1>3
  <2>2. m - 1 \notin T
    <3> HIDE DEF T
    <3> QED  BY <1>2, <2>1
  <2>3. Good(m - 1)
    <3> HIDE DEF Good
    <3> QED  BY <2>1, <2>2 DEF T
  <2> QED  BY <2>3
<1> DEFINE h == [n \in 0..m |-> Step(g, n)]
<1>5. ASSUME NEW n \in 0..m PROVE Step(g, n) = Step(h, n)
  <2>1. CASE n = 0
    BY <2>1
  <2>2. CASE n # 0
    <3>1. n - 1 \in 0..(m - 1) /\ n - 1 \in 0..m
      BY <1>3, <2>2
    <3>2. g[n - 1] = Step(g, n - 1)
      BY <1>4, <3>1
    <3>3. h[n - 1] = Step(g, n - 1)
      BY <3>1
    <3> HIDE DEF h
    <3> QED  BY <2>2, <3>2, <3>3
  <2> QED  BY <2>1, <2>2
<1>6. h = [n \in 0..m |-> Step(h, n)]
  <2>1. \A n \in 0..m : Step(g, n) = Step(h, n)
    BY <1>5
  <2>2. h = [n \in 0..m |-> Step(g, n)]
    OBVIOUS
  <2> HIDE DEF h, Step
  <2> QED  BY <2>1, <2>2
<1>7. Good(m)
  <2> HIDE DEF h
  <2> QED  BY <1>6
<1> QED  BY <1>7

\* Each running sum is the one before it and the next number.
LEMMA SumsAre ==
  ASSUME NEW lens, Len(lens) \in Nat
  PROVE  /\ Prx!Sums(lens)[0] = 0
         /\ \A n \in 1..Len(lens) : Prx!Sums(lens)[n] = Prx!Sums(lens)[n - 1] + lens[n]
<1> DEFINE g == Prx!Sums(lens)
<1>1. g = [n \in 0..Len(lens) |-> IF n = 0 THEN 0 ELSE g[n - 1] + lens[n]]
  BY SumsExist DEF Prx!Sums
<1> HIDE DEF g
<1>2. 0 \in 0..Len(lens) /\ \A n \in 1..Len(lens) : n \in 0..Len(lens) /\ n # 0
  OBVIOUS
<1>3. g[0] = 0 /\ \A n \in 1..Len(lens) : g[n] = g[n - 1] + lens[n]
  BY <1>1, <1>2
<1> QED  BY <1>3 DEF g

\* Sums of natural numbers are natural numbers.
LEMMA SumsType ==
  ASSUME NEW lens, Len(lens) \in Nat, \A i \in 1..Len(lens) : lens[i] \in Nat,
         NEW n \in 0..Len(lens)
  PROVE  Prx!Sums(lens)[n] \in Nat
<1> DEFINE g == Prx!Sums(lens)
           T == {m \in Nat : m <= Len(lens) /\ g[m] \notin Nat}
<1>1. g[0] = 0 /\ \A m \in 1..Len(lens) : g[m] = g[m - 1] + lens[m]
  BY SumsAre
<1> HIDE DEF g
<1>2. ASSUME T # {} PROVE FALSE
  <2>1. PICK m \in T : \A l \in T : m <= l
    BY <1>2, MinOf
  <2>2. m \in 1..Len(lens) /\ m - 1 \in Nat /\ m - 1 \notin T
    BY <1>1, <2>1
  <2>3. g[m - 1] \in Nat /\ lens[m] \in Nat
    BY <2>2
  <2> QED  BY <1>1, <2>2, <2>3
<1>3. g[n] \in Nat
  BY <1>2
<1> QED  BY <1>3 DEF g

\* Sums only look at what is added up.
LEMMA SumsAgree ==
  ASSUME NEW lens, NEW more, Len(lens) \in Nat, Len(more) \in Nat, Len(lens) <= Len(more),
         \A i \in 1..Len(lens) : more[i] = lens[i], NEW n \in 0..Len(lens)
  PROVE  Prx!Sums(more)[n] = Prx!Sums(lens)[n]
<1> DEFINE g == Prx!Sums(lens)
           h == Prx!Sums(more)
           T == {m \in Nat : m <= Len(lens) /\ g[m] # h[m]}
<1>1. /\ g[0] = 0 /\ \A m \in 1..Len(lens) : g[m] = g[m - 1] + lens[m]
      /\ h[0] = 0 /\ \A m \in 1..Len(more) : h[m] = h[m - 1] + more[m]
  BY SumsAre
<1> HIDE DEF g, h
<1>2. ASSUME T # {} PROVE FALSE
  <2>1. PICK m \in T : \A l \in T : m <= l
    BY <1>2, MinOf
  <2>2. m \in 1..Len(lens) /\ m \in 1..Len(more) /\ m - 1 \in Nat /\ m - 1 \notin T
    BY <1>1, <2>1
  <2>3. g[m - 1] = h[m - 1] /\ lens[m] = more[m]
    BY <2>2
  <2> QED  BY <1>1, <2>2, <2>3
<1>3. g[n] = h[n]
  BY <1>2
<1> QED  BY <1>3 DEF g, h
-----------------------------------------------------------------------------
(***************************************************************************)
(* The order of the messages.  The queue holds what came after the last    *)
(* message sent, numbered one by one, and is as large as the code counts.  *)
(***************************************************************************)
Waiting == [number : Nat, size : Nat]

\* Nothing is as large as nothing, and a message adds its size.
LEMMA TotalEmpty == Prx!Total(<<>>) = 0
<1> DEFINE lens == [i \in 1..Len(<<>>) |-> <<>>[i].size]
<1>1. Len(lens) = 0 /\ Len(<<>>) = 0
  OBVIOUS
<1>2. Prx!Sums(lens)[0] = 0
  BY <1>1, SumsAre
<1> QED  BY <1>1, <1>2 DEF Prx!Total

LEMMA TotalAppend ==
  ASSUME NEW q \in Seq(Waiting), NEW m \in Waiting
  PROVE  /\ Prx!Total(Append(q, m)) = Prx!Total(q) + m.size
         /\ Prx!Total(q) \in Nat
<1> DEFINE r    == Append(q, m)
           lens == [i \in 1..Len(q) |-> q[i].size]
           more == [i \in 1..Len(r) |-> r[i].size]
<1>1. /\ Len(q) \in Nat /\ Len(r) = Len(q) + 1 /\ r[Len(r)] = m
      /\ \A i \in 1..Len(q) : r[i] = q[i] /\ q[i].size \in Nat
  <2>1. Len(q) \in Nat /\ Len(r) = Len(q) + 1
    OBVIOUS
  <2>2. r[Len(q) + 1] = m /\ \A i \in 1..Len(q) : r[i] = q[i]
    OBVIOUS
  <2>3. ASSUME NEW i \in 1..Len(q) PROVE q[i].size \in Nat
    <3>1. q[i] \in Waiting
      OBVIOUS
    <3> QED  BY <3>1 DEF Waiting
  <2> HIDE DEF r
  <2> QED  BY <2>1, <2>2, <2>3
<1>2. Len(lens) = Len(q) /\ Len(more) = Len(r)
  <2> HIDE DEF r
  <2> QED  BY <1>1
<1>3. /\ \A i \in 1..Len(lens) : more[i] = lens[i] /\ lens[i] \in Nat
      /\ more[Len(more)] = m.size
  <2> HIDE DEF r
  <2> QED  BY <1>1, <1>2
<1> HIDE DEF r, lens, more
<1>4. Prx!Sums(more)[Len(q)] = Prx!Sums(lens)[Len(q)]
  <2>1. Len(q) \in 0..Len(lens) /\ Len(lens) \in Nat /\ Len(more) \in Nat
        /\ Len(lens) <= Len(more)
    BY <1>1, <1>2
  <2> QED  BY <1>3, <2>1, SumsAgree
<1>5. Prx!Sums(more)[Len(r)] = Prx!Sums(more)[Len(q)] + m.size
  <2>1. Len(r) \in 1..Len(more) /\ Len(more) \in Nat /\ Len(r) - 1 = Len(q)
    BY <1>1, <1>2
  <2>2. Prx!Sums(more)[Len(r)] = Prx!Sums(more)[Len(r) - 1] + more[Len(r)]
    BY <2>1, SumsAre
  <2> QED  BY <1>2, <1>3, <2>1, <2>2
<1>6. Prx!Total(q) = Prx!Sums(lens)[Len(q)] /\ Prx!Total(r) = Prx!Sums(more)[Len(r)]
  BY DEF Prx!Total, lens, more
<1>7. Prx!Sums(lens)[Len(q)] \in Nat
  <2>1. Len(q) \in 0..Len(lens) /\ Len(lens) \in Nat
    BY <1>1, <1>2
  <2> QED  BY <1>3, <2>1, SumsType
<1> QED  BY <1>4, <1>5, <1>6, <1>7 DEF r

OrderInv ==
  /\ agg_queue \in Seq(Waiting) /\ accepted \in Nat /\ sent \in Nat
  /\ agg_queue_size = Prx!Total(agg_queue) /\ agg_queue_size <= AggMaxSize
  /\ accepted = sent + Len(agg_queue)
  /\ \A i \in 1..Len(agg_queue) : agg_queue[i].number = sent + i

LEMMA OrderInit == ASSUME Prx!AggAssumption, Init PROVE OrderInv
<1>1. /\ agg_queue = <<>> /\ accepted = 0 /\ sent = 0 /\ agg_queue_size = 0
      /\ AggMaxSize \in Nat
  BY DEF Init, Prx!Init, Prx!AggAssumption
<1> QED  BY <1>1, TotalEmpty DEF OrderInv

LEMMA OrderKept ==
  ASSUME OrderInv, UNCHANGED <<agg_queue, agg_queue_size, sent, accepted>>
  PROVE  OrderInv'
<1>1. PICK q : q = agg_queue
  OBVIOUS
<1>2. agg_queue' = q
  BY <1>1
<1>3. (Prx!Total(agg_queue))' = Prx!Total(q)
  BY <1>2 DEF Prx!Total, Prx!Sums
<1>4. (Prx!Total(agg_queue))' = Prx!Total(agg_queue)
  BY <1>1, <1>3
<1> QED  BY <1>4 DEF OrderInv, Waiting

\* The size counted is a natural number.
LEMMA SizeIsNat == ASSUME OrderInv PROVE agg_queue_size \in Nat
<1>1. PICK q : q = agg_queue
  OBVIOUS
<1>2. q \in Seq(Waiting) /\ agg_queue_size = Prx!Total(q)
  BY <1>1 DEF OrderInv
<1> DEFINE m == [number |-> 0, size |-> 0]
<1>3. m \in Waiting
  BY DEF Waiting
<1> HIDE DEF m
<1> QED  BY <1>2, <1>3, TotalAppend

\* The last message sent, once the queue has left.
LEMMA LastSentIs == ASSUME OrderInv PROVE Prx!LastSent = sent + Len(agg_queue)
<1>1. CASE agg_queue = <<>>
  <2>1. Len(agg_queue) = 0 /\ sent \in Nat
    BY <1>1 DEF OrderInv
  <2> QED  BY <1>1, <2>1 DEF Prx!LastSent
<1>2. CASE agg_queue # <<>>
  <2>1. Len(agg_queue) \in 1..Len(agg_queue)
    BY <1>2 DEF OrderInv
  <2> QED  BY <1>2, <2>1 DEF Prx!LastSent, OrderInv
<1> QED  BY <1>1, <1>2

LEMMA EnqueueOrder ==
  ASSUME Prx!AggAssumption, OrderInv, NEW size \in Sizes, Prx!Enqueue(size)
  PROVE  OrderInv'
<1>1. PICK q, m : q = agg_queue /\ m = Prx!Message(size)
  OBVIOUS
<1>2. size \in Nat /\ q \in Seq(Waiting) /\ Len(q) \in Nat
  BY <1>1 DEF Prx!AggAssumption, OrderInv
<1>3. m \in Waiting /\ m.size = size /\ m.number = accepted + 1
  BY <1>1, <1>2 DEF Prx!Message, Waiting, OrderInv
<1>4. /\ agg_queue' = Append(q, m) /\ agg_queue_size' = agg_queue_size + size
      /\ accepted' = accepted + 1 /\ sent' = sent /\ agg_queue_size + size <= AggMaxSize
  BY <1>1 DEF Prx!Enqueue, Prx!Fits
<1>5. Prx!Total(Append(q, m)) = agg_queue_size + size
  BY <1>1, <1>2, <1>3, TotalAppend DEF OrderInv
<1>6. (Prx!Total(agg_queue))' = Prx!Total(Append(q, m))
  BY <1>4 DEF Prx!Total, Prx!Sums
<1>7. /\ Append(q, m) \in Seq(Waiting) /\ Len(Append(q, m)) = Len(q) + 1
      /\ \A i \in 1..Len(q) : Append(q, m)[i] = q[i]
      /\ Append(q, m)[Len(q) + 1] = m
  BY <1>2, <1>3
<1>8. \A i \in 1..(Len(q) + 1) : Append(q, m)[i].number = sent + i
  BY <1>1, <1>2, <1>3, <1>7 DEF OrderInv
<1>9. accepted + 1 = sent + (Len(q) + 1) /\ accepted + 1 \in Nat /\ sent \in Nat
  BY <1>1, <1>2 DEF OrderInv
<1> QED  BY <1>4, <1>5, <1>6, <1>7, <1>8, <1>9 DEF OrderInv, Waiting

LEMMA OverflowOrder ==
  ASSUME Prx!AggAssumption, OrderInv, NEW size \in Sizes, Prx!Overflow(size)
  PROVE  OrderInv'
<1>1. PICK m : m = Prx!Message(size)
  OBVIOUS
<1>2. size \in Nat /\ size <= AggMaxSize /\ accepted \in Nat /\ Len(agg_queue) \in Nat
  BY DEF Prx!AggAssumption, OrderInv, Prx!Overflow
<1>3. m \in Waiting /\ m.size = size /\ m.number = accepted + 1
  BY <1>1, <1>2 DEF Prx!Message, Waiting
<1>4. /\ agg_queue' = <<m>> /\ agg_queue_size' = size
      /\ accepted' = accepted + 1 /\ sent' = accepted
  BY <1>1, LastSentIs DEF Prx!Overflow, OrderInv
<1>5. Prx!Total(<<m>>) = size
  <2>1. <<>> \in Seq(Waiting)
    OBVIOUS
  <2>2. Append(<<>>, m) = <<m>>
    OBVIOUS
  <2>3. Prx!Total(Append(<<>>, m)) = Prx!Total(<<>>) + m.size
    BY <1>3, <2>1, TotalAppend
  <2>4. Prx!Total(Append(<<>>, m)) = size
    BY <1>2, <1>3, <2>3, TotalEmpty
  <2> QED  BY <2>2, <2>4
<1>6. (Prx!Total(agg_queue))' = Prx!Total(<<m>>)
  BY <1>4 DEF Prx!Total, Prx!Sums
<1>7. <<m>> \in Seq(Waiting) /\ Len(<<m>>) = 1 /\ <<m>>[1] = m
  BY <1>3
<1>8. \A i \in 1..1 : <<m>>[i].number = accepted + i
  BY <1>3, <1>7
<1> QED  BY <1>2, <1>4, <1>5, <1>6, <1>7, <1>8 DEF OrderInv, Waiting

LEMMA FlushOrder ==
  ASSUME Prx!AggAssumption, OrderInv, Prx!flush_queue
  PROVE  OrderInv'
<1>1. CASE agg_queue_size > 0
  <2>1. agg_queue' = <<>> /\ agg_queue_size' = 0 /\ accepted' = accepted /\ sent' = accepted
    BY <1>1, LastSentIs DEF Prx!flush_queue, OrderInv
  <2>2. (Prx!Total(agg_queue))' = Prx!Total(<<>>)
    BY <2>1 DEF Prx!Total, Prx!Sums
  <2>3. AggMaxSize \in Nat /\ accepted \in Nat
    BY DEF Prx!AggAssumption, OrderInv
  <2> QED  BY <2>1, <2>2, <2>3, TotalEmpty DEF OrderInv, Waiting
<1>2. CASE ~(agg_queue_size > 0)
  <2>1. UNCHANGED <<agg_queue, agg_queue_size, sent, accepted>>
    BY <1>2 DEF Prx!flush_queue
  <2> QED  BY <2>1, OrderKept
<1> QED  BY <1>1, <1>2

LEMMA OrderStep ==
  ASSUME Prx!AggAssumption, QueueInv, OrderInv, [Next]_vars PROVE OrderInv'
<1>1. CASE Prx!Next
  <2>1. CASE \E addr \in Addrs, size \in Sizes : Prx!datagramReceived(addr, size)
    <3>1. PICK size \in Sizes : \/ Prx!TooBig(size) \/ Prx!Enqueue(size)
                                \/ Prx!Overflow(size) \/ Prx!CancelRaises(size)
      BY <2>1 DEF Prx!datagramReceived
    <3>2. ~Prx!CancelRaises(size)
      BY DEF QueueInv, Prx!CancelRaises
    <3>3. CASE Prx!TooBig(size)
      BY <3>3, OrderKept DEF Prx!TooBig, Prx!queue
    <3> QED  BY <3>1, <3>2, <3>3, EnqueueOrder, OverflowOrder
  <2>2. CASE Prx!Tick
    <3>1. UNCHANGED <<agg_queue, agg_queue_size, sent, accepted>>
      BY <2>2 DEF Prx!Tick
    <3> QED  BY <3>1, OrderKept
  <2>3. CASE \E batch \in Batches : Prx!write(batch)
    BY <2>3, OrderKept DEF Prx!write, Prx!queue
  <2> QED  BY <1>1, <2>1, <2>2, <2>3, FlushOrder DEF Prx!Next
<1>2. CASE UNCHANGED proxy_vars
  BY <1>2, OrderKept DEF proxy_vars
<1>3. CASE Prx!write(StatusBatch)
  BY <1>3, OrderKept DEF Prx!write, Prx!queue
<1> QED  BY <1>1, <1>2, <1>3 DEF Next, ProxyStep, LineStep, Report, Injected, vars

\* proxy.py:129-161: what leaves for the peer is what has been waiting, everything since the
\* last datagram and in order, never more than radio_mtu and never nothing, for any sizes of
\* the clients' datagrams but 0 (then a message is lost: AlreadyCalled).
THEOREM MessagesInOrder ==
  ASSUME Prx!AggAssumption, 0 \notin Sizes PROVE Spec => InOrder
<1> DEFINE Sent == \A i \in DOMAIN to_peer' : Prx!NextInOrder(to_peer'[i])
<1>1. ASSUME OrderInv, agg_queue_size > 0, to_peer' = <<agg_queue>> PROVE Sent
  <2>1. Prx!Total(agg_queue) \in 1..AggMaxSize
    BY <1>1, SizeIsNat DEF OrderInv, Prx!AggAssumption
  <2>2. agg_queue # <<>>
    BY <1>1, TotalEmpty DEF OrderInv
  <2>3. Len(agg_queue) \in Nat /\ 1 \in 1..Len(agg_queue)
    BY <1>1, <2>2 DEF OrderInv
  <2>4. agg_queue[1].number = sent + 1
    BY <1>1, <2>3 DEF OrderInv
  <2>5. ASSUME NEW i \in 2..Len(agg_queue)
        PROVE  agg_queue[i].number = agg_queue[i - 1].number + 1
    <3>1. i \in 1..Len(agg_queue) /\ i - 1 \in 1..Len(agg_queue) /\ sent \in Nat
      BY <1>1, <2>3 DEF OrderInv
    <3> QED  BY <1>1, <3>1 DEF OrderInv
  <2>6. Prx!NextInOrder(agg_queue)
    BY <2>1, <2>4, <2>5 DEF Prx!NextInOrder
  <2> QED  BY <1>1, <2>6
<1>2. ASSUME to_peer' = <<>> PROVE Sent
  BY <1>2
<1>3. ASSUME QueueInv, OrderInv, [Next]_vars PROVE [Sent]_(Prx!vars)
  <2>1. CASE Prx!Next
    <3>1. CASE \E addr \in Addrs, size \in Sizes : Prx!datagramReceived(addr, size)
      <4>1. PICK size \in Sizes : \/ Prx!TooBig(size) \/ Prx!Enqueue(size)
                                  \/ Prx!Overflow(size) \/ Prx!CancelRaises(size)
        BY <3>1 DEF Prx!datagramReceived
      <4>2. CASE Prx!Overflow(size)
        <5>1. agg_queue_size > 0 /\ to_peer' = <<agg_queue>>
          BY <1>3, <4>2 DEF Prx!Overflow, Prx!Fits, Prx!AggAssumption, QueueInv
        <5> QED  BY <1>1, <1>3, <5>1
      <4>3. CASE Prx!TooBig(size) \/ Prx!Enqueue(size) \/ Prx!CancelRaises(size)
        BY <1>2, <4>3 DEF Prx!TooBig, Prx!Enqueue, Prx!CancelRaises
      <4> QED  BY <4>1, <4>2, <4>3
    <3>2. CASE Prx!flush_queue
      BY <1>1, <1>2, <1>3, <3>2 DEF Prx!flush_queue
    <3>3. CASE Prx!Tick \/ \E batch \in Batches : Prx!write(batch)
      BY <1>2, <3>3 DEF Prx!Tick, Prx!write
    <3> QED  BY <2>1, <3>1, <3>2, <3>3 DEF Prx!Next
  <2>2. CASE UNCHANGED proxy_vars
    BY <2>2 DEF proxy_vars, Prx!vars
  <2>3. CASE Prx!write(StatusBatch)
    BY <1>2, <2>3 DEF Prx!write
  <2> QED  BY <1>3, <2>1, <2>2, <2>3 DEF Next, ProxyStep, LineStep, Report, Injected, vars
<1>4. Init => QueueInv /\ OrderInv
  BY QueueInit, OrderInit
<1>5. QueueInv /\ OrderInv /\ [Next]_vars => QueueInv' /\ OrderInv' /\ [Sent]_(Prx!vars)
  BY <1>3, QueueStep, OrderStep
<1> QED  BY <1>4, <1>5, PTL DEF Spec, InOrder, Prx!InOrder
-----------------------------------------------------------------------------
(***************************************************************************)
(* What comes back, cut into packets: the headers reached are the first    *)
(* ones, each starts where the packet before it ends, and the last packet  *)
(* leaves too little for another or goes to the end.                       *)
(***************************************************************************)
\* The first packet starts the batch, the next one where its predecessor ends.
LEMMA StartsAre ==
  ASSUME Prx!BatchAssumption, NEW batch \in Batches
  PROVE  /\ Prx!Starts(batch)[1] = 0
         /\ \A n \in DOMAIN batch.headers :
              Prx!Starts(batch)[n + 1] = Prx!Starts(batch)[n] + Prx!PacketLen(batch.headers[n])
<1> DEFINE lens == Prx!Lengths(batch)
           k    == Len(batch.headers)
<1>1. k \in Nat /\ DOMAIN batch.headers = 1..k
  BY DEF Prx!BatchAssumption
<1>2. /\ Len(lens) = k
      /\ \A n \in 1..k : lens[n] = Prx!PacketLen(batch.headers[n])
  BY <1>1 DEF Prx!Lengths
<1> HIDE DEF lens
<1>3. /\ Prx!Sums(lens)[0] = 0
      /\ \A n \in 1..k : Prx!Sums(lens)[n] = Prx!Sums(lens)[n - 1] + lens[n]
  BY <1>1, <1>2, SumsAre
<1>4. \A n \in 1..(k + 1) : Prx!Starts(batch)[n] = Prx!Sums(lens)[n - 1]
  BY DEF Prx!Starts, lens
<1> HIDE DEF k
<1>5. Prx!Starts(batch)[1] = 0
  BY <1>1, <1>3, <1>4
<1>6. ASSUME NEW n \in 1..k
      PROVE  Prx!Starts(batch)[n + 1] = Prx!Starts(batch)[n] + Prx!PacketLen(batch.headers[n])
  <2>1. n \in 1..(k + 1) /\ n + 1 \in 1..(k + 1) /\ (n + 1) - 1 = n
    BY <1>1
  <2>2. Prx!Starts(batch)[n + 1] = Prx!Sums(lens)[n] /\ Prx!Starts(batch)[n] = Prx!Sums(lens)[n - 1]
    BY <1>4, <2>1
  <2> QED  BY <1>2, <1>3, <2>2
<1> QED  BY <1>1, <1>5, <1>6

\* Headers start at natural numbers and packets have a positive length.
LEMMA StartsType ==
  ASSUME Prx!BatchAssumption, NEW batch \in Batches
  PROVE  /\ \A n \in 1..(Len(batch.headers) + 1) : Prx!Starts(batch)[n] \in Nat
         /\ \A n \in DOMAIN batch.headers : Prx!PacketLen(batch.headers[n]) \in Nat \ {0}
<1> DEFINE lens == Prx!Lengths(batch)
           k    == Len(batch.headers)
<1>1. k \in Nat /\ DOMAIN batch.headers = 1..k
  BY DEF Prx!BatchAssumption
<1>2. ASSUME NEW n \in 1..k PROVE Prx!PacketLen(batch.headers[n]) \in Nat \ {0}
  <2>1. PICK h \in Prx!Header : h = batch.headers[n]
    BY DEF Prx!BatchAssumption
  <2>2. h.payload \in Nat
    <3>1. h.payload \in 0..255
      BY Zenon DEF Prx!Header
    <3>2. 0..255 \subseteq Nat
      OBVIOUS
    <3> QED  BY Zenon, <3>1, <3>2
  <2>3. Prx!PacketLen(h) \in {h.payload + 8, h.payload + 25, h.payload + 12}
    BY DEF Prx!PacketLen
  <2>4. Prx!PacketLen(h) \in Nat \ {0}
    BY <2>2, <2>3
  <2> QED  BY <2>1, <2>4
<1>3. /\ Len(lens) = k
      /\ \A n \in 1..k : lens[n] \in Nat
  BY <1>1, <1>2 DEF Prx!Lengths
<1> HIDE DEF lens
<1>4. \A n \in 0..k : Prx!Sums(lens)[n] \in Nat
  BY <1>1, <1>3, SumsType
<1>5. \A n \in 1..(k + 1) : Prx!Starts(batch)[n] = Prx!Sums(lens)[n - 1]
  BY DEF Prx!Starts, lens
<1> HIDE DEF k
<1>6. \A n \in 1..(k + 1) : Prx!Starts(batch)[n] \in Nat
  <2>1. \A n \in 1..(k + 1) : n - 1 \in 0..k
    BY <1>1
  <2> QED  BY <1>4, <1>5, <2>1
<1> QED  BY <1>1, <1>2, <1>6 DEF k

\* The headers the loop reaches are the first ones.
LEMMA ReachedIs ==
  ASSUME Prx!BatchAssumption, NEW batch \in Batches
  PROVE  \E r \in 0..Len(batch.headers) : Prx!Reached(batch) = 1..r
<1> DEFINE k == Len(batch.headers)
           R == Prx!Reached(batch)
           T == {m \in Nat : m + 1 \notin R}
<1>1. k \in Nat /\ R \subseteq 1..k
  BY DEF Prx!BatchAssumption, Prx!Reached
<1>2. ASSUME NEW n \in R, NEW m \in 1..n PROVE m \in R
  <2>1. m \in DOMAIN batch.headers /\ 1..m \subseteq 1..n /\ 1..(m - 1) \subseteq 1..(n - 1)
    BY <1>1 DEF Prx!BatchAssumption
  <2> QED  BY <2>1 DEF Prx!Reached
<1> HIDE DEF R, k
<1>3. k \in T
  BY <1>1
<1>4. PICK r \in T : \A l \in T : r <= l
  BY <1>3, MinOf
<1>5. r \in 0..k /\ r + 1 \notin R
  BY <1>1, <1>3, <1>4
<1>6. ASSUME NEW m \in 1..r PROVE m \in R
  <2>1. m - 1 \in Nat /\ ~(r <= m - 1) /\ (m - 1) + 1 = m
    BY <1>1, <1>5
  <2>2. m - 1 \notin T
    <3> HIDE DEF T
    <3> QED  BY <1>4, <2>1
  <2> QED  BY <2>1, <2>2
<1>7. ASSUME NEW m \in R PROVE m \in 1..r
  <2>1. m \in 1..k
    BY <1>1
  <2>2. ~(m > r)
    <3>1. SUFFICES ASSUME m > r PROVE FALSE
      OBVIOUS
    <3>2. r + 1 \in 1..m
      BY <1>1, <1>5, <2>1, <3>1
    <3> QED  BY <1>2, <1>5, <3>2
  <2> QED  BY <1>1, <1>5, <2>1, <2>2
<1>8. R = 1..r
  BY <1>6, <1>7
<1> QED  BY <1>5, <1>8 DEF R, k

\* The length the loop computes is that of the frame.
LEMMA FrameIs ==
  ASSUME NEW h \in Prx!Header, Prx!Known(h)
  PROVE  Prx!PacketLen(h) = Prx!FrameLen(h)
<1>1. h.version \in {"mavlink1", "mavlink2"}
  BY DEF Prx!Known
<1>2. h.payload \in Nat
  <2>1. h.payload \in 0..255
    BY Zenon DEF Prx!Header
  <2>2. 0..255 \subseteq Nat
    OBVIOUS
  <2> QED  BY Zenon, <2>1, <2>2
<1> QED  BY <1>1, <1>2 DEF Prx!PacketLen, Prx!FrameLen

\* proxy.py:63-108: the batch reaches the client byte by byte, every whole packet in a datagram
\* of its own, but for a rest shorter than any packet, for any batch in which the headers
\* follow each other.
THEOREM BatchCutUp ==
  ASSUME Prx!BatchAssumption PROVE Spec => PacketsCutUp
<1>1. ASSUME NEW batch \in Batches, Prx!write(batch) PROVE Prx!CutUp(batch, to_client')
  <2> DEFINE hs == batch.headers
             k  == Len(hs)
             start(n) == Prx!Starts(batch)[n]
             plen(n)  == Prx!PacketLen(hs[n])
  <2>1. k \in Nat /\ DOMAIN hs = 1..k /\ batch.len \in Nat
    BY DEF Prx!BatchAssumption
  <2>2. PICK r \in 0..k : Prx!Reached(batch) = 1..r
    BY ReachedIs
  <2>3. to_client' = [n \in 1..r |-> Prx!Slice(batch, n)]
    BY <1>1, <2>2 DEF Prx!write
  <2> DEFINE S == [n \in 1..r |-> Prx!Slice(batch, n)]
  <2>4. /\ start(1) = 0
        /\ \A n \in 1..k : start(n + 1) = start(n) + plen(n)
        /\ \A n \in 1..(k + 1) : start(n) \in Nat
        /\ \A n \in 1..k : plen(n) \in Nat \ {0}
    BY <2>1, StartsAre, StartsType
  <2>5. r \in Nat /\ r <= k /\ DOMAIN S = 1..r /\ Len(S) = r
    BY <2>1, <2>2
  <2>6. ASSUME NEW n \in 1..r
        PROVE  /\ n \in 1..k /\ batch.len - start(n) >= 8
               /\ S[n].from = start(n)
               /\ S[n].to = IF Prx!Known(hs[n]) /\ start(n + 1) < batch.len
                            THEN start(n + 1) ELSE batch.len
    <3>1. n \in 1..k /\ n \in Prx!Reached(batch) /\ n \in 1..n
      BY <2>1, <2>2, <2>5
    <3>2. Prx!LongEnough(batch, n)
      BY <3>1 DEF Prx!Reached
    <3>3. start(n + 1) = start(n) + plen(n)
      BY <2>4, <3>1
    <3> QED  BY <3>1, <3>2, <3>3 DEF Prx!LongEnough, Prx!Slice
  <2>7. ASSUME NEW n \in 1..r, n # r
        PROVE  Prx!Known(hs[n]) /\ S[n].to = start(n + 1)
    <3>1. n + 1 \in 1..r /\ n \in 1..((n + 1) - 1)
      BY <2>5, <2>7
    <3>2. Prx!Known(hs[n])
      BY <2>2, <3>1 DEF Prx!Reached
    <3>3. batch.len - start(n + 1) >= 8 /\ n + 1 \in 1..k
      BY <2>6, <3>1
    <3>4. start(n + 1) < batch.len
      <4>1. start(n + 1) \in Nat
        BY <2>1, <2>4, <3>3
      <4> HIDE DEF start
      <4> QED  BY <2>1, <3>3, <4>1
    <3> QED  BY <2>6, <3>2, <3>4
  <2>8. ASSUME r < k + 1, \A m \in 1..r : Prx!Known(hs[m])
        PROVE  ~Prx!LongEnough(batch, r + 1)
    <3>1. SUFFICES ASSUME Prx!LongEnough(batch, r + 1) PROVE FALSE
      OBVIOUS
    <3>2. r + 1 \in 1..(k + 1) /\ (r + 1) - 1 = r
      BY <2>1, <2>5
    <3>3. r + 1 \in 1..k
      BY <2>8, <3>1, <3>2 DEF Prx!BatchAssumption
    <3>4. \A m \in 1..(r + 1) : Prx!LongEnough(batch, m)
      <4>1. \A m \in 1..r : Prx!LongEnough(batch, m)
        BY <2>6 DEF Prx!LongEnough
      <4>2. \A m \in 1..(r + 1) : m \in 1..r \/ m = r + 1
        BY <2>5
      <4> QED  BY <3>1, <4>1, <4>2
    <3>5. r + 1 \in Prx!Reached(batch)
      BY <2>1, <2>8, <3>2, <3>3, <3>4 DEF Prx!Reached
    <3> QED  BY <2>2, <2>5, <3>5
  <2> HIDE DEF S, start, plen
  <2>9. ASSUME NEW i \in 1..r
        PROVE  /\ S[i].from = (IF i = 1 THEN 0 ELSE S[i - 1].to)
               /\ S[i].from < S[i].to /\ S[i].to <= batch.len
               /\ \/ Prx!Whole(hs[i], S[i])
                  \/ i = Len(S) /\ Prx!Unsplit(hs[i], S[i], batch)
    <3>1. S[i].from = IF i = 1 THEN 0 ELSE S[i - 1].to
      <4>1. CASE i = 1
        BY <2>4, <2>6, <4>1
      <4>2. CASE i # 1
        <5>1. i - 1 \in 1..r /\ i - 1 # r /\ (i - 1) + 1 = i
          BY <2>5, <4>2
        <5>2. S[i - 1].to = start(i)
          BY <2>7, <5>1
        <5> QED  BY <2>6, <4>2, <5>2
      <4> QED  BY <4>1, <4>2
    <3>2. S[i].from < S[i].to /\ S[i].to <= batch.len
      <4>1. /\ i \in 1..k /\ i \in 1..(k + 1)
            /\ batch.len - start(i) >= 8 /\ S[i].from = start(i)
            /\ \/ S[i].to = start(i + 1) /\ start(i + 1) < batch.len
               \/ S[i].to = batch.len
        BY <2>1, <2>6
      <4>2. start(i) \in Nat /\ plen(i) \in Nat \ {0} /\ start(i + 1) = start(i) + plen(i)
        BY <2>4, <4>1
      <4> QED  BY <2>1, <4>1, <4>2
    <3>3. hs[i] \in Prx!Header /\ i \in 1..k /\ i \in 1..(k + 1)
      BY <2>1, <2>6 DEF Prx!BatchAssumption
    <3>4. /\ start(i) \in Nat /\ plen(i) \in Nat \ {0} /\ start(i + 1) = start(i) + plen(i)
          /\ S[i].from = start(i)
          /\ Prx!Known(hs[i]) => plen(i) = Prx!FrameLen(hs[i])
      BY <2>4, <2>6, <3>3, FrameIs DEF plen
    <3>5. CASE Prx!Known(hs[i]) /\ S[i].to = start(i + 1)
      BY <3>1, <3>2, <3>4, <3>5 DEF Prx!Whole
    <3>6. CASE ~(Prx!Known(hs[i]) /\ S[i].to = start(i + 1))
      <4>1. i = r
        BY <2>7, <3>6
      <4>2. S[i].to = batch.len /\ (Prx!Known(hs[i]) => ~(start(i + 1) < batch.len))
        BY <2>6, <3>6
      <4>3. Prx!Known(hs[i]) => batch.len - start(i) < plen(i)
        BY <2>1, <3>4, <3>6, <4>2
      <4>4. Prx!Unsplit(hs[i], S[i], batch)
        BY <3>4, <4>2, <4>3 DEF Prx!Unsplit
      <4> QED  BY <2>5, <3>1, <3>2, <4>1, <4>4
    <3> QED  BY <3>5, <3>6
  <2>10. batch.len - (IF S = <<>> THEN 0 ELSE S[Len(S)].to) < 8
    <3>1. start(r + 1) \in Nat
      BY <2>1, <2>4, <2>5
    <3>2. CASE r = 0
      <4>1. S = <<>>
        BY <2>5, <3>2 DEF S
      <4>2. ~(batch.len - start(1) >= 8)
        BY <2>1, <2>8, <3>2 DEF Prx!LongEnough, start
      <4> QED  BY <2>1, <2>4, <4>1, <4>2
    <3>3. CASE r # 0
      <4>1. r \in 1..r /\ S # <<>>
        BY <2>5, <3>3
      <4>2. CASE S[r].to = batch.len
        BY <2>1, <2>5, <4>1, <4>2
      <4>3. CASE S[r].to # batch.len
        <5>1. Prx!Known(hs[r]) /\ S[r].to = start(r + 1)
          BY <2>6, <4>1, <4>3
        <5>2. \A m \in 1..r : Prx!Known(hs[m])
          BY <2>7, <5>1
        <5>3. ~(batch.len - start(r + 1) >= 8)
          BY <2>1, <2>5, <2>8, <5>2 DEF Prx!LongEnough, start
        <5> QED  BY <2>1, <2>5, <3>1, <4>1, <5>1, <5>3
      <4> QED  BY <4>2, <4>3
    <3> QED  BY <3>2, <3>3
  <2>11. Prx!CutUp(batch, S)
    BY <2>5, <2>9, <2>10 DEF Prx!CutUp
  <2> QED  BY <2>3, <2>11 DEF S
<1>2. [Next]_vars => [\A batch \in Batches :
                        Prx!write(batch) => Prx!CutUp(batch, to_client')]_(Prx!vars)
  BY <1>1
<1> QED  BY <1>2, PTL DEF Spec, PacketsCutUp, Prx!PacketsCutUp
=============================================================================
