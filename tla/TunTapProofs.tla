---------------------------- MODULE TunTapProofs ----------------------------
(***************************************************************************)
(* Proofs about TunTap for all values of its constants.                    *)
(***************************************************************************)
EXTENDS TunTap, TLAPS

-----------------------------------------------------------------------------
(***************************************************************************)
(* The queue as a run of numbers: those after w, up to a                   *)
(***************************************************************************)
Pending(w, a) == [i \in 1..(a - w) |-> w + i]

LEMMA PendingType ==
  ASSUME NEW a \in Nat, NEW w \in 0..a
  PROVE  /\ Pending(w, a) \in Seq(1..a)
         /\ Len(Pending(w, a)) = a - w
         /\ (Pending(w, a) = <<>>) <=> (w = a)
<1>1. a - w \in Nat
  OBVIOUS
<1>2. Pending(w, a) \in [1..(a - w) -> 1..a]
  BY DEF Pending
<1>3. Pending(w, a) \in Seq(1..a) /\ Len(Pending(w, a)) = a - w
  BY <1>1, <1>2
<1> QED  BY <1>3

\* A packet more at the end.
LEMMA PendingAppend ==
  ASSUME NEW a \in Nat, NEW w \in 0..a
  PROVE  Append(Pending(w, a), a + 1) = Pending(w, a + 1)
<1>1. Pending(w, a) \in Seq(1..a) /\ Len(Pending(w, a)) = a - w
  BY PendingType
<1> QED  BY <1>1 DEF Pending

\* The first n are taken away.
LEMMA PendingTaken ==
  ASSUME NEW a \in Nat, NEW w \in 0..a, NEW n \in 0..(a - w)
  PROVE  /\ SubSeq(Pending(w, a), n + 1, a - w) = Pending(w + n, a)
         /\ SubSeq(Pending(w, a), 1, n) \in Seq(1..a)
         /\ n # 0 => Pending(w, a)[n] = w + n
<1>1. Pending(w, a) \in Seq(1..a) /\ Len(Pending(w, a)) = a - w
  BY PendingType
<1>2. \A i \in 1..(a - w) : Pending(w, a)[i] = w + i
  BY DEF Pending
<1>3. SubSeq(Pending(w, a), 1, n) \in Seq(1..a)
  BY <1>1
<1>4. SubSeq(Pending(w, a), n + 1, a - w) = [i \in 1..(a - (w + n)) |-> w + n + i]
  BY <1>1, <1>2
<1> QED  BY <1>2, <1>3, <1>4 DEF Pending
-----------------------------------------------------------------------------
(***************************************************************************)
(* The inductive invariant.  What is left to the next keepalive and the    *)
(* silence so far make an interval, or up to two once the device is gone.  *)
(***************************************************************************)
Scheduled == running => /\ connected => silent + time_left = Interval
                        /\ silent + time_left >= Interval
                        /\ silent + time_left <= 2 * Interval

TunInv == /\ TypeOK
          /\ reading = connected
          /\ Scheduled /\ NothingLost /\ WatchedWhenQueued

\* Sequences over fewer numbers.
LEMMA Widen ==
  ASSUME NEW a \in Nat, NEW b \in Nat, a <= b, NEW s \in Seq(1..a)
  PROVE  s \in Seq(1..b)
<1>1. Len(s) \in Nat /\ s = [i \in 1..Len(s) |-> s[i]]
  OBVIOUS
<1>2. \A i \in 1..Len(s) : s[i] \in 1..b
  <2>1. \A i \in 1..Len(s) : s[i] \in 1..a
    OBVIOUS
  <2> QED  BY <2>1
<1> QED  BY <1>1, <1>2

\* The queue in the form of NothingLost.
LEMMA QueueFrom ==
  ASSUME NEW a \in Nat, NEW w \in 0..a, NEW q, q = Pending(w, a)
  PROVE  Len(q) \in Nat /\ w + Len(q) = a /\ q = [i \in 1..Len(q) |-> w + i]
<1>1. Len(q) = a - w
  BY PendingType
<1>2. q = [i \in 1..Len(q) |-> w + i]
  BY <1>1 DEF Pending
<1> DEFINE l == Len(q)
<1>3. l = a - w
  BY <1>1
<1> HIDE DEF l
<1>4. l \in Nat /\ w + l = a
  BY <1>3
<1> QED  BY <1>2, <1>4 DEF l

LEMMA TunInit == ASSUME TunAssumption PROVE Init => TunInv
<1> SUFFICES ASSUME Init PROVE TunInv
  OBVIOUS
<1>a. Interval \in Nat \ {0} /\ MaxPackets \in Nat /\ MaxWaiting \in Nat
  BY DEF TunAssumption
<1>b. <<>> \in Seq(1..MaxPackets)
  OBVIOUS
<1>1. TypeOK
  <2>1. queue \in Seq(1..MaxPackets) /\ to_device \in Seq(1..MaxPackets)
    BY <1>b DEF Init
  <2>2. /\ time_left \in 0..Interval /\ waiting \in 0..MaxWaiting
        /\ accepted \in 0..MaxPackets /\ written \in 0..accepted /\ silent \in Nat
    BY <1>a DEF Init
  <2>3. /\ connected \in BOOLEAN /\ reading \in BOOLEAN /\ writing \in BOOLEAN
        /\ running \in BOOLEAN /\ to_peer \in {"nothing", "packet", "keepalive"}
    BY DEF Init
  <2> QED  BY <2>1, <2>2, <2>3 DEF TypeOK
<1>2. NothingLost
  BY PendingType DEF Init, NothingLost, Pending
<1>3. Scheduled
  BY <1>a DEF Init, Scheduled
<1>4. reading = connected /\ WatchedWhenQueued
  BY DEF Init, WatchedWhenQueued
<1> QED  BY <1>1, <1>2, <1>3, <1>4 DEF TunInv

\* Steps that leave the queue and the numbers alone, with the device there or closed.
LEMMA QueueKept ==
  ASSUME TunInv, UNCHANGED <<queue, accepted, written>>,
         \/ UNCHANGED <<connected, writing>>
         \/ connected' = FALSE /\ writing' = FALSE
  PROVE  NothingLost' /\ WatchedWhenQueued'
<1>1. queue' = queue /\ accepted' = accepted /\ written' = written
  OBVIOUS
<1>2. NothingLost /\ WatchedWhenQueued
  BY DEF TunInv
<1>3. CASE connected' = FALSE /\ writing' = FALSE
  <2>1. NothingLost'
    BY <1>1, <1>2, <1>3 DEF NothingLost
  <2> QED  BY <1>3, <2>1 DEF WatchedWhenQueued
<1>4. CASE UNCHANGED <<connected, writing>>
  BY <1>1, <1>2, <1>4 DEF NothingLost, WatchedWhenQueued
<1> QED  BY <1>3, <1>4

\* While the device is there, the queue is all that was not written.
LEMMA QueueIs == ASSUME TunInv, connected PROVE queue = Pending(written, accepted)
<1>1. accepted \in Nat /\ written \in 0..accepted /\ Len(queue) \in Nat
  BY DEF TunInv, TypeOK
<1>2. queue = [i \in 1..Len(queue) |-> written + i] /\ written + Len(queue) = accepted
  BY DEF TunInv, NothingLost
<1>3. Len(queue) = accepted - written
  BY <1>1, <1>2
<1> QED  BY <1>2, <1>3 DEF Pending

\* The first n packets are written: what is left is still the run of numbers after the last.
LEMMA TakenFacts ==
  ASSUME MaxPackets \in Nat, TunInv, connected, NEW n \in 0..Len(queue), Taken(n)
  PROVE  /\ written' = written + n /\ written' \in 0..accepted
         /\ Len(queue') \in Nat /\ written' + Len(queue') = accepted
         /\ queue' = [i \in 1..Len(queue') |-> written' + i]
         /\ queue' \in Seq(1..MaxPackets) /\ to_device' \in Seq(1..MaxPackets)
         /\ (queue' = <<>>) <=> (n = Len(queue))
<1>1. /\ accepted \in Nat /\ written \in 0..accepted /\ accepted \in 0..MaxPackets
      /\ queue = Pending(written, accepted)
  BY QueueIs DEF TunInv, TypeOK
<1>2. Len(queue) = accepted - written
  BY <1>1, PendingType
<1>3. written' = written + n /\ written' \in 0..accepted
  <2>1. n \in 0..(accepted - written)
    BY <1>2
  <2>2. n # 0 => queue[n] = written + n
    BY <1>1, <2>1, PendingTaken
  <2>3. written' = IF n = 0 THEN written ELSE queue[n]
    BY DEF Taken
  <2> QED  BY <1>1, <2>1, <2>2, <2>3
<1>4. queue' = Pending(written', accepted) /\ to_device' \in Seq(1..accepted)
  BY <1>1, <1>2, <1>3, PendingTaken DEF Taken
<1>5. queue' \in Seq(1..accepted) /\ ((queue' = <<>>) <=> (written' = accepted))
  BY <1>1, <1>3, <1>4, PendingType
<1>6. queue' \in Seq(1..MaxPackets) /\ to_device' \in Seq(1..MaxPackets)
  BY <1>1, <1>4, <1>5, MaxPackets \in Nat, Widen
<1>7. /\ Len(queue') \in Nat /\ written' + Len(queue') = accepted
      /\ queue' = [i \in 1..Len(queue') |-> written' + i]
  <2>1. accepted \in Nat /\ written' \in 0..accepted /\ queue' = Pending(written', accepted)
    BY <1>1, <1>3, <1>4
  <2> QED  BY ONLY <2>1, QueueFrom, Zenon
<1>8. (queue' = <<>>) <=> (n = Len(queue))
  BY <1>1, <1>2, <1>3, <1>5
<1> QED  BY <1>3, <1>6, <1>7, <1>8

LEMMA TunStep == ASSUME TunAssumption PROVE TunInv /\ [Next \/ loseConnection]_vars => TunInv'
<1> SUFFICES ASSUME TunInv, [Next \/ loseConnection]_vars PROVE TunInv'
  OBVIOUS
<1>a. Interval \in Nat \ {0} /\ MaxPackets \in Nat /\ MaxWaiting \in Nat
  BY DEF TunAssumption
<1>b. <<>> \in Seq(1..MaxPackets)
  OBVIOUS
<1>c. TypeOK /\ reading = connected /\ Scheduled
  BY DEF TunInv
<1>1. CASE PacketArrives
  <2>1. NothingLost' /\ WatchedWhenQueued'
    BY <1>1, QueueKept DEF PacketArrives, Quiet
  <2> QED  BY <1>1, <1>a, <1>b, <1>c, <2>1 DEF PacketArrives, Quiet, TunInv, TypeOK, Scheduled
<1>2. CASE doRead
  <2>1. NothingLost' /\ WatchedWhenQueued'
    BY <1>2, QueueKept DEF doRead
  <2>2. TypeOK'
    BY <1>2, <1>a, <1>b, <1>c DEF doRead, Reset, TypeOK
  <2>3. Scheduled'
    BY <1>2, <1>a DEF doRead, Reset, Scheduled
  <2> QED  BY <1>2, <1>c, <2>1, <2>2, <2>3 DEF doRead, TunInv
<1>3. CASE doReadRaises
  <2>1. NothingLost' /\ WatchedWhenQueued'
    BY <1>3, QueueKept DEF doReadRaises, Disconnect, Quiet
  <2>2. /\ waiting' \in 0..MaxWaiting /\ time_left' \in 0..Interval
        /\ time_left' = time_left \/ time_left' = Interval
    BY <1>3, <1>a, <1>c DEF doReadRaises, ReadFails, ResetFails, SendFails, Reset, TypeOK
  <2>3. TypeOK'
    BY <1>3, <1>b, <1>c, <2>2 DEF doReadRaises, Disconnect, Quiet, TypeOK
  <2>4. Scheduled'
    <3> SUFFICES ASSUME running' PROVE /\ silent' + time_left' >= Interval
                                       /\ silent' + time_left' <= 2 * Interval
      BY <1>3 DEF doReadRaises, Disconnect, Scheduled
    <3>1. connected /\ running /\ silent' = silent
      BY <1>3, <1>c DEF doReadRaises
    <3>2. silent + time_left = Interval /\ silent \in Nat /\ time_left \in 0..Interval
      BY <1>c, <3>1 DEF Scheduled, TypeOK
    <3>3. CASE time_left' = time_left
      BY <1>a, <3>1, <3>2, <3>3
    <3>4. CASE time_left' = Interval
      BY <1>a, <3>1, <3>2, <3>4
    <3> QED  BY <2>2, <3>3, <3>4
  <2> QED  BY <1>3, <1>c, <2>1, <2>3, <2>4 DEF doReadRaises, Disconnect, TunInv
<1>4. CASE send_keepalive
  <2>1. NothingLost' /\ WatchedWhenQueued'
    BY <1>4, QueueKept DEF send_keepalive
  <2> QED  BY <1>4, <1>a, <1>b, <1>c, <2>1 DEF send_keepalive, TunInv, TypeOK, Scheduled
<1>5. CASE KeepaliveRaises
  <2>1. NothingLost' /\ WatchedWhenQueued'
    BY <1>5, QueueKept DEF KeepaliveRaises, Quiet
  <2> QED  BY <1>5, <1>a, <1>b, <1>c, <2>1 DEF KeepaliveRaises, Quiet, TunInv, TypeOK, Scheduled
<1>6. CASE Tick
  <2>1. NothingLost' /\ WatchedWhenQueued'
    BY <1>6, QueueKept DEF Tick, Quiet
  <2> QED  BY <1>6, <1>a, <1>b, <1>c, <2>1 DEF Tick, Quiet, TunInv, TypeOK, Scheduled
<1>7. CASE writeEmpty
  <2>1. NothingLost' /\ WatchedWhenQueued'
    BY <1>7, QueueKept DEF writeEmpty, Quiet
  <2> QED  BY <1>7, <1>a, <1>b, <1>c, <2>1 DEF writeEmpty, Quiet, TunInv, TypeOK, Scheduled
<1>8. CASE write
  <2>1. /\ accepted \in Nat /\ written \in 0..accepted
        /\ accepted' = accepted + 1 /\ written' = written /\ accepted' \in 0..MaxPackets
    BY <1>8, <1>a, <1>c DEF write, TypeOK
  <2>2. CASE connected
    <3>1. queue = Pending(written, accepted)
      BY <2>2, QueueIs
    <3>2. queue' = Pending(written', accepted') /\ writing' = TRUE
      BY <1>8, <2>1, <2>2, <3>1, PendingAppend DEF write, Queued
    <3>3. queue' # <<>> /\ queue' \in Seq(1..accepted')
      BY <2>1, <3>2, PendingType
    <3>4. queue' \in Seq(1..MaxPackets)
      BY <1>a, <2>1, <3>3, Widen
    <3>5. TypeOK'
      BY <1>8, <1>b, <1>c, <2>1, <3>2, <3>4 DEF write, Quiet, TypeOK
    <3>6. written' + Len(queue') = accepted' /\ queue' = [i \in 1..Len(queue') |-> written' + i]
      <4>1. accepted' \in Nat /\ written' \in 0..accepted'
        BY <2>1
      <4> QED  BY <3>2, <4>1, QueueFrom
    <3>7. NothingLost' /\ WatchedWhenQueued'
      <4>1. NothingLost'
        BY <3>6 DEF NothingLost
      <4>2. connected'
        BY <1>8, <2>2 DEF write
      <4> QED  BY <3>2, <3>3, <4>1, <4>2 DEF WatchedWhenQueued
    <3> QED  BY <1>8, <1>c, <3>5, <3>7 DEF write, TunInv, Scheduled
  <2>3. CASE ~connected
    BY <1>8, <1>b, <1>c, <2>1, <2>3
    DEF write, Queued, Quiet, TunInv, TypeOK, Scheduled, NothingLost, WatchedWhenQueued
  <2> QED  BY <2>2, <2>3
<1>9. CASE doWrite
  <2>1. connected /\ connected' = connected
    BY <1>9 DEF doWrite, TunInv, WatchedWhenQueued
  <2>2. Len(queue) \in Nat /\ Len(queue) \in 0..Len(queue)
    BY <1>c DEF TypeOK
  <2>3. Taken(Len(queue)) /\ writing' = FALSE
    BY <1>9 DEF doWrite
  <2>4. /\ written' \in 0..accepted /\ queue' = <<>>
        /\ written' + Len(queue') = accepted /\ queue' = [i \in 1..Len(queue') |-> written' + i]
        /\ queue' \in Seq(1..MaxPackets) /\ to_device' \in Seq(1..MaxPackets)
    BY <2>1, <2>2, <2>3, <1>a, TakenFacts
  <2>5. writing' = (connected' /\ queue' # <<>>)
    BY <2>3, <2>4
  <2>6. TypeOK'
    BY <1>9, <1>c, <2>1, <2>3, <2>4 DEF doWrite, TypeOK
  <2>7. NothingLost'
    <3>1. accepted' = accepted
      BY <1>9 DEF doWrite
    <3>2. written' + Len(queue') = accepted'
      BY <2>4, <3>1
    <3> QED  BY <2>4, <3>2 DEF NothingLost
  <2> QED  BY <1>9, <1>c, <2>5, <2>6, <2>7 DEF doWrite, TunInv, Scheduled, WatchedWhenQueued
<1>10. CASE doWriteRaises
  <2>1. connected
    BY <1>10 DEF doWriteRaises, TunInv, WatchedWhenQueued
  <2>2. PICK n \in 0..(Len(queue) - 1) : Taken(n)
    BY <1>10 DEF doWriteRaises
  <2>3. n \in 0..Len(queue)
    BY <1>c DEF TypeOK
  <2>4. /\ written' \in 0..accepted /\ queue' = [i \in 1..Len(queue') |-> written' + i]
        /\ queue' \in Seq(1..MaxPackets) /\ to_device' \in Seq(1..MaxPackets)
    BY <2>1, <2>2, <2>3, <1>a, TakenFacts
  <2> QED  BY <1>10, <1>a, <1>c, <2>4
           DEF doWriteRaises, TunInv, TypeOK, Scheduled, NothingLost, WatchedWhenQueued
<1>11. CASE loseConnection
  <2>1. NothingLost' /\ WatchedWhenQueued'
    BY <1>11, QueueKept DEF loseConnection, Disconnect, Quiet
  <2> QED  BY <1>11, <1>a, <1>b, <1>c, <2>1
           DEF loseConnection, Disconnect, Quiet, TunInv, TypeOK, Scheduled
<1>12. CASE UNCHANGED vars
  BY <1>12 DEF vars, TunInv, TypeOK, Scheduled, NothingLost, WatchedWhenQueued
<1> QED  BY <1>1, <1>2, <1>3, <1>4, <1>5, <1>6, <1>7, <1>8, <1>9, <1>10, <1>11, <1>12 DEF Next

LEMMA TunInvariant == ASSUME TunAssumption PROVE Spec => []TunInv
BY TunInit, TunStep, PTL DEF Spec
-----------------------------------------------------------------------------
(***************************************************************************)
(* The theorems                                                            *)
(***************************************************************************)
\* tuntap.py: whatever the order of packets, resets, failures and the end of
\* the service, every variable of the tunnel has its type.
THEOREM TunTypes == ASSUME TunAssumption PROVE Spec => []TypeOK
<1>1. TunInv => TypeOK
  BY DEF TunInv
<1> QED  BY <1>1, TunInvariant, PTL

\* tuntap.py:140, 162: the bound on the silence of a running keepalive, for every
\* interval.
THEOREM TunSilenceBounded == ASSUME TunAssumption PROVE Spec => []SilenceBounded
<1>1. TunInv => SilenceBounded
  BY DEF TunInv, TypeOK, Scheduled, SilenceBounded, TunAssumption
<1> QED  BY <1>1, TunInvariant, PTL

\* tuntap.py:87-131: what the device has not taken is in the queue, in order, for any number
\* of packets and wherever in the queue a write fails.
THEOREM TunNothingLost == ASSUME TunAssumption PROVE Spec => []NothingLost
<1>1. TunInv => NothingLost
  BY DEF TunInv
<1> QED  BY <1>1, TunInvariant, PTL

\* tuntap.py:100, 131: the reactor watches for writing just when there is something to write.
THEOREM TunWatchedWhenQueued == ASSUME TunAssumption PROVE Spec => []WatchedWhenQueued
<1>1. TunInv => WatchedWhenQueued
  BY DEF TunInv
<1> QED  BY <1>1, TunInvariant, PTL

\* tuntap.py:162: a keepalive is sent only after a whole interval of silence.
THEOREM TunOnlyWhenSilent == ASSUME TunAssumption PROVE Spec => OnlyWhenSilent
<1>1. TunInv /\ [Next \/ loseConnection]_vars => [to_peer' = "keepalive" => silent >= Interval]_vars
  <2> SUFFICES ASSUME TunInv, Next \/ loseConnection, to_peer' = "keepalive"
               PROVE  silent >= Interval
    BY DEF vars
  <2>1. send_keepalive
    BY DEF Next, loseConnection, PacketArrives, doRead, doReadRaises, KeepaliveRaises, Tick,
           writeEmpty, write, doWrite, doWriteRaises, Quiet
  <2>2. silent + time_left >= Interval /\ time_left = 0 /\ silent \in Nat
    BY <2>1 DEF send_keepalive, TunInv, Scheduled, TypeOK
  <2> QED  BY <2>2
<1> QED  BY <1>1, TunInvariant, PTL DEF Spec, OnlyWhenSilent
=============================================================================
