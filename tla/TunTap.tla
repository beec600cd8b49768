------------------------------- MODULE TunTap -------------------------------
(***************************************************************************)
(* The tunnel of telemetry/tuntap.py: TUNTAPTransport, a TUN device in the *)
(* reactor, and TUNTAPProtocol, which passes its packets to the peer (the  *)
(* socket of a wfb_tx) and fills silence with empty keepalive packets.     *)
(*                                                                         *)
(* All calls run in one reactor thread: one call is one step.  An          *)
(* exception that leaves doRead or doWrite makes the reactor disconnect    *)
(* the device.                                                             *)
(***************************************************************************)
EXTENDS Integers, Sequences

CONSTANTS Interval,    \* keepalive_interval, in ticks of the reactor's clock
          MaxPackets,  \* BOUND: packets that ever come from the far side
          MaxWaiting   \* BOUND: packets that wait in the device to be read

\* What is assumed of them (TunnelService states it).
TunAssumption == /\ Interval \in Nat \ {0}
                 /\ MaxPackets \in Nat /\ MaxWaiting \in Nat

VARIABLES connected,   \* of the FileDescriptor
          reading,     \* the reactor watches the device for reading
          writing,     \* the reactor watches the device for writing
          queue,       \* numbers of the packets to be written to the device
          running,     \* lc.running, the LoopingCall of send_keepalive
          time_left,   \* ticks until it is called
          waiting,     \* packets in the device for us to read
          to_peer,     \* what the last step sent to the peer
          to_device,   \* packets the last step wrote to the device
          accepted,    \* history: packets that came from the far side
          written,     \* history: number of the last packet written
          silent       \* history: ticks since the peer last heard from us

vars == <<connected, reading, writing, queue, running, time_left, waiting,
          to_peer, to_device, accepted, written, silent>>

Quiet == to_peer' = "nothing" /\ to_device' = <<>>

Init == /\ connected = TRUE /\ reading = TRUE /\ writing = FALSE
        /\ queue = <<>> /\ running = TRUE /\ time_left = Interval
        /\ waiting = 0 /\ to_peer = "nothing" /\ to_device = <<>>
        /\ accepted = 0 /\ written = 0 /\ silent = 0
-----------------------------------------------------------------------------
(***************************************************************************)
(* The end of the device                                                   *)
(***************************************************************************)
\* connectionLost: neither the queue nor the keepalive call is touched.
Disconnect == /\ connected' = FALSE /\ reading' = FALSE /\ writing' = FALSE
              /\ UNCHANGED queue

\* Called when the service ends, even if the device is gone: closed only once.
loseConnection == /\ Disconnect /\ Quiet
                  /\ UNCHANGED <<running, time_left, silent, waiting, accepted, written>>

-----------------------------------------------------------------------------
(***************************************************************************)
(* From the device to the far side                                         *)
(***************************************************************************)
PacketArrives == /\ waiting < MaxWaiting
                 /\ waiting' = waiting + 1
                 /\ Quiet
                 /\ UNCHANGED <<connected, reading, writing, queue, written, running,
                                   time_left, silent, accepted>>

\* lc.reset(): the next call is a whole interval away.
Reset == time_left' = Interval

\* dataReceived sends the packet on; reset asserts that the loop is running.
doRead ==
  /\ reading /\ waiting > 0 /\ running
  /\ waiting' = waiting - 1
  /\ Reset /\ silent' = 0
  /\ to_peer' = "packet" /\ to_device' = <<>>
  /\ UNCHANGED <<connected, reading, writing, queue, written, running, accepted>>

\* os.read raises; or the assertion of reset does, for the loop has ended; or the
\* socket, when the timer has been reset already.
ReadFails == UNCHANGED <<waiting, time_left>>
ResetFails == /\ waiting > 0 /\ ~running
              /\ waiting' = waiting - 1 /\ UNCHANGED time_left
SendFails == /\ waiting > 0 /\ running
             /\ waiting' = waiting - 1 /\ Reset

doReadRaises ==
  /\ reading
  /\ ReadFails \/ ResetFails \/ SendFails
  /\ Disconnect
  /\ Quiet
  /\ UNCHANGED <<running, silent, accepted, written>>

\* Due whether or not there is a device any more.
send_keepalive ==
  /\ running /\ time_left = 0
  /\ time_left' = Interval /\ silent' = 0
  /\ to_peer' = "keepalive" /\ to_device' = <<>>
  /\ UNCHANGED <<connected, reading, writing, queue, written, running, waiting, accepted>>

\* The socket raises: a LoopingCall whose function fails ends, unheard.
KeepaliveRaises ==
  /\ running /\ time_left = 0
  /\ running' = FALSE
  /\ Quiet
  /\ UNCHANGED <<connected, reading, writing, queue, written, time_left, silent, waiting, accepted>>
-----------------------------------------------------------------------------
(***************************************************************************)
(* From the far side to the device                                         *)
(***************************************************************************)
\* Mutant: whatever comes from the far side puts our keepalive off too.
Bug_ResetsToo == /\ running /\ Reset
                 /\ Quiet
                 /\ UNCHANGED <<connected, reading, writing, queue, written, running, silent,
                                waiting, accepted>>

\* The far side's keepalives end here: they only keep the path open.
writeEmpty == Quiet /\ UNCHANGED <<connected, reading, writing, queue, written,
                                   running, time_left, silent, waiting, accepted>>

\* Mutant: the reactor is not told of the packet.
Bug_Queued == /\ queue' = Append(queue, accepted + 1) /\ writing' = writing

Queued == IF connected THEN queue' = Append(queue, accepted + 1) /\ writing' = TRUE
                       ELSE UNCHANGED <<queue, writing>>

write ==
  /\ accepted < MaxPackets
  /\ accepted' = accepted + 1
  /\ Queued
  /\ Quiet
  /\ UNCHANGED <<connected, reading, written, running, time_left, silent, waiting>>

\* Mutant: the packet leaves the queue before the device has taken it.
Bug_Taken(n) == /\ to_device' = SubSeq(queue, 1, n)
                /\ queue' = SubSeq(queue, n + (IF n < Len(queue) THEN 2 ELSE 1), Len(queue))
                /\ written' = IF n = 0 THEN written ELSE queue[n]

\* os.write succeeds for the first n packets.
Taken(n) == /\ to_device' = SubSeq(queue, 1, n)
            /\ queue' = SubSeq(queue, n + 1, Len(queue))
            /\ written' = IF n = 0 THEN written ELSE queue[n]

\* The whole queue: os.write takes a packet or raises, a full device raises EAGAIN.
doWrite ==
  /\ writing
  /\ Taken(Len(queue)) /\ writing' = FALSE
  /\ to_peer' = "nothing"
  /\ UNCHANGED <<connected, reading, running, time_left, silent, waiting, accepted>>

\* os.write raises for a packet: what is left in the queue never leaves.
doWriteRaises ==
  /\ writing /\ queue # <<>>
  /\ \E n \in 0..(Len(queue) - 1) : Taken(n)
  /\ connected' = FALSE /\ reading' = FALSE /\ writing' = FALSE
  /\ to_peer' = "nothing"
  /\ UNCHANGED <<running, time_left, silent, waiting, accepted>>

\* Time passes; the reactor makes a due call before the clock goes on.
Tick ==
  /\ running /\ time_left > 0
  /\ time_left' = time_left - 1 /\ silent' = silent + 1
  /\ Quiet
  /\ UNCHANGED <<connected, reading, writing, queue, written, running, waiting, accepted>>

Next == \/ PacketArrives \/ doRead \/ doReadRaises
        \/ send_keepalive \/ KeepaliveRaises \/ Tick
        \/ writeEmpty \/ write \/ doWrite \/ doWriteRaises

\* What the tunnel does on its own, and the end that its owner gives it.
Spec == Init /\ [][Next \/ loseConnection]_vars

\* A device that is watched for writing takes the queue or fails, in the end.
Progress == doWrite \/ doWriteRaises
-----------------------------------------------------------------------------
\* Every variable has its type.
TypeOK == /\ connected \in BOOLEAN /\ reading \in BOOLEAN /\ writing \in BOOLEAN
          /\ queue \in Seq(1..MaxPackets) /\ to_device \in Seq(1..MaxPackets)
          /\ running \in BOOLEAN /\ time_left \in 0..Interval
          /\ waiting \in 0..MaxWaiting
          /\ to_peer \in {"nothing", "packet", "keepalive"}
          /\ accepted \in 0..MaxPackets /\ written \in 0..accepted
          /\ silent \in Nat

\* tuntap.py:140, 162: as long as the keepalive call runs, the far side never
\* waits longer than keepalive_interval for a packet or a keepalive, however
\* packets and resets come between.  Only the packet whose sending fails, which
\* closes the device, puts the keepalive off for a second interval.
SilenceBounded == running => silent <= (IF connected THEN Interval ELSE 2 * Interval)

\* A keepalive takes the air only after a whole interval of silence: packets
\* put it off.
OnlyWhenSilent == [][to_peer' = "keepalive" => silent >= Interval]_vars

\* Every packet from the far side was written to the device or waits in the queue, once and
\* in order; a write that fails in the middle of the queue closes the device, and leaves in
\* the queue just what the device had not taken.
NothingLost == /\ queue = [i \in 1..Len(queue) |-> written + i]
               /\ connected => written + Len(queue) = accepted

\* The reactor watches a connected device for writing just when a packet waits,
\* and a closed one not at all: no packet is forgotten and no call spins.
WatchedWhenQueued == writing = (connected /\ queue # <<>>)
=============================================================================
