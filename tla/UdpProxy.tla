------------------------------ MODULE UdpProxy ------------------------------
(***************************************************************************)
(* The MAVLink side of the telemetry server: UDPProxyProtocol of           *)
(* telemetry/proxy.py with aggregation on, as init_mavlink makes p_in.     *)
(*                                                                         *)
(* Datagrams from the local client are collected into one large datagram   *)
(* for the peer (wfb_tx), which leaves when the next one does not fit, or  *)
(* agg_timeout after the first.  What comes back is cut into MAVLink       *)
(* packets and sent to the client last heard from.                         *)
(*                                                                         *)
(* All calls run in one reactor thread: one call is one step.              *)
(***************************************************************************)
EXTENDS Integers, Sequences

CONSTANTS AggMaxSize,  \* agg_max_size (radio_mtu)
          AggTimeout,  \* agg_timeout, in ticks of the reactor's clock
          Sizes,       \* sizes of the datagrams the clients send
          Addrs,       \* addresses of the clients
          NoAddr,      \* reply_addr is None
          Batches,     \* what comes back over the radio
          MaxMessages  \* BOUND: datagrams the clients ever send

\* What is assumed of them (Telemetry states it).
AggAssumption == /\ AggMaxSize \in Nat \ {0} /\ AggTimeout \in Nat \ {0}
                 /\ Sizes \subseteq Nat /\ NoAddr \notin Addrs
                 /\ MaxMessages \in Nat

VARIABLES reply_addr,
          agg_queue,        \* messages: their number and size
          agg_queue_size,
          agg_queue_timer,  \* None, or the state of the DelayedCall
          timer_left,       \* ticks until it is called
          to_peer,          \* datagrams the last step sent to the peer
          to_client,        \* slices the last step sent to reply_addr
          accepted,         \* history: messages not refused so far
          sent,             \* history: number of the last message sent, 0 if none
          age               \* history: ticks the oldest byte has been waiting

vars == <<reply_addr, agg_queue, agg_queue_size, agg_queue_timer, timer_left,
          to_peer, to_client, accepted, sent, age>>

queue == <<agg_queue, agg_queue_size, agg_queue_timer, timer_left, sent, age>>

TooOld == AggTimeout + 1

Init == /\ reply_addr \in Addrs \cup {NoAddr}   \* connect:// gives an address
        /\ agg_queue = <<>> /\ agg_queue_size = 0
        /\ agg_queue_timer = "None" /\ timer_left = 0
        /\ to_peer = <<>> /\ to_client = <<>>
        /\ accepted = 0 /\ sent = 0 /\ age = 0
-----------------------------------------------------------------------------
(***************************************************************************)
(* From the client to the peer                                             *)
(***************************************************************************)
Message(size) == [number |-> accepted + 1, size |-> size]

Fits(size) == agg_queue_size + size <= AggMaxSize

\* For each n, how much the first n of some lengths are together.
Sums(lens) == LET sum[n \in 0..Len(lens)] == IF n = 0 THEN 0 ELSE sum[n - 1] + lens[n]
              IN  sum

Total(q) == Sums([i \in 1..Len(q) |-> q[i].size])[Len(q)]

LastSent == IF agg_queue = <<>> THEN sent ELSE agg_queue[Len(agg_queue)].number

\* Mutant: the call is scheduled anew with every message.
Bug_Restarts == /\ agg_queue_timer' = "pending" /\ timer_left' = AggTimeout

\* callLater unless a call is there already.
Schedule == IF agg_queue_timer = "None"
            THEN agg_queue_timer' = "pending" /\ timer_left' = AggTimeout
            ELSE UNCHANGED <<agg_queue_timer, timer_left>>

TooBig(size) == /\ size > AggMaxSize
                /\ to_peer' = <<>>
                /\ UNCHANGED <<queue, accepted>>

Enqueue(size) ==
  /\ size <= AggMaxSize /\ Fits(size)
  /\ agg_queue' = Append(agg_queue, Message(size))
  /\ agg_queue_size' = agg_queue_size + size
  /\ Schedule
  /\ to_peer' = <<>>
  /\ accepted' = accepted + 1
  /\ UNCHANGED <<sent, age>>

\* Mutant: the queue is sent after the new message has joined it.
Bug_SendsTogether(size) ==
  /\ size <= AggMaxSize /\ ~Fits(size) /\ agg_queue_timer # "called"
  /\ to_peer' = <<Append(agg_queue, Message(size))>>
  /\ sent' = accepted + 1
  /\ agg_queue' = <<>> /\ agg_queue_size' = 0
  /\ agg_queue_timer' = "None" /\ timer_left' = 0
  /\ accepted' = accepted + 1 /\ age' = 0

\* Mutant: the cancelled call is kept, so no other is scheduled.
Bug_KeepsTimer(size) ==
  /\ size <= AggMaxSize /\ ~Fits(size) /\ agg_queue_timer # "called"
  /\ to_peer' = <<agg_queue>> /\ sent' = LastSent
  /\ agg_queue' = <<Message(size)>> /\ agg_queue_size' = size
  /\ agg_queue_timer' = "called" /\ timer_left' = 0
  /\ accepted' = accepted + 1 /\ age' = 0

\* The queue leaves for a message that does not fit.
Overflow(size) ==
  /\ size <= AggMaxSize /\ ~Fits(size) /\ agg_queue_timer # "called"
  /\ to_peer' = <<agg_queue>> /\ sent' = LastSent
  /\ agg_queue' = <<Message(size)>> /\ agg_queue_size' = size
  /\ agg_queue_timer' = "pending" /\ timer_left' = AggTimeout
  /\ accepted' = accepted + 1 /\ age' = 0

\* cancel of a call that has been made raises AlreadyCalled: the message is
\* lost, and the reactor logs the exception.
CancelRaises(size) ==
  /\ size <= AggMaxSize /\ ~Fits(size) /\ agg_queue_timer = "called"
  /\ to_peer' = <<>>
  /\ accepted' = accepted + 1
  /\ UNCHANGED queue

datagramReceived(addr, size) ==
  /\ accepted < MaxMessages
  /\ reply_addr' = addr /\ to_client' = <<>>
  /\ TooBig(size) \/ Enqueue(size) \/ Overflow(size) \/ CancelRaises(size)

\* The DelayedCall is due; it counts as called while flush_queue runs.
flush_queue ==
  /\ agg_queue_timer = "pending" /\ timer_left = 0
  /\ IF agg_queue_size > 0
     THEN /\ agg_queue_timer' = "None"
          /\ to_peer' = <<agg_queue>> /\ sent' = LastSent
          /\ agg_queue' = <<>> /\ agg_queue_size' = 0 /\ age' = 0
     ELSE /\ agg_queue_timer' = "called"
          /\ to_peer' = <<>>
          /\ UNCHANGED <<agg_queue, agg_queue_size, sent, age>>
  /\ to_client' = <<>>
  /\ UNCHANGED <<reply_addr, timer_left, accepted>>

\* Time passes; the reactor makes a call before the clock goes on.
Tick ==
  /\ ~(agg_queue_timer = "pending" /\ timer_left = 0)
  /\ \/ agg_queue_timer = "pending"
     \/ agg_queue_size > 0 /\ age < TooOld
  /\ timer_left' = IF agg_queue_timer = "pending" THEN timer_left - 1 ELSE timer_left
  /\ age' = IF agg_queue_size > 0 /\ age < TooOld THEN age + 1 ELSE age
  /\ to_peer' = <<>> /\ to_client' = <<>>
  /\ UNCHANGED <<reply_addr, agg_queue, agg_queue_size, agg_queue_timer, accepted, sent>>
-----------------------------------------------------------------------------
(***************************************************************************)
(* From the peer to the client.  A batch is its length and the headers     *)
(* found one after the other: the version byte and the packet's length.    *)
(***************************************************************************)
Known(h)    == h.version \in {"mavlink1", "mavlink2"}
PacketLen(h) == h.payload + (IF h.version = "mavlink1" THEN 8 ELSE IF h.signed THEN 25 ELSE 12)

\* Where the headers start, and where the last packet ends.
Lengths(batch) == [n \in 1..Len(batch.headers) |-> PacketLen(batch.headers[n])]
Starts(batch)  == [n \in 1..(Len(batch.headers) + 1) |-> Sums(Lengths(batch))[n - 1]]

\* Mutant: a remainder of eight bytes is dropped, though it may be a packet.
Bug_LongEnough(batch, n) == batch.len - Starts(batch)[n] > 8

LongEnough(batch, n) == batch.len - Starts(batch)[n] >= 8

\* The headers the loop reaches: all before were known packets.
Reached(batch) ==
  {n \in DOMAIN batch.headers : /\ \A m \in 1..(n - 1) : Known(batch.headers[m])
                                /\ \A m \in 1..n : LongEnough(batch, m)}

\* What is assumed of a batch: behind every packet with eight more bytes a header is found.
Header == [version : {"mavlink1", "mavlink2", "unsupported"}, payload : 0..255, signed : BOOLEAN]
BatchAssumption ==
  \A batch \in Batches :
    /\ batch.len \in Nat /\ batch.headers \in Seq(Header)
    /\ \A n \in 1..(Len(batch.headers) + 1) :
         (\A m \in 1..(n - 1) : Known(batch.headers[m])) /\ LongEnough(batch, n)
           => n \in 1..Len(batch.headers)

\* What is not understood leaves as it is, and so does a packet cut short.
Slice(batch, n) ==
  LET end == Starts(batch)[n] + PacketLen(batch.headers[n])
  IN  [from |-> Starts(batch)[n],
       to   |-> IF Known(batch.headers[n]) /\ end < batch.len THEN end ELSE batch.len]

write(batch) ==
  /\ reply_addr # NoAddr
  /\ to_client' = [n \in Reached(batch) |-> Slice(batch, n)]
  /\ to_peer' = <<>>
  /\ UNCHANGED <<reply_addr, queue, accepted>>

Next == \/ \E addr \in Addrs, size \in Sizes : datagramReceived(addr, size)
        \/ flush_queue
        \/ Tick
        \/ \E batch \in Batches : write(batch)

\* The reactor's clock runs, and due calls are made.
Spec == Init /\ [][Next]_vars /\ WF_vars(flush_queue) /\ WF_vars(Tick)
-----------------------------------------------------------------------------
\* What leaves for the peer is never larger than radio_mtu, never empty, and is
\* what has been waiting: everything since the last datagram, in order, with no
\* message lost in the race of a new datagram with the timer.
NextInOrder(D) == /\ Total(D) \in 1..AggMaxSize
                  /\ D[1].number = sent + 1
                  /\ \A i \in 2..Len(D) : D[i].number = D[i - 1].number + 1
InOrder == [][\A i \in DOMAIN to_peer' : NextInOrder(to_peer'[i])]_vars

\* conf/master.cfg:15 "aggragate mavlink packets if less than radio_mtu but no
\* longer than 100ms": no byte waits longer than agg_timeout.
WaitsAtMostTimeout == age <= AggTimeout

\* Every message leaves in the end, though nothing comes after it.
Leaves == \A n \in 1..MaxMessages : (accepted >= n) ~> (sent >= n)

\* A MAVLink frame: six or ten bytes, the payload, the checksum, and a signature if signed.
FrameLen(h) == IF h.version = "mavlink1" THEN 6 + h.payload + 2
               ELSE 10 + h.payload + 2 + (IF h.signed THEN 13 ELSE 0)

\* Only the last datagram may be what it likes: what no frame is known for, or is cut short.
Whole(h, slice) == Known(h) /\ slice.to - slice.from = FrameLen(h)
Unsplit(h, slice, batch) == /\ slice.to = batch.len
                            /\ Known(h) => slice.to - slice.from < FrameLen(h)

\* The batch reaches the client byte by byte and not a byte beyond its end, but for a rest
\* shorter than any packet, and every whole packet has a datagram of its own.
CutUp(batch, S) ==
  /\ \A i \in DOMAIN S : /\ S[i].from = (IF i = 1 THEN 0 ELSE S[i - 1].to)
                         /\ S[i].from < S[i].to /\ S[i].to <= batch.len
                         /\ \/ Whole(batch.headers[i], S[i])
                            \/ i = Len(S) /\ Unsplit(batch.headers[i], S[i], batch)
  /\ batch.len - (IF S = <<>> THEN 0 ELSE S[Len(S)].to) < 8
PacketsCutUp == [][\A batch \in Batches : write(batch) => CutUp(batch, to_client')]_vars
=============================================================================
