------------------------------- MODULE RxRing -------------------------------
(***************************************************************************)
(* The receiver of a wifibroadcast link: class Aggregator of src/rx.cpp.   *)
(*                                                                         *)
(* Radio packets arrive lost, duplicated and in any order.  A DATA packet  *)
(* carries fragment fragment_idx of block block_idx; the first fec_k       *)
(* fragments of a block are the user's packets, the others parity.  The    *)
(* aggregator keeps the unfinished blocks in a ring, oldest first, yields  *)
(* the gap-free prefix of the oldest block at once, and decodes a block    *)
(* that holds fec_k fragments, giving up on every older one.               *)
(*                                                                         *)
(* One call of process_packet is one step: the program is single-threaded. *)
(* A buffer's bytes are abstracted to the block (and session) they were    *)
(* written for; buffer f of an entry only ever holds a fragment f.         *)
(***************************************************************************)
EXTENDS Integers, FiniteSets, FiniteSetsExt

CONSTANTS FecK, FecN,   \* fec_k data fragments among the fec_n of a block
          RingSize,     \* RX_RING_SIZE
          MaxBlock,     \* MAX_BLOCK_IDX, the last block index of a session
          SeqMod,       \* 2^32 in the code: the width of seq and packet_seq
          Keys,         \* the session keys a transmitter may make
          NoKey,        \* the all-zero session key the aggregator starts with
          IsEncrypt,    \* isEncrypt: authenticate packets with session_key
          Antennas,     \* keys of antenna_stat: address, port, wlan, antenna
          Junk,         \* bytes that are no fragment of any session
          LogEvery      \* BOUND: packets processed between two dump_stats

ASSUME FecAssumption  == /\ FecK \in Nat \ {0} /\ FecN \in Nat /\ FecK <= FecN
ASSUME RingAssumption == RingSize \in Nat \ {0}
ASSUME KeyAssumption  == NoKey \notin Keys /\ Junk \notin [key : Keys, blk : 0..MaxBlock]
ASSUME BoundAssumption == /\ MaxBlock \in Nat /\ SeqMod \in Nat \ {0}
                          /\ LogEvery \in Nat /\ IsEncrypt \in BOOLEAN

VARIABLES rx_ring,          \* slot -> entry
          fragments,        \* slot -> fragment -> what the buffer holds
          rx_ring_front,    \* slot of the oldest unfinished block
          rx_ring_alloc,    \* number of unfinished blocks
          last_known_block, \* newest block ever pushed, -1 if none
          seq,              \* sequence number of the last packet sent
          session_key,
          count_p,          \* the counters count_p_*
          antenna_stat,     \* packets heard on each antenna (count_all)
          out,              \* packets the last call sent to the client socket
          high              \* history: last position sent in this session, or -1

ring == <<rx_ring, rx_ring_front, rx_ring_alloc, last_known_block>>
vars == <<ring, fragments, seq, session_key, count_p, antenna_stat, out, high>>

Slots  == 0..(RingSize - 1)
Frags  == 0..(FecN - 1)
Data   == 0..(FecK - 1)
Blocks == 0..MaxBlock

Contents == [key : Keys, blk : Blocks] \cup {Junk}
Entry == [block_idx : Blocks, send_fragment_idx : 0..FecK,
          has_fragments : 0..FecN, fragment_map : SUBSET Frags]

EmptyEntry == [block_idx |-> 0, send_fragment_idx |-> 0,
               has_fragments |-> 0, fragment_map |-> {}]
NoCounts == [all |-> 0, dec_err |-> 0, dec_ok |-> 0,
             fec_recovered |-> 0, lost |-> 0, bad |-> 0]

Init == /\ rx_ring = [s \in Slots |-> EmptyEntry]
        /\ fragments = [s \in Slots |-> [f \in Frags |-> Junk]]
        /\ rx_ring_front = 0 /\ rx_ring_alloc = 0 /\ last_known_block = -1
        /\ seq = 0 /\ session_key = NoKey
        /\ count_p = NoCounts
        /\ antenna_stat = [a \in Antennas |-> 0]
        /\ out = {} /\ high = -1
-----------------------------------------------------------------------------
(***************************************************************************)
(* The ring as a queue: place 0 is the oldest block.                       *)
(***************************************************************************)
modN(x) == x % RingSize

SlotAt(i)  == modN(rx_ring_front + i)
EntryAt(i) == rx_ring[SlotAt(i)]
Places     == 0..(rx_ring_alloc - 1)

Found(b) == {i \in Places : EntryAt(i).block_idx = b}

\* A block neither in the ring nor newer than all known ones is finished.
AlreadyProcessed(b) == /\ Found(b) = {}
                       /\ last_known_block # -1 /\ b <= last_known_block

\* Mutant: one block too many is pushed.
Bug_PushesOneMore(b) ==
  IF Found(b) # {} THEN 0
  ELSE IF last_known_block # -1 /\ b - last_known_block < RingSize
       THEN b - last_known_block + 1 ELSE 1

\* How many blocks get_block_ring_idx(b) pushes for a block it does not find.
NewBlocks(b) ==
  IF Found(b) # {} THEN 0
  ELSE IF last_known_block = -1 THEN 1
  ELSE IF b - last_known_block < RingSize THEN b - last_known_block
  ELSE RingSize

\* Mutant: rx_ring_push forgets that the ring may be full.
Bug_NeverFull(b) == 0

\* Oldest blocks rx_ring_push flushes and overrides to make room for them.
Overridden(b) == IF rx_ring_alloc + NewBlocks(b) > RingSize
                 THEN rx_ring_alloc + NewBlocks(b) - RingSize ELSE 0

\* The place of block b once pushed, counted from the front before the call.
Place(b) == IF Found(b) # {} THEN CHOOSE i \in Found(b) : \A j \in Found(b) : i <= j
                             ELSE rx_ring_alloc + NewBlocks(b) - 1

Target(b) == IF Found(b) # {} THEN EntryAt(Place(b))
                              ELSE [EmptyEntry EXCEPT !.block_idx = b]
-----------------------------------------------------------------------------
(***************************************************************************)
(* Storing fragment f of block b, and what becomes ready by it.            *)
(***************************************************************************)
Stored(b, f) == Target(b).fragment_map \cup {f}

\* The first fragment from s on that map m lacks, FecK if there is none.
FirstGap(m, s) == CHOOSE g \in s..FecK : /\ s..(g - 1) \subseteq m
                                         /\ g < FecK => g \notin m

\* Only the oldest block yields its gap-free prefix.
YieldedTo(b, f) == IF Place(b) = Overridden(b)
                   THEN FirstGap(Stored(b, f), Target(b).send_fragment_idx)
                   ELSE Target(b).send_fragment_idx

\* Mutant: decoding waits for one fragment more than fec_k.
Bug_DecodesLate(b, f) == /\ YieldedTo(b, f) < FecK
                         /\ Target(b).has_fragments + 1 > FecK

Decodes(b, f) == /\ YieldedTo(b, f) < FecK
                 /\ Target(b).has_fragments + 1 = FecK

Finishes(b, f) == YieldedTo(b, f) = FecK \/ Decodes(b, f)

\* The loop at rx.cpp:595 tests the map at send_fragment_idx in every turn.
FecApplied(b, f) == Decodes(b, f) /\ YieldedTo(b, f) \notin Stored(b, f)

\* Blocks that leave the front of the ring in this call.
Removed(b, f) == IF Finishes(b, f) THEN Place(b) + 1 ELSE Overridden(b)

\* send_fragment_idx of block b when the call returns.
SentTo(b, f) == IF Finishes(b, f) THEN FecK ELSE YieldedTo(b, f)

NewEntry(b, f) == [block_idx |-> b, send_fragment_idx |-> SentTo(b, f),
                   has_fragments |-> Target(b).has_fragments + 1,
                   fragment_map |-> Stored(b, f)]

\* Slot s after the pushes: the block pushed last into it, if any.
Pushed(b, s) ==
  LET fresh == {i \in rx_ring_alloc..(rx_ring_alloc + NewBlocks(b) - 1) : SlotAt(i) = s}
  IN  IF fresh = {} THEN rx_ring[s]
      ELSE [EmptyEntry EXCEPT !.block_idx = b + (CHOOSE i \in fresh : TRUE)
                                              + 1 - rx_ring_alloc - NewBlocks(b)]

\* What fec_decode writes for a missing fragment: the codec is taken as exact,
\* and fragments of different sessions decode to nothing meaningful.
Recovered(bufs, m) == IF \E c \in Contents : \A g \in m : bufs[g] = c
                      THEN CHOOSE c \in Contents : \A g \in m : bufs[g] = c
                      ELSE Junk

\* The buffers of b's entry when the call sends from them.
Buffers(k, b, f) ==
  LET kept == [fragments[SlotAt(Place(b))] EXCEPT ![f] = [key |-> k, blk |-> b]]
  IN  IF FecApplied(b, f)
      THEN [g \in Frags |-> IF g \in Data \ Stored(b, f)
                            THEN Recovered(kept, Stored(b, f)) ELSE kept[g]]
      ELSE kept
-----------------------------------------------------------------------------
(***************************************************************************)
(* send_packet.  "at" is the turn of the packet within the call: places    *)
(* are visited from the front on, and fragments upwards within a place.    *)
(***************************************************************************)
Sent(i, b, f, c) == [at |-> i * FecK + f, blk |-> b, frag |-> f, pkt |-> c]

Position(x)   == x.blk * FecK + x.frag
packet_seq(x) == Position(x) % SeqMod

\* Mutant: overridden blocks are not flushed.
Bug_NoFlushOnOverride(b, f) == IF Decodes(b, f) THEN Place(b) ELSE 0

\* Blocks whose received, unsent packets are flushed before block b is served.
Flushed(b, f) == IF Decodes(b, f) THEN Place(b) ELSE Overridden(b)

\* Mutant: a flush starts at fragment 0 instead of send_fragment_idx.
Bug_FlushesFromStart(e) == Data \cap e.fragment_map

Unsent(e) == {g \in Data : g >= e.send_fragment_idx /\ g \in e.fragment_map}

FlushSends(b, f) ==
  UNION {{Sent(i, EntryAt(i).block_idx, g, fragments[SlotAt(i)][g]) :
            g \in Unsent(EntryAt(i))} : i \in {j \in Places : j < Flushed(b, f)}}

BlockSends(k, b, f) ==
  {Sent(Place(b), b, g, Buffers(k, b, f)[g]) :
     g \in Target(b).send_fragment_idx..(SentTo(b, f) - 1)}

Sends(k, b, f) == FlushSends(b, f) \cup BlockSends(k, b, f)

LastOf(S) == CHOOSE x \in S : \A y \in S : y.at <= x.at

\* Mutant: the gap is counted from the last packet sent, one too many.
Bug_CountsOneMore(x, S) ==
  LET before == {y \in S : y.at < x.at}
      sent   == IF before = {} THEN seq ELSE packet_seq(LastOf(before))
  IN  IF packet_seq(x) > (sent + 1) % SeqMod THEN packet_seq(x) - sent ELSE 0

\* Packets send_packet counts as lost right before it sends x.
LostBefore(x, S) ==
  LET before == {y \in S : y.at < x.at}
      sent   == IF before = {} THEN seq ELSE packet_seq(LastOf(before))
      next   == (sent + 1) % SeqMod
  IN  IF packet_seq(x) > next THEN packet_seq(x) - next ELSE 0

Losses(S) == MapThenSumSet(LAMBDA x : LostBefore(x, S), S)

\* A buffer that holds no fragment may have any packet_size: one above
\* MAX_PAYLOAD_SIZE is counted as bad and not sent.
Corruptible(S) == {x \in S : x.pkt = Junk}
-----------------------------------------------------------------------------
(***************************************************************************)
(* process_packet, one action per way through it.  All of them count.      *)
(***************************************************************************)
Receive == count_p.all < LogEvery

\* A packet that is dropped before it reaches the ring, and the counters it hits.
Drops(hit) ==
  /\ Receive
  /\ count_p' = [c \in DOMAIN count_p |-> IF c \in hit THEN count_p[c] + 1 ELSE count_p[c]]
  /\ out' = {}
  /\ UNCHANGED <<ring, fragments, seq, session_key, high>>

\* Every accepted DATA packet is heard on some antennas of one wlan.
log_rssi(A) == antenna_stat' = [a \in Antennas |-> IF a \in A THEN antenna_stat[a] + 1
                                                             ELSE antenna_stat[a]]

Accepted(k) == IsEncrypt => k = session_key

EmptyPacket == Drops({"all"}) /\ UNCHANGED antenna_stat

\* Too long, too short, a KEY of the wrong size, or of an unknown type.
MalformedPacket == Drops({"all", "bad"}) /\ UNCHANGED antenna_stat

\* A KEY or DATA packet that fails authentication.
UndecryptableKey == IsEncrypt /\ Drops({"all", "dec_err"}) /\ UNCHANGED antenna_stat

UndecryptableData(k) ==
  ~Accepted(k) /\ Drops({"all", "dec_err"}) /\ UNCHANGED antenna_stat

\* block_idx above MAX_BLOCK_IDX or fragment_idx not below fec_n.
BadIndexData(k, A) ==
  Accepted(k) /\ Drops({"all", "dec_ok", "bad"}) /\ log_rssi(A)

\* A finished block, or a fragment that is already there.
KnownData(k, b, f, A) ==
  /\ Accepted(k)
  /\ AlreadyProcessed(b) \/ f \in Target(b).fragment_map
  /\ Drops({"all", "dec_ok"})
  /\ log_rssi(A)

NewData(k, b, f, A) ==
  /\ Receive /\ Accepted(k)
  /\ ~AlreadyProcessed(b) /\ f \notin Target(b).fragment_map
  /\ rx_ring' = [s \in Slots |-> IF s = SlotAt(Place(b)) THEN NewEntry(b, f)
                                                         ELSE Pushed(b, s)]
  /\ fragments' = [fragments EXCEPT ![SlotAt(Place(b))] = Buffers(k, b, f)]
  /\ rx_ring_front' = modN(rx_ring_front + Removed(b, f))
  /\ rx_ring_alloc' = rx_ring_alloc + NewBlocks(b) - Removed(b, f)
  /\ last_known_block' = IF Found(b) = {} THEN b ELSE last_known_block
  /\ LET S == Sends(k, b, f)
     IN \E corrupted \in SUBSET Corruptible(S) :
          /\ out' = S \ corrupted
          /\ seq' = IF S = {} THEN seq ELSE packet_seq(LastOf(S))
          /\ high' = IF S = {} THEN high ELSE Position(LastOf(S))
          /\ count_p' = [count_p EXCEPT
               !.all = @ + 1, !.dec_ok = @ + 1,
               !.fec_recovered = IF FecApplied(b, f) THEN @ + FecK - YieldedTo(b, f) ELSE @,
               !.lost = @ + Losses(S),
               !.bad = @ + Cardinality(corrupted)]
  /\ log_rssi(A)
  /\ UNCHANGED session_key

\* Mutant: a new key does not reset the ring.
Bug_KeepsRing(k) ==
  /\ Receive
  /\ count_p' = [count_p EXCEPT !.all = @ + 1, !.dec_ok = @ + 1]
  /\ out' = {} /\ session_key' = k
  /\ UNCHANGED <<ring, fragments, antenna_stat, seq, high>>

\* Mutant: the key of the current session, announced again, starts over too.
Bug_AlwaysStartsOver(k) ==
  /\ Receive
  /\ count_p' = [count_p EXCEPT !.all = @ + 1, !.dec_ok = @ + 1]
  /\ out' = {} /\ session_key' = k
  /\ rx_ring' = [s \in Slots |-> EmptyEntry]
  /\ rx_ring_front' = 0 /\ rx_ring_alloc' = 0 /\ last_known_block' = -1
  /\ seq' = 0 /\ high' = -1
  /\ UNCHANGED <<fragments, antenna_stat>>

\* A session key packet: a key that differs from the current one starts over,
\* but the buffers keep their bytes.
SessionKey(k) ==
  /\ Receive
  /\ count_p' = [count_p EXCEPT !.all = @ + 1, !.dec_ok = @ + 1]
  /\ out' = {}
  /\ IF k # session_key
     THEN /\ session_key' = k
          /\ rx_ring' = [s \in Slots |-> EmptyEntry]
          /\ rx_ring_front' = 0 /\ rx_ring_alloc' = 0 /\ last_known_block' = -1
          /\ seq' = 0 /\ high' = -1
     ELSE UNCHANGED <<ring, seq, session_key, high>>
  /\ UNCHANGED <<fragments, antenna_stat>>

dump_stats ==
  /\ count_p' = NoCounts
  /\ antenna_stat' = [a \in Antennas |-> 0]
  /\ out' = {}
  /\ UNCHANGED <<ring, fragments, seq, session_key, high>>

DataPacket(k, A) ==
  \/ UndecryptableData(k)
  \/ BadIndexData(k, A)
  \/ \E b \in Blocks, f \in Frags : KnownData(k, b, f, A) \/ NewData(k, b, f, A)

Next == \/ EmptyPacket
        \/ MalformedPacket
        \/ UndecryptableKey
        \/ \E k \in Keys : SessionKey(k)
        \/ \E k \in Keys, A \in SUBSET Antennas : DataPacket(k, A)
        \/ dump_stats

Spec == Init /\ [][Next]_vars
-----------------------------------------------------------------------------
(***************************************************************************)
(* Invariants                                                              *)
(***************************************************************************)
\* Every variable has its type; the counters are natural numbers.
RingTypeOK == /\ rx_ring \in [Slots -> Entry]
              /\ fragments \in [Slots -> [Frags -> Contents]]
              /\ rx_ring_front \in Slots
              /\ rx_ring_alloc \in 0..RingSize
              /\ last_known_block \in Blocks \cup {-1}
              /\ session_key \in Keys \cup {NoKey}
TypeOK == /\ RingTypeOK
          /\ seq \in 0..(SeqMod - 1)
          /\ high \in -1..((MaxBlock + 1) * FecK - 1)
          /\ \A c \in DOMAIN count_p : count_p[c] \in Nat
          /\ antenna_stat \in [Antennas -> Nat]

\* The unfinished blocks are consecutive, oldest at the front, and end with
\* the newest known block, whatever was lost, pushed in bulk or overridden
\* (get_block_ring_idx, rx_ring_push and the removals of process_packet).
RingWindow == /\ rx_ring_alloc > 0 => last_known_block # -1
              /\ \A i \in Places :
                   EntryAt(i).block_idx = last_known_block - (rx_ring_alloc - 1) + i

\* An unfinished block counts its fragments, cannot be decoded yet, has sent
\* a prefix of what it holds, and nothing at all while a block is before it.
UnfinishedEntry(i) ==
  LET e == EntryAt(i)
  IN  /\ e.has_fragments = Cardinality(e.fragment_map)
      /\ e.has_fragments < FecK /\ e.send_fragment_idx < FecK
      /\ 0..(e.send_fragment_idx - 1) \subseteq e.fragment_map
      /\ i > 0 => e.send_fragment_idx = 0
UnfinishedBlocks == \A i \in Places : UnfinishedEntry(i)

\* The inductive invariant of the ring.
RingInv == RingTypeOK /\ RingWindow /\ UnfinishedBlocks

\* What was sent in this session lies before everything the ring still holds
\* and before every block that is not known yet.
SentBelowRing ==
  /\ \A i \in Places : high < EntryAt(i).block_idx * FecK + EntryAt(i).send_fragment_idx
  /\ high < (last_known_block + 1) * FecK

\* A fragment the ring holds is in its buffer as it was received, whichever
\* block used the buffer before (the buffers are never cleared as a whole).
HeldFragments ==
  \A i \in Places : \A g \in EntryAt(i).fragment_map :
    \E k \in Keys : fragments[SlotAt(i)][g] = [key |-> k, blk |-> EntryAt(i).block_idx]
-----------------------------------------------------------------------------
(***************************************************************************)
(* Action properties: what one call may never do                           *)
(***************************************************************************)
NewSession == session_key' # session_key

\* The client sees the packets of a session in order and each at most once:
\* a call sends only above everything sent before, and in rising order.
InOrder == [][~NewSession =>
                /\ \A x \in out' : Position(x) > high
                /\ \A x, y \in out' : x.at < y.at => Position(x) < Position(y)]_vars

\* Positions of the data fragments that wait in the ring.
Waiting == UNION {{EntryAt(i).block_idx * FecK + g : g \in Unsent(EntryAt(i))} : i \in Places}

\* A received data fragment leaves the ring only by being sent to the client,
\* also when its block is overridden or flushed for a newer one.
NothingDropped == [][~NewSession =>
                       \A p \in Waiting : p \in Waiting' \/ \E x \in out' : Position(x) = p]_vars

\* The call that brings the fec_k-th fragment of a block hands over every packet of the
\* block that has not gone out before, with no hole - except the missing ones of a block
\* behind others whose first fragment is there: they are not decoded (AlwaysGenuine).  What
\* is counted as sent of a block still in the ring has gone out.
Gone(b, g) == b * FecK + g <= high \/ \E x \in out' : x.blk = b /\ x.frag = g

Undecoded(b, f, g) == Place(b) # Overridden(b) /\ 0 \in Stored(b, f) /\ g \notin Stored(b, f)

CompleteBlockSent ==
  [][/\ \A k \in Keys, b \in Blocks, f \in Frags, A \in SUBSET Antennas :
          NewData(k, b, f, A) /\ Target(b).has_fragments + 1 = FecK
            => \A g \in Data : Gone(b, g) \/ Undecoded(b, f, g)
     /\ \A i \in Places' : \A g \in 0..(EntryAt(i)'.send_fragment_idx - 1) :
          Gone(EntryAt(i)'.block_idx, g)]_vars

\* In a session the window only moves forward: a finished block never comes back.
Oldest == last_known_block - rx_ring_alloc
WindowForward == [][~NewSession => Oldest' >= Oldest /\ last_known_block' >= last_known_block]_vars

\* As long as seq does not wrap around, every position the stream advances over is accounted
\* for exactly once, as a packet sent, lost or bad, over all flushes, overrides and decoding of
\* a call.  (seq starts at 0, so a lost very first packet of a session is not counted.)
Base(sent) == IF high # -1 THEN high
              ELSE IF \E x \in sent : Position(x) = 0 THEN -1 ELSE 0
Counted == count_p'.all = count_p.all + 1 /\ high' # high /\ ~NewSession
EachPositionCounted ==
  [][Counted /\ high' < SeqMod =>
       high' - Base(out') = Cardinality(out') + (count_p'.lost - count_p.lost)
                                              + (count_p'.bad - count_p.bad)]_vars

\* When seq wraps around, losses may be missed but are never made up.
LostNotOvercounted ==
  [][Counted => count_p'.lost - count_p.lost <= high' - Base(out') - Cardinality(out')]_vars

\* What the sender put at a position is what the client gets there ...
Genuine(x) == x.pkt = [key |-> session_key', blk |-> x.blk]

\* ... for every fragment that was received, and for every recovered one if
\* the first fragment of its block was missing too (apply_fec, send_packet).
EntryOf(x, s) == rx_ring'[s].block_idx = x.blk
ReceivedIsGenuine ==
  [][\A x \in out' : Genuine(x) \/ \E s \in Slots :
        EntryOf(x, s) /\ 0 \in rx_ring'[s].fragment_map /\ x.frag \notin rx_ring'[s].fragment_map]_vars

\* README.md:31: FEC "can recover 4 lost packets from 12 packets block with default settings":
\* whatever is sent for a position of a block is the packet of that position.
AlwaysGenuine == [][\A x \in out' : Genuine(x)]_vars
=============================================================================
