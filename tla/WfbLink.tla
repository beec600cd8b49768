------------------------------ MODULE WfbLink ------------------------------
(***************************************************************************)
(* A whole link: one transmitter (Transmitter), the radio, and one         *)
(* receiver (RxRing) that hears it on several cards.                       *)
(*                                                                         *)
(* A packet on the air is heard by any of the cards, or by none.  A card   *)
(* keeps the order of what it hears; the receiver takes the packets of     *)
(* different cards in any order (radio_loop, network_loop of src/rx.cpp).  *)
(* Nothing flows back.  Both sides encrypt (option -e): without it the     *)
(* receiver takes the packets of every session (Accepted of RxRing).       *)
(***************************************************************************)
EXTENDS Integers, FiniteSets, Sequences

CONSTANTS FecK, FecN, MaxBlock, AnnounceMsec, Sizes, MaxSession,  \* Transmitter
          RingSize, SeqMod, Junk,                                 \* RxRing
          Cards,       \* the wlans of the receiver
          Backlog,     \* BOUND: packets between the air and process_packet
          MaxPackets,  \* BOUND: packets one receiver processes
          MaxRxStarts  \* BOUND: starts of the receiver

ASSUME LinkAssumption ==
  /\ FecK \in Nat \ {0} /\ FecN \in Nat /\ FecK <= FecN /\ FecN < 256
  /\ Sizes \subseteq Nat /\ AnnounceMsec \in Nat \ {0}
  /\ MaxBlock \in Nat /\ MaxSession \in Nat \ {0}
  /\ RingSize \in Nat \ {0} /\ SeqMod \in Nat \ {0}
  /\ Junk \notin [key : 1..MaxSession, blk : 0..MaxBlock]
  /\ MaxPackets \in Nat

VARIABLES up, session, block_idx, fragment_idx, max_packet_size, announce_left,
          air, used, key_age, largest
VARIABLES rx_ring, fragments, rx_ring_front, rx_ring_alloc, last_known_block, seq,
          session_key, count_p, antenna_stat, out, high
VARIABLES heard,      \* card -> packets heard and not yet processed, in order
          rx_starts,  \* how often the receiver was started
          missed,     \* history: packets of no use to the receiver, and why
          delivered,  \* history: datagrams handed over, with what they held
          last        \* history: the last of them since the receiver started or went back

TX == INSTANCE Transmitter
RX == INSTANCE RxRing WITH Keys <- 1..MaxSession, NoKey <- 0, IsEncrypt <- TRUE,
                           Antennas <- Cards, LogEvery <- MaxPackets

txVars   == <<up, session, block_idx, fragment_idx, max_packet_size, announce_left,
              air, used, key_age, largest>>
rxVars   == <<rx_ring, fragments, rx_ring_front, rx_ring_alloc, last_known_block, seq,
              session_key, count_p, antenna_stat, out, high>>
history  == <<missed, delivered, last>>
linkVars == <<txVars, rxVars, heard, rx_starts, history>>

Init == /\ TX!Init /\ RX!Init
        /\ heard = [c \in Cards |-> <<>>] /\ rx_starts = 1
        /\ missed = {} /\ delivered = {} /\ last = -1
-----------------------------------------------------------------------------
\* The number of a datagram, in the order of sending over all sessions.
PerSession   == (MaxBlock + 1) * FecK
Number(k, p) == k * PerSession + p

Datagrams == {Number(p.key, (p.nonce \div 256) * FecK + (p.nonce % 256)) :
                p \in {q \in used : q.nonce % 256 < FecK}}

\* A packet that was missed: lost on the air, taken by a receiver that has
\* restarted since, or not opened for want of its key.
KeyNonce     == -1
Nonce(x)     == IF x.type = "data" THEN x.nonce ELSE KeyNonce
Miss(x, why) == [key |-> x.key, nonce |-> Nonce(x), why |-> why]

InOrderOfAir(S) == [i \in 1..Cardinality(S) |->
                      CHOOSE x \in S : Cardinality({y \in S : y.at < x.at}) = i - 1]

\* Every card hears some of the packets on the air; the rest is lost.
Propagate ==
  \E H \in [Cards -> SUBSET air'] :
    /\ heard' = [c \in Cards |-> heard[c] \o InOrderOfAir(H[c])]
    /\ \A c \in Cards : Len(heard'[c]) <= Backlog
    /\ missed' = missed \cup {Miss(x, "lost") : x \in air' \ UNION {H[c] : c \in Cards}}

Send == /\ \/ \E size \in Sizes : TX!Datagram(size)
           \/ \E size \in Sizes, cut \in 0..(FecN + 1) : TX!InjectFails(size, cut)
        /\ Propagate
        /\ UNCHANGED <<rxVars, rx_starts, delivered, last>>

TxRestart == /\ TX!Restart
             /\ UNCHANGED <<rxVars, heard, rx_starts, history>>

Tick == /\ TX!Tick
        /\ UNCHANGED <<rxVars, heard, rx_starts, history>>

\* The receiver takes the next packet of a card.
Packet(c) == Head(heard[c])
TakesFrom(c) == /\ heard[c] # <<>>
                /\ heard' = [heard EXCEPT ![c] = Tail(@)]
                /\ UNCHANGED <<txVars, rx_starts>>

Deliver == /\ delivered' = delivered \cup
                {[number |-> Number(session_key, RX!Position(x)),
                  whole  |-> x.pkt = [key |-> session_key, blk |-> x.blk]] : x \in out'}
           /\ last' = IF out' = {} THEN last
                      ELSE Number(session_key, RX!Position(RX!LastOf(out')))

ReceiveKey(c) ==
  /\ TakesFrom(c) /\ Packet(c).type = "key"
  /\ RX!SessionKey(Packet(c).key)
  /\ last' = IF Packet(c).key < session_key THEN -1 ELSE last
  /\ UNCHANGED <<missed, delivered>>

ReceiveData(c) ==
  /\ TakesFrom(c) /\ Packet(c).type = "data"
  /\ LET x == Packet(c)
         b == x.nonce \div 256
         f == x.nonce % 256
     IN  /\ \/ RX!UndecryptableData(x.key) /\ missed' = missed \cup {Miss(x, "unread")}
            \/ /\ b > MaxBlock \/ f >= FecN
               /\ RX!BadIndexData(x.key, {c}) /\ UNCHANGED missed
            \/ RX!KnownData(x.key, b, f, {c}) /\ UNCHANGED missed
            \/ RX!NewData(x.key, b, f, {c}) /\ UNCHANGED missed
         /\ Deliver

\* A new receiver process; what the cards held is gone.
RxRestart ==
  /\ rx_starts < MaxRxStarts /\ rx_starts' = rx_starts + 1
  /\ rx_ring' = [s \in RX!Slots |-> RX!EmptyEntry]
  /\ fragments' = [s \in RX!Slots |-> [f \in RX!Frags |-> Junk]]
  /\ rx_ring_front' = 0 /\ rx_ring_alloc' = 0 /\ last_known_block' = -1
  /\ seq' = 0 /\ session_key' = 0 /\ count_p' = RX!NoCounts
  /\ antenna_stat' = [c \in Cards |-> 0]
  /\ out' = {} /\ high' = -1
  /\ heard' = [c \in Cards |-> <<>>]
  /\ missed' = missed
       \cup {[key |-> p.key, nonce |-> p.nonce, why |-> "restart"] : p \in used}
       \cup {[key |-> k, nonce |-> KeyNonce, why |-> "restart"] : k \in 1..session}
  /\ last' = -1
  /\ UNCHANGED <<txVars, delivered>>

Next == \/ Send \/ TxRestart \/ Tick
        \/ \E c \in Cards : ReceiveKey(c) \/ ReceiveData(c)
        \/ RxRestart

Spec == Init /\ [][Next]_linkVars
-----------------------------------------------------------------------------
\* With any number of cards the link is the ordered, unreliable stream it promises to be:
\* in order and at most once over rollovers, restarts of the transmitter, any losses, any
\* order of the cards and any recovery by FEC, from one start of the receiver to the next or
\* to a KEY packet of an old session, which it obeys (rx.cpp:459) ...
Numbers == Number(1, 0)..(Number(MaxSession + 1, 0) - 1)
Stream == INSTANCE LossyStream WITH sent <- Datagrams
ImplementsStream == Stream!Spec

\* ... which cannot come from a card that keeps its order, if there is no other: the receiver
\* never goes back to a session it has left.
NeverBack == [][rx_starts' = rx_starts => session_key' >= session_key]_linkVars

\* And nothing is handed over twice, also not the newest datagram again: that would leave
\* "last" as it is, and the stream would not see it.
HandsOverNew == count_p' # count_p =>
                  \A x \in out' : Number(session_key', RX!Position(x)) > last
OnlyNew == [][HandsOverNew]_linkVars

\* With several cards, however far apart: what is handed over was sent in the session it is
\* handed over in, also when a KEY packet that waited at a card takes the receiver back to an
\* old session and what the ring holds is of another one (rx.cpp:459-480).  This is about
\* positions; for what a datagram holds see Repaired, and ReceivedIsGenuine of RxRing.
OnlySent == \A d \in delivered : d.number \in Datagrams

\* A block of which fec_k packets reached a receiver that has the key is handed
\* over complete and unaltered, if the block before it was not lost either or
\* if it is the first one the receiver hears of.
BlockIs(k, b, p)  == p.key = k /\ p.nonce \div 256 = b
Transmitted(k, b) == \A f \in 0..(FecN - 1) : [key |-> k, nonce |-> b * 256 + f] \in used
Processed(k, b)   == \A c \in Cards : \A i \in DOMAIN heard[c] :
                        heard[c][i].type = "data" => ~BlockIs(k, b, heard[c][i])
MissedOf(k, b)    == Cardinality({m.nonce : m \in {q \in missed : BlockIs(k, b, q)}})
Repairable(k, b)  == MissedOf(k, b) <= FecN - FecK
Unheard(k, b)     == MissedOf(k, b) = FecN

Delivered(k, b) == \A f \in 0..(FecK - 1) :
                     [number |-> Number(k, b * FecK + f), whole |-> TRUE] \in delivered

Repaired ==
  \A k \in 1..session, b \in 0..MaxBlock :
    /\ Transmitted(k, b) /\ Processed(k, b) /\ Repairable(k, b)
    /\ b = 0 \/ Repairable(k, b - 1) \/ \A c \in 0..(b - 1) : Unheard(k, c)
    => Delivered(k, b)

\* A packet that is heard is opened: the only thing that keeps the receiver from
\* it is a KEY packet of its session that was lost.
OpensWhatItHears ==
  \A m \in missed : m.why = "unread" =>
    \E n \in missed : n.key = m.key /\ n.nonce = KeyNonce
=============================================================================
