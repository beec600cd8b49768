---------------------------- MODULE Transmitter ----------------------------
(***************************************************************************)
(* The sender of a wifibroadcast link: class Transmitter of src/tx.cpp and *)
(* the body of video_source that feeds it one UDP datagram at a time.      *)
(*                                                                         *)
(* The first fec_k fragments of a block are datagrams, injected as they    *)
(* come; the last one is followed by the block's parity.  The nonce of a   *)
(* packet is its block and fragment index, so it must never come twice     *)
(* under one session key, and a receiver needs the key before the packet.  *)
(*                                                                         *)
(* One step handles one datagram.  pcap_inject may fail between any two    *)
(* packets of it: the exception ends the process, and a new process starts *)
(* over with a fresh session key.                                          *)
(***************************************************************************)
EXTENDS Integers, FiniteSets, FiniteSetsExt

CONSTANTS FecK, FecN,   \* fec_k datagrams among the fec_n fragments of a block
          MaxBlock,     \* MAX_BLOCK_IDX
          AnnounceMsec, \* SESSION_KEY_ANNOUNCE_MSEC
          Sizes,        \* sizes of the datagrams the clients send
          MaxSession    \* BOUND: session keys ever made

ASSUME FecAssumption  == /\ FecK \in Nat \ {0} /\ FecN \in Nat
                         /\ FecK <= FecN /\ FecN < 256
ASSUME SizeAssumption == Sizes \subseteq Nat /\ AnnounceMsec \in Nat \ {0}
ASSUME BoundAssumption == MaxBlock \in Nat /\ MaxSession \in Nat \ {0}

VARIABLES up,              \* the process is running
          session,         \* which session_key this is, counted from 1
          block_idx,
          fragment_idx,
          max_packet_size, \* largest fragment of the current block
          announce_left,   \* milliseconds to session_key_announce_ts
          air,             \* packets the last step injected
          used,            \* history: keys and nonces of all DATA packets so far
          key_age,         \* history: milliseconds since session's key was sent
          largest          \* history: largest datagram fragment of this block

vars == <<up, session, block_idx, fragment_idx, max_packet_size, announce_left,
          air, used, key_age, largest>>

\* MAX_PAYLOAD_SIZE: MAX_PACKET_SIZE without the radiotap and 802.11 headers,
\* wblock_hdr_t, the authentication tag and wpacket_hdr_t.
PacketHeader   == 2
MaxFecPayload  == 1510 - 13 - 24 - 9 - 16
MaxPayloadSize == MaxFecPayload - PacketHeader

TooOld == AnnounceMsec + 1

Init == /\ up = TRUE /\ session = 1
        /\ block_idx = 0 /\ fragment_idx = 0 /\ max_packet_size = 0
        /\ announce_left = 0
        /\ air = {} /\ used = {}
        /\ key_age = TooOld /\ largest = 0
-----------------------------------------------------------------------------
(***************************************************************************)
(* The packets of one datagram.  "at" orders them.                         *)
(***************************************************************************)
\* nonce = (block_idx & BLOCK_IDX_MASK) << 8 | fragment_idx; the mask has one
\* bit more than MAX_BLOCK_IDX.
Nonce(f) == (block_idx % (2 * (MaxBlock + 1))) * 256 + f

Key(at, k) == [at |-> at, type |-> "key", key |-> k]
Data(f, size) == [at |-> f + 1, type |-> "data", key |-> session,
                  nonce |-> Nonce(f), size |-> size]

\* recv truncates a datagram to the buffer of MAX_PAYLOAD_SIZE bytes.
Received(size) == IF size <= MaxPayloadSize THEN size ELSE MaxPayloadSize
Fragment(size) == PacketHeader + Received(size)

\* Mutant: the size of the block is the size of its last datagram.
Bug_LastSize(size) == Fragment(size)

BlockSize(size) == IF max_packet_size >= Fragment(size) THEN max_packet_size
                                                        ELSE Fragment(size)

KeyDue    == announce_left = 0
Completes == fragment_idx + 1 = FecK

\* Generate new session key after MAX_BLOCK_IDX blocks.
Rolls == Completes /\ block_idx + 1 > MaxBlock

\* Mutant: the block index starts over under the same key.
Bug_KeepsKey == session

NewKey == IF Rolls THEN session + 1 ELSE session

Parity(size) == {Data(f, BlockSize(size)) : f \in FecK..(FecN - 1)}

\* Mutant: the new key is not sent.
Bug_SilentRoll(size) ==
  (IF KeyDue THEN {Key(0, session)} ELSE {})
    \cup {Data(fragment_idx, Fragment(size))}
    \cup (IF Completes THEN Parity(size) ELSE {})

\* Mutant: the timer announces the key made at start-up.
Bug_AnnouncesFirst(size) ==
  (IF KeyDue THEN {Key(0, 1)} ELSE {})
    \cup {Data(fragment_idx, Fragment(size))}
    \cup (IF Completes THEN Parity(size) ELSE {})
    \cup (IF Rolls THEN {Key(FecN + 1, NewKey)} ELSE {})

Packets(size) ==
  (IF KeyDue THEN {Key(0, session)} ELSE {})
    \cup {Data(fragment_idx, Fragment(size))}
    \cup (IF Completes THEN Parity(size) ELSE {})
    \cup (IF Rolls THEN {Key(FecN + 1, NewKey)} ELSE {})

DataIn(S) == {x \in S : x.type = "data"}
KeysIn(S) == {x.key : x \in {y \in S : y.type = "key"}}

\* History: what is on the air after the packets in S.
Observe(S) ==
  /\ air' = S
  /\ used' = used \cup {[key |-> x.key, nonce |-> x.nonce] : x \in DataIn(S)}
  /\ key_age' = IF session' \in KeysIn(S) THEN 0
                ELSE IF session' = session THEN key_age ELSE TooOld
-----------------------------------------------------------------------------
\* The loop body of video_source for one datagram: announce, send_packet.
Datagram(size) ==
  /\ up /\ size \in Sizes
  /\ announce_left' = IF KeyDue THEN AnnounceMsec ELSE announce_left
  /\ IF Completes THEN /\ fragment_idx' = 0 /\ max_packet_size' = 0 /\ largest' = 0
                       /\ block_idx' = IF Rolls THEN 0 ELSE block_idx + 1
                  ELSE /\ fragment_idx' = fragment_idx + 1
                       /\ max_packet_size' = BlockSize(size)
                       /\ largest' = Max({largest, Fragment(size)})
                       /\ UNCHANGED block_idx
  /\ NewKey <= MaxSession /\ session' = NewKey
  /\ Observe(Packets(size))
  /\ UNCHANGED up

\* inject_packet throws at packet "cut": what came before it is on the air.
InjectFails(size, cut) ==
  /\ up /\ size \in Sizes
  /\ \E x \in Packets(size) : x.at = cut
  /\ up' = FALSE
  /\ UNCHANGED <<session, block_idx, fragment_idx, max_packet_size, announce_left, largest>>
  /\ Observe({x \in Packets(size) : x.at < cut})

\* A new process: make_session_key in the constructor.
Restart ==
  /\ ~up /\ up' = TRUE
  /\ session' = session + 1 /\ session' <= MaxSession
  /\ block_idx' = 0 /\ fragment_idx' = 0 /\ max_packet_size' = 0 /\ largest' = 0
  /\ announce_left' = 0
  /\ Observe({})

\* A millisecond passes; beyond TooOld the age of a key makes no difference.
Tick ==
  /\ announce_left > 0 \/ key_age < TooOld
  /\ announce_left' = IF announce_left > 0 THEN announce_left - 1 ELSE 0
  /\ key_age' = IF key_age < TooOld THEN key_age + 1 ELSE TooOld
  /\ air' = {}
  /\ UNCHANGED <<up, session, block_idx, fragment_idx, max_packet_size, used, largest>>

Next == \/ \E size \in Sizes : Datagram(size)
        \/ \E size \in Sizes, cut \in 0..(FecN + 1) : InjectFails(size, cut)
        \/ Restart
        \/ Tick

Spec == Init /\ [][Next]_vars
-----------------------------------------------------------------------------
\* Every variable has its type; a block index fits the receiver's check.
TypeOK == /\ up \in BOOLEAN /\ session \in 1..MaxSession
          /\ block_idx \in 0..MaxBlock /\ fragment_idx \in 0..(FecK - 1)
          /\ max_packet_size \in 0..MaxFecPayload /\ largest \in 0..MaxFecPayload
          /\ announce_left \in 0..AnnounceMsec /\ key_age \in 0..TooOld
          /\ used \subseteq [key : 1..MaxSession, nonce : Nat]

After(x, p) == x.key > p.key \/ (x.key = p.key /\ x.nonce > p.nonce)

\* No nonce is used twice under one session key, over any number of blocks,
\* rollovers, failed injections and restarts: every DATA packet lies after all
\* earlier ones (send_block_fragment, make_session_key).
NonceRises == [][/\ \A x \in DataIn(air'), p \in used : After(x, p)
                 /\ \A x, y \in DataIn(air') : x.at < y.at => After(y, x)]_vars

\* A receiver that hears everything can open every DATA packet: its key was
\* sent before it, less than SESSION_KEY_ANNOUNCE_MSEC ago (video_source:287,
\* and send_packet:232 for a key made on the way).
KeyOnAir ==
  [][\A x \in DataIn(air') : \/ key_age < AnnounceMsec /\ x.key = session
                             \/ \E y \in air' : y.type = "key" /\ y.key = x.key /\ y.at < x.at]_vars

Block(x) == x.nonce \div 256
Index(x) == x.nonce % 256

\* rx.cpp:514 "Should never happend due to generating new session key on tx
\* side": no packet carries a block or fragment index the receiver refuses.
IndexAccepted ==
  [][\A x \in DataIn(air') : Block(x) <= MaxBlock /\ Index(x) < FecN]_vars

\* Parity covers every byte of the block's largest datagram, and no more.
ParityFits ==
  [][\A x \in DataIn(air') : Index(x) >= FecK =>
        x.size = Max({largest} \cup {y.size : y \in {z \in DataIn(air') : Index(z) < FecK}})]_vars
=============================================================================
