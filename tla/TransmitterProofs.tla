------------------------- MODULE TransmitterProofs -------------------------
(***************************************************************************)
(* Proofs about Transmitter for all values of its constants.               *)
(***************************************************************************)
EXTENDS Transmitter, TLAPS

USE FecAssumption, SizeAssumption, BoundAssumption
-----------------------------------------------------------------------------
(***************************************************************************)
(* The packets of one datagram                                             *)
(***************************************************************************)
LEMMA FragmentType ==
  ASSUME NEW size \in Sizes
  PROVE  Fragment(size) \in 0..MaxFecPayload
BY DEF Fragment, Received, MaxPayloadSize, MaxFecPayload, PacketHeader

LEMMA NonceValue ==
  ASSUME block_idx \in 0..MaxBlock, NEW f \in 0..255
  PROVE  /\ Nonce(f) = block_idx * 256 + f
         /\ Nonce(f) \in Nat
         /\ Nonce(f) \div 256 = block_idx /\ Nonce(f) % 256 = f
<1>1. block_idx % (2 * (MaxBlock + 1)) = block_idx
  OBVIOUS
<1> QED  BY <1>1 DEF Nonce

\* A DATA packet of a datagram is a fragment of the current block, from
\* fragment_idx on, at its turn; a KEY packet comes first or last.
LEMMA PacketFacts ==
  ASSUME fragment_idx \in 0..(FecK - 1), NEW size \in Sizes, NEW x \in Packets(size)
  PROVE  \/ /\ x.type = "data" /\ x.key = session
            /\ \E f \in fragment_idx..(FecN - 1) :
                 x.nonce = Nonce(f) /\ x.at = f + 1 /\ (f # fragment_idx => Completes)
         \/ x.type = "key" /\ KeyDue /\ x.at = 0 /\ x.key = session
         \/ x.type = "key" /\ Rolls /\ x.at = FecN + 1 /\ x.key = NewKey
<1>1. CASE x = Data(fragment_idx, Fragment(size))
  BY <1>1 DEF Data
<1>2. CASE Completes /\ x \in Parity(size)
  <2>1. PICK f \in FecK..(FecN - 1) : x = Data(f, BlockSize(size))
    BY <1>2 DEF Parity
  <2> QED  BY <1>2, <2>1 DEF Data
<1>3. CASE KeyDue /\ x = Key(0, session)
  BY <1>3 DEF Key
<1>4. CASE Rolls /\ x = Key(FecN + 1, NewKey)
  BY <1>4 DEF Key
<1> QED  BY <1>1, <1>2, <1>3, <1>4 DEF Packets
-----------------------------------------------------------------------------
(***************************************************************************)
(* The inductive invariant: all nonces of the current key lie before the   *)
(* next one, and a key that need not be announced yet was sent recently.   *)
(***************************************************************************)
SendType == /\ up \in BOOLEAN /\ session \in 1..MaxSession
            /\ block_idx \in 0..MaxBlock /\ fragment_idx \in 0..(FecK - 1)
            /\ announce_left \in 0..AnnounceMsec /\ key_age \in 0..TooOld
            /\ used \subseteq [key : 1..MaxSession, nonce : Nat]

UsedBefore == \A p \in used :
                /\ p.key <= session
                /\ up /\ p.key = session => p.nonce < block_idx * 256 + fragment_idx

KeyRecent == up /\ announce_left > 0 => key_age <= AnnounceMsec - announce_left

SendInv == SendType /\ UsedBefore /\ KeyRecent

LEMMA InitSendInv == Init => SendInv
BY DEF Init, SendInv, SendType, UsedBefore, KeyRecent, TooOld

\* The nonces a datagram adds are of the current key and block.
LEMMA Added ==
  ASSUME SendInv, NEW size \in Sizes, NEW S \in SUBSET Packets(size), Observe(S)
  PROVE  \A p \in used' :
           \/ p \in used
           \/ /\ p.key = session
              /\ \E f \in fragment_idx..(FecN - 1) :
                   /\ p.nonce = block_idx * 256 + f
                   /\ f # fragment_idx => Completes
<1> SUFFICES ASSUME NEW p \in used', p \notin used
             PROVE  /\ p.key = session
                    /\ \E f \in fragment_idx..(FecN - 1) :
                         /\ p.nonce = block_idx * 256 + f
                         /\ f # fragment_idx => Completes
  OBVIOUS
<1>1. PICK x \in DataIn(S) : p = [key |-> x.key, nonce |-> x.nonce]
  BY DEF Observe
<1>2. x \in Packets(size) /\ x.type = "data"
  BY <1>1 DEF DataIn
<1>3. PICK f \in fragment_idx..(FecN - 1) :
        x.key = session /\ x.nonce = Nonce(f) /\ (f # fragment_idx => Completes)
  BY <1>2, PacketFacts DEF SendInv, SendType
<1>4. f \in 0..255 /\ block_idx \in 0..MaxBlock
  BY DEF SendInv, SendType
<1>5. Nonce(f) = block_idx * 256 + f
  BY <1>4, NonceValue
<1> QED  BY <1>1, <1>3, <1>5

LEMMA DatagramSendInv ==
  ASSUME SendInv, NEW size \in Sizes, Datagram(size)
  PROVE  SendInv'
<1> USE DEF SendInv, SendType
<1>1. /\ Observe(Packets(size)) /\ up /\ up' = up /\ session' = NewKey /\ NewKey <= MaxSession
      /\ announce_left' = IF KeyDue THEN AnnounceMsec ELSE announce_left
      /\ Completes => fragment_idx' = 0 /\ block_idx' = IF Rolls THEN 0 ELSE block_idx + 1
      /\ ~Completes => fragment_idx' = fragment_idx + 1 /\ block_idx' = block_idx
  BY DEF Datagram
<1>2. \A p \in used' :
        \/ p \in used
        \/ /\ p.key = session
           /\ \E f \in fragment_idx..(FecN - 1) :
                p.nonce = block_idx * 256 + f /\ (f # fragment_idx => Completes)
  BY <1>1, Added
<1>3. session' \in session..(session + 1) /\ (session' = session + 1 <=> Rolls)
  BY <1>1 DEF NewKey
<1>4. /\ session' \in 1..MaxSession /\ block_idx' \in 0..MaxBlock
      /\ fragment_idx' \in 0..(FecK - 1)
  BY <1>1, <1>3 DEF Completes, Rolls
<1>5. used' \subseteq [key : 1..MaxSession, nonce : Nat]
  <2> SUFFICES ASSUME NEW p \in used', p \notin used
               PROVE  p \in [key : 1..MaxSession, nonce : Nat]
    OBVIOUS
  <2>1. PICK x \in DataIn(Packets(size)) : p = [key |-> x.key, nonce |-> x.nonce]
    BY <1>1 DEF Observe
  <2>2. p.key \in 1..MaxSession /\ p.nonce \in Nat
    BY <1>2
  <2> QED  BY <2>1, <2>2
<1>6. key_age' \in 0..TooOld /\ announce_left' \in 0..AnnounceMsec
  BY <1>1 DEF Observe, TooOld
<1>7. UsedBefore'
  <2> SUFFICES ASSUME NEW p \in used'
               PROVE  /\ p.key <= session'
                      /\ p.key = session' => p.nonce < block_idx' * 256 + fragment_idx'
    BY DEF UsedBefore
  <2>1. CASE p \in used
    BY <1>1, <1>3, <1>4, <2>1 DEF UsedBefore, Completes, Rolls
  <2>2. CASE p \notin used
    <3>1. PICK f \in fragment_idx..(FecN - 1) :
            p.key = session /\ p.nonce = block_idx * 256 + f /\ (f # fragment_idx => Completes)
      BY <1>2, <2>2
    <3>2. CASE Rolls
      BY <1>3, <3>1, <3>2
    <3>3. CASE ~Rolls /\ Completes
      BY <1>1, <1>3, <3>1, <3>3
    <3>4. CASE ~Completes
      BY <1>1, <1>3, <3>1, <3>4
    <3> QED  BY <3>2, <3>3, <3>4
  <2> QED  BY <2>1, <2>2
<1>8. KeyRecent'
  <2>1. CASE Rolls
    <3>1. NewKey \in KeysIn(Packets(size))
      <4>1. Key(FecN + 1, NewKey) \in Packets(size)
        BY <2>1 DEF Packets
      <4> QED  BY <4>1 DEF KeysIn, Key
    <3> QED  BY <1>1, <1>6, <3>1 DEF Observe, KeyRecent
  <2>2. CASE ~Rolls /\ KeyDue
    <3>1. session' \in KeysIn(Packets(size))
      <4>1. Key(0, session) \in Packets(size)
        BY <2>2 DEF Packets
      <4> QED  BY <1>1, <2>2, <4>1 DEF KeysIn, Key, NewKey
    <3> QED  BY <1>1, <1>6, <3>1 DEF Observe, KeyRecent
  <2>3. CASE ~Rolls /\ ~KeyDue
    <3>1. session' = session /\ announce_left' = announce_left
      BY <1>1, <2>3 DEF NewKey
    <3>2. key_age' = 0 \/ key_age' = key_age
      BY <1>1, <3>1 DEF Observe
    <3> QED  BY <1>1, <3>1, <3>2 DEF KeyRecent
  <2> QED  BY <2>1, <2>2, <2>3
<1> QED  BY <1>1, <1>4, <1>5, <1>6, <1>7, <1>8

LEMMA InjectFailsSendInv ==
  ASSUME SendInv, NEW size \in Sizes, NEW cut \in 0..(FecN + 1), InjectFails(size, cut)
  PROVE  SendInv'
<1> USE DEF SendInv, SendType
<1> DEFINE S == {x \in Packets(size) : x.at < cut}
<1>1. /\ Observe(S) /\ up' = FALSE
      /\ UNCHANGED <<session, block_idx, fragment_idx, announce_left>>
  BY DEF InjectFails
<1>2. \A p \in used' :
        \/ p \in used
        \/ /\ p.key = session
           /\ \E f \in fragment_idx..(FecN - 1) :
                p.nonce = block_idx * 256 + f /\ (f # fragment_idx => Completes)
  BY <1>1, Added
<1>3. used' \subseteq [key : 1..MaxSession, nonce : Nat]
  <2> SUFFICES ASSUME NEW p \in used', p \notin used
               PROVE  p \in [key : 1..MaxSession, nonce : Nat]
    OBVIOUS
  <2>1. PICK x \in DataIn(S) : p = [key |-> x.key, nonce |-> x.nonce]
    BY <1>1 DEF Observe
  <2>2. p.key \in 1..MaxSession /\ p.nonce \in Nat
    BY <1>2
  <2> QED  BY <2>1, <2>2
<1>4. key_age' \in 0..TooOld
  BY <1>1 DEF Observe, TooOld
<1>5. UsedBefore'
  BY <1>1, <1>2 DEF UsedBefore
<1>6. KeyRecent'
  BY <1>1 DEF KeyRecent
<1> QED  BY <1>1, <1>3, <1>4, <1>5, <1>6

LEMMA RestartSendInv ==
  ASSUME SendInv, Restart
  PROVE  SendInv'
<1>1. used' = used
  BY DEF Restart, Observe, DataIn
<1>2. key_age' \in 0..TooOld
  BY DEF Restart, Observe, TooOld, SendInv, SendType
<1>3. SendType'
  BY <1>1, <1>2 DEF Restart, SendInv, SendType
<1>4. UsedBefore'
  BY <1>1 DEF Restart, SendInv, SendType, UsedBefore
<1>5. KeyRecent'
  BY DEF Restart, KeyRecent
<1> QED  BY <1>3, <1>4, <1>5 DEF SendInv

LEMMA NextSendInv == SendInv /\ [Next]_vars => SendInv'
<1> SUFFICES ASSUME SendInv, [Next]_vars
             PROVE  SendInv'
  OBVIOUS
<1>1. CASE \E size \in Sizes : Datagram(size)
  BY <1>1, DatagramSendInv
<1>2. CASE \E size \in Sizes, cut \in 0..(FecN + 1) : InjectFails(size, cut)
  BY <1>2, InjectFailsSendInv
<1>3. CASE Restart
  BY <1>3, RestartSendInv
<1>4. CASE Tick
  <2>1. key_age' \in 0..TooOld /\ announce_left' \in 0..AnnounceMsec
    BY <1>4 DEF Tick, TooOld, SendInv, SendType
  <2>2. KeyRecent'
    BY <1>4 DEF Tick, TooOld, SendInv, SendType, KeyRecent
  <2> QED  BY <1>4, <2>1, <2>2 DEF Tick, SendInv, SendType, UsedBefore
<1>5. CASE UNCHANGED vars
  BY <1>5 DEF vars, SendInv, SendType, UsedBefore, KeyRecent
<1> QED  BY <1>1, <1>2, <1>3, <1>4, <1>5 DEF Next

\* All nonces used lie before the next one, and a key that is not due was sent
\* recently, in every reachable state of send_packet and video_source.
THEOREM SendCorrect == Spec => []SendInv
BY InitSendInv, NextSendInv, PTL DEF Spec
-----------------------------------------------------------------------------
(***************************************************************************)
(* The action properties                                                   *)
(***************************************************************************)
\* Only a datagram puts packets on the air: some of its packets, in order.
LEMMA AirFrom ==
  ASSUME SendInv, Next, NEW x \in air'
  PROVE  \E size \in Sizes :
           /\ up
           /\ x \in Packets(size)
           /\ air' \subseteq Packets(size)
           /\ \A y \in Packets(size) : y.at < x.at => y \in air'
<1>1. CASE \E size \in Sizes : Datagram(size)
  BY <1>1 DEF Datagram, Observe
<1>2. CASE \E size \in Sizes, cut \in 0..(FecN + 1) : InjectFails(size, cut)
  <2>1. PICK size \in Sizes, cut \in 0..(FecN + 1) : InjectFails(size, cut)
    BY <1>2
  <2>2. up /\ air' = {y \in Packets(size) : y.at < cut}
    BY <2>1 DEF InjectFails, Observe
  <2>3. \A y \in Packets(size) : y.at \in 0..(FecN + 1)
    BY PacketFacts DEF SendInv, SendType
  <2> QED  BY <2>2, <2>3
<1>3. CASE Restart \/ Tick
  BY <1>3 DEF Restart, Tick, Observe
<1> QED  BY <1>1, <1>2, <1>3 DEF Next

LEMMA DataFacts ==
  ASSUME SendInv, NEW size \in Sizes, NEW x \in Packets(size), x.type = "data"
  PROVE  /\ x.key = session
         /\ \E f \in fragment_idx..(FecN - 1) :
              /\ x.nonce = block_idx * 256 + f /\ x.at = f + 1
              /\ Block(x) = block_idx /\ Index(x) = f
<1>1. PICK f \in fragment_idx..(FecN - 1) :
        x.key = session /\ x.nonce = Nonce(f) /\ x.at = f + 1
  BY PacketFacts DEF SendInv, SendType
<1>2. f \in 0..255 /\ block_idx \in 0..MaxBlock
  BY DEF SendInv, SendType
<1>3. /\ Nonce(f) = block_idx * 256 + f
      /\ Nonce(f) \div 256 = block_idx /\ Nonce(f) % 256 = f
  BY <1>2, NonceValue
<1>4. /\ x.nonce = block_idx * 256 + f
      /\ Block(x) = block_idx /\ Index(x) = f
  BY <1>1, <1>3, Zenon DEF Block, Index
<1> QED  BY <1>1, <1>4

\* A DATA packet lies after all that were sent before it.
Rising == /\ \A x \in DataIn(air'), p \in used : After(x, p)
          /\ \A x, y \in DataIn(air') : x.at < y.at => After(y, x)

LEMMA NextRising == ASSUME SendInv, Next PROVE Rising
<1>1. ASSUME NEW x \in DataIn(air'), NEW p \in used
      PROVE  After(x, p)
  <2>1. PICK size \in Sizes : up /\ x \in Packets(size)
    BY <1>1, AirFrom DEF DataIn
  <2>2. PICK f \in fragment_idx..(FecN - 1) :
          x.key = session /\ x.nonce = block_idx * 256 + f
    BY <1>1, <2>1, DataFacts DEF DataIn
  <2>3. p.key \in Nat /\ p.nonce \in Nat
    BY DEF SendInv, SendType
  <2> QED  BY <2>1, <2>2, <2>3 DEF After, SendInv, SendType, UsedBefore
<1>2. ASSUME NEW x \in DataIn(air'), NEW y \in DataIn(air'), x.at < y.at
      PROVE  After(y, x)
  <2>1. PICK size \in Sizes : x \in Packets(size) /\ y \in Packets(size)
    BY <1>2, AirFrom DEF DataIn
  <2>2. PICK f \in fragment_idx..(FecN - 1) :
          x.key = session /\ x.nonce = block_idx * 256 + f /\ x.at = f + 1
    BY <1>2, <2>1, DataFacts DEF DataIn
  <2>3. PICK g \in fragment_idx..(FecN - 1) :
          y.key = session /\ y.nonce = block_idx * 256 + g /\ y.at = g + 1
    BY <1>2, <2>1, DataFacts DEF DataIn
  <2> QED  BY <1>2, <2>2, <2>3 DEF After, SendInv, SendType
<1> QED  BY <1>1, <1>2 DEF Rising

\* No (session key, nonce) pair is ever used twice, for every fec_k, fec_n,
\* MAX_BLOCK_IDX and announcement period.
THEOREM NonceNeverReused == Spec => NonceRises
<1>1. SendInv /\ [Next]_vars => [Rising]_vars
  BY NextRising
<1> QED  BY <1>1, SendCorrect, PTL DEF Spec, NonceRises, Rising

\* A DATA packet can be opened: its key is young enough or goes before it.
Openable == \A x \in DataIn(air') :
              \/ key_age < AnnounceMsec /\ x.key = session
              \/ \E y \in air' : y.type = "key" /\ y.key = x.key /\ y.at < x.at

LEMMA NextOpenable == SendInv /\ Next => Openable
<1> SUFFICES ASSUME SendInv, Next, NEW x \in DataIn(air')
             PROVE  \/ key_age < AnnounceMsec /\ x.key = session
                    \/ \E y \in air' : y.type = "key" /\ y.key = x.key /\ y.at < x.at
  BY DEF Openable
<1>1. PICK size \in Sizes :
        /\ up /\ x \in Packets(size)
        /\ \A y \in Packets(size) : y.at < x.at => y \in air'
  BY AirFrom DEF DataIn
<1>2. x.key = session /\ x.at > 0
  BY <1>1, DataFacts DEF DataIn, SendInv, SendType
<1>3. CASE KeyDue
  <2>1. Key(0, session) \in Packets(size)
    BY <1>3 DEF Packets
  <2> QED  BY <1>1, <1>2, <2>1 DEF Key
<1>4. CASE ~KeyDue
  BY <1>1, <1>2, <1>4 DEF KeyDue, SendInv, SendType, KeyRecent, TooOld
<1> QED  BY <1>3, <1>4

\* Every DATA packet follows its session key within the announcement period.
THEOREM KeyBeforeData == Spec => KeyOnAir
<1>1. SendInv /\ [Next]_vars => [Openable]_vars
  BY NextOpenable
<1> QED  BY <1>1, SendCorrect, PTL DEF Spec, KeyOnAir, Openable

\* The receiver's check of block and fragment index never refuses a packet.
THEOREM IndexesAccepted == Spec => IndexAccepted
<1> DEFINE Fits == \A x \in DataIn(air') : Block(x) <= MaxBlock /\ Index(x) < FecN
<1>1. ASSUME SendInv, Next
      PROVE  Fits
  <2> SUFFICES ASSUME NEW x \in DataIn(air')
               PROVE  Block(x) <= MaxBlock /\ Index(x) < FecN
    OBVIOUS
  <2>1. PICK size \in Sizes : x \in Packets(size)
    BY <1>1, AirFrom DEF DataIn
  <2> QED  BY <1>1, <2>1, DataFacts DEF DataIn, SendInv, SendType
<1>2. SendInv /\ [Next]_vars => [Fits]_vars
  BY <1>1
<1> QED  BY <1>2, SendCorrect, PTL DEF Spec, IndexAccepted
-----------------------------------------------------------------------------
(***************************************************************************)
(* Sizes: max_packet_size is the largest fragment of the block so far      *)
(***************************************************************************)
LEMMA MaxOfTwo ==
  ASSUME NEW a \in Nat, NEW b \in Nat
  PROVE  Max({a, b}) = IF a >= b THEN a ELSE b
<1>1. PICK m \in {a, b} : \A y \in {a, b} : m >= y
  OBVIOUS
<1>2. Max({a, b}) \in {a, b} /\ \A y \in {a, b} : Max({a, b}) >= y
  BY <1>1 DEF Max
<1> QED  BY <1>2

SizeInv == /\ max_packet_size \in 0..MaxFecPayload
           /\ max_packet_size = largest

LEMMA BlockSizeIsMax ==
  ASSUME SizeInv, NEW size \in Sizes
  PROVE  /\ BlockSize(size) = Max({largest, Fragment(size)})
         /\ BlockSize(size) \in 0..MaxFecPayload
<1>1. MaxFecPayload \in Nat
  BY DEF MaxFecPayload
<1>2. Fragment(size) \in 0..MaxFecPayload
  BY FragmentType
<1>3. largest \in Nat /\ Fragment(size) \in Nat
  BY <1>1, <1>2 DEF SizeInv
<1> QED  BY <1>2, <1>3, MaxOfTwo DEF BlockSize, SizeInv

LEMMA NextSizeInv == SizeInv /\ [Next]_vars => SizeInv'
<1> SUFFICES ASSUME SizeInv, [Next]_vars
             PROVE  SizeInv'
  OBVIOUS
<1>1. CASE \E size \in Sizes : Datagram(size)
  <2>1. PICK size \in Sizes : Datagram(size)
    BY <1>1
  <2>2. CASE Completes
    BY <2>1, <2>2 DEF Datagram, SizeInv, MaxFecPayload
  <2>3. CASE ~Completes
    BY <2>1, <2>3, BlockSizeIsMax DEF Datagram, SizeInv
  <2> QED  BY <2>2, <2>3
<1>2. CASE \E size \in Sizes, cut \in 0..(FecN + 1) : InjectFails(size, cut)
  BY <1>2 DEF InjectFails, SizeInv
<1>3. CASE Restart \/ Tick \/ UNCHANGED vars
  BY <1>3 DEF Restart, Tick, vars, SizeInv, MaxFecPayload
<1> QED  BY <1>1, <1>2, <1>3 DEF Next

THEOREM SizeCorrect == Spec => []SizeInv
<1>1. Init => SizeInv
  BY DEF Init, SizeInv, MaxFecPayload
<1> QED  BY <1>1, NextSizeInv, PTL DEF Spec

\* Every variable of the transmitter has its type; block_idx never passes
\* MAX_BLOCK_IDX.
THEOREM TypeCorrect == Spec => []TypeOK
<1>1. SendInv /\ SizeInv => TypeOK
  BY DEF SendInv, SendType, SizeInv, TypeOK
<1> QED  BY <1>1, SendCorrect, SizeCorrect, PTL

\* The parity of a block is as long as its largest datagram, never shorter.
THEOREM ParityCoversBlock == Spec => ParityFits
<1> DEFINE Plain(A) == {y.size : y \in {z \in DataIn(A) : Index(z) < FecK}}
           Fits     == \A x \in DataIn(air') : Index(x) >= FecK =>
                         x.size = Max({largest} \cup Plain(air'))
<1>1. ASSUME SendInv, SizeInv, Next
      PROVE  Fits
  <2> SUFFICES ASSUME NEW x \in DataIn(air'), Index(x) >= FecK
               PROVE  x.size = Max({largest} \cup Plain(air'))
    OBVIOUS
  <2>1. PICK size \in Sizes :
          /\ x \in Packets(size) /\ air' \subseteq Packets(size)
          /\ \A y \in Packets(size) : y.at < x.at => y \in air'
    BY <1>1, AirFrom DEF DataIn
  <2>2. PICK f \in fragment_idx..(FecN - 1) : x.at = f + 1 /\ Index(x) = f
    BY <1>1, <2>1, DataFacts DEF DataIn
  <2> DEFINE own == Data(fragment_idx, Fragment(size))
  <2>3. own \in Packets(size) /\ own.type = "data" /\ own.size = Fragment(size)
        /\ own.at = fragment_idx + 1
    BY DEF Packets, Data
  <2>4. Index(own) = fragment_idx
    <3>1. PICK g \in fragment_idx..(FecN - 1) : own.at = g + 1 /\ Index(own) = g
      BY <1>1, <2>3, DataFacts
    <3> QED  BY <1>1, <2>3, <3>1 DEF SendInv, SendType
  <2>5. own \in DataIn(air')
    BY <1>1, <2>1, <2>2, <2>3 DEF DataIn, SendInv, SendType
  <2>6. \A y \in DataIn(air') : y = own \/ y \in Parity(size)
    BY <2>1 DEF DataIn, Packets, Key
  <2>7. ASSUME NEW y \in Parity(size), y \in DataIn(air')
        PROVE  ~(Index(y) < FecK) /\ y.size = BlockSize(size)
    <3>1. PICK h \in FecK..(FecN - 1) : y = Data(h, BlockSize(size))
      BY <2>7 DEF Parity
    <3>2. y.at = h + 1 /\ y.size = BlockSize(size)
      BY <3>1 DEF Data
    <3>3. PICK g \in fragment_idx..(FecN - 1) : y.at = g + 1 /\ Index(y) = g
      BY <1>1, <2>1, <2>7, DataFacts DEF DataIn
    <3> QED  BY <1>1, <3>2, <3>3 DEF SendInv, SendType
  <2>8. Plain(air') = {Fragment(size)}
    <3>1. \A y \in DataIn(air') : Index(y) < FecK => y = own
      BY <2>6, <2>7
    <3>2. Index(own) < FecK
      BY <1>1, <2>4 DEF SendInv, SendType
    <3> QED  BY <2>3, <2>5, <3>1, <3>2
  <2>9. x.size = BlockSize(size)
    <3>1. x # own
      BY <1>1, <2>4 DEF SendInv, SendType
    <3> QED  BY <2>6, <2>7, <3>1
  <2> QED  BY <1>1, <2>8, <2>9, BlockSizeIsMax
<1>2. SendInv /\ SizeInv /\ [Next]_vars => [Fits]_vars
  BY <1>1
<1> QED  BY <1>2, SendCorrect, SizeCorrect, PTL DEF Spec, ParityFits
-----------------------------------------------------------------------------
(***************************************************************************)
(* A session's packets are sent without gaps                               *)
(***************************************************************************)
Fragments == 0..(FecN - 1)
Lies(k, b, f) == [key |-> k, nonce |-> b * 256 + f]
Before(c, g, b, f) == c < b \/ (c = b /\ g < f)

\* Every nonce used is a block and a fragment of it ...
Indexed == \A p \in used : \E b \in 0..MaxBlock, f \in Fragments : p = Lies(p.key, b, f)

\* ... and all fragments before it have been used in its session.
GapFree == \A k \in 1..MaxSession, b \in 0..MaxBlock, f \in Fragments :
             Lies(k, b, f) \in used =>
               \A c \in 0..MaxBlock, g \in Fragments :
                 Before(c, g, b, f) => Lies(k, c, g) \in used

UpToNow == up => \A c \in 0..MaxBlock, g \in Fragments :
                   Before(c, g, block_idx, fragment_idx) => Lies(session, c, g) \in used

GapInv == SendInv /\ Indexed /\ GapFree /\ UpToNow

LEMMA LiesOnce ==
  ASSUME NEW k, NEW l, NEW b \in Nat, NEW c \in Nat, NEW f \in Fragments, NEW g \in Fragments,
         Lies(k, b, f) = Lies(l, c, g)
  PROVE  k = l /\ b = c /\ f = g
<1>1. k = l /\ b * 256 + f = c * 256 + g
  BY DEF Lies
<1> QED  BY <1>1 DEF Fragments

LEMMA FragmentSent ==
  ASSUME SendInv, NEW size \in Sizes, NEW g \in Fragments,
         g = fragment_idx \/ (Completes /\ g >= FecK)
  PROVE  \E y \in Packets(size) : /\ y.type = "data" /\ y.key = session
                                  /\ y.nonce = block_idx * 256 + g /\ y.at = g + 1
<1>1. Nonce(g) = block_idx * 256 + g
  <2>1. g \in 0..255 /\ block_idx \in 0..MaxBlock
    BY DEF Fragments, SendInv, SendType
  <2> QED  BY <2>1, NonceValue
<1>2. CASE g = fragment_idx
  <2>1. Data(fragment_idx, Fragment(size)) \in Packets(size)
    BY DEF Packets
  <2> QED  BY <1>1, <1>2, <2>1 DEF Data
<1>3. CASE Completes /\ g >= FecK
  <2>1. Data(g, BlockSize(size)) \in Parity(size)
    BY <1>3 DEF Parity, Fragments
  <2>2. Data(g, BlockSize(size)) \in Packets(size)
    BY <1>3, <2>1 DEF Packets
  <2> QED  BY <1>1, <2>2 DEF Data
<1> QED  BY <1>2, <1>3

\* What packets of a datagram, up to some turn, add to the nonces used.
LEMMA AddedExactly ==
  ASSUME SendInv, NEW size \in Sizes, NEW S \in SUBSET Packets(size), Observe(S),
         \A x \in S, y \in Packets(size) : y.at < x.at => y \in S
  PROVE  /\ used \subseteq used'
         /\ \A p \in used' \ used : \E f \in Fragments :
              /\ p = Lies(session, block_idx, f)
              /\ f = fragment_idx \/ (Completes /\ f >= FecK)
              /\ \A g \in Fragments : g < f /\ (g = fragment_idx \/ (Completes /\ g >= FecK))
                                        => Lies(session, block_idx, g) \in used'
<1> USE DEF SendInv, SendType
<1>1. used' = used \cup {[key |-> x.key, nonce |-> x.nonce] : x \in DataIn(S)}
  BY DEF Observe
<1>2. ASSUME NEW p \in used', p \notin used
      PROVE  \E f \in Fragments :
              /\ p = Lies(session, block_idx, f)
              /\ f = fragment_idx \/ (Completes /\ f >= FecK)
              /\ \A g \in Fragments : g < f /\ (g = fragment_idx \/ (Completes /\ g >= FecK))
                                        => Lies(session, block_idx, g) \in used'
  <2>1. PICK x \in DataIn(S) : p = [key |-> x.key, nonce |-> x.nonce]
    BY <1>1, <1>2
  <2>2. x \in S /\ x \in Packets(size) /\ x.type = "data"
    BY <2>1 DEF DataIn
  <2>3. PICK f \in fragment_idx..(FecN - 1) :
          /\ x.nonce = Nonce(f) /\ x.at = f + 1 /\ (f # fragment_idx => Completes)
          /\ x.key = session
    BY <2>2, PacketFacts
  <2>4. \A h \in 0..255 : Nonce(h) = block_idx * 256 + h
    BY NonceValue
  <2>5. f \in Fragments /\ p = Lies(session, block_idx, f)
    BY <2>1, <2>3, <2>4 DEF Fragments, Lies
  <2>6. f = fragment_idx \/ (Completes /\ f >= FecK)
    BY <2>3 DEF Completes
  <2>7. ASSUME NEW g \in Fragments, g < f, g = fragment_idx \/ (Completes /\ g >= FecK)
        PROVE  Lies(session, block_idx, g) \in used'
    <3>1. PICK y \in Packets(size) : /\ y.type = "data" /\ y.key = session
                                     /\ y.nonce = block_idx * 256 + g /\ y.at = g + 1
      BY <2>7, FragmentSent
    <3>2. y \in S
      BY <2>2, <2>3, <2>7, <3>1 DEF Fragments
    <3>3. y \in DataIn(S)
      BY <3>1, <3>2 DEF DataIn
    <3>4. [key |-> y.key, nonce |-> y.nonce] \in used'
      BY <1>1, <3>3
    <3> QED  BY <3>1, <3>4 DEF Lies
  <2> QED  BY <2>5, <2>6, <2>7
<1> QED  BY <1>1, <1>2

LEMMA SentGapFree ==
  ASSUME GapInv, up, NEW size \in Sizes, NEW S \in SUBSET Packets(size), Observe(S),
         \A x \in S, y \in Packets(size) : y.at < x.at => y \in S
  PROVE  Indexed' /\ GapFree'
<1> USE DEF GapInv
<1>1. /\ used \subseteq used'
      /\ \A p \in used' \ used : \E f \in Fragments :
              /\ p = Lies(session, block_idx, f)
              /\ f = fragment_idx \/ (Completes /\ f >= FecK)
              /\ \A g \in Fragments : g < f /\ (g = fragment_idx \/ (Completes /\ g >= FecK))
                                        => Lies(session, block_idx, g) \in used'
  BY AddedExactly
<1>2. block_idx \in 0..MaxBlock /\ fragment_idx \in 0..(FecK - 1) /\ session \in Nat
  BY DEF SendInv, SendType
<1>3. Indexed'
  <2> SUFFICES ASSUME NEW p \in used'
               PROVE  \E b \in 0..MaxBlock, f \in Fragments : p = Lies(p.key, b, f)
    BY DEF Indexed
  <2>1. CASE p \in used
    BY <2>1 DEF Indexed
  <2>2. CASE p \notin used
    <3>1. PICK f \in Fragments : p = Lies(session, block_idx, f)
      BY <1>1, <2>2
    <3>2. p.key = session
      BY <3>1 DEF Lies
    <3> QED  BY <1>2, <3>1, <3>2
  <2> QED  BY <2>1, <2>2
<1>4. GapFree'
  <2> SUFFICES ASSUME NEW k \in 1..MaxSession, NEW b \in 0..MaxBlock, NEW f \in Fragments,
                      Lies(k, b, f) \in used',
                      NEW c \in 0..MaxBlock, NEW g \in Fragments, Before(c, g, b, f)
               PROVE  Lies(k, c, g) \in used'
    BY DEF GapFree
  <2>1. CASE Lies(k, b, f) \in used
    BY <1>1, <2>1 DEF GapFree
  <2>2. CASE Lies(k, b, f) \notin used
    <3>1. PICK h \in Fragments :
              /\ Lies(k, b, f) = Lies(session, block_idx, h)
              /\ h = fragment_idx \/ (Completes /\ h >= FecK)
              /\ \A d \in Fragments : d < h /\ (d = fragment_idx \/ (Completes /\ d >= FecK))
                                        => Lies(session, block_idx, d) \in used'
      BY <1>1, <2>2
    <3>2. k = session /\ b = block_idx /\ h = f
      BY <1>2, <3>1, LiesOnce
    <3>3. CASE Before(c, g, block_idx, fragment_idx)
      BY <1>1, <3>2, <3>3 DEF UpToNow
    <3>4. CASE ~Before(c, g, block_idx, fragment_idx)
      <4>1. c = b /\ g < f /\ g >= fragment_idx
        BY <1>2, <3>2, <3>4 DEF Before, Fragments
      <4>2. g = fragment_idx \/ (Completes /\ g >= FecK)
        BY <1>2, <3>1, <3>2, <4>1 DEF Completes, Fragments
      <4> QED  BY <3>1, <3>2, <4>1, <4>2
    <3> QED  BY <3>3, <3>4
  <2> QED  BY <2>1, <2>2
<1> QED  BY <1>3, <1>4

LEMMA DatagramGapInv ==
  ASSUME GapInv, NEW size \in Sizes, Datagram(size)
  PROVE  GapInv'
<1> USE DEF GapInv
<1>1. /\ Observe(Packets(size)) /\ up /\ session' = NewKey
      /\ Completes => fragment_idx' = 0 /\ block_idx' = IF Rolls THEN 0 ELSE block_idx + 1
      /\ ~Completes => fragment_idx' = fragment_idx + 1 /\ block_idx' = block_idx
  BY DEF Datagram
<1>2. block_idx \in 0..MaxBlock /\ fragment_idx \in 0..(FecK - 1) /\ session \in Nat
  BY DEF SendInv, SendType
<1>3. SendInv'
  BY DatagramSendInv
<1>4. Indexed' /\ GapFree'
  BY <1>1, SentGapFree
<1>5. UpToNow'
  <2> SUFFICES ASSUME NEW c \in 0..MaxBlock, NEW g \in Fragments,
                      Before(c, g, block_idx', fragment_idx')
               PROVE  Lies(session', c, g) \in used'
    BY DEF UpToNow
  <2>1. ~Rolls /\ session' = session
    <3>1. Rolls => block_idx' = 0 /\ fragment_idx' = 0
      BY <1>1 DEF Rolls
    <3> QED  BY <1>1, <3>1 DEF Before, Fragments, NewKey
  <2>2. used \subseteq used'
    BY <1>1 DEF Observe
  <2>3. CASE Before(c, g, block_idx, fragment_idx)
    BY <1>1, <2>1, <2>2, <2>3 DEF UpToNow
  <2>4. CASE ~Before(c, g, block_idx, fragment_idx)
    <3>1. c = block_idx /\ (g = fragment_idx \/ (Completes /\ g >= FecK))
      <4>1. CASE Completes
        <5>1. block_idx' = block_idx + 1 /\ fragment_idx' = 0 /\ fragment_idx + 1 = FecK
          BY <1>1, <2>1, <4>1 DEF Completes
        <5> QED  BY <1>2, <2>4, <4>1, <5>1 DEF Before, Fragments
      <4>2. CASE ~Completes
        BY <1>1, <1>2, <2>4, <4>2 DEF Before, Fragments
      <4> QED  BY <4>1, <4>2
    <3>2. PICK y \in Packets(size) : /\ y.type = "data" /\ y.key = session
                                     /\ y.nonce = block_idx * 256 + g
      BY <3>1, FragmentSent
    <3>3. [key |-> y.key, nonce |-> y.nonce] \in used'
      BY <1>1, <3>2 DEF Observe, DataIn
    <3> QED  BY <2>1, <3>1, <3>2, <3>3 DEF Lies
  <2> QED  BY <2>3, <2>4
<1> QED  BY <1>3, <1>4, <1>5

LEMMA InitGapInv == Init => GapInv
<1> SUFFICES ASSUME Init PROVE GapInv
  OBVIOUS
<1>1. SendInv
  BY InitSendInv
<1>2. used = {} /\ block_idx = 0 /\ fragment_idx = 0
  BY DEF Init
<1>3. Indexed /\ GapFree
  BY <1>2 DEF Indexed, GapFree
<1>4. UpToNow
  BY <1>2 DEF UpToNow, Before, Fragments
<1> QED  BY <1>1, <1>3, <1>4 DEF GapInv

LEMMA NextGapInv == GapInv /\ [Next]_vars => GapInv'
<1> SUFFICES ASSUME GapInv, [Next]_vars PROVE GapInv'
  OBVIOUS
<1>1. SendInv'
  BY NextSendInv DEF GapInv
<1>2. CASE \E size \in Sizes : Datagram(size)
  BY <1>2, DatagramGapInv
<1>3. CASE \E size \in Sizes, cut \in 0..(FecN + 1) : InjectFails(size, cut)
  <2>1. PICK size \in Sizes, cut \in 0..(FecN + 1) : InjectFails(size, cut)
    BY <1>3
  <2> DEFINE S == {x \in Packets(size) : x.at < cut}
  <2>2. up /\ ~up' /\ Observe(S)
    BY <2>1 DEF InjectFails
  <2>3. \A x \in S, y \in Packets(size) : y.at < x.at => y \in S
    <3>1. \A y \in Packets(size) : y.at \in 0..(FecN + 1)
      BY PacketFacts DEF GapInv, SendInv, SendType
    <3> QED  BY <3>1
  <2>4. Indexed' /\ GapFree'
    <3> HIDE DEF S
    <3>1. S \in SUBSET Packets(size)
      BY DEF S
    <3> QED  BY <2>2, <2>3, <3>1, SentGapFree
  <2> QED  BY <1>1, <2>2, <2>4 DEF GapInv, UpToNow
<1>4. CASE Restart
  <2>1. used' = used /\ block_idx' = 0 /\ fragment_idx' = 0
    BY <1>4 DEF Restart, Observe, DataIn
  <2>2. UpToNow'
    BY <2>1 DEF UpToNow, Before, Fragments
  <2> QED  BY <1>1, <2>1, <2>2 DEF GapInv, Indexed, GapFree
<1>5. CASE Tick \/ UNCHANGED vars
  <2>1. UNCHANGED <<used, up, session, block_idx, fragment_idx>>
    BY <1>5 DEF Tick, vars
  <2> QED  BY <1>1, <2>1 DEF GapInv, Indexed, GapFree, UpToNow
<1> QED  BY <1>2, <1>3, <1>4, <1>5 DEF Next

\* send_packet, send_block_fragment: when a packet has been sent, all fragments before it in
\* its session have been, the parity of earlier blocks included.
THEOREM NoFragmentSkipped == Spec => []GapFree
<1>1. GapInv => GapFree
  BY DEF GapInv
<1> QED  BY <1>1, InitGapInv, NextGapInv, PTL DEF Spec
-----------------------------------------------------------------------------
(***************************************************************************)
(* What one datagram puts on the air, for those who listen                 *)
(***************************************************************************)
Sends(size) == Datagram(size) \/ \E cut \in 0..(FecN + 1) : InjectFails(size, cut)

LEMMA SendsNext == ASSUME NEW size \in Sizes, Sends(size) PROVE Next
BY DEF Sends, Next

\* The packets of a datagram go out in turns of their own, the keys in rising order.
LEMMA TurnFacts ==
  ASSUME SendInv, NEW size \in Sizes, NEW x \in Packets(size), NEW y \in Packets(size)
  PROVE  /\ x.at \in 0..(FecN + 1)
         /\ x.at = y.at => x = y
         /\ x.at < y.at => x.key <= y.key
<1> USE DEF SendInv, SendType
<1>1. ASSUME NEW z \in Packets(size)
      PROVE  \/ \E f \in 0..(FecN - 1) :
                  /\ z = Data(f, IF f = fragment_idx THEN Fragment(size) ELSE BlockSize(size))
                  /\ z.at = f + 1 /\ z.key = session
             \/ KeyDue /\ z = Key(0, session) /\ z.at = 0 /\ z.key = session
             \/ z = Key(FecN + 1, NewKey) /\ z.at = FecN + 1 /\ z.key = NewKey
  <2>1. CASE z = Data(fragment_idx, Fragment(size))
    BY <2>1 DEF Data
  <2>2. CASE Completes /\ z \in Parity(size)
    <3>1. PICK f \in FecK..(FecN - 1) : z = Data(f, BlockSize(size))
      BY <2>2 DEF Parity
    <3>2. f # fragment_idx /\ f \in 0..(FecN - 1)
      OBVIOUS
    <3> QED  BY <3>1, <3>2 DEF Data
  <2>3. CASE KeyDue /\ z = Key(0, session)
    BY <2>3 DEF Key
  <2>4. CASE z = Key(FecN + 1, NewKey)
    BY <2>4 DEF Key
  <2> QED  BY <1>1, <2>1, <2>2, <2>3, <2>4 DEF Packets
<1>2. NewKey \in {session, session + 1}
  BY DEF NewKey
<1>3. x.at \in 0..(FecN + 1)
  BY <1>1
<1>4. x.at = y.at => x = y
  BY <1>1
<1>5. x.at < y.at => x.key <= y.key
  BY <1>1, <1>2
<1> QED  BY <1>3, <1>4, <1>5

\* A datagram, sent in whole or in part: whose key its packets have ...
LEMMA SentKeys ==
  ASSUME SendInv, NEW size \in Sizes, Sends(size)
  PROVE  /\ up /\ air' \subseteq Packets(size)
         /\ session' \in Nat /\ session <= session'
         /\ \A x \in air' : /\ x.key \in 1..session' /\ x.key >= session
                            /\ x.type \in {"key", "data"}
                            /\ x.type = "data" => [key |-> x.key, nonce |-> x.nonce] \in used'
         /\ key_age' < TooOld => \/ session' = session /\ key_age < TooOld
                                 \/ \E x \in air' : x.type = "key" /\ x.key = session'
<1> USE DEF SendInv, SendType
<1> DEFINE P == Packets(size)
<1>1. /\ up /\ air' \subseteq P
      /\ session' \in {session, session + 1} /\ (session' # NewKey => session' = session)
      /\ used' = used \cup {[key |-> x.key, nonce |-> x.nonce] : x \in DataIn(air')}
      /\ key_age' = IF session' \in KeysIn(air') THEN 0
                    ELSE IF session' = session THEN key_age ELSE TooOld
      /\ \A x \in air' : x.at = FecN + 1 => session' = NewKey
  <2>1. CASE Datagram(size)
    BY <2>1 DEF Datagram, Observe, NewKey
  <2>2. CASE \E cut \in 0..(FecN + 1) : InjectFails(size, cut)
    <3>1. PICK cut \in 0..(FecN + 1) : InjectFails(size, cut)
      BY <2>2
    <3>2. air' = {x \in P : x.at < cut} /\ session' = session /\ up
      BY <3>1 DEF InjectFails, Observe
    <3>3. \A x \in air' : x.at # FecN + 1
      BY <3>2
    <3> QED  BY <3>1, <3>2, <3>3 DEF InjectFails, Observe
  <2> QED  BY <2>1, <2>2 DEF Sends
<1>2. ASSUME NEW x \in air'
      PROVE  /\ x.key \in 1..session' /\ x.key >= session
             /\ x.type \in {"key", "data"}
             /\ x.type = "data" => [key |-> x.key, nonce |-> x.nonce] \in used'
  <2>1. \/ x.type = "data" /\ x.key = session
        \/ x.type = "key" /\ x.key = session
        \/ x.type = "key" /\ x.at = FecN + 1 /\ x.key = NewKey
    BY <1>1, PacketFacts
  <2>2. x.type = "data" => x \in DataIn(air')
    BY DEF DataIn
  <2>3. x.key \in 1..session' /\ x.key >= session
    BY <1>1, <2>1 DEF NewKey
  <2> QED  BY <1>1, <2>1, <2>2, <2>3
<1>3. key_age' < TooOld => \/ session' = session /\ key_age < TooOld
                           \/ \E x \in air' : x.type = "key" /\ x.key = session'
  <2>1. CASE session' \in KeysIn(air')
    BY <2>1 DEF KeysIn
  <2>2. CASE session' \notin KeysIn(air')
    BY <1>1, <2>2 DEF TooOld
  <2> QED  BY <2>1, <2>2
<1>4. up /\ air' \subseteq P /\ session' \in Nat /\ session <= session'
  BY <1>1
<1> QED  BY <1>2, <1>3, <1>4

\* ... and the nonces they add: at most one datagram, past all that were sent.
LEMMA SentNonces ==
  ASSUME SendInv, NEW size \in Sizes, Sends(size)
  PROVE  /\ used \subseteq used'
         /\ \A p \in used' \ used : \E f \in Fragments :
              /\ p = Lies(session, block_idx, f)
              /\ f = fragment_idx \/ f >= FecK
         /\ \A p \in used : p.key < session
                            \/ (p.key = session /\ p.nonce < block_idx * 256 + fragment_idx)
<1>1. PICK S \in SUBSET Packets(size) :
        /\ Observe(S) /\ up
        /\ \A x \in S, y \in Packets(size) : y.at < x.at => y \in S
  <2>1. CASE Datagram(size)
    BY <2>1 DEF Datagram
  <2>2. CASE \E cut \in 0..(FecN + 1) : InjectFails(size, cut)
    <3>1. PICK cut \in 0..(FecN + 1) : InjectFails(size, cut)
      BY <2>2
    <3> DEFINE T == {x \in Packets(size) : x.at < cut}
    <3>2. Observe(T) /\ up
      BY <3>1 DEF InjectFails
    <3>3. \A y \in Packets(size) : y.at \in 0..(FecN + 1)
      BY TurnFacts
    <3>4. T \in SUBSET Packets(size) /\ \A x \in T, y \in Packets(size) : y.at < x.at => y \in T
      BY <3>3
    <3> HIDE DEF T
    <3> QED  BY <3>2, <3>4
  <2> QED  BY <2>1, <2>2 DEF Sends
<1>2. /\ used \subseteq used'
      /\ \A p \in used' \ used : \E f \in Fragments :
              /\ p = Lies(session, block_idx, f)
              /\ f = fragment_idx \/ (Completes /\ f >= FecK)
  BY <1>1, AddedExactly
<1>3. \A p \in used : p.key \in Nat /\ session \in Nat
  BY DEF SendInv, SendType
<1> QED  BY <1>1, <1>2, <1>3 DEF SendInv, UsedBefore

\* ... and the DATA packets themselves: new, and in rising order.
LEMMA SentData ==
  ASSUME SendInv, NEW size \in Sizes, Sends(size)
  PROVE  /\ used' = used \cup {[key |-> x.key, nonce |-> x.nonce] : x \in DataIn(air')}
         /\ \A x \in DataIn(air') : [key |-> x.key, nonce |-> x.nonce] \notin used
         /\ Rising
         /\ \A x \in DataIn(air') : x.key \in Nat /\ x.nonce \in Nat
<1>1. Next /\ Rising
  BY SendsNext, NextRising
<1>2. used' = used \cup {[key |-> x.key, nonce |-> x.nonce] : x \in DataIn(air')}
  BY DEF Sends, Datagram, InjectFails, Observe
<1>3. ASSUME NEW x \in DataIn(air') PROVE x.key \in Nat /\ x.nonce \in Nat
  <2>1. PICK s \in Sizes : x \in Packets(s)
    BY <1>1, AirFrom DEF DataIn
  <2>2. PICK f \in fragment_idx..(FecN - 1) :
          x.key = session /\ x.nonce = block_idx * 256 + f
    BY <2>1, DataFacts DEF DataIn
  <2> QED  BY <2>2 DEF SendInv, SendType
<1>4. ASSUME NEW x \in DataIn(air'), [key |-> x.key, nonce |-> x.nonce] \in used
      PROVE  FALSE
  <2>1. After(x, [key |-> x.key, nonce |-> x.nonce])
    BY <1>1, <1>4 DEF Rising
  <2> QED  BY <1>3, <2>1 DEF After
<1> QED  BY <1>1, <1>2, <1>3, <1>4
=============================================================================
