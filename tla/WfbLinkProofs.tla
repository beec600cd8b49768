--------------------------- MODULE WfbLinkProofs ---------------------------
(***************************************************************************)
(* Proofs about WfbLink.  What is opened and what is repaired is shown for *)
(* a receiver with one card; what comes out, for any set of cards.  They   *)
(* rest on what TransmitterProofs and RxRingProofs show of the two ends: a *)
(* link runs both, each on its own variables, and adds the queues between  *)
(* them.                                                                   *)
(***************************************************************************)
EXTENDS WfbLink, FiniteSetTheorems, TLAPS

RXP == INSTANCE RxRingProofs WITH Keys <- 1..MaxSession, NoKey <- 0, IsEncrypt <- TRUE,
                                  Antennas <- Cards, LogEvery <- MaxPackets
TXP == INSTANCE TransmitterProofs
-----------------------------------------------------------------------------
(***************************************************************************)
(* What was proved of the two ends holds of them here                      *)
(***************************************************************************)
LEMMA TxAssumptions == TXP!FecAssumption /\ TXP!SizeAssumption /\ TXP!BoundAssumption
BY LinkAssumption DEF TXP!FecAssumption, TXP!SizeAssumption, TXP!BoundAssumption

LEMMA RxAssumptions ==
  RXP!FecAssumption /\ RXP!RingAssumption /\ RXP!KeyAssumption /\ RXP!BoundAssumption
BY LinkAssumption DEF RXP!FecAssumption, RXP!RingAssumption, RXP!KeyAssumption,
                      RXP!BoundAssumption

LEMMA SameInits == Init => TXP!Init /\ RXP!Init
BY DEF Init, TX!Init, TXP!Init, TX!TooOld, TXP!TooOld,
       RX!Init, RXP!Init, RX!Slots, RXP!Slots, RX!Frags, RXP!Frags, RX!EmptyEntry,
       RXP!EmptyEntry, RX!NoCounts, RXP!NoCounts

LEMMA SameDatagram == ASSUME NEW size, TX!Datagram(size) PROVE TXP!Datagram(size)
BY DEF TX!Datagram, TX!KeyDue, TX!Completes, TX!Rolls, TX!BlockSize, TX!Fragment, TX!Received,
       TX!NewKey, TX!Observe, TX!Packets, TX!DataIn, TX!KeysIn, TX!Key, TX!Data, TX!Parity,
       TX!Nonce, TX!TooOld, TX!PacketHeader, TX!MaxPayloadSize, TX!MaxFecPayload, TX!Max,
       TXP!Datagram, TXP!KeyDue, TXP!Completes, TXP!Rolls, TXP!BlockSize, TXP!Fragment,
       TXP!Received, TXP!NewKey, TXP!Observe, TXP!Packets, TXP!DataIn, TXP!KeysIn, TXP!Key,
       TXP!Data, TXP!Parity, TXP!Nonce, TXP!TooOld, TXP!PacketHeader, TXP!MaxPayloadSize,
       TXP!MaxFecPayload, TXP!Max

LEMMA SameInjectFails ==
  ASSUME NEW size, NEW cut, TX!InjectFails(size, cut) PROVE TXP!InjectFails(size, cut)
BY DEF TX!InjectFails, TX!KeyDue, TX!Completes, TX!Rolls, TX!BlockSize, TX!Fragment,
       TX!Received, TX!NewKey, TX!Observe, TX!Packets, TX!DataIn, TX!KeysIn, TX!Key, TX!Data,
       TX!Parity, TX!Nonce, TX!TooOld, TX!PacketHeader, TX!MaxPayloadSize, TX!MaxFecPayload,
       TXP!InjectFails, TXP!KeyDue, TXP!Completes, TXP!Rolls, TXP!BlockSize, TXP!Fragment,
       TXP!Received, TXP!NewKey, TXP!Observe, TXP!Packets, TXP!DataIn, TXP!KeysIn, TXP!Key,
       TXP!Data, TXP!Parity, TXP!Nonce, TXP!TooOld, TXP!PacketHeader, TXP!MaxPayloadSize,
       TXP!MaxFecPayload

LEMMA SameRestart == TX!Restart => TXP!Restart
BY DEF TX!Restart, TX!Observe, TX!DataIn, TX!KeysIn, TX!TooOld,
       TXP!Restart, TXP!Observe, TXP!DataIn, TXP!KeysIn, TXP!TooOld

LEMMA SameTick == TX!Tick => TXP!Tick
BY DEF TX!Tick, TX!TooOld, TXP!Tick, TXP!TooOld

LEMMA SameNames ==
  /\ RX!Slots = RXP!Slots /\ RX!Frags = RXP!Frags /\ RX!Data = RXP!Data
  /\ RX!Contents = RXP!Contents /\ RX!EmptyEntry = RXP!EmptyEntry
  /\ RX!Places = RXP!Places
  /\ \A i : RX!SlotAt(i) = RXP!SlotAt(i)
  /\ \A i : RX!EntryAt(i) = RXP!EntryAt(i)
  /\ \A x : RX!modN(x) = RXP!modN(x)
  /\ \A x : RX!Position(x) = RXP!Position(x) /\ RX!packet_seq(x) = RXP!packet_seq(x)
BY DEF RX!Slots, RX!Frags, RX!Data, RX!Contents, RX!EmptyEntry, RX!Places, RX!SlotAt,
       RX!EntryAt, RX!modN, RX!Position, RX!packet_seq, RX!Blocks,
       RXP!Slots, RXP!Frags, RXP!Data, RXP!Contents, RXP!EmptyEntry, RXP!Places, RXP!SlotAt,
       RXP!EntryAt, RXP!modN, RXP!Position, RXP!packet_seq, RXP!Blocks

LEMMA SameFound == ASSUME NEW b PROVE RX!Found(b) = RXP!Found(b)
BY SameNames DEF RX!Found, RXP!Found

LEMMA SamePlace ==
  ASSUME NEW b
  PROVE  /\ RX!NewBlocks(b) = RXP!NewBlocks(b) /\ RX!Overridden(b) = RXP!Overridden(b)
         /\ RX!Place(b) = RXP!Place(b) /\ RX!Target(b) = RXP!Target(b)
         /\ RX!AlreadyProcessed(b) = RXP!AlreadyProcessed(b)
<1>1. RX!NewBlocks(b) = RXP!NewBlocks(b) BY SameFound DEF RX!NewBlocks, RXP!NewBlocks
<1>2. RX!Overridden(b) = RXP!Overridden(b) BY <1>1 DEF RX!Overridden, RXP!Overridden
<1>3. RX!Place(b) = RXP!Place(b)
  BY DEF RX!Place, RX!Found, RX!NewBlocks, RX!EntryAt, RX!SlotAt, RX!modN, RX!Places,
         RXP!Place, RXP!Found, RXP!NewBlocks, RXP!EntryAt, RXP!SlotAt, RXP!modN, RXP!Places
<1>4. RX!Target(b) = RXP!Target(b) BY SameFound, <1>3, SameNames DEF RX!Target, RXP!Target
<1>5. RX!AlreadyProcessed(b) = RXP!AlreadyProcessed(b)
  BY SameFound DEF RX!AlreadyProcessed, RXP!AlreadyProcessed
<1> QED BY <1>1, <1>2, <1>3, <1>4, <1>5

LEMMA SameStored ==
  ASSUME NEW b, NEW f
  PROVE  /\ RX!Stored(b, f) = RXP!Stored(b, f) /\ RX!YieldedTo(b, f) = RXP!YieldedTo(b, f)
         /\ RX!Decodes(b, f) = RXP!Decodes(b, f) /\ RX!Finishes(b, f) = RXP!Finishes(b, f)
         /\ RX!FecApplied(b, f) = RXP!FecApplied(b, f)
         /\ RX!Removed(b, f) = RXP!Removed(b, f) /\ RX!SentTo(b, f) = RXP!SentTo(b, f)
         /\ RX!NewEntry(b, f) = RXP!NewEntry(b, f) /\ RX!Flushed(b, f) = RXP!Flushed(b, f)
<1>1. RX!Stored(b, f) = RXP!Stored(b, f) BY SamePlace DEF RX!Stored, RXP!Stored
<1>2. \A m, s : RX!FirstGap(m, s) = RXP!FirstGap(m, s) BY DEF RX!FirstGap, RXP!FirstGap
<1>3. RX!YieldedTo(b, f) = RXP!YieldedTo(b, f)
  BY SamePlace, <1>1, <1>2 DEF RX!YieldedTo, RXP!YieldedTo
<1>4. RX!Decodes(b, f) = RXP!Decodes(b, f) BY SamePlace, <1>3 DEF RX!Decodes, RXP!Decodes
<1>5. RX!Finishes(b, f) = RXP!Finishes(b, f) BY <1>3, <1>4 DEF RX!Finishes, RXP!Finishes
<1>6. RX!FecApplied(b, f) = RXP!FecApplied(b, f)
  BY <1>1, <1>3, <1>4 DEF RX!FecApplied, RXP!FecApplied
<1>7. RX!Removed(b, f) = RXP!Removed(b, f) BY SamePlace, <1>5 DEF RX!Removed, RXP!Removed
<1>8. RX!SentTo(b, f) = RXP!SentTo(b, f) BY <1>3, <1>5 DEF RX!SentTo, RXP!SentTo
<1>9. RX!NewEntry(b, f) = RXP!NewEntry(b, f)
  BY SamePlace, <1>1, <1>8 DEF RX!NewEntry, RXP!NewEntry
<1>10. RX!Flushed(b, f) = RXP!Flushed(b, f) BY SamePlace, <1>4 DEF RX!Flushed, RXP!Flushed
<1> QED BY <1>1, <1>3, <1>4, <1>5, <1>6, <1>7, <1>8, <1>9, <1>10

LEMMA SamePushed == ASSUME NEW b, NEW s PROVE RX!Pushed(b, s) = RXP!Pushed(b, s)
BY DEF RX!Pushed, RX!NewBlocks, RX!Found, RX!EntryAt, RX!SlotAt, RX!modN, RX!Places,
       RX!EmptyEntry, RXP!Pushed, RXP!NewBlocks, RXP!Found, RXP!EntryAt, RXP!SlotAt,
       RXP!modN, RXP!Places, RXP!EmptyEntry

LEMMA SameRecovered == ASSUME NEW bufs, NEW m PROVE RX!Recovered(bufs, m) = RXP!Recovered(bufs, m)
BY SameNames DEF RX!Recovered, RXP!Recovered

LEMMA SameBuffers == ASSUME NEW k, NEW b, NEW f PROVE RX!Buffers(k, b, f) = RXP!Buffers(k, b, f)
BY SameRecovered, SameStored, SamePlace, SameNames DEF RX!Buffers, RXP!Buffers

LEMMA SameUnsent == ASSUME NEW e PROVE RX!Unsent(e) = RXP!Unsent(e)
BY SameNames DEF RX!Unsent, RXP!Unsent

LEMMA SameFlushSends == ASSUME NEW b, NEW f PROVE RX!FlushSends(b, f) = RXP!FlushSends(b, f)
BY SameUnsent, SameStored, SameNames DEF RX!FlushSends, RXP!FlushSends, RX!Sent, RXP!Sent

LEMMA SameBlockSends ==
  ASSUME NEW k, NEW b, NEW f PROVE RX!BlockSends(k, b, f) = RXP!BlockSends(k, b, f)
BY SameBuffers, SameStored, SamePlace DEF RX!BlockSends, RXP!BlockSends, RX!Sent, RXP!Sent

LEMMA SameSends == ASSUME NEW k, NEW b, NEW f PROVE RX!Sends(k, b, f) = RXP!Sends(k, b, f)
BY SameFlushSends, SameBlockSends DEF RX!Sends, RXP!Sends

LEMMA SameLast ==
  ASSUME NEW S
  PROVE  RX!LastOf(S) = RXP!LastOf(S) /\ RX!Corruptible(S) = RXP!Corruptible(S)
BY DEF RX!LastOf, RXP!LastOf, RX!Corruptible, RXP!Corruptible

LEMMA SameLosses == ASSUME NEW S PROVE RX!Losses(S) = RXP!Losses(S)
BY DEF RX!Losses, RX!MapThenSumSet, RX!MapThenFoldSet, RX!LostBefore, RX!LastOf,
       RX!packet_seq, RX!Position, RXP!Losses, RXP!MapThenSumSet, RXP!MapThenFoldSet,
       RXP!LostBefore, RXP!LastOf, RXP!packet_seq, RXP!Position

LEMMA SameCardinality ==
  ASSUME NEW S PROVE RX!Cardinality(S) = Cardinality(S) /\ RXP!Cardinality(S) = Cardinality(S)
BY DEF RX!Cardinality, RXP!Cardinality, Cardinality

LEMMA SameNewData ==
  ASSUME NEW k, NEW b, NEW f, NEW A, RX!NewData(k, b, f, A) PROVE RXP!NewData(k, b, f, A)
<1>1. /\ RX!Receive = RXP!Receive /\ RX!Accepted(k) = RXP!Accepted(k)
      /\ RX!log_rssi(A) = RXP!log_rssi(A)
  BY DEF RX!Receive, RXP!Receive, RX!Accepted, RXP!Accepted, RX!log_rssi, RXP!log_rssi
<1>2. [s \in RX!Slots |-> IF s = RX!SlotAt(RX!Place(b)) THEN RX!NewEntry(b, f)
                                                        ELSE RX!Pushed(b, s)]
      = [s \in RXP!Slots |-> IF s = RXP!SlotAt(RXP!Place(b)) THEN RXP!NewEntry(b, f)
                                                            ELSE RXP!Pushed(b, s)]
  BY SameNames, SamePlace, SameStored, SamePushed
<1>3. /\ RXP!Receive /\ RXP!Accepted(k)
      /\ ~RXP!AlreadyProcessed(b) /\ f \notin RXP!Target(b).fragment_map
      /\ RXP!log_rssi(A) /\ UNCHANGED session_key
      /\ rx_ring' = [s \in RXP!Slots |-> IF s = RXP!SlotAt(RXP!Place(b)) THEN RXP!NewEntry(b, f)
                                                                     ELSE RXP!Pushed(b, s)]
  BY <1>1, <1>2, SamePlace DEF RX!NewData
<1>4. /\ fragments' = [fragments EXCEPT ![RXP!SlotAt(RXP!Place(b))] = RXP!Buffers(k, b, f)]
      /\ rx_ring_front' = RXP!modN(rx_ring_front + RXP!Removed(b, f))
      /\ rx_ring_alloc' = rx_ring_alloc + RXP!NewBlocks(b) - RXP!Removed(b, f)
      /\ last_known_block' = IF RXP!Found(b) = {} THEN b ELSE last_known_block
  BY SameNames, SamePlace, SameStored, SameFound, SameBuffers DEF RX!NewData
<1> DEFINE R == RX!Sends(k, b, f)
           S == RXP!Sends(k, b, f)
<1>5. PICK corrupted \in SUBSET RX!Corruptible(R) :
        /\ out' = R \ corrupted
        /\ seq' = IF R = {} THEN seq ELSE RX!packet_seq(RX!LastOf(R))
        /\ high' = IF R = {} THEN high ELSE RX!Position(RX!LastOf(R))
        /\ count_p' = [count_p EXCEPT
             !.all = @ + 1, !.dec_ok = @ + 1,
             !.fec_recovered = IF RX!FecApplied(b, f) THEN @ + FecK - RX!YieldedTo(b, f) ELSE @,
             !.lost = @ + RX!Losses(R),
             !.bad = @ + RX!Cardinality(corrupted)]
  BY DEF RX!NewData
<1>6. R = S
  BY SameSends
<1> HIDE DEF R
<1>7. /\ corrupted \in SUBSET RXP!Corruptible(S)
      /\ out' = S \ corrupted
      /\ seq' = IF S = {} THEN seq ELSE RXP!packet_seq(RXP!LastOf(S))
      /\ high' = IF S = {} THEN high ELSE RXP!Position(RXP!LastOf(S))
      /\ count_p' = [count_p EXCEPT
           !.all = @ + 1, !.dec_ok = @ + 1,
           !.fec_recovered = IF RXP!FecApplied(b, f) THEN @ + FecK - RXP!YieldedTo(b, f) ELSE @,
           !.lost = @ + RXP!Losses(S),
           !.bad = @ + RXP!Cardinality(corrupted)]
  <2> HIDE DEF S
  <2> QED  BY <1>5, <1>6, SameNames, SameLast, SameLosses, SameStored, SameCardinality
<1> QED  BY <1>3, <1>4, <1>7 DEF RXP!NewData

LEMMA SameDrops ==
  /\ \A hit : RX!Drops(hit) => RXP!Drops(hit)
  /\ \A A : RX!log_rssi(A) = RXP!log_rssi(A)
  /\ \A k : RX!Accepted(k) = RXP!Accepted(k)
BY DEF RX!Drops, RX!Receive, RX!ring, RX!log_rssi, RX!Accepted, RXP!Drops, RXP!Receive,
       RXP!ring, RXP!log_rssi, RXP!Accepted

LEMMA SameUndecryptableData ==
  ASSUME NEW k, RX!UndecryptableData(k) PROVE RXP!UndecryptableData(k)
BY SameDrops DEF RX!UndecryptableData, RXP!UndecryptableData

LEMMA SameBadIndexData ==
  ASSUME NEW k, NEW A, RX!BadIndexData(k, A) PROVE RXP!BadIndexData(k, A)
BY SameDrops DEF RX!BadIndexData, RXP!BadIndexData

LEMMA SameKnownData ==
  ASSUME NEW k, NEW b, NEW f, NEW A, RX!KnownData(k, b, f, A) PROVE RXP!KnownData(k, b, f, A)
BY SameDrops, SamePlace DEF RX!KnownData, RXP!KnownData

LEMMA SameSessionKey == ASSUME NEW k, RX!SessionKey(k) PROVE RXP!SessionKey(k)
BY SameNames DEF RX!SessionKey, RX!Receive, RX!ring, RXP!SessionKey, RXP!Receive, RXP!ring
-----------------------------------------------------------------------------
(***************************************************************************)
(* A card keeps the order of what it hears                                 *)
(***************************************************************************)
Apart(S) == \A x, y \in S : x.at \in Nat /\ (x.at = y.at => x = y)
Earlier(x, S) == {y \in S : y.at < x.at}

LEMMA EarlierFacts ==
  ASSUME NEW S, IsFiniteSet(S), Apart(S), NEW x \in S
  PROVE  /\ IsFiniteSet(Earlier(x, S))
         /\ Cardinality(Earlier(x, S)) \in 0..(Cardinality(S) - 1)
         /\ \A y \in S : x.at < y.at => Cardinality(Earlier(x, S)) < Cardinality(Earlier(y, S))
<1>1. ASSUME NEW y \in S
      PROVE  /\ IsFiniteSet(Earlier(y, S))
             /\ Cardinality(Earlier(y, S)) \in 0..(Cardinality(S) - 1)
  <2>1. Earlier(y, S) \subseteq S \ {y}
    BY DEF Apart, Earlier
  <2>2. IsFiniteSet(S \ {y}) /\ Cardinality(S \ {y}) = Cardinality(S) - 1
    BY FS_RemoveElement
  <2>3. IsFiniteSet(Earlier(y, S)) /\ Cardinality(Earlier(y, S)) <= Cardinality(S) - 1
    BY <2>1, <2>2, FS_Subset
  <2>4. Cardinality(Earlier(y, S)) \in Nat /\ Cardinality(S) \in Nat
    BY <2>3, FS_CardinalityType
  <2> QED  BY <2>3, <2>4
<1>2. ASSUME NEW y \in S, x.at < y.at
      PROVE  Cardinality(Earlier(x, S)) < Cardinality(Earlier(y, S))
  <2>1. Earlier(x, S) \cup {x} \subseteq Earlier(y, S) /\ x \notin Earlier(x, S)
    BY <1>2 DEF Apart, Earlier
  <2>2. IsFiniteSet(Earlier(x, S)) /\ IsFiniteSet(Earlier(y, S))
    BY <1>1
  <2>3. Cardinality(Earlier(x, S) \cup {x}) = Cardinality(Earlier(x, S)) + 1
    BY <2>1, <2>2, FS_AddElement
  <2>4. Cardinality(Earlier(x, S) \cup {x}) <= Cardinality(Earlier(y, S))
    BY <2>1, <2>2, FS_Subset
  <2>5. Cardinality(Earlier(x, S)) \in Nat /\ Cardinality(Earlier(y, S)) \in Nat
    BY <2>2, FS_CardinalityType
  <2> QED  BY <2>3, <2>4, <2>5
<1> QED  BY <1>1, <1>2

\* Counting the earlier ones numbers the packets from 0 on, in the order of their turns.
LEMMA RanksExist ==
  ASSUME NEW S, IsFiniteSet(S), Apart(S)
  PROVE  \E n \in Nat : \E rank \in [S -> 0..(n - 1)] :
           /\ InOrderOfAir(S) = [i \in 1..n |-> CHOOSE x \in S : rank[x] = i - 1]
           /\ \A x, y \in S : rank[x] < rank[y] <=> x.at < y.at
           /\ \A r \in 0..(n - 1) : \E x \in S : rank[x] = r
<1> DEFINE n == Cardinality(S)
           rank == [x \in S |-> Cardinality(Earlier(x, S))]
<1>1. n \in Nat /\ rank \in [S -> 0..(n - 1)]
  BY EarlierFacts, FS_CardinalityType
<1>2. \A x, y \in S : x.at < y.at => rank[x] < rank[y]
  BY EarlierFacts
<1>3. InOrderOfAir(S) = [i \in 1..n |-> CHOOSE x \in S : rank[x] = i - 1]
  <2>1. \A x \in S : rank[x] = Cardinality({y \in S : y.at < x.at})
    BY DEF Earlier
  <2>2. \A i \in 1..n : (CHOOSE x \in S : rank[x] = i - 1)
                        = CHOOSE x \in S : Cardinality({y \in S : y.at < x.at}) = i - 1
    BY <2>1
  <2> QED  BY <2>2 DEF InOrderOfAir
<1>4. IsFiniteSet(0..(n - 1)) /\ Cardinality(0..(n - 1)) = n
  <2>1. 0 \in Int /\ n - 1 \in Int
    BY <1>1
  <2> HIDE DEF n
  <2> QED  BY <1>1, <2>1, FS_Interval
<1> HIDE DEF rank
<1>5. \A x, y \in S : rank[x] < rank[y] <=> x.at < y.at
  <2> HIDE DEF n
  <2> TAKE x, y \in S
  <2>1. x.at \in Nat /\ y.at \in Nat /\ (x.at = y.at => x = y)
    BY DEF Apart
  <2>2. rank[x] \in Int /\ rank[y] \in Int
    BY <1>1
  <2> QED  BY <1>2, <2>1, <2>2
<1>6. rank \in Injection(S, 0..(n - 1))
  <2> HIDE DEF n
  <2>1. ASSUME NEW x \in S, NEW y \in S, rank[x] = rank[y] PROVE x = y
    <3>1. x.at \in Nat /\ y.at \in Nat /\ (x.at = y.at => x = y)
      BY DEF Apart
    <3>2. rank[x] \in Int
      BY <1>1
    <3> QED  BY <1>2, <2>1, <3>1, <3>2
  <2> QED  BY <1>1, <2>1 DEF Injection, IsInjective
<1>7. rank \in Surjection(S, 0..(n - 1))
  BY <1>4, <1>6, FS_Injection
<1> HIDE DEF n
<1>8. \A r \in 0..(n - 1) : \E x \in S : rank[x] = r
  BY <1>7 DEF Surjection
<1> QED  BY <1>1, <1>3, <1>5, <1>8

LEMMA AirOrder ==
  ASSUME NEW S, IsFiniteSet(S), Apart(S), NEW e, e = InOrderOfAir(S)
  PROVE  /\ e \in Seq(S)
         /\ \A x \in S : \E i \in 1..Len(e) : e[i] = x
         /\ \A i, j \in 1..Len(e) : i < j => e[i].at < e[j].at
<1>1. PICK n \in Nat : \E rank \in [S -> 0..(n - 1)] :
        /\ e = [i \in 1..n |-> CHOOSE x \in S : rank[x] = i - 1]
        /\ \A x, y \in S : rank[x] < rank[y] <=> x.at < y.at
        /\ \A r \in 0..(n - 1) : \E x \in S : rank[x] = r
  BY RanksExist
<1>2. PICK rank \in [S -> 0..(n - 1)] :
        /\ e = [i \in 1..n |-> CHOOSE x \in S : rank[x] = i - 1]
        /\ \A x, y \in S : rank[x] < rank[y] <=> x.at < y.at
        /\ \A r \in 0..(n - 1) : \E x \in S : rank[x] = r
  BY <1>1
<1>3. ASSUME NEW i \in 1..n PROVE e[i] \in S /\ rank[e[i]] = i - 1
  <2>1. i - 1 \in 0..(n - 1)
    OBVIOUS
  <2> QED  BY <1>2, <2>1
<1>4. e \in Seq(S) /\ Len(e) = n
  <2>1. e \in [1..n -> S]
    BY <1>2, <1>3
  <2> QED  BY <2>1
<1>5. ASSUME NEW x \in S PROVE \E i \in 1..Len(e) : e[i] = x
  <2>1. rank[x] \in 0..(n - 1) /\ rank[x] + 1 \in 1..n
    OBVIOUS
  <2>2. PICK i \in 1..n : i = rank[x] + 1
    BY <2>1
  <2>3. e[i] \in S /\ rank[e[i]] = rank[x]
    BY <1>3, <2>1, <2>2
  <2>4. e[i].at \in Nat /\ x.at \in Nat /\ (x.at = e[i].at => x = e[i])
    BY <2>3 DEF Apart
  <2>5. ~(x.at < e[i].at) /\ ~(e[i].at < x.at)
    BY <1>2, <2>1, <2>3
  <2> QED  BY <1>4, <2>4, <2>5
<1>6. ASSUME NEW i \in 1..Len(e), NEW j \in 1..Len(e), i < j PROVE e[i].at < e[j].at
  BY <1>2, <1>3, <1>4, <1>6
<1> QED  BY <1>4, <1>5, <1>6
-----------------------------------------------------------------------------
(***************************************************************************)
(* Sequences                                                               *)
(***************************************************************************)
IsSequence(q) == \E T : q \in Seq(T)

LEMMA TailFacts ==
  ASSUME NEW q, IsSequence(q), q # <<>>
  PROVE  /\ IsSequence(Tail(q)) /\ Len(q) \in Nat /\ Len(q) > 0
         /\ Head(q) = q[1] /\ Len(Tail(q)) = Len(q) - 1
         /\ \A i \in 1..Len(Tail(q)) : i + 1 \in 1..Len(q) /\ Tail(q)[i] = q[i + 1]
<1>1. PICK T : q \in Seq(T)
  BY DEF IsSequence
<1> QED  BY <1>1 DEF IsSequence

LEMMA ConcatFacts ==
  ASSUME NEW q, IsSequence(q), NEW S, NEW e \in Seq(S)
  PROVE  /\ IsSequence(q \o e) /\ Len(q) \in Nat /\ Len(e) \in Nat
         /\ Len(q \o e) = Len(q) + Len(e)
         /\ \A i \in 1..Len(q) : (q \o e)[i] = q[i]
         /\ \A i \in 1..Len(e) : (q \o e)[Len(q) + i] = e[i]
<1>1. PICK T : q \in Seq(T)
  BY DEF IsSequence
<1>2. q \in Seq(T \cup S) /\ e \in Seq(T \cup S)
  BY <1>1
<1>3. q \o e \in Seq(T \cup S)
  BY <1>2
<1>4. IsSequence(q \o e)
  BY <1>3 DEF IsSequence
<1>5. /\ Len(q) \in Nat /\ Len(e) \in Nat /\ Len(q \o e) = Len(q) + Len(e)
      /\ \A i \in 1..(Len(q) + Len(e)) : (q \o e)[i] = IF i <= Len(q) THEN q[i] ELSE e[i - Len(q)]
  BY <1>2
<1>6. \A i \in 1..Len(q) : (q \o e)[i] = q[i]
  BY <1>5
<1>7. \A i \in 1..Len(e) : (q \o e)[Len(q) + i] = e[i]
  <2> TAKE i \in 1..Len(e)
  <2>1. Len(q) + i \in 1..(Len(q) + Len(e)) /\ ~(Len(q) + i <= Len(q)) /\ (Len(q) + i) - Len(q) = i
    BY <1>5
  <2> QED  BY <1>5, <2>1
<1> QED  BY <1>4, <1>5, <1>6, <1>7
-----------------------------------------------------------------------------
(***************************************************************************)
(* Numbers of datagrams                                                    *)
(***************************************************************************)
LEMMA NumberType == /\ PerSession \in Nat /\ PerSession > 0
                    /\ \A k, p \in Int : Number(k, p) \in Int /\ Number(k, p) = k * PerSession + p
<1>1. MaxBlock + 1 \in Nat \ {0} /\ FecK \in Nat \ {0}
  BY LinkAssumption
<1>2. \A x, y \in Nat \ {0} : x * y \in Nat /\ x * y > 0
  OBVIOUS
<1>3. PerSession \in Nat /\ PerSession > 0
  BY <1>1, <1>2 DEF PerSession
<1> QED  BY <1>3 DEF Number

\* A later session's numbers lie above all of an earlier one.
LEMMA NumberOrder ==
  ASSUME NEW k \in Nat, NEW l \in Nat, k < l, NEW p \in Int, p < PerSession, NEW q \in Int
  PROVE  Number(k, p) < Number(l, 0) /\ Number(l, q) = Number(l, 0) + q
<1>1. PerSession \in Nat
  BY NumberType
<1>2. \A x, y, z \in Int : (x + y + 1) * z = x * z + y * z + z /\ x * z \in Int
  OBVIOUS
<1>3. \A y, z \in Nat : y * z \in Nat
  OBVIOUS
<1>4. PICK d \in Nat : l = k + d + 1
  <2>1. l - k - 1 \in Nat /\ l = k + (l - k - 1) + 1
    OBVIOUS
  <2> QED  BY <2>1
<1>5. l * PerSession = k * PerSession + d * PerSession + PerSession /\ d * PerSession \in Nat
      /\ k * PerSession \in Int
  BY <1>1, <1>2, <1>3, <1>4
<1> QED  BY <1>1, <1>5 DEF Number

LEMMA PositionBound ==
  ASSUME NEW b \in 0..MaxBlock, NEW g \in 0..(FecK - 1)
  PROVE  b * FecK + g \in 0..(PerSession - 1)
<1>1. FecK \in Nat \ {0} /\ MaxBlock \in Nat
  BY LinkAssumption
<1>2. \A x, y \in Nat : x * y \in Nat
  OBVIOUS
<1>3. \A x, y, z \in Int : (x + y + 1) * z = x * z + y * z + z /\ x * z \in Int
  OBVIOUS
<1>4. PICK d \in Nat : MaxBlock = b + d
  <2>1. MaxBlock - b \in Nat /\ MaxBlock = b + (MaxBlock - b)
    BY <1>1
  <2> QED  BY <2>1
<1>5. PerSession = b * FecK + d * FecK + FecK
  BY <1>1, <1>3, <1>4 DEF PerSession
<1>6. b * FecK \in Nat /\ d * FecK \in Nat
  BY <1>1, <1>2
<1> QED  BY <1>1, <1>5, <1>6

\* Datagrams are the fragments below fec_k that were sent.
LEMMA DatagramSent ==
  ASSUME NEW k, NEW b \in 0..MaxBlock, NEW g \in 0..(FecK - 1), TXP!Lies(k, b, g) \in used
  PROVE  Number(k, b * FecK + g) \in Datagrams
<1> DEFINE p == TXP!Lies(k, b, g)
<1>1. g \in 0..255 /\ b \in Nat
  BY LinkAssumption
<1>2. p.key = k /\ p.nonce \div 256 = b /\ p.nonce % 256 = g
  BY <1>1 DEF TXP!Lies
<1>3. p \in {q \in used : q.nonce % 256 < FecK}
  <2> HIDE DEF p
  <2>1. g < FecK
    BY LinkAssumption
  <2>2. p \in used
    BY DEF p
  <2> QED  BY <1>2, <2>1, <2>2
<1> QED  BY <1>2, <1>3 DEF Datagrams

LEMMA DatagramOf ==
  ASSUME TXP!Indexed, NEW d \in Datagrams
  PROVE  \E p \in used, b \in 0..MaxBlock, g \in 0..(FecK - 1) :
           p = TXP!Lies(p.key, b, g) /\ d = Number(p.key, b * FecK + g)
<1>1. PICK p \in used : /\ p.nonce % 256 < FecK
                        /\ d = Number(p.key, (p.nonce \div 256) * FecK + (p.nonce % 256))
  BY DEF Datagrams
<1>2. PICK b \in 0..MaxBlock, g \in TXP!Fragments : p = TXP!Lies(p.key, b, g)
  BY DEF TXP!Indexed
<1>3. g \in 0..255 /\ b \in Nat
  BY LinkAssumption DEF TXP!Fragments
<1>4. p.nonce = b * 256 + g
  BY <1>2 DEF TXP!Lies
<1>5. p.nonce \div 256 = b /\ p.nonce % 256 = g
  BY <1>3, <1>4
<1>6. g \in 0..(FecK - 1) /\ d = Number(p.key, b * FecK + g)
  BY <1>1, <1>3, <1>5, LinkAssumption
<1> QED  BY <1>2, <1>6
-----------------------------------------------------------------------------
(***************************************************************************)
(* The inductive invariant of a link with one card                         *)
(***************************************************************************)
KeyMissed(k) == \E n \in missed : n.key = k /\ n.nonce = KeyNonce

\* Whoever has taken the packets of queue q before the i-th has key k, unless
\* its KEY packet was lost.
Opened(q, i, k) == \/ k = session_key \/ KeyMissed(k)
                   \/ \E j \in 1..(i - 1) : q[j].type = "key" /\ q[j].key = k

\* What waits at a card: packets of the sessions so far, in their order and
\* each behind its key; the current key is on its way unless it is due.
PacketInv(q, i) ==
  /\ q[i].key \in 1..session /\ q[i].key >= session_key
  /\ q[i].type \in {"key", "data"}
  /\ q[i].type = "data" => /\ [key |-> q[i].key, nonce |-> q[i].nonce] \in used
                           /\ Opened(q, i, q[i].key)

QueueInv(q) == /\ IsSequence(q)
               /\ \A i \in 1..Len(q) : PacketInv(q, i)
               /\ \A i, j \in 1..Len(q) : i < j => q[i].key <= q[j].key
               /\ key_age < TXP!TooOld => Opened(q, Len(q) + 1, session)
               /\ session_key \in 0..session

\* The ring holds fragments that were sent.
RingSent == \A b \in 0..MaxBlock, g \in TXP!Fragments :
              RXP!Held(b, g) => TXP!Lies(session_key, b, g) \in used

LinkInv(c) == /\ TXP!GapInv /\ RXP!GenuineInv
              /\ QueueInv(heard[c]) /\ RingSent
              /\ OpensWhatItHears /\ heard \in [Cards -> {heard[d] : d \in Cards}]

\* What was handed over since the receiver started is not past the ring.
LastInv == last \in Int /\ last >= -1 /\ last <= Number(session_key, high)

LEMMA InitLinkInv == ASSUME NEW c \in Cards, Init PROVE LinkInv(c)
<1>1. TXP!GapInv
  BY TXP!InitGapInv, TxAssumptions, SameInits
<1>2. RXP!GenuineInv
  BY RXP!InitGenuineInv, RxAssumptions, SameInits
<1>3. /\ heard = [d \in Cards |-> <<>>] /\ missed = {}
      /\ session = 1 /\ key_age = TXP!TooOld
      /\ session_key = 0 /\ high = -1 /\ rx_ring_alloc = 0
  BY SameInits DEF Init, TXP!Init, RXP!Init
<1>4. heard[c] = <<>> /\ heard \in [Cards -> {heard[d] : d \in Cards}]
  BY <1>3
<1>5. QueueInv(heard[c])
  <2>1. IsSequence(<<>>) /\ Len(<<>>) = 0
    BY DEF IsSequence
  <2>2. TXP!TooOld \in Int
    BY LinkAssumption DEF TXP!TooOld
  <2> QED  BY <1>3, <1>4, <2>1, <2>2 DEF QueueInv
<1>6. RingSent
  BY <1>3 DEF RingSent, RXP!Held, RXP!Places
<1> QED  BY <1>1, <1>2, <1>3, <1>4, <1>5, <1>6 DEF LinkInv, OpensWhatItHears
-----------------------------------------------------------------------------
(***************************************************************************)
(* The receiver takes a packet                                             *)
(***************************************************************************)
LEMMA QueueTakes ==
  ASSUME session \in Nat, NEW c \in Cards, QueueInv(heard[c]), TakesFrom(c),
         heard \in [Cards -> {heard[d] : d \in Cards}],
         missed \subseteq missed',
         session_key' = IF Packet(c).type = "key" THEN Packet(c).key ELSE session_key
  PROVE  /\ PacketInv(heard[c], 1) /\ Packet(c) = heard[c][1]
         /\ Packet(c).type = "data" =>
              session_key = Packet(c).key \/ KeyMissed(Packet(c).key)
         /\ QueueInv(heard[c])' /\ heard' \in [Cards -> {heard'[d] : d \in Cards}]
<1>1. PICK q, r : q = heard[c] /\ r = heard'[c]
  OBVIOUS
<1>2. /\ heard' = [heard EXCEPT ![c] = Tail(q)] /\ q # <<>>
      /\ r = Tail(q) /\ heard' \in [Cards -> {heard'[d] : d \in Cards}]
  BY <1>1 DEF TakesFrom
<1>3. /\ IsSequence(q) /\ IsSequence(r) /\ Len(q) \in Nat /\ Len(q) > 0
      /\ Head(q) = q[1] /\ Len(r) = Len(q) - 1
      /\ \A i \in 1..Len(r) : i + 1 \in 1..Len(q) /\ r[i] = q[i + 1]
  <2>1. IsSequence(q)
    BY <1>1 DEF QueueInv
  <2> QED  BY <1>2, <2>1, TailFacts
<1>4. session' = session /\ used' = used /\ key_age' = key_age /\ TXP!TooOld' = TXP!TooOld
  BY DEF TakesFrom, txVars, TXP!TooOld
<1>5. QueueInv(q)
  BY <1>1
<1>6. PacketInv(q, 1) /\ Packet(c) = q[1]
  BY <1>1, <1>3, <1>5 DEF QueueInv, Packet
<1>7. Packet(c).type = "data" => session_key = Packet(c).key \/ KeyMissed(Packet(c).key)
  BY <1>6 DEF PacketInv, Opened
<1>8. session_key' \in 0..session /\ session_key <= session_key' /\ session_key \in Int
  BY <1>5, <1>6 DEF QueueInv, PacketInv
<1>9. ASSUME NEW i \in 1..(Len(r) + 1), NEW k \in Int, k >= session_key', Opened(q, i + 1, k)
      PROVE  Opened(r, i, k)'
  <2>1. CASE k = session_key
    BY <1>8, <1>9, <2>1 DEF Opened
  <2>2. CASE KeyMissed(k)
    BY <2>2 DEF Opened, KeyMissed
  <2>3. CASE k # session_key /\ \E j \in 1..i : q[j].type = "key" /\ q[j].key = k
    <3>1. PICK j \in 1..i : q[j].type = "key" /\ q[j].key = k
      BY <2>3
    <3>2. CASE j = 1
      BY <1>6, <3>1, <3>2 DEF Opened
    <3>3. CASE j # 1
      <4>1. j - 1 \in 1..(i - 1) /\ j - 1 \in 1..Len(r) /\ (j - 1) + 1 = j
        BY <1>3, <3>3
      <4>2. r[j - 1] = q[j]
        BY <1>3, <4>1
      <4> QED  BY <3>1, <4>1, <4>2 DEF Opened
    <3> QED  BY <3>2, <3>3
  <2>4. (i + 1) - 1 = i
    OBVIOUS
  <2> QED  BY <1>9, <2>1, <2>2, <2>3, <2>4 DEF Opened
<1>10. ASSUME NEW i \in 1..Len(r) PROVE PacketInv(r, i)'
  <2>1. i + 1 \in 1..Len(q) /\ r[i] = q[i + 1] /\ PacketInv(q, i + 1)
    BY <1>3, <1>5 DEF QueueInv
  <2>2. r[i].key >= session_key' /\ r[i].key \in Int
    <3>1. 1 \in 1..Len(q) /\ 1 < i + 1
      BY <1>3
    <3>2. q[1].key <= q[i + 1].key
      BY <1>5, <2>1, <3>1 DEF QueueInv
    <3> QED  BY <1>6, <2>1, <3>2 DEF PacketInv
  <2> QED  BY <1>4, <1>9, <2>1, <2>2 DEF PacketInv
<1>11. \A i, j \in 1..Len(r) : i < j => r[i].key <= r[j].key
  <2> TAKE i, j \in 1..Len(r)
  <2>1. i + 1 \in 1..Len(q) /\ j + 1 \in 1..Len(q) /\ r[i] = q[i + 1] /\ r[j] = q[j + 1]
    BY <1>3
  <2>2. i < j => i + 1 < j + 1
    OBVIOUS
  <2> QED  BY <1>5, <2>1, <2>2 DEF QueueInv
<1>12. key_age < TXP!TooOld => Opened(r, Len(r) + 1, session)'
  <2>1. key_age < TXP!TooOld => Opened(q, (Len(r) + 1) + 1, session)
    BY <1>3, <1>5 DEF QueueInv
  <2>2. Len(r) + 1 \in 1..(Len(r) + 1) /\ session \in Int /\ session >= session_key'
    <3>1. Len(r) \in Nat
      BY <1>3
    <3>2. session \in Int
      OBVIOUS
    <3> QED  BY <1>8, <3>1, <3>2
  <2> QED  BY <1>4, <1>9, <2>1, <2>2
<1>13. QueueInv(r)'
  BY <1>3, <1>4, <1>8, <1>10, <1>11, <1>12 DEF QueueInv
<1>14. QueueInv(heard[c])'
  BY <1>1, <1>13
<1> QED  BY <1>1, <1>2, <1>6, <1>7, <1>14
-----------------------------------------------------------------------------
(***************************************************************************)
(* The transmitter sends                                                   *)
(***************************************************************************)
\* What a card hears of a datagram, in order.
LEMMA HeardInOrder ==
  ASSUME TXP!SendInv, NEW size \in Sizes, NEW S \in SUBSET TXP!Packets(size),
         NEW e, e = InOrderOfAir(S)
  PROVE  /\ e \in Seq(S)
         /\ \A x \in S : \E i \in 1..Len(e) : e[i] = x
         /\ \A i, j \in 1..Len(e) : i < j => e[i].at < e[j].at /\ e[i].key <= e[j].key
<1>1. \A x, y \in S : /\ x.at \in 0..(FecN + 1)
                      /\ x.at = y.at => x = y
                      /\ x.at < y.at => x.key <= y.key
  BY TxAssumptions, TXP!TurnFacts
<1>2. IsFiniteSet(S)
  <2> DEFINE turn == [x \in S |-> x.at]
  <2>1. turn \in Injection(S, 0..(FecN + 1))
    BY <1>1 DEF Injection, IsInjective
  <2>2. IsFiniteSet(0..(FecN + 1))
    <3>1. 0 \in Int /\ FecN + 1 \in Int
      BY LinkAssumption
    <3> QED  BY <3>1, FS_Interval
  <2> HIDE DEF turn
  <2> QED  BY <2>1, <2>2, FS_Injection
<1>3. Apart(S)
  <2>1. FecN \in Nat
    BY LinkAssumption
  <2> QED  BY <1>1, <2>1 DEF Apart
<1>4. /\ e \in Seq(S)
      /\ \A x \in S : \E i \in 1..Len(e) : e[i] = x
      /\ \A i, j \in 1..Len(e) : i < j => e[i].at < e[j].at
  BY <1>2, <1>3, AirOrder
<1>5. \A i \in 1..Len(e) : e[i] \in S
  BY <1>4
<1> QED  BY <1>1, <1>4, <1>5

LEMMA QueueHears ==
  ASSUME TXP!SendInv, NEW c, Cards = {c}, NEW size \in Sizes, TXP!Sends(size), Propagate,
         QueueInv(heard[c]), UNCHANGED session_key
  PROVE  /\ QueueInv(heard[c])'
         /\ heard' \in [Cards -> {heard'[d] : d \in Cards}]
         /\ missed \subseteq missed' /\ \A m \in missed' \ missed : m.why = "lost"
<1>1. PICK H \in [Cards -> SUBSET air'] :
        /\ heard' = [d \in Cards |-> heard[d] \o InOrderOfAir(H[d])]
        /\ missed' = missed \cup {Miss(x, "lost") : x \in air' \ UNION {H[d] : d \in Cards}}
  BY DEF Propagate
<1>2. PICK q, r, S, e : q = heard[c] /\ r = heard'[c] /\ S = H[c] /\ e = InOrderOfAir(S)
  OBVIOUS
<1>3. /\ heard' \in [Cards -> {heard'[d] : d \in Cards}] /\ r = q \o e /\ S \subseteq air'
      /\ missed' = missed \cup {Miss(x, "lost") : x \in air' \ S}
  <2>1. UNION {H[d] : d \in Cards} = S
    BY <1>2
  <2> QED  BY <1>1, <1>2, <2>1
<1>4. /\ air' \subseteq TXP!Packets(size)
      /\ session' \in Nat /\ session <= session'
      /\ \A x \in air' : /\ x.key \in 1..session' /\ x.key >= session
                         /\ x.type \in {"key", "data"}
                         /\ x.type = "data" => [key |-> x.key, nonce |-> x.nonce] \in used'
      /\ key_age' < TXP!TooOld => \/ session' = session /\ key_age < TXP!TooOld
                                  \/ \E x \in air' : x.type = "key" /\ x.key = session'
  BY TxAssumptions, TXP!SentKeys
<1>5. used \subseteq used' /\ session \in Nat
  BY TxAssumptions, TXP!SentNonces DEF TXP!SendInv, TXP!SendType
<1>6. /\ e \in Seq(S)
      /\ \A x \in S : \E i \in 1..Len(e) : e[i] = x
      /\ \A i, j \in 1..Len(e) : i < j => e[i].at < e[j].at /\ e[i].key <= e[j].key
      /\ \A i \in 1..Len(e) : e[i] \in S
  <2>1. S \in SUBSET TXP!Packets(size)
    BY <1>3, <1>4
  <2>2. e \in Seq(S)
    BY <1>2, <2>1, HeardInOrder
  <2>3. \A i \in 1..Len(e) : e[i] \in S
    BY <2>2
  <2> QED  BY <1>2, <2>1, <2>3, HeardInOrder
<1>7. QueueInv(q)
  BY <1>2
<1>8. /\ IsSequence(r) /\ Len(q) \in Nat /\ Len(e) \in Nat /\ Len(r) = Len(q) + Len(e)
      /\ \A i \in 1..Len(q) : r[i] = q[i]
      /\ \A i \in 1..Len(e) : r[Len(q) + i] = e[i]
  <2>1. IsSequence(q) /\ e \in Seq(S)
    BY <1>6, <1>7 DEF QueueInv
  <2> QED  BY <1>3, <2>1, ConcatFacts
<1>9. ASSUME NEW i \in 1..Len(r)
      PROVE  (i \in 1..Len(q) /\ r[i] = q[i])
             \/ \E m \in 1..Len(e) : i = Len(q) + m /\ r[i] = e[m] /\ e[m] \in air'
  <2>1. CASE i <= Len(q)
    BY <1>8, <2>1
  <2>2. CASE ~(i <= Len(q))
    <3>1. PICK m \in 1..Len(e) : i = Len(q) + m
      <4>1. i - Len(q) \in 1..Len(e) /\ i = Len(q) + (i - Len(q))
        BY <1>8, <2>2
      <4> QED  BY <4>1
    <3> QED  BY <1>3, <1>6, <1>8, <3>1
  <2> QED  BY <2>1, <2>2
<1>10. missed \subseteq missed' /\ \A m \in missed' \ missed : m.why = "lost"
  BY <1>3 DEF Miss
\* What was opened stays so, and a KEY packet on the air opens what follows it.
<1>11. ASSUME NEW i \in 1..(Len(q) + 1), NEW j \in Int, i <= j, NEW k, Opened(q, i, k)
       PROVE  Opened(r, j, k)'
  <2>1. CASE k = session_key \/ KeyMissed(k)
    BY <1>10, <2>1 DEF Opened, KeyMissed
  <2>2. CASE \E l \in 1..(i - 1) : q[l].type = "key" /\ q[l].key = k
    <3>1. PICK l \in 1..(i - 1) : q[l].type = "key" /\ q[l].key = k
      BY <2>2
    <3>2. l \in 1..(j - 1) /\ l \in 1..Len(q)
      BY <1>8, <1>11, <3>1
    <3>3. r[l] = q[l]
      BY <1>8, <3>2
    <3> QED  BY <3>1, <3>2, <3>3 DEF Opened
  <2> QED  BY <1>11, <2>1, <2>2 DEF Opened
<1>12. ASSUME NEW y \in air', y.type = "key", NEW j \in Int,
              \A m \in 1..Len(e) : e[m] = y => Len(q) + m < j
       PROVE  Opened(r, j, y.key)'
  <2>1. CASE y \in S
    <3>1. PICK m \in 1..Len(e) : e[m] = y
      BY <1>6, <2>1
    <3>2. Len(q) + m \in 1..(j - 1) /\ r[Len(q) + m] = y
      <4>1. Len(q) + m < j /\ m >= 1 /\ m \in Int
        BY <1>12, <3>1
      <4> QED  BY <1>8, <3>1, <4>1
    <3> QED  BY <1>12, <3>2 DEF Opened
  <2>2. CASE y \notin S
    <3>1. Miss(y, "lost") \in missed'
      BY <1>3, <2>2
    <3>2. Miss(y, "lost").key = y.key /\ Miss(y, "lost").nonce = KeyNonce
      BY <1>12 DEF Miss, Nonce
    <3> QED  BY <3>1, <3>2 DEF Opened, KeyMissed
  <2> QED  BY <2>1, <2>2
<1>13. ASSUME NEW i \in 1..Len(r) PROVE PacketInv(r, i)'
  <2>1. CASE i \in 1..Len(q) /\ r[i] = q[i]
    <3>1. PacketInv(q, i) /\ i \in 1..(Len(q) + 1) /\ i \in Int
      BY <1>7, <1>8, <2>1 DEF QueueInv
    <3>2. Opened(q, i, q[i].key) => Opened(r, i, q[i].key)'
      BY <1>11, <3>1
    <3> QED  BY <1>4, <1>5, <2>1, <3>1, <3>2 DEF PacketInv
  <2>2. CASE \E m \in 1..Len(e) : i = Len(q) + m /\ r[i] = e[m] /\ e[m] \in air'
    <3>1. PICK m \in 1..Len(e) : i = Len(q) + m /\ r[i] = e[m] /\ e[m] \in air'
      BY <2>2
    <3>2. session_key <= session /\ session_key \in Int
      BY <1>5, <1>7 DEF QueueInv
    <3>3. ASSUME e[m].type = "data" PROVE Opened(r, i, e[m].key)'
      <4>1. \/ key_age < AnnounceMsec /\ e[m].key = session
            \/ \E y \in air' : y.type = "key" /\ y.key = e[m].key /\ y.at < e[m].at
        <5>1. TXP!Openable
          BY TxAssumptions, TXP!SendsNext, TXP!NextOpenable
        <5>2. e[m] \in TXP!DataIn(air')
          BY <3>1, <3>3 DEF TXP!DataIn
        <5> QED  BY <5>1, <5>2 DEF TXP!Openable
      <4>2. CASE key_age < AnnounceMsec /\ e[m].key = session
        <5>1. key_age < TXP!TooOld
          <6>1. key_age \in Nat /\ AnnounceMsec \in Nat
            BY LinkAssumption DEF TXP!SendInv, TXP!SendType
          <6> QED  BY <4>2, <6>1 DEF TXP!TooOld
        <5>2. Opened(q, Len(q) + 1, e[m].key)
          BY <1>7, <4>2, <5>1 DEF QueueInv
        <5>3. Len(q) + 1 \in 1..(Len(q) + 1) /\ i \in Int /\ Len(q) + 1 <= i
          BY <1>8, <3>1
        <5> QED  BY <1>11, <5>2, <5>3
      <4>3. CASE \E y \in air' : y.type = "key" /\ y.key = e[m].key /\ y.at < e[m].at
        <5>1. PICK y \in air' : y.type = "key" /\ y.key = e[m].key /\ y.at < e[m].at
          BY <4>3
        <5>2. ASSUME NEW l \in 1..Len(e), e[l] = y PROVE Len(q) + l < i
          <6>1. ~(m < l) /\ m # l
            <7>1. y.at \in Int /\ e[m].at \in Int
              BY <1>4, <3>1, TxAssumptions, TXP!TurnFacts, LinkAssumption
            <7>2. m < l => e[m].at < e[l].at
              BY <1>6
            <7> QED  BY <5>1, <5>2, <7>1, <7>2
          <6> QED  BY <1>8, <3>1, <6>1
        <5>3. i \in Int
          BY <1>8
        <5>4. Opened(r, i, y.key)'
          BY <1>12, <5>1, <5>2, <5>3
        <5> QED  BY <5>1, <5>4
      <4> QED  BY <4>1, <4>2, <4>3
    <3>4. r[i].key >= session_key' /\ r[i].key \in 1..session' /\ r[i].type \in {"key", "data"}
      <4>1. /\ r[i].key \in 1..session' /\ r[i].key >= session
            /\ r[i].type \in {"key", "data"}
        BY <1>4, <3>1
      <4>2. session_key' = session_key /\ session \in Int /\ session' \in Nat
        BY <1>4, <1>5
      <4>3. r[i].key \in Int
        BY <4>1, <4>2
      <4> QED  BY <3>2, <4>1, <4>2, <4>3
    <3>5. r[i].type = "data" => [key |-> r[i].key, nonce |-> r[i].nonce] \in used'
      BY <1>4, <3>1
    <3> QED  BY <3>1, <3>3, <3>4, <3>5 DEF PacketInv
  <2> QED  BY <1>9, <2>1, <2>2
<1>14. ASSUME NEW i \in 1..Len(r), NEW j \in 1..Len(r), i < j PROVE r[i].key <= r[j].key
  <2>1. CASE j \in 1..Len(q)
    BY <1>7, <1>8, <1>14, <2>1 DEF QueueInv
  <2>2. CASE j \notin 1..Len(q)
    <3>1. PICK m \in 1..Len(e) : j = Len(q) + m /\ r[j] = e[m] /\ e[m] \in air'
      BY <1>9, <2>2
    <3>2. CASE i \in 1..Len(q)
      <4>1. r[i].key \in 1..session /\ r[j].key >= session /\ r[j].key \in Int
        <5>1. r[i] = q[i] /\ PacketInv(q, i)
          BY <1>7, <1>8, <3>2 DEF QueueInv
        <5>2. r[i].key \in 1..session
          BY <5>1 DEF PacketInv
        <5>3. r[j].key \in 1..session' /\ r[j].key >= session /\ session' \in Nat
          BY <1>4, <3>1
        <5> QED  BY <5>2, <5>3
      <4> QED  BY <1>5, <4>1
    <3>3. CASE i \notin 1..Len(q)
      <4>1. PICK l \in 1..Len(e) : i = Len(q) + l /\ r[i] = e[l]
        BY <1>9, <3>3
      <4>2. l < m
        BY <1>8, <1>14, <3>1, <4>1
      <4> QED  BY <1>6, <3>1, <4>1, <4>2
    <3> QED  BY <3>2, <3>3
  <2> QED  BY <2>1, <2>2
<1>15. ASSUME key_age' < TXP!TooOld PROVE Opened(r, Len(r) + 1, session)'
  <2>1. CASE session' = session /\ key_age < TXP!TooOld
    <3>1. Opened(q, Len(q) + 1, session)
      BY <1>7, <2>1 DEF QueueInv
    <3>2. Len(q) + 1 \in 1..(Len(q) + 1) /\ Len(r) + 1 \in Int /\ Len(q) + 1 <= Len(r) + 1
      BY <1>8
    <3>3. PICK k : k = session
      OBVIOUS
    <3>4. Opened(q, Len(q) + 1, k)
      BY <3>1, <3>3
    <3>5. Opened(r, Len(r) + 1, k)'
      BY <1>11, <3>2, <3>4
    <3> QED  BY <2>1, <3>3, <3>5
  <2>2. CASE \E x \in air' : x.type = "key" /\ x.key = session'
    <3>1. PICK x \in air' : x.type = "key" /\ x.key = session'
      BY <2>2
    <3>2. Len(r) + 1 \in Int /\ \A m \in 1..Len(e) : Len(q) + m < Len(r) + 1
      BY <1>8
    <3> QED  BY <1>12, <3>1, <3>2
  <2> QED  BY <1>4, <1>15, <2>1, <2>2
<1>16. QueueInv(r)'
  <2>1. session_key' \in 0..session'
    BY <1>4, <1>5, <1>7 DEF QueueInv
  <2> QED  BY <1>8, <1>13, <1>14, <1>15, <2>1 DEF QueueInv
<1>17. QueueInv(heard[c])'
  BY <1>2, <1>16
<1> QED  BY <1>3, <1>10, <1>17
-----------------------------------------------------------------------------
(***************************************************************************)
(* Steps of the transmitter                                                *)
(***************************************************************************)
LEMMA NumberInRange ==
  ASSUME NEW k \in 1..MaxSession, NEW n \in 0..(PerSession - 1)
  PROVE  Number(k, n) \in Numbers
<1>1. /\ PerSession \in Nat /\ k \in Nat /\ MaxSession + 1 \in Nat /\ 1 \in Nat /\ 0 \in Nat
      /\ 0 < 1 /\ k < MaxSession + 1 /\ n \in Int /\ n < PerSession /\ n >= 0
      /\ 0 \in Int /\ 0 < PerSession
  BY NumberType, LinkAssumption
<1>2. Number(k, n) < Number(MaxSession + 1, 0)
  BY <1>1, NumberOrder
<1>3. 1 < k => Number(1, 0) < Number(k, 0) /\ Number(k, n) = Number(k, 0) + n
  BY <1>1, NumberOrder
<1>4. Number(0, 0) < Number(1, 0) /\ Number(1, n) = Number(1, 0) + n
  BY <1>1, NumberOrder
<1>5. /\ Number(1, 0) \in Int /\ Number(k, 0) \in Int /\ Number(MaxSession + 1, 0) \in Int
      /\ Number(k, n) \in Int
  <2>1. 1 \in Int /\ k \in Int /\ MaxSession + 1 \in Int
    BY <1>1
  <2> QED  BY <1>1, <2>1, NumberType
<1>6. Number(1, 0) <= Number(k, n)
  <2>1. k = 1 \/ 1 < k
    OBVIOUS
  <2> QED  BY <1>1, <1>3, <1>4, <1>5, <2>1
<1> QED  BY <1>2, <1>5, <1>6 DEF Numbers

\* What a datagram adds to those sent: itself, past all others, or nothing.
LEMMA DatagramAdded ==
  ASSUME TXP!GapInv, NEW size \in Sizes, TXP!Sends(size)
  PROVE  Datagrams' = Datagrams
         \/ \E d \in Numbers : /\ \A e \in Datagrams : d > e
                               /\ Datagrams' = Datagrams \cup {d}
<1> USE DEF TXP!GapInv
<1>1. /\ used \subseteq used'
      /\ \A p \in used' \ used : \E f \in TXP!Fragments :
           /\ p = TXP!Lies(session, block_idx, f)
           /\ f = fragment_idx \/ f >= FecK
      /\ \A p \in used : p.key < session
                         \/ (p.key = session /\ p.nonce < block_idx * 256 + fragment_idx)
  BY TxAssumptions, TXP!SentNonces
<1>2. /\ session \in 1..MaxSession /\ block_idx \in 0..MaxBlock
      /\ fragment_idx \in 0..(FecK - 1) /\ FecK \in Nat /\ FecK < 256
      /\ \A p \in used : p.key \in Nat
  BY LinkAssumption DEF TXP!SendInv, TXP!SendType
<1> DEFINE d == Number(session, block_idx * FecK + fragment_idx)
           num(p) == Number(p.key, (p.nonce \div 256) * FecK + (p.nonce % 256))
<1>3. /\ Datagrams = {num(p) : p \in {x \in used : x.nonce % 256 < FecK}}
      /\ Datagrams' = {num(p) : p \in {x \in used' : x.nonce % 256 < FecK}}
  BY DEF Datagrams
<1>4. d \in Numbers
  <2>1. PICK n : n = block_idx * FecK + fragment_idx /\ n \in 0..(PerSession - 1)
    BY <1>2, PositionBound
  <2> QED  BY <1>2, <2>1, NumberInRange
<1>5. ASSUME NEW e \in Datagrams PROVE d > e
  <2>1. PICK p \in used, b \in 0..MaxBlock, g \in 0..(FecK - 1) :
          p = TXP!Lies(p.key, b, g) /\ e = Number(p.key, b * FecK + g)
    BY DatagramOf
  <2>2. b * FecK + g \in 0..(PerSession - 1)
    BY PositionBound
  <2>3. block_idx * FecK + fragment_idx \in 0..(PerSession - 1)
    BY <1>2, PositionBound
  <2>4. PerSession \in Nat /\ session \in Nat /\ p.key \in Nat
    BY <1>2, NumberType
  <2>5. CASE p.key < session
    <3>1. e < Number(session, 0) /\ d = Number(session, 0) + (block_idx * FecK + fragment_idx)
      BY <2>1, <2>2, <2>3, <2>4, <2>5, NumberOrder
    <3>2. Number(session, 0) \in Int /\ e \in Int
      <4>1. p.key \in Int /\ session \in Int /\ 0 \in Int /\ b * FecK + g \in Int
        BY <2>2, <2>4
      <4> QED  BY <2>1, <4>1, NumberType
    <3> HIDE DEF d
    <3> QED  BY <2>3, <2>4, <3>1, <3>2
  <2>6. CASE p.key = session /\ p.nonce < block_idx * 256 + fragment_idx
    <3>1. b * 256 + g < block_idx * 256 + fragment_idx
      BY <2>1, <2>6 DEF TXP!Lies
    <3>2. b < block_idx \/ (b = block_idx /\ g < fragment_idx)
      BY <1>2, <3>1
    <3>3. b * FecK + g < block_idx * FecK + fragment_idx
      <4>1. CASE b < block_idx
        <5>1. PICK n \in Nat : block_idx = b + n + 1
          <6>1. block_idx - b - 1 \in Nat /\ block_idx = b + (block_idx - b - 1) + 1
            BY <1>2, <4>1
          <6> QED  BY <6>1
        <5>2. \A x, y, z \in Int : (x + y + 1) * z = x * z + y * z + z /\ x * z \in Int
          OBVIOUS
        <5>3. \A y, z \in Nat : y * z \in Nat
          OBVIOUS
        <5>4. block_idx * FecK = b * FecK + n * FecK + FecK /\ n * FecK \in Nat /\ b * FecK \in Int
          BY <1>2, <5>1, <5>2, <5>3
        <5> QED  BY <1>2, <5>4
      <4>2. CASE b = block_idx /\ g < fragment_idx
        <5>1. b * FecK \in Int /\ g \in Int
          BY <2>2, <1>2
        <5> QED  BY <1>2, <4>2, <5>1
      <4> QED  BY <3>2, <4>1, <4>2
    <3>4. /\ e = session * PerSession + (b * FecK + g)
          /\ d = session * PerSession + (block_idx * FecK + fragment_idx)
      BY <2>1, <2>6 DEF Number
    <3>5. session * PerSession \in Int
      BY <2>4
    <3> HIDE DEF d
    <3> QED  BY <2>2, <2>3, <3>3, <3>4, <3>5
  <2> QED  BY <1>1, <2>5, <2>6
<1>6. ASSUME NEW p \in used' \ used, p.nonce % 256 < FecK PROVE num(p) = d
  <2>1. PICK f \in TXP!Fragments : /\ p = TXP!Lies(session, block_idx, f)
                                   /\ f = fragment_idx \/ f >= FecK
    BY <1>1
  <2>2. f \in 0..255 /\ p.nonce = block_idx * 256 + f /\ p.key = session
    BY <2>1, LinkAssumption DEF TXP!Fragments, TXP!Lies
  <2>3. p.nonce % 256 = f /\ p.nonce \div 256 = block_idx
    BY <1>2, <2>2
  <2>4. f = fragment_idx
    BY <1>2, <1>6, <2>1, <2>2, <2>3
  <2> QED  BY <2>2, <2>3, <2>4
<1>7. Datagrams \subseteq Datagrams' /\ Datagrams' \subseteq Datagrams \cup {d}
  <2> HIDE DEF d, num
  <2> QED  BY <1>1, <1>3, <1>6
<1> HIDE DEF d, num
<1> QED  BY <1>4, <1>5, <1>7

\* What the ring holds stays sent while the ring stays.
LEMMA RingRests ==
  ASSUME RingSent, UNCHANGED <<RXP!ring, session_key, high>>, used \subseteq used'
  PROVE  RingSent' /\ (LastInv /\ UNCHANGED last => LastInv')
<1>1. RingSent'
  BY DEF RingSent, RXP!Held, RXP!Places, RXP!EntryAt, RXP!SlotAt, RXP!modN, RXP!ring, TXP!Lies,
         TXP!Fragments
<1>2. LastInv /\ UNCHANGED last => LastInv'
  BY DEF LastInv, Number
<1> QED  BY <1>1, <1>2

\* While the receiver takes nothing, what it holds stays.
LEMMA ReceiverRests ==
  ASSUME RXP!GenuineInv, RingSent, OpensWhatItHears, UNCHANGED rxVars,
         used \subseteq used', missed \subseteq missed',
         \A m \in missed' \ missed : m.why = "lost"
  PROVE  RXP!GenuineInv' /\ RingSent' /\ OpensWhatItHears'
<1>1. UNCHANGED RXP!vars
  BY DEF rxVars, RXP!vars, RXP!ring
<1>2. RXP!GenuineInv'
  BY <1>1, RxAssumptions, RXP!NextGenuineInv
<1>3. RingSent'
  <2>1. UNCHANGED <<RXP!ring, session_key, high>>
    BY <1>1 DEF RXP!vars, RXP!ring
  <2> QED  BY <2>1, RingRests
<1>4. OpensWhatItHears'
  <2> SUFFICES ASSUME NEW m \in missed', m.why = "unread"
               PROVE  \E n \in missed' : n.key = m.key /\ n.nonce = KeyNonce
    BY DEF OpensWhatItHears, KeyNonce
  <2>1. m \in missed
    OBVIOUS
  <2> QED  BY <2>1 DEF OpensWhatItHears
<1> QED  BY <1>2, <1>3, <1>4

LEMMA SendStep ==
  ASSUME NEW c, Cards = {c}, LinkInv(c), Send
  PROVE  LinkInv(c)'
<1>1. PICK size \in Sizes : TXP!Sends(size)
  <2>1. CASE \E size \in Sizes : TX!Datagram(size)
    BY <2>1, SameDatagram DEF TXP!Sends
  <2>2. CASE \E size \in Sizes, cut \in 0..(FecN + 1) : TX!InjectFails(size, cut)
    BY <2>2, SameInjectFails DEF TXP!Sends
  <2> QED  BY <2>1, <2>2 DEF Send
<1>2. Propagate /\ UNCHANGED <<rxVars, rx_starts, delivered, last>>
  BY DEF Send
<1>3. TXP!GapInv'
  BY <1>1, TxAssumptions, TXP!SendsNext, TXP!NextGapInv DEF LinkInv
<1>4. UNCHANGED session_key /\ TXP!SendInv
  BY <1>2 DEF rxVars, LinkInv, TXP!GapInv
<1>5. /\ QueueInv(heard[c])' /\ heard' \in [Cards -> {heard'[d] : d \in Cards}]
      /\ missed \subseteq missed' /\ \A m \in missed' \ missed : m.why = "lost"
  BY <1>1, <1>2, <1>4, QueueHears DEF LinkInv
<1>6. used \subseteq used'
  BY <1>1, <1>4, TxAssumptions, TXP!SentNonces
<1>7. RXP!GenuineInv' /\ RingSent' /\ OpensWhatItHears'
  BY <1>2, <1>5, <1>6, ReceiverRests DEF LinkInv
<1> QED  BY <1>3, <1>5, <1>7 DEF LinkInv

\* The transmitter starts again, time passes, or nothing happens.
LEMMA AloneFacts ==
  ASSUME TXP!GapInv, TXP!Restart \/ TXP!Tick \/ UNCHANGED txVars
  PROVE  /\ TXP!GapInv'
         /\ used' = used /\ session' \in Nat /\ session \in Nat /\ session <= session'
         /\ key_age' < TXP!TooOld => session' = session /\ key_age < TXP!TooOld
<1>1. TXP!GapInv'
  BY TxAssumptions, TXP!NextGapInv DEF TXP!Next, txVars, TXP!vars
<1>2. session \in Nat /\ key_age \in Nat /\ AnnounceMsec \in Nat
  BY LinkAssumption DEF TXP!GapInv, TXP!SendInv, TXP!SendType
<1>3. CASE TXP!Restart
  <2>1. session' = session + 1 /\ used' = used /\ key_age' = TXP!TooOld
    BY <1>2, <1>3 DEF TXP!Restart, TXP!Observe, TXP!DataIn, TXP!KeysIn
  <2> QED  BY <1>1, <1>2, <2>1 DEF TXP!TooOld
<1>4. CASE TXP!Tick
  BY <1>1, <1>2, <1>4 DEF TXP!Tick, TXP!TooOld
<1>5. CASE UNCHANGED txVars
  BY <1>1, <1>2, <1>5 DEF txVars, TXP!TooOld
<1> QED  BY <1>3, <1>4, <1>5

LEMMA AloneStep ==
  ASSUME NEW c \in Cards, LinkInv(c), TXP!Restart \/ TXP!Tick \/ UNCHANGED txVars,
         UNCHANGED <<rxVars, heard, rx_starts, history>>
  PROVE  LinkInv(c)'
<1>1. TXP!GapInv'
  BY AloneFacts DEF LinkInv
<1>2. /\ used' = used /\ session' \in Nat /\ session \in Nat /\ session <= session'
      /\ key_age' < TXP!TooOld => session' = session /\ key_age < TXP!TooOld
  BY AloneFacts DEF LinkInv
<1>3. /\ heard' = heard /\ missed' = missed /\ session_key' = session_key
      /\ UNCHANGED rxVars
  BY DEF history, rxVars
<1>4. QueueInv(heard[c])'
  <2>1. PICK q : q = heard[c]
    OBVIOUS
  <2>2. QueueInv(q)
    BY <2>1 DEF LinkInv
  <2>3. ASSUME NEW i, NEW k, Opened(q, i, k) PROVE Opened(q, i, k)'
    BY <1>3, <2>3 DEF Opened, KeyMissed
  <2>4. ASSUME NEW i \in 1..Len(q) PROVE PacketInv(q, i)'
    <3>1. PacketInv(q, i)
      BY <2>2 DEF QueueInv
    <3>2. q[i].key \in 1..session'
      BY <1>2, <3>1 DEF PacketInv
    <3> QED  BY <1>2, <1>3, <2>3, <3>1, <3>2 DEF PacketInv
  <2>5. key_age' < TXP!TooOld => Opened(q, Len(q) + 1, session)'
    <3>1. PICK k : k = session
      OBVIOUS
    <3>2. key_age' < TXP!TooOld => Opened(q, Len(q) + 1, k)
      BY <1>2, <2>2, <3>1 DEF QueueInv
    <3>3. key_age' < TXP!TooOld => Opened(q, Len(q) + 1, k)'
      BY <2>3, <3>2
    <3> QED  BY <1>2, <3>1, <3>3
  <2>6. session_key' \in 0..session'
    BY <1>2, <1>3, <2>2 DEF QueueInv
  <2>7. QueueInv(q)'
    BY <2>2, <2>4, <2>5, <2>6 DEF QueueInv
  <2> QED  BY <1>3, <2>1, <2>7
<1>5. RXP!GenuineInv' /\ RingSent' /\ OpensWhatItHears'
  BY <1>2, <1>3, ReceiverRests DEF LinkInv
<1> QED  BY <1>1, <1>3, <1>4, <1>5 DEF LinkInv
-----------------------------------------------------------------------------
(***************************************************************************)
(* Steps of the receiver                                                   *)
(***************************************************************************)
LEMMA NumberRises ==
  ASSUME NEW k \in Nat, NEW p \in Int, NEW q \in Int
  PROVE  /\ Number(k, p) \in Int /\ Number(k, q) \in Int
         /\ p < q => Number(k, p) < Number(k, q)
         /\ p <= q => Number(k, p) <= Number(k, q)
<1>1. k * PerSession \in Int
  BY NumberType
<1> QED  BY <1>1 DEF Number

LEMMA TransmitterRests ==
  ASSUME TXP!GapInv, UNCHANGED txVars
  PROVE  /\ TXP!GapInv' /\ Datagrams' = Datagrams
         /\ session' = session /\ used' = used /\ session \in 1..MaxSession /\ session \in Nat
<1>1. UNCHANGED TXP!vars
  BY DEF txVars, TXP!vars
<1>2. TXP!GapInv'
  BY <1>1, TxAssumptions, TXP!NextGapInv
<1>3. session' = session /\ used' = used
  BY DEF txVars
<1>4. Datagrams' = Datagrams
  BY <1>3 DEF Datagrams, Number
<1>5. session \in 1..MaxSession /\ session \in Nat
  BY LinkAssumption DEF TXP!GapInv, TXP!SendInv, TXP!SendType
<1> QED  BY <1>2, <1>3, <1>4, <1>5

LEMMA HighFacts ==
  ASSUME RXP!GenuineInv PROVE high \in Int /\ high < PerSession /\ RXP!SendInv /\ RXP!RingInv
<1>1. RXP!SendInv
  BY DEF RXP!GenuineInv, RXP!HoldInv
<1>2. high < (MaxBlock + 1) * FecK
  BY <1>1, RxAssumptions, RXP!HighBound
<1> QED  BY <1>1, <1>2 DEF RXP!SendInv, PerSession

\* A packet that changes nothing but counters.
LEMMA DropStep ==
  ASSUME NEW c \in Cards, LinkInv(c), TakesFrom(c), Packet(c).type = "data", RXP!Next,
         out' = {}, UNCHANGED <<RXP!ring, fragments, session_key, high>>,
         missed' = missed \/ /\ missed' = missed \cup {Miss(Packet(c), "unread")}
                             /\ Packet(c).key # session_key
  PROVE  LinkInv(c)'
<1>1. TXP!GapInv' /\ used' = used /\ session \in Nat
  BY TransmitterRests DEF LinkInv, TakesFrom
<1>2. missed \subseteq missed'
  OBVIOUS
<1>3. session_key' = IF Packet(c).type = "key" THEN Packet(c).key ELSE session_key
  OBVIOUS
<1>4. /\ QueueInv(heard[c])' /\ heard' \in [Cards -> {heard'[d] : d \in Cards}]
      /\ Packet(c).key = session_key \/ KeyMissed(Packet(c).key)
  BY <1>1, <1>2, <1>3, QueueTakes DEF LinkInv
<1>5. RXP!GenuineInv'
  BY RxAssumptions, RXP!NextGenuineInv DEF LinkInv
<1>6. RingSent'
  BY <1>1, RingRests DEF LinkInv
<1>7. OpensWhatItHears'
  <2> SUFFICES ASSUME NEW m \in missed', m.why = "unread"
               PROVE  \E n \in missed' : n.key = m.key /\ n.nonce = KeyNonce
    BY DEF OpensWhatItHears, KeyNonce
  <2>1. CASE m \in missed
    BY <1>2, <2>1 DEF LinkInv, OpensWhatItHears
  <2>2. CASE m = Miss(Packet(c), "unread") /\ Packet(c).key # session_key
    <3>1. m.key = Packet(c).key /\ KeyMissed(Packet(c).key)
      BY <1>4, <2>2 DEF Miss
    <3> QED  BY <1>2, <3>1 DEF KeyMissed
  <2> QED  BY <2>1, <2>2
<1> QED  BY <1>1, <1>2, <1>4, <1>5, <1>6, <1>7 DEF LinkInv

\* What a new fragment makes the receiver hand over was sent, and is new to the stream.
LEMMA NewDataDelivers ==
  ASSUME TXP!GapInv, RXP!GenuineInv, RingSent, UNCHANGED txVars, NEW c \in Cards,
         NEW b \in 0..MaxBlock, NEW f \in TXP!Fragments,
         TXP!Lies(session_key, b, f) \in used, session_key \in 1..MaxSession,
         RXP!NewData(session_key, b, f, {c}), Deliver
  PROVE  /\ RXP!GenuineInv' /\ RingSent'
         /\ \A d \in delivered' \ delivered : d.number \in Datagrams
         /\ LastInv => LastInv' /\ [Stream!Next]_<<Datagrams, last>> /\ HandsOverNew
<1>1. Datagrams' = Datagrams /\ used' = used
  BY TransmitterRests
<1>2. session_key' = session_key
  BY DEF RXP!NewData
<1>4. b \in RXP!Blocks /\ f \in RXP!Frags
  BY DEF RXP!Blocks, RXP!Frags, TXP!Fragments
<1>5. RXP!SendInv /\ RXP!RingInv /\ high \in Int
  BY HighFacts
<1>6. RXP!GenuineInv'
  <2>1. RXP!Next
    <3>1. {c} \in SUBSET Cards
      OBVIOUS
    <3> QED  BY <1>4, <3>1 DEF RXP!Next, RXP!DataPacket
  <2> QED  BY <2>1, RxAssumptions, RXP!NextGenuineInv
<1>7. high' \in Int
  <2>1. RXP!SendInv'
    BY <1>6 DEF RXP!GenuineInv, RXP!HoldInv
  <2> QED  BY <2>1 DEF RXP!SendInv
<1>8. RingSent'
  <2> SUFFICES ASSUME NEW d \in 0..MaxBlock, NEW g \in TXP!Fragments, RXP!Held(d, g)'
               PROVE  TXP!Lies(session_key, d, g) \in used
    BY <1>1, <1>2 DEF RingSent, TXP!Lies, TXP!Fragments
  <2>1. RXP!Held(d, g) \/ (d = b /\ g = f)
    BY <1>4, <1>5, RxAssumptions, RXP!NewDataHolds
  <2> QED  BY <2>1 DEF RingSent
\* What is handed over was sent, and is new.
<1>10. ASSUME NEW x \in out'
       PROVE  /\ RXP!Position(x) \in 0..(PerSession - 1) /\ RXP!Position(x) > high
              /\ RXP!Position(x) <= high'
              /\ Number(session_key, RXP!Position(x)) \in Datagrams
  <2>1. /\ x \in RXP!Sends(session_key, b, f)
        /\ RXP!Position(x) > high /\ RXP!Position(x) <= high'
    BY <1>4, <1>5, RxAssumptions, RXP!NewDataHigh
  <2>2. ~RXP!AlreadyProcessed(b) /\ f \notin RXP!Target(b).fragment_map
    BY DEF RXP!NewData
  <2>3. x.blk \in 0..MaxBlock
    BY <1>4, <1>5, <2>1, <2>2, RxAssumptions, RXP!SendPlace DEF RXP!Blocks
  <2>4. /\ x.frag \in 0..(FecK - 1)
        /\ \/ RXP!Held(x.blk, x.frag)
           \/ x.blk = b /\ x.frag = f
           \/ x.blk = b /\ \E h \in RXP!Frags : h >= FecK /\ (h = f \/ RXP!Held(b, h))
    <3>1. x.frag \in RXP!Data
      BY <1>4, <1>5, <2>1, <2>2, RxAssumptions, RXP!SendOrigin
    <3> QED  BY <1>4, <1>5, <2>1, <2>2, <3>1, RxAssumptions, RXP!SendOrigin DEF RXP!Data
  <2>5. x.frag \in TXP!Fragments
    BY <2>4, LinkAssumption DEF TXP!Fragments
  <2>6. TXP!Lies(session_key, x.blk, x.frag) \in used
    <3>1. CASE RXP!Held(x.blk, x.frag)
      BY <2>3, <2>5, <3>1 DEF RingSent
    <3>2. CASE x.blk = b /\ x.frag = f
      BY <3>2
    <3>3. CASE x.blk = b /\ \E h \in RXP!Frags : h >= FecK /\ (h = f \/ RXP!Held(b, h))
      <4>1. PICK h \in TXP!Fragments : h >= FecK /\ (h = f \/ RXP!Held(b, h))
        BY <3>3 DEF RXP!Frags, TXP!Fragments
      <4>2. TXP!Lies(session_key, b, h) \in used
        BY <4>1 DEF RingSent
      <4>3. x.frag < h
        BY <2>4, <4>1, LinkAssumption DEF TXP!Fragments
      <4>4. TXP!GapFree
        BY DEF TXP!GapInv
      <4> QED  BY <2>5, <3>3, <4>2, <4>3, <4>4 DEF TXP!GapFree, TXP!Before
    <3> QED  BY <2>4, <3>1, <3>2, <3>3
  <2>7. RXP!Position(x) = x.blk * FecK + x.frag
    BY DEF RXP!Position
  <2>8. RXP!Position(x) \in 0..(PerSession - 1)
    BY <2>3, <2>4, <2>7, PositionBound
  <2>9. Number(session_key, RXP!Position(x)) \in Datagrams
    BY <2>3, <2>4, <2>6, <2>7, DatagramSent
  <2> QED  BY <2>1, <2>8, <2>9
<1>9. \A d \in delivered' \ delivered : d.number \in Datagrams
  <2> TAKE d \in delivered' \ delivered
  <2>1. d \in {[number |-> Number(session_key, RX!Position(x)),
                whole  |-> x.pkt = [key |-> session_key, blk |-> x.blk]] : x \in out'}
    BY DEF Deliver
  <2>2. PICK x \in out' :
          \E w : d = [number |-> Number(session_key, RX!Position(x)), whole |-> w]
    BY <2>1, Zenon
  <2>3. RX!Position(x) = RXP!Position(x)
    BY SameNames
  <2> QED  BY <1>10, <2>2, <2>3
<1> SUFFICES ASSUME LastInv
             PROVE  LastInv' /\ [Stream!Next]_<<Datagrams, last>> /\ HandsOverNew
  BY <1>6, <1>8, <1>9
<1> DEFINE num(x) == Number(session_key, RXP!Position(x))
<1>11. /\ session_key \in Nat /\ last \in Int /\ last >= -1 /\ last <= Number(session_key, high)
       /\ session_key \in 1..MaxSession
  BY LinkAssumption DEF LastInv
<1>12. ASSUME NEW x \in out'
       PROVE  num(x) \in Int /\ num(x) > last /\ num(x) <= Number(session_key, high')
  <2>1. PICK n : n = RXP!Position(x) /\ n \in Int /\ n > high /\ n <= high'
    BY <1>10, NumberType
  <2>2. /\ Number(session_key, n) \in Int /\ Number(session_key, high) \in Int
        /\ Number(session_key, high) < Number(session_key, n)
        /\ Number(session_key, n) <= Number(session_key, high')
    BY <1>5, <1>7, <1>11, <2>1, NumberRises
  <2>3. num(x) = Number(session_key, n)
    BY <2>1
  <2> HIDE DEF num
  <2> QED  BY <1>11, <2>2, <2>3
<1>3. HandsOverNew
  <2>1. \A x \in out' : num(x) > last
    BY <1>12
  <2>2. \A x \in out' : RX!Position(x) = RXP!Position(x)
    BY SameNames
  <2> QED  BY <1>2, <2>1, <2>2 DEF HandsOverNew
<1>13. last' = IF out' = {} THEN last ELSE num(RXP!LastOf(out'))
  <2>1. PICK S : S = out'
    OBVIOUS
  <2>2. RX!LastOf(S) = RXP!LastOf(S)
    BY SameLast
  <2>3. RX!LastOf(out') = RXP!LastOf(out')
    BY <2>1, <2>2
  <2> QED  BY <2>3, SameNames DEF Deliver
<1>14. CASE out' = {}
  <2>1. last' = last /\ high' >= high
    BY <1>4, <1>5, <1>13, <1>14, RxAssumptions, RXP!NewDataHigh
  <2>2. Number(session_key, high) <= Number(session_key, high') /\ Number(session_key, high) \in Int
        /\ Number(session_key, high') \in Int
    BY <1>5, <1>7, <1>11, <2>1, NumberRises
  <2>3. LastInv'
    BY <1>2, <1>11, <2>1, <2>2 DEF LastInv, Number
  <2> QED  BY <1>1, <1>3, <2>1, <2>3
<1>15. CASE out' # {}
  <2>1. /\ RXP!LastOf(out') \in out'
        /\ \A x \in out' : RXP!Position(x) <= RXP!Position(RXP!LastOf(out'))
    BY <1>4, <1>5, <1>15, RxAssumptions, RXP!NewDataHigh
  <2>2. PICK z \in out' : z = RXP!LastOf(out') /\ last' = num(z)
    BY <1>13, <1>15, <2>1
  <2>3. LastInv'
    <3>1. num(z) \in Int /\ num(z) > last /\ num(z) <= Number(session_key, high')
      BY <1>12
    <3>2. last' \in Int /\ last' >= -1
      <4> HIDE DEF num
      <4> QED  BY <1>11, <2>2, <3>1
    <3>3. last' <= Number(session_key, high')
      BY <2>2, <3>1
    <3> QED  BY <1>2, <3>2, <3>3 DEF LastInv, Number
  <2> DEFINE D == {num(x) : x \in out'}
  <2>4. D # {} /\ D \subseteq Datagrams
    BY <1>10, <1>15
  <2>5. \A d \in D : d > last
    BY <1>12
  <2>6. last' \in D /\ \A d \in D : d <= last'
    <3>1. ASSUME NEW x \in out' PROVE num(x) <= num(z)
      <4>1. PICK m, n : /\ m = RXP!Position(x) /\ m \in Int
                        /\ n = RXP!Position(z) /\ n \in Int
        BY <1>10, NumberType
      <4>2. m <= n
        BY <2>1, <2>2, <4>1
      <4>3. Number(session_key, m) <= Number(session_key, n)
        BY <1>11, <4>1, <4>2, NumberRises
      <4> QED  BY <4>1, <4>3
    <3> QED  BY <2>2, <3>1
  <2>7. D \in SUBSET Numbers
    <3> SUFFICES ASSUME NEW x \in out' PROVE num(x) \in Numbers
      OBVIOUS
    <3>1. PICK n : n = RXP!Position(x) /\ n \in 0..(PerSession - 1)
      BY <1>10
    <3> QED  BY <1>11, <3>1, NumberInRange
  <2> HIDE DEF D
  <2>8. Stream!Deliver(D)
    BY <1>1, <2>4, <2>5, <2>6 DEF Stream!Deliver
  <2>9. Stream!Next
    BY <2>7, <2>8 DEF Stream!Next
  <2> QED  BY <1>3, <2>3, <2>9
<1> QED  BY <1>14, <1>15

LEMMA NewDataStep ==
  ASSUME NEW c \in Cards, LinkInv(c), TakesFrom(c), Packet(c).type = "data",
         NEW b \in 0..MaxBlock, NEW f \in TXP!Fragments,
         TXP!Lies(session_key, b, f) \in used, session_key \in 1..MaxSession,
         RXP!NewData(session_key, b, f, {c}), Deliver, UNCHANGED missed
  PROVE  LinkInv(c)'
<1>1. TXP!GapInv' /\ session \in Nat
  BY TransmitterRests DEF LinkInv, TakesFrom
<1>2. session_key' = session_key /\ missed \subseteq missed'
  BY DEF RXP!NewData
<1>3. /\ QueueInv(heard[c])' /\ heard' \in [Cards -> {heard'[d] : d \in Cards}]
  BY <1>1, <1>2, QueueTakes DEF LinkInv
<1>4. RXP!GenuineInv' /\ RingSent'
  BY NewDataDelivers DEF LinkInv, TakesFrom
<1>5. OpensWhatItHears'
  BY DEF LinkInv, OpensWhatItHears, KeyNonce
<1> QED  BY <1>1, <1>3, <1>4, <1>5 DEF LinkInv

\* A DATA packet is dropped, or it is a new fragment of the receiver's session that was sent.
DropsData(c) ==
  /\ RXP!Next /\ out' = {} /\ UNCHANGED <<RXP!ring, fragments, session_key, high>>
  /\ missed' = missed \/ /\ missed' = missed \cup {Miss(Packet(c), "unread")}
                         /\ Packet(c).key # session_key
TakesData(c) == \E b \in 0..MaxBlock, f \in TXP!Fragments :
               /\ TXP!Lies(session_key, b, f) \in used /\ session_key \in 1..MaxSession
               /\ RXP!NewData(session_key, b, f, {c}) /\ UNCHANGED missed

LEMMA DataCases ==
  ASSUME TXP!Indexed, NEW c \in Cards, ReceiveData(c), Packet(c).key \in 1..MaxSession,
         [key |-> Packet(c).key, nonce |-> Packet(c).nonce] \in used
  PROVE  DropsData(c) \/ TakesData(c)
<1>3. PICK x : x = Packet(c)
  OBVIOUS
<1>5. x.key \in 1..MaxSession /\ [key |-> x.key, nonce |-> x.nonce] \in used
  BY <1>3
<1>6. PICK b \in 0..MaxBlock, f \in TXP!Fragments :
        [key |-> x.key, nonce |-> x.nonce] = TXP!Lies(x.key, b, f)
  BY <1>5 DEF TXP!Indexed
<1>7. x.nonce \div 256 = b /\ x.nonce % 256 = f /\ f < FecN /\ b <= MaxBlock
  <2>1. f \in 0..255 /\ b \in Nat /\ x.nonce = b * 256 + f
    BY <1>6, LinkAssumption DEF TXP!Lies, TXP!Fragments
  <2> QED  BY <2>1, LinkAssumption DEF TXP!Fragments
<1>8. b \in RXP!Blocks /\ f \in RXP!Frags /\ {c} \in SUBSET Cards
  BY DEF RXP!Blocks, RXP!Frags, TXP!Fragments
<1>9. \/ RX!UndecryptableData(x.key) /\ missed' = missed \cup {Miss(x, "unread")}
      \/ RX!KnownData(x.key, b, f, {c}) /\ UNCHANGED missed
      \/ RX!NewData(x.key, b, f, {c}) /\ UNCHANGED missed
  <2>1. ~(b > MaxBlock \/ f >= FecN)
    BY <1>7, LinkAssumption DEF TXP!Fragments
  <2> QED  BY <1>3, <1>7, <2>1 DEF ReceiveData
<1>10. CASE RX!UndecryptableData(x.key) /\ missed' = missed \cup {Miss(x, "unread")}
  <2>1. RXP!UndecryptableData(x.key)
    BY <1>10, SameUndecryptableData
  <2>2. RXP!Next
    BY <1>5, <1>8, <2>1 DEF RXP!Next, RXP!DataPacket
  <2>3. /\ out' = {} /\ UNCHANGED <<RXP!ring, fragments, session_key, high>>
        /\ x.key # session_key
    BY <2>1 DEF RXP!UndecryptableData, RXP!Drops, RXP!Accepted
  <2> QED  BY <1>3, <1>10, <2>2, <2>3 DEF DropsData
<1>11. CASE RX!KnownData(x.key, b, f, {c}) /\ UNCHANGED missed
  <2>1. RXP!KnownData(x.key, b, f, {c})
    BY <1>11, SameKnownData
  <2>2. RXP!Next
    BY <1>5, <1>8, <2>1 DEF RXP!Next, RXP!DataPacket
  <2>3. out' = {} /\ UNCHANGED <<RXP!ring, fragments, session_key, high>>
    BY <2>1 DEF RXP!KnownData, RXP!Drops
  <2> QED  BY <1>11, <2>2, <2>3 DEF DropsData
<1>12. CASE RX!NewData(x.key, b, f, {c}) /\ UNCHANGED missed
  <2>1. RXP!NewData(x.key, b, f, {c})
    BY <1>12, SameNewData
  <2>2. x.key = session_key
    BY <2>1 DEF RXP!NewData, RXP!Accepted
  <2> QED  BY <1>5, <1>6, <1>12, <2>1, <2>2 DEF TakesData
<1> QED  BY <1>9, <1>10, <1>11, <1>12
LEMMA ReceiveDataStep ==
  ASSUME NEW c \in Cards, LinkInv(c), ReceiveData(c)
  PROVE  LinkInv(c)'
<1>1. TakesFrom(c) /\ Packet(c).type = "data" /\ Deliver
  BY DEF ReceiveData
<1>2. session \in 1..MaxSession /\ session \in Nat /\ TXP!Indexed /\ QueueInv(heard[c])
  BY <1>1, TransmitterRests DEF LinkInv, TakesFrom, TXP!GapInv
<1>3. PICK x, q : x = Packet(c) /\ q = heard[c]
  OBVIOUS
<1>4. PacketInv(q, 1) /\ x = q[1]
  <2>1. IsSequence(q) /\ q # <<>> /\ \A i \in 1..Len(q) : PacketInv(q, i)
    BY <1>1, <1>2, <1>3 DEF QueueInv, TakesFrom
  <2>2. Len(q) \in Nat /\ Len(q) > 0 /\ Head(q) = q[1]
    BY <2>1, TailFacts
  <2>3. 1 \in 1..Len(q)
    BY <2>2
  <2> QED  BY <1>3, <2>1, <2>2, <2>3 DEF Packet
<1>5. x.key \in 1..MaxSession /\ [key |-> x.key, nonce |-> x.nonce] \in used
  BY <1>1, <1>2, <1>3, <1>4, LinkAssumption DEF PacketInv
<1>6. DropsData(c) \/ TakesData(c)
  BY <1>2, <1>3, <1>5, DataCases
<1> QED  BY <1>1, <1>6, DropStep, NewDataStep DEF DropsData, TakesData
-----------------------------------------------------------------------------
\* A KEY packet of another session empties the ring, and one of an older session lets the
\* stream begin anew.
LEMMA KeyTaken ==
  ASSUME RXP!GenuineInv, RingSent, NEW k \in 1..MaxSession, RXP!SessionKey(k),
         session_key \in Nat, used \subseteq used'
  PROVE  /\ RXP!GenuineInv' /\ RingSent' /\ session_key' = k
         /\ LastInv /\ last' = (IF k < session_key THEN -1 ELSE last) => LastInv'
<1>1. session_key' = k
  BY DEF RXP!SessionKey
<1>2. RXP!GenuineInv'
  <2>1. RXP!Next
    BY DEF RXP!Next
  <2> QED  BY <2>1, RxAssumptions, RXP!NextGenuineInv
<1>3. CASE k = session_key
  <2>1. UNCHANGED <<RXP!ring, session_key, high>>
    BY <1>3 DEF RXP!SessionKey
  <2>2. k \in Int
    OBVIOUS
  <2>3. last' = (IF k < session_key THEN -1 ELSE last) => UNCHANGED last
    BY <1>3, <2>2
  <2> QED  BY <1>1, <1>2, <2>1, <2>3, RingRests
<1>4. CASE k # session_key
  <2>1. rx_ring_alloc' = 0 /\ high' = -1
    BY <1>4 DEF RXP!SessionKey
  <2>2. RingSent'
    BY <2>1 DEF RingSent, RXP!Held, RXP!Places
  <2>3. ASSUME LastInv, k >= session_key, UNCHANGED last PROVE LastInv'
    <3>1. high \in Int /\ high < PerSession
      BY HighFacts
    <3>2. session_key < k /\ k \in Nat /\ -1 \in Int
      BY <1>4, <2>3
    <3>3. Number(session_key, high) < Number(k, 0) /\ Number(k, -1) = Number(k, 0) + (-1)
      BY <3>1, <3>2, NumberOrder
    <3>4. Number(session_key, high) \in Int /\ Number(k, 0) \in Int
      <4>1. session_key \in Int /\ k \in Int /\ 0 \in Int
        OBVIOUS
      <4> QED  BY <3>1, <4>1, NumberType
    <3>5. last \in Int /\ last <= Number(session_key, high)
      BY <2>3 DEF LastInv
    <3>6. last <= Number(k, -1)
      BY <3>3, <3>4, <3>5
    <3> QED  BY <1>1, <2>1, <2>3, <3>6 DEF LastInv, Number
  <2>4. ASSUME last' = -1 PROVE LastInv'
    <3>1. 0 <= Number(k, 0) /\ Number(k, 0) \in Int /\ Number(k, -1) = Number(k, 0) + (-1)
      BY NumberType, LinkAssumption DEF Number
    <3> QED  BY <1>1, <2>1, <2>4, <3>1 DEF LastInv, Number
  <2>5. k < session_key \/ k >= session_key
    OBVIOUS
  <2>6. k < session_key => ~(k >= session_key)
    OBVIOUS
  <2> QED  BY <1>1, <1>2, <2>2, <2>3, <2>4, <2>5, <2>6
<1> QED  BY <1>3, <1>4

LEMMA ReceiveKeyStep ==
  ASSUME NEW c \in Cards, LinkInv(c), ReceiveKey(c)
  PROVE  LinkInv(c)' /\ session_key' >= session_key
<1>1. PICK k : k = Packet(c).key
  OBVIOUS
<1>2. /\ TakesFrom(c) /\ Packet(c).type = "key" /\ RXP!SessionKey(k)
      /\ UNCHANGED <<missed, delivered>>
  BY <1>1, SameSessionKey DEF ReceiveKey
<1>3. /\ TXP!GapInv'
      /\ session' = session /\ used' = used /\ session \in Nat /\ session \in 1..MaxSession
  BY <1>2, TransmitterRests DEF LinkInv, TakesFrom
<1>4. session_key' = k
  BY <1>2 DEF RXP!SessionKey
<1>5. /\ PacketInv(heard[c], 1) /\ Packet(c) = heard[c][1]
      /\ QueueInv(heard[c])' /\ heard' \in [Cards -> {heard'[d] : d \in Cards}]
  <2>1. missed \subseteq missed'
    BY <1>2
  <2>2. session_key' = IF Packet(c).type = "key" THEN Packet(c).key ELSE session_key
    BY <1>1, <1>2, <1>4
  <2> QED  BY <1>2, <1>3, <2>1, <2>2, QueueTakes DEF LinkInv
<1>6. k \in 1..session /\ k >= session_key /\ k \in 1..MaxSession /\ session_key \in Nat
  <2>1. k \in 1..session /\ k >= session_key
    BY <1>1, <1>5 DEF PacketInv
  <2>2. session_key \in 0..session
    BY DEF LinkInv, QueueInv
  <2> QED  BY <1>3, <2>1, <2>2, LinkAssumption
<1>7. RXP!GenuineInv' /\ RingSent'
  BY <1>2, <1>3, <1>6, KeyTaken DEF LinkInv
<1>8. OpensWhatItHears'
  BY <1>2 DEF LinkInv, OpensWhatItHears, KeyNonce
<1> QED  BY <1>3, <1>4, <1>5, <1>6, <1>7, <1>8 DEF LinkInv

\* A new receiver starts as the first one did.
LEMMA FreshReceiver == RXP!Init => RXP!GenuineInv
BY RxAssumptions, RXP!InitGenuineInv

LEMMA FreshReceiverNext == RXP!Init' => RXP!GenuineInv'
BY FreshReceiver, PTL

LEMMA RestartFresh ==
  ASSUME RxRestart PROVE RXP!GenuineInv' /\ RingSent' /\ LastInv'
<1>1. RXP!Init'
  BY SameNames DEF RxRestart, RXP!Init, RX!NoCounts, RXP!NoCounts, RX!Slots, RXP!Slots,
                   RX!Frags, RXP!Frags, RX!EmptyEntry, RXP!EmptyEntry
<1>2. rx_ring_alloc' = 0 /\ session_key' = 0 /\ high' = -1 /\ last' = -1
  BY DEF RxRestart
<1>3. RingSent'
  BY <1>2 DEF RingSent, RXP!Held, RXP!Places
<1>4. LastInv'
  <2>1. Number(0, -1) = -1
    BY NumberType DEF Number
  <2> QED  BY <1>2, <2>1 DEF LastInv, Number
<1> QED  BY <1>1, <1>3, <1>4, FreshReceiverNext

LEMMA RxRestartStep ==
  ASSUME NEW c \in Cards, LinkInv(c), RxRestart
  PROVE  LinkInv(c)'
<1>1. UNCHANGED txVars
  BY DEF RxRestart
<1>2. /\ TXP!GapInv'
      /\ session' = session /\ used' = used /\ session \in Nat /\ session \in 1..MaxSession
  BY <1>1, TransmitterRests DEF LinkInv
<1>3. /\ heard' = [d \in Cards |-> <<>>] /\ last' = -1 /\ session_key' = 0 /\ high' = -1
      /\ rx_ring_alloc' = 0
      /\ missed' = missed
           \cup {[key |-> p.key, nonce |-> p.nonce, why |-> "restart"] : p \in used}
           \cup {[key |-> k, nonce |-> KeyNonce, why |-> "restart"] : k \in 1..session}
  BY DEF RxRestart
<1>4. RXP!GenuineInv' /\ RingSent'
  BY RestartFresh
<1>5. QueueInv(heard[c])' /\ heard' \in [Cards -> {heard'[d] : d \in Cards}]
  <2>1. PICK r : r = heard'[c] /\ r = <<>>
    BY <1>3
  <2>2. IsSequence(r) /\ Len(r) = 0
    BY <2>1 DEF IsSequence
  <2>3. KeyMissed(session)'
    <3>1. [key |-> session, nonce |-> KeyNonce, why |-> "restart"] \in missed'
      BY <1>2, <1>3
    <3> QED  BY <1>2, <3>1 DEF KeyMissed, KeyNonce
  <2>4. QueueInv(r)'
    BY <1>2, <1>3, <2>2, <2>3 DEF QueueInv, Opened
  <2> QED  BY <1>3, <2>1, <2>4
<1>6. OpensWhatItHears'
  <2> SUFFICES ASSUME NEW m \in missed', m.why = "unread"
               PROVE  \E n \in missed' : n.key = m.key /\ n.nonce = KeyNonce
    BY DEF OpensWhatItHears, KeyNonce
  <2>1. m \in missed
    BY <1>3
  <2> QED  BY <1>3, <2>1 DEF LinkInv, OpensWhatItHears
<1> QED  BY <1>2, <1>4, <1>5, <1>6 DEF LinkInv
-----------------------------------------------------------------------------
(***************************************************************************)
(* A link with several cards                                               *)
(***************************************************************************)
\* What waits at a card, whatever the others have brought: packets that were sent.
CardInv(q) ==
  /\ IsSequence(q)
  /\ \A i \in 1..Len(q) :
       /\ q[i].key \in 1..session /\ q[i].type \in {"key", "data"}
       /\ q[i].type = "data" => [key |-> q[i].key, nonce |-> q[i].nonce] \in used

CardsInv == /\ TXP!GapInv /\ RXP!GenuineInv /\ RingSent /\ OnlySent
            /\ session_key \in 0..session
            /\ heard = [d \in Cards |-> heard[d]]
            /\ \A d \in Cards : CardInv(heard[d])

\* A step of the link is one of the stream, and hands over what is new.
Streams == LastInv =>
             LastInv' /\ [Stream!Next]_<<Datagrams, last>> /\ HandsOverNew

LEMMA InitCardsInv == Init => CardsInv /\ LastInv
<1> SUFFICES ASSUME Init PROVE CardsInv /\ LastInv
  OBVIOUS
<1>1. TXP!GapInv
  BY TXP!InitGapInv, TxAssumptions, SameInits
<1>2. RXP!GenuineInv
  BY RXP!InitGenuineInv, RxAssumptions, SameInits
<1>3. /\ heard = [d \in Cards |-> <<>>] /\ delivered = {} /\ last = -1 /\ session = 1
      /\ session_key = 0 /\ high = -1 /\ rx_ring_alloc = 0
  BY SameInits DEF Init, TXP!Init, RXP!Init
<1>4. RingSent
  BY <1>3 DEF RingSent, RXP!Held, RXP!Places
<1>5. LastInv
  BY <1>3, NumberType DEF LastInv
<1>6. ASSUME NEW d \in Cards PROVE CardInv(heard[d])
  <2>1. heard[d] = <<>> /\ IsSequence(<<>>) /\ Len(<<>>) = 0
    BY <1>3 DEF IsSequence
  <2> QED  BY <2>1 DEF CardInv
<1> QED  BY <1>1, <1>2, <1>3, <1>4, <1>5, <1>6 DEF CardsInv, OnlySent

\* The cards hold what they held while no session is taken back and nothing unsent.
LEMMA CardWaits ==
  ASSUME NEW q, CardInv(q), used \subseteq used', session \in Nat, session' \in Nat,
         session <= session'
  PROVE  CardInv(q)'
<1>1. ASSUME NEW i \in 1..Len(q) PROVE q[i].key \in 1..session'
  <2>1. PICK k : k = q[i].key /\ k \in 1..session
    BY DEF CardInv
  <2>2. k \in 1..session'
    BY <2>1
  <2> QED  BY <2>1, <2>2
<1> QED  BY <1>1 DEF CardInv

LEMMA CardsWait ==
  ASSUME \A d \in Cards : CardInv(heard[d]), UNCHANGED heard, used \subseteq used',
         session \in Nat, session' \in Nat, session <= session'
  PROVE  \A d \in Cards : CardInv(heard[d])'
<1> TAKE d \in Cards
<1>1. PICK q : q = heard[d]
  OBVIOUS
<1>2. CardInv(q)'
  BY <1>1, CardWaits
<1> QED  BY <1>1, <1>2

LEMMA CardsHear ==
  ASSUME TXP!SendInv, NEW size \in Sizes, TXP!Sends(size), Propagate,
         \A d \in Cards : CardInv(heard[d])
  PROVE  heard' = [d \in Cards |-> heard'[d]] /\ \A d \in Cards : CardInv(heard[d])'
<1>1. PICK H \in [Cards -> SUBSET air'] :
        heard' = [d \in Cards |-> heard[d] \o InOrderOfAir(H[d])]
  BY DEF Propagate
<1>2. /\ air' \subseteq TXP!Packets(size)
      /\ session' \in Nat /\ session <= session'
      /\ \A x \in air' : /\ x.key \in 1..session' /\ x.type \in {"key", "data"}
                         /\ x.type = "data" => [key |-> x.key, nonce |-> x.nonce] \in used'
  BY TxAssumptions, TXP!SentKeys
<1>3. used \subseteq used' /\ session \in Nat
  BY TxAssumptions, TXP!SentNonces DEF TXP!SendInv, TXP!SendType
<1>4. ASSUME NEW d \in Cards PROVE CardInv(heard[d])'
  <2>1. PICK q, r, S, e : q = heard[d] /\ r = heard'[d] /\ S = H[d] /\ e = InOrderOfAir(S)
    OBVIOUS
  <2>2. r = q \o e /\ S \subseteq air' /\ CardInv(q)
    BY <1>1, <2>1
  <2>3. e \in Seq(S) /\ \A i \in 1..Len(e) : e[i] \in air'
    <3>1. S \in SUBSET TXP!Packets(size)
      BY <1>2, <2>2
    <3>2. e \in Seq(S)
      BY <2>1, <3>1, HeardInOrder
    <3>3. \A i \in 1..Len(e) : e[i] \in S
      BY <3>2
    <3> QED  BY <2>2, <3>2, <3>3
  <2>4. /\ IsSequence(r) /\ Len(q) \in Nat /\ Len(e) \in Nat /\ Len(r) = Len(q) + Len(e)
        /\ \A i \in 1..Len(q) : r[i] = q[i]
        /\ \A i \in 1..Len(e) : r[Len(q) + i] = e[i]
    <3>1. IsSequence(q)
      BY <2>2 DEF CardInv
    <3> QED  BY <2>2, <2>3, <3>1, ConcatFacts
  <2>5. ASSUME NEW i \in 1..Len(r)
        PROVE  /\ r[i].key \in 1..session' /\ r[i].type \in {"key", "data"}
               /\ r[i].type = "data" => [key |-> r[i].key, nonce |-> r[i].nonce] \in used'
    <3>1. CASE i <= Len(q)
      <4>1. i \in 1..Len(q) /\ r[i] = q[i]
        BY <2>4, <3>1
      <4>2. q[i].key \in 1..session /\ q[i].type \in {"key", "data"}
            /\ (q[i].type = "data" => [key |-> q[i].key, nonce |-> q[i].nonce] \in used)
        BY <2>2, <4>1 DEF CardInv
      <4>3. q[i].key \in 1..session'
        BY <1>2, <1>3, <4>2
      <4> QED  BY <1>3, <4>1, <4>2, <4>3
    <3>2. CASE ~(i <= Len(q))
      <4>1. i - Len(q) \in 1..Len(e) /\ i = Len(q) + (i - Len(q))
        BY <2>4, <3>2
      <4>2. PICK m \in 1..Len(e) : i = Len(q) + m
        BY <4>1
      <4>3. r[i] = e[m] /\ e[m] \in air'
        BY <2>3, <2>4, <4>2
      <4> QED  BY <1>2, <4>3
    <3> QED  BY <3>1, <3>2
  <2>6. CardInv(r)'
    BY <2>4, <2>5 DEF CardInv
  <2> QED  BY <2>1, <2>6
<1> QED  BY <1>1, <1>4

LEMMA CardsTake ==
  ASSUME NEW c \in Cards, TakesFrom(c), session \in Nat,
         heard = [d \in Cards |-> heard[d]], \A d \in Cards : CardInv(heard[d])
  PROVE  /\ heard' = [d \in Cards |-> heard'[d]] /\ \A d \in Cards : CardInv(heard[d])'
         /\ Packet(c).key \in 1..session
         /\ Packet(c).type = "data" =>
              [key |-> Packet(c).key, nonce |-> Packet(c).nonce] \in used
<1>1. PICK q : q = heard[c]
  OBVIOUS
<1>2. /\ q # <<>> /\ CardInv(q) /\ Packet(c) = Head(q)
      /\ heard' = [heard EXCEPT ![c] = Tail(q)] /\ used' = used /\ session' = session
  BY <1>1 DEF TakesFrom, txVars, Packet
<1>3. /\ IsSequence(Tail(q)) /\ Len(q) \in Nat /\ Len(q) > 0 /\ Head(q) = q[1]
      /\ \A i \in 1..Len(Tail(q)) : i + 1 \in 1..Len(q) /\ Tail(q)[i] = q[i + 1]
  <2>1. IsSequence(q)
    BY <1>2 DEF CardInv
  <2> QED  BY <1>2, <2>1, TailFacts
<1>4. /\ Packet(c).key \in 1..session
      /\ Packet(c).type = "data" =>
           [key |-> Packet(c).key, nonce |-> Packet(c).nonce] \in used
  <2>1. 1 \in 1..Len(q)
    BY <1>3
  <2> QED  BY <1>2, <1>3, <2>1 DEF CardInv
<1>5. heard' = [d \in Cards |-> heard'[d]]
  BY <1>2
<1>6. ASSUME NEW d \in Cards PROVE CardInv(heard[d])'
  <2>1. PICK r, p : r = heard'[d] /\ p = heard[d]
    OBVIOUS
  <2>2. CASE d = c
    <3>1. r = Tail(q)
      BY <1>2, <2>1, <2>2
    <3>2. CardInv(r)'
      BY <1>2, <1>3, <3>1 DEF CardInv
    <3> QED  BY <2>1, <3>2
  <2>3. CASE d # c
    <3>1. r = p /\ CardInv(p)
      BY <1>2, <2>1, <2>3
    <3>2. CardInv(p)'
      BY <1>2, <3>1, CardWaits
    <3> QED  BY <2>1, <3>1, <3>2
  <2> QED  BY <2>2, <2>3
<1> QED  BY <1>4, <1>5, <1>6

\* What was handed over stays sent.
LEMMA SentStays == ASSUME used \subseteq used' PROVE Datagrams \subseteq Datagrams'
BY DEF Datagrams, Number, PerSession

LEMMA CardsSend == ASSUME CardsInv, Send PROVE CardsInv' /\ Streams
<1>1. PICK size \in Sizes : TXP!Sends(size)
  <2>1. CASE \E size \in Sizes : TX!Datagram(size)
    BY <2>1, SameDatagram DEF TXP!Sends
  <2>2. CASE \E size \in Sizes, cut \in 0..(FecN + 1) : TX!InjectFails(size, cut)
    BY <2>2, SameInjectFails DEF TXP!Sends
  <2> QED  BY <2>1, <2>2 DEF Send
<1>2. Propagate /\ UNCHANGED <<rxVars, delivered, last>>
  BY DEF Send
<1>3. TXP!GapInv' /\ TXP!SendInv
  BY <1>1, TxAssumptions, TXP!SendsNext, TXP!NextGapInv DEF CardsInv, TXP!GapInv
<1>4. used \subseteq used'
  BY <1>1, <1>3, TxAssumptions, TXP!SentNonces
<1>5. heard' = [d \in Cards |-> heard'[d]] /\ \A d \in Cards : CardInv(heard[d])'
  BY <1>1, <1>2, <1>3, CardsHear DEF CardsInv
<1>6. session_key' \in 0..session'
  <2>1. session' \in Nat /\ session <= session' /\ session \in Nat
    BY <1>1, <1>3, TxAssumptions, TXP!SentKeys DEF TXP!SendInv, TXP!SendType
  <2>2. session_key' = session_key /\ session_key \in 0..session
    BY <1>2 DEF rxVars, CardsInv
  <2> QED  BY <2>1, <2>2
<1>7. UNCHANGED <<RXP!vars, RXP!ring, session_key, high>>
  BY <1>2 DEF rxVars, RXP!vars, RXP!ring
<1>8. RXP!GenuineInv'
  BY <1>7, RxAssumptions, RXP!NextGenuineInv DEF CardsInv
<1>9. RingSent' /\ (LastInv => LastInv')
  BY <1>2, <1>4, <1>7, RingRests DEF CardsInv
<1>10. OnlySent'
  BY <1>2, <1>4, SentStays DEF CardsInv, OnlySent
<1>11. [Stream!Next]_<<Datagrams, last>>
  <2>1. \/ Datagrams' = Datagrams
        \/ \E d \in Numbers : /\ \A e \in Datagrams : d > e
                              /\ Datagrams' = Datagrams \cup {d}
    BY <1>1, DatagramAdded DEF CardsInv
  <2> QED  BY <1>2, <2>1 DEF Stream!Next, Stream!Send
<1>12. HandsOverNew
  BY <1>2 DEF rxVars, HandsOverNew
<1> QED  BY <1>3, <1>5, <1>6, <1>8, <1>9, <1>10, <1>11, <1>12 DEF CardsInv, Streams

LEMMA CardsAlone ==
  ASSUME CardsInv, TXP!Restart \/ TXP!Tick \/ UNCHANGED txVars,
         UNCHANGED <<rxVars, heard, rx_starts, history>>
  PROVE  CardsInv' /\ Streams
<1>1. /\ TXP!GapInv' /\ used' = used
      /\ session' \in Nat /\ session \in Nat /\ session <= session'
  BY AloneFacts DEF CardsInv
<1>2. /\ UNCHANGED <<RXP!vars, RXP!ring, session_key, high>>
      /\ heard' = heard /\ delivered' = delivered /\ last' = last
  BY DEF rxVars, history, RXP!vars, RXP!ring
<1>3. RXP!GenuineInv'
  BY <1>2, RxAssumptions, RXP!NextGenuineInv DEF CardsInv
<1>4. RingSent' /\ (LastInv => LastInv')
  BY <1>1, <1>2, RingRests DEF CardsInv
<1>5. Datagrams' = Datagrams
  BY <1>1 DEF Datagrams, Number
<1>6. OnlySent'
  BY <1>2, <1>5 DEF CardsInv, OnlySent
<1>7. heard' = [d \in Cards |-> heard'[d]] /\ \A d \in Cards : CardInv(heard[d])'
  BY <1>1, <1>2, CardsWait DEF CardsInv
<1>8. session_key' \in 0..session'
  BY <1>1, <1>2 DEF CardsInv
<1>9. HandsOverNew
  BY DEF rxVars, HandsOverNew
<1> QED  BY <1>1, <1>2, <1>3, <1>4, <1>5, <1>6, <1>7, <1>8, <1>9 DEF CardsInv, Streams

\* What is common to the steps in which the receiver takes a packet.
LEMMA CardsReceive ==
  ASSUME CardsInv, NEW c \in Cards, TakesFrom(c)
  PROVE  /\ TXP!GapInv' /\ Datagrams' = Datagrams /\ used' = used /\ session' = session
         /\ session \in Nat /\ session \in 1..MaxSession /\ session_key \in Nat
         /\ heard' = [d \in Cards |-> heard'[d]] /\ \A d \in Cards : CardInv(heard[d])'
         /\ Packet(c).key \in 1..session /\ Packet(c).key \in 1..MaxSession
         /\ Packet(c).type = "data" =>
              [key |-> Packet(c).key, nonce |-> Packet(c).nonce] \in used
<1>1. /\ TXP!GapInv' /\ Datagrams' = Datagrams
      /\ session' = session /\ used' = used /\ session \in 1..MaxSession /\ session \in Nat
  BY TransmitterRests DEF CardsInv, TakesFrom
<1>2. /\ heard' = [d \in Cards |-> heard'[d]] /\ \A d \in Cards : CardInv(heard[d])'
      /\ Packet(c).key \in 1..session
      /\ Packet(c).type = "data" =>
           [key |-> Packet(c).key, nonce |-> Packet(c).nonce] \in used
  BY <1>1, CardsTake DEF CardsInv
<1>3. session_key \in Nat /\ Packet(c).key \in 1..MaxSession
  BY <1>1, <1>2, LinkAssumption DEF CardsInv
<1> QED  BY <1>1, <1>2, <1>3

LEMMA CardsReceiveData ==
  ASSUME CardsInv, NEW c \in Cards, ReceiveData(c) PROVE CardsInv' /\ Streams
<1>1. TakesFrom(c) /\ Packet(c).type = "data" /\ Deliver
  BY DEF ReceiveData
<1>2. /\ TXP!GapInv' /\ Datagrams' = Datagrams /\ used' = used /\ session' = session
      /\ heard' = [d \in Cards |-> heard'[d]] /\ \A d \in Cards : CardInv(heard[d])'
      /\ Packet(c).key \in 1..MaxSession
      /\ [key |-> Packet(c).key, nonce |-> Packet(c).nonce] \in used
  BY <1>1, CardsReceive
<1>3. DropsData(c) \/ TakesData(c)
  BY <1>2, DataCases DEF CardsInv, TXP!GapInv
<1>4. CASE DropsData(c)
  <2>1. RXP!GenuineInv'
    BY <1>4, RxAssumptions, RXP!NextGenuineInv DEF CardsInv, DropsData
  <2>2. last' = last /\ delivered' = delivered /\ session_key' = session_key
    BY <1>1, <1>4 DEF Deliver, DropsData
  <2>3. RingSent' /\ (LastInv => LastInv')
    BY <1>2, <1>4, <2>2, RingRests DEF CardsInv, DropsData
  <2>4. OnlySent'
    BY <1>2, <2>2 DEF CardsInv, OnlySent
  <2>5. HandsOverNew
    BY <1>4 DEF DropsData, HandsOverNew
  <2> QED  BY <1>2, <2>1, <2>2, <2>3, <2>4, <2>5 DEF CardsInv, Streams
<1>5. CASE TakesData(c)
  <2>1. PICK b \in 0..MaxBlock, f \in TXP!Fragments :
          /\ TXP!Lies(session_key, b, f) \in used /\ session_key \in 1..MaxSession
          /\ RXP!NewData(session_key, b, f, {c})
    BY <1>5 DEF TakesData
  <2>2. /\ RXP!GenuineInv' /\ RingSent'
        /\ \A d \in delivered' \ delivered : d.number \in Datagrams
        /\ LastInv => LastInv' /\ [Stream!Next]_<<Datagrams, last>> /\ HandsOverNew
    BY <1>1, <2>1, NewDataDelivers DEF CardsInv, TakesFrom
  <2>3. OnlySent'
    BY <1>2, <2>2 DEF CardsInv, OnlySent
  <2>4. session_key' = session_key
    BY <2>1 DEF RXP!NewData
  <2> QED  BY <1>2, <2>2, <2>3, <2>4 DEF CardsInv, Streams
<1> QED  BY <1>3, <1>4, <1>5

LEMMA CardsReceiveKey ==
  ASSUME CardsInv, NEW c \in Cards, ReceiveKey(c) PROVE CardsInv' /\ Streams
<1>1. PICK k : k = Packet(c).key
  OBVIOUS
<1>2. /\ TakesFrom(c) /\ RXP!SessionKey(k) /\ UNCHANGED delivered
      /\ last' = IF k < session_key THEN -1 ELSE last
  BY <1>1, SameSessionKey DEF ReceiveKey
<1>3. /\ TXP!GapInv' /\ Datagrams' = Datagrams /\ used' = used /\ session' = session
      /\ session \in Nat /\ session_key \in Nat
      /\ heard' = [d \in Cards |-> heard'[d]] /\ \A d \in Cards : CardInv(heard[d])'
      /\ k \in 1..session /\ k \in 1..MaxSession
  BY <1>1, <1>2, CardsReceive
<1>4. /\ RXP!GenuineInv' /\ RingSent' /\ session_key' = k
      /\ LastInv => LastInv'
  BY <1>2, <1>3, KeyTaken DEF CardsInv
<1>5. OnlySent'
  BY <1>2, <1>3 DEF CardsInv, OnlySent
<1>6. [Stream!Next]_<<Datagrams, last>>
  BY <1>2, <1>3 DEF Stream!Next, Stream!Forget
<1>7. session_key' \in 0..session'
  BY <1>3, <1>4
<1>8. HandsOverNew
  BY <1>2 DEF RXP!SessionKey, HandsOverNew
<1> QED  BY <1>2, <1>3, <1>4, <1>5, <1>6, <1>7, <1>8 DEF CardsInv, Streams

LEMMA CardsRestart == ASSUME CardsInv, RxRestart PROVE CardsInv' /\ Streams
<1>1. UNCHANGED txVars /\ delivered' = delivered /\ session_key' = 0 /\ last' = -1
      /\ heard' = [d \in Cards |-> <<>>]
  BY DEF RxRestart
<1>2. TXP!GapInv' /\ Datagrams' = Datagrams /\ session' = session /\ session \in Nat
  BY <1>1, TransmitterRests DEF CardsInv
<1>3. RXP!GenuineInv' /\ RingSent' /\ LastInv'
  BY RestartFresh
<1>4. ASSUME NEW d \in Cards PROVE CardInv(heard[d])'
  <2>1. PICK r : r = heard'[d] /\ r = <<>>
    BY <1>1
  <2>2. IsSequence(r) /\ Len(r) = 0
    BY <2>1 DEF IsSequence
  <2>3. CardInv(r)'
    BY <2>2 DEF CardInv
  <2> QED  BY <2>1, <2>3
<1>5. OnlySent' /\ session_key' \in 0..session'
  BY <1>1, <1>2 DEF CardsInv, OnlySent
<1>6. [Stream!Next]_<<Datagrams, last>>
  BY <1>1, <1>2 DEF Stream!Next, Stream!Forget
<1>7. HandsOverNew
  BY DEF RxRestart, HandsOverNew
<1> QED  BY <1>1, <1>2, <1>3, <1>4, <1>5, <1>6, <1>7 DEF CardsInv, Streams

LEMMA CardsStep == ASSUME CardsInv, [Next]_linkVars PROVE CardsInv' /\ Streams
<1>1. CASE Send
  BY <1>1, CardsSend
<1>2. CASE TxRestart
  <2>1. TXP!Restart /\ UNCHANGED <<rxVars, heard, rx_starts, history>>
    BY <1>2, SameRestart DEF TxRestart
  <2> QED  BY <2>1, CardsAlone
<1>3. CASE Tick
  <2>1. TXP!Tick /\ UNCHANGED <<rxVars, heard, rx_starts, history>>
    BY <1>3, SameTick DEF Tick
  <2> QED  BY <2>1, CardsAlone
<1>4. CASE \E d \in Cards : ReceiveKey(d) \/ ReceiveData(d)
  BY <1>4, CardsReceiveKey, CardsReceiveData
<1>5. CASE RxRestart
  BY <1>5, CardsRestart
<1>6. CASE UNCHANGED linkVars
  <2>1. UNCHANGED txVars /\ UNCHANGED <<rxVars, heard, rx_starts, history>>
    BY <1>6 DEF linkVars
  <2> QED  BY <2>1, CardsAlone
<1> QED  BY <1>1, <1>2, <1>3, <1>4, <1>5, <1>6 DEF Next
-----------------------------------------------------------------------------
(***************************************************************************)
(* What the receiver has taken, and the blocks it owes for it              *)
(***************************************************************************)
IsMissed(k, n) == \E m \in missed : m.key = k /\ m.nonce = n
Waits(q, k, n) == \E i \in 1..Len(q) : q[i].type = "data" /\ q[i].key = k /\ q[i].nonce = n

\* Sent, heard, and opened by the receiver that runs.
Taken(q, k, n) == [key |-> k, nonce |-> n] \in used /\ ~IsMissed(k, n) /\ ~Waits(q, k, n)
Got(q, k, b)   == {f \in TXP!Fragments : Taken(q, k, b * 256 + f)}

Handed(k, b, g) == [number |-> Number(k, b * FecK + g), whole |-> TRUE] \in delivered

\* The condition of Repaired on what comes before a block, and its promise.
Clean(q, k, b) == \/ b = 0 \/ Cardinality(Got(q, k, b - 1)) >= FecK
                  \/ \A a \in 0..(b - 1) : Got(q, k, a) = {}
Served(q, k, b) == Clean(q, k, b) => \A g \in 0..(FecK - 1) : Handed(k, b, g)
Good(q, k, b)   == Cardinality(Got(q, k, b)) >= FecK => Served(q, k, b)

MissedInv == \A m \in missed : m.nonce = KeyNonce \/ [key |-> m.key, nonce |-> m.nonce] \in used

\* DATA packets come once, in the order of their nonces, past the newest block.
WaitingInv(q) ==
  /\ \A i \in 1..Len(q) : q[i].type = "data" => ~IsMissed(q[i].key, q[i].nonce)
  /\ \A i, j \in 1..Len(q) :
       i < j /\ q[i].type = "data" /\ q[j].type = "data" /\ q[i].key = q[j].key
         => q[i].nonce < q[j].nonce
  /\ \A i \in 1..Len(q) :
       q[i].type = "data" /\ q[i].key = session_key => q[i].nonce >= last_known_block * 256

OthersInv(q) == \A k \in 1..MaxSession, b \in 0..MaxBlock :
                  /\ k > session_key => Got(q, k, b) = {}
                  /\ k < session_key => Good(q, k, b)

\* In the session of the receiver only the newest block grows.  While it is the only
\* one in the ring it is handed over as it comes; if it waits for another one, that
\* one was not repairable.
Newest == RXP!EntryAt(rx_ring_alloc - 1)
NewestInv(q, k, b) ==
  /\ Got(q, k, b) # {}
  /\ rx_ring_alloc = 0 => Served(q, k, b)
  /\ rx_ring_alloc > 0 => Got(q, k, b) = Newest.fragment_map
  /\ rx_ring_alloc = 1 => \A g \in 0..(Newest.send_fragment_idx - 1) : Handed(k, b, g)
  /\ rx_ring_alloc > 1 => ~Clean(q, k, b)
CurrentInv(q, k) ==
  \A b \in 0..MaxBlock : /\ b > last_known_block => Got(q, k, b) = {}
                         /\ b < last_known_block => Good(q, k, b)
                         /\ b = last_known_block => NewestInv(q, k, b)

RepairInv(q) == /\ MissedInv /\ WaitingInv(q) /\ OthersInv(q)
                /\ \E k \in Nat : k = session_key /\ CurrentInv(q, k)

LEMMA GotFinite ==
  ASSUME NEW q, NEW k, NEW b
  PROVE  /\ IsFiniteSet(Got(q, k, b)) /\ Cardinality(Got(q, k, b)) \in Nat
         /\ Got(q, k, b) = {} => Cardinality(Got(q, k, b)) < FecK
<1>1. IsFiniteSet(TXP!Fragments) /\ Got(q, k, b) \subseteq TXP!Fragments
  <2>1. 0 \in Int /\ FecN - 1 \in Int
    BY LinkAssumption
  <2>2. IsFiniteSet(0..(FecN - 1))
    BY <2>1, FS_Interval
  <2> QED  BY <2>2 DEF TXP!Fragments, Got
<1>2. IsFiniteSet(Got(q, k, b)) /\ Cardinality(Got(q, k, b)) \in Nat
  BY <1>1, FS_Subset, FS_CardinalityType
<1>3. Cardinality({}) = 0
  BY FS_EmptySet
<1> QED  BY <1>2, <1>3, LinkAssumption

LEMMA InitRepairInv ==
  ASSUME NEW c \in Cards, Init PROVE RepairInv(heard[c])
<1>1. PICK q : q = heard[c] /\ q = <<>>
  BY DEF Init
<1>2. /\ missed = {} /\ used = {} /\ session_key = 0 /\ last_known_block = -1
  BY SameInits DEF Init, TXP!Init, RXP!Init
<1>3. \A k, b : Got(q, k, b) = {}
  BY <1>2 DEF Got, Taken
<1>4. OthersInv(q)
  BY <1>2, <1>3 DEF OthersInv
<1>5. CurrentInv(q, 0) /\ 0 \in Nat
  BY <1>2, <1>3 DEF CurrentInv
<1> QED  BY <1>1, <1>2, <1>4, <1>5 DEF RepairInv, MissedInv, WaitingInv

\* Of an unfinished block fewer than fec_k fragments are in the ring.
LEMMA NewestFew ==
  ASSUME RXP!RingInv, rx_ring_alloc > 0
  PROVE  Cardinality(Newest.fragment_map) < FecK /\ last_known_block # -1
<1>1. rx_ring_alloc - 1 \in RXP!Places
  BY DEF RXP!RingInv, RXP!RingTypeOK, RXP!Places
<1>2. RXP!UnfinishedEntry(rx_ring_alloc - 1)
  BY <1>1 DEF RXP!RingInv, RXP!UnfinishedBlocks
<1>3. RXP!Cardinality(Newest.fragment_map) < FecK
  BY <1>2 DEF RXP!UnfinishedEntry, Newest
<1>4. last_known_block # -1
  BY DEF RXP!RingInv, RXP!RingWindow
<1> QED  BY <1>3, <1>4, SameCardinality

LEMMA CurrentGood ==
  ASSUME NEW q, NEW k, RXP!RingInv, CurrentInv(q, k), NEW b \in 0..MaxBlock
  PROVE  Good(q, k, b)
<1>1. last_known_block \in Int /\ rx_ring_alloc \in Nat /\ FecK \in Nat
  BY LinkAssumption DEF RXP!RingInv, RXP!RingTypeOK, RXP!Blocks
<1>2. Cardinality(Got(q, k, b)) \in Nat
  BY GotFinite
<1>3. CASE b > last_known_block
  BY <1>1, <1>2, <1>3, GotFinite DEF CurrentInv, Good
<1>4. CASE b < last_known_block
  BY <1>4 DEF CurrentInv
<1>5. CASE b = last_known_block
  <2>1. NewestInv(q, k, b)
    BY <1>5 DEF CurrentInv
  <2>2. CASE rx_ring_alloc = 0
    BY <2>1, <2>2 DEF NewestInv, Good
  <2>3. CASE rx_ring_alloc > 0
    <3>1. Cardinality(Got(q, k, b)) < FecK
      BY <2>1, <2>3, NewestFew DEF NewestInv
    <3> QED  BY <1>1, <1>2, <3>1 DEF Good
  <2> QED  BY <1>1, <2>2, <2>3
<1> QED  BY <1>1, <1>3, <1>4, <1>5

\* What a block was served with stays as long as nothing of the blocks before it comes.
LEMMA ServedStays ==
  ASSUME NEW q, NEW r, NEW k, NEW b \in 0..MaxBlock, delivered \subseteq delivered',
         \A a \in 0..(b - 1) : Got(r, k, a)' = Got(q, k, a)
  PROVE  /\ Clean(r, k, b)' <=> Clean(q, k, b)
         /\ Served(q, k, b) => Served(r, k, b)'
         /\ Got(r, k, b)' = Got(q, k, b) /\ Good(q, k, b) => Good(r, k, b)'
<1>1. Clean(r, k, b)' <=> Clean(q, k, b)
  <2>1. b # 0 => b - 1 \in 0..(b - 1)
    OBVIOUS
  <2>2. b # 0 => Got(r, k, b - 1)' = Got(q, k, b - 1)
    BY <2>1
  <2> QED  BY <2>2 DEF Clean
<1>2. Served(q, k, b) => Served(r, k, b)'
  BY <1>1 DEF Served, Handed, Number
<1> QED  BY <1>1, <1>2 DEF Good

\* The receiver takes nothing of use: the blocks stay as they are.
LEMMA BlocksRest ==
  ASSUME NEW q, NEW r, NEW k, OthersInv(q), CurrentInv(q, k),
         \A l, b : b \in 0..MaxBlock => Got(r, l, b)' = Got(q, l, b),
         delivered \subseteq delivered', UNCHANGED <<session_key, RXP!ring>>
  PROVE  OthersInv(r)' /\ CurrentInv(r, k)'
<1>1. ASSUME NEW l, NEW b \in 0..MaxBlock
      PROVE  /\ Got(r, l, b)' = Got(q, l, b)
             /\ Clean(r, l, b)' <=> Clean(q, l, b)
             /\ Served(q, l, b) => Served(r, l, b)'
             /\ Good(q, l, b) => Good(r, l, b)'
  <2>1. \A a \in 0..(b - 1) : a \in 0..MaxBlock
    BY LinkAssumption
  <2>2. /\ Got(r, l, b)' = Got(q, l, b)
        /\ \A a \in 0..(b - 1) : Got(r, l, a)' = Got(q, l, a)
    BY <2>1
  <2> QED  BY <2>2, ServedStays
<1>2. /\ session_key' = session_key /\ rx_ring_alloc' = rx_ring_alloc
      /\ last_known_block' = last_known_block /\ Newest' = Newest
  BY DEF RXP!ring, Newest, RXP!EntryAt, RXP!SlotAt, RXP!modN
<1>3. OthersInv(r)'
  BY <1>1, <1>2 DEF OthersInv
<1>4. ASSUME NEW b \in 0..MaxBlock, NewestInv(q, k, b) PROVE NewestInv(r, k, b)'
  BY <1>1, <1>2, <1>4 DEF NewestInv, Handed, Number
<1>5. CurrentInv(r, k)'
  BY <1>1, <1>2, <1>4 DEF CurrentInv
<1> QED  BY <1>3, <1>5
-----------------------------------------------------------------------------
\* What is sent waits, or is missed: the receiver takes nothing by it.
LEMMA SendRepair ==
  ASSUME TXP!SendInv, NEW c, Cards = {c}, NEW size \in Sizes, TXP!Sends(size), Propagate,
         QueueInv(heard[c]), RXP!RingInv, RepairInv(heard[c]), UNCHANGED <<rxVars, delivered>>
  PROVE  RepairInv(heard[c])'
<1>1. PICK H \in [Cards -> SUBSET air'] :
        /\ heard' = [d \in Cards |-> heard[d] \o InOrderOfAir(H[d])]
        /\ missed' = missed \cup {Miss(x, "lost") : x \in air' \ UNION {H[d] : d \in Cards}}
  BY DEF Propagate
<1>2. PICK q, r, S, e : q = heard[c] /\ r = heard'[c] /\ S = H[c] /\ e = InOrderOfAir(S)
  OBVIOUS
<1>3. /\ r = q \o e /\ S \subseteq air'
      /\ missed' = missed \cup {Miss(x, "lost") : x \in air' \ S}
  <2>1. UNION {H[d] : d \in Cards} = S
    BY <1>2
  <2> QED  BY <1>1, <1>2, <2>1
<1> DEFINE D == TXP!DataIn(air')
<1>4. /\ air' \subseteq TXP!Packets(size)
      /\ \A x \in air' : x.type \in {"key", "data"}
      /\ \A x, y \in air' : x.at \in Int /\ (x.at = y.at => x = y)
  <2>1. air' \subseteq TXP!Packets(size) /\ \A x \in air' : x.type \in {"key", "data"}
    BY TxAssumptions, TXP!SentKeys
  <2> QED  BY <2>1, TxAssumptions, TXP!TurnFacts, LinkAssumption
<1>5. D = {x \in air' : x.type = "data"}
  BY DEF TXP!DataIn
<1>6. /\ used' = used \cup {[key |-> x.key, nonce |-> x.nonce] : x \in D}
      /\ \A x \in D : [key |-> x.key, nonce |-> x.nonce] \notin used
      /\ \A x \in D, p \in used : TXP!After(x, p)
      /\ \A x, y \in D : x.at < y.at => TXP!After(y, x)
      /\ \A x \in D : x.key \in Nat /\ x.nonce \in Nat
  BY TxAssumptions, TXP!SentData DEF TXP!Rising
<1> HIDE DEF D
<1>7. \A p \in used : p.key \in Nat /\ p.nonce \in Nat
  BY DEF TXP!SendInv, TXP!SendType
<1>8. /\ e \in Seq(S)
      /\ \A x \in S : \E i \in 1..Len(e) : e[i] = x
      /\ \A i, j \in 1..Len(e) : i < j => e[i].at < e[j].at
      /\ \A i \in 1..Len(e) : e[i] \in S /\ e[i] \in air'
  <2>1. S \in SUBSET TXP!Packets(size)
    BY <1>3, <1>4
  <2>2. e \in Seq(S)
    BY <1>2, <2>1, HeardInOrder
  <2>3. \A i \in 1..Len(e) : e[i] \in S
    BY <2>2
  <2>4. /\ \A x \in S : \E i \in 1..Len(e) : e[i] = x
        /\ \A i, j \in 1..Len(e) : i < j => e[i].at < e[j].at
    BY <1>2, <2>1, HeardInOrder
  <2> QED  BY <1>3, <2>2, <2>3, <2>4
<1>9. QueueInv(q) /\ RepairInv(q)
  BY <1>2
<1>10. /\ Len(q) \in Nat /\ Len(e) \in Nat /\ Len(r) = Len(q) + Len(e)
       /\ \A i \in 1..Len(q) : r[i] = q[i]
       /\ \A i \in 1..Len(e) : r[Len(q) + i] = e[i]
  <2>1. IsSequence(q) /\ e \in Seq(S)
    BY <1>8, <1>9 DEF QueueInv
  <2> QED  BY <1>3, <2>1, ConcatFacts
<1>11. ASSUME NEW i \in 1..Len(r)
       PROVE  (i \in 1..Len(q) /\ r[i] = q[i])
              \/ \E m \in 1..Len(e) : i = Len(q) + m /\ r[i] = e[m]
  <2>1. CASE i <= Len(q)
    BY <1>10, <2>1
  <2>2. CASE ~(i <= Len(q))
    <3>1. i - Len(q) \in 1..Len(e) /\ i = Len(q) + (i - Len(q))
      BY <1>10, <2>2
    <3>2. PICK m \in 1..Len(e) : i = Len(q) + m
      BY <3>1
    <3> QED  BY <1>10, <3>2
  <2> QED  BY <2>1, <2>2
\* What is missed, and what waits.
<1>12. ASSUME NEW k, NEW n \in Nat
       PROVE  /\ IsMissed(k, n)' <=> \/ IsMissed(k, n)
                                     \/ \E x \in D \ S : x.key = k /\ x.nonce = n
              /\ Waits(r, k, n) <=> \/ Waits(q, k, n)
                                    \/ \E x \in D \cap S : x.key = k /\ x.nonce = n
  <2>1. ASSUME NEW x \in air' \ S
        PROVE  Miss(x, "lost").key = k /\ Miss(x, "lost").nonce = n
               <=> x \in D /\ x.key = k /\ x.nonce = n
    BY <1>4, <1>5 DEF Miss, Nonce, KeyNonce
  <2>2. IsMissed(k, n)' <=> \/ IsMissed(k, n)
                            \/ \E x \in D \ S : x.key = k /\ x.nonce = n
    <3>1. IsMissed(k, n)' <=> \/ IsMissed(k, n)
                              \/ \E x \in air' \ S : /\ Miss(x, "lost").key = k
                                                     /\ Miss(x, "lost").nonce = n
      BY <1>3 DEF IsMissed
    <3> QED  BY <1>5, <2>1, <3>1
  <2>3. ASSUME Waits(r, k, n)
        PROVE  Waits(q, k, n) \/ \E x \in D \cap S : x.key = k /\ x.nonce = n
    <3>1. PICK i \in 1..Len(r) : r[i].type = "data" /\ r[i].key = k /\ r[i].nonce = n
      BY <2>3 DEF Waits
    <3>2. CASE i \in 1..Len(q) /\ r[i] = q[i]
      BY <3>1, <3>2 DEF Waits
    <3>3. CASE \E m \in 1..Len(e) : i = Len(q) + m /\ r[i] = e[m]
      BY <1>5, <1>8, <3>1, <3>3
    <3> QED  BY <1>11, <3>2, <3>3
  <2>4. ASSUME Waits(q, k, n) PROVE Waits(r, k, n)
    <3>1. PICK i \in 1..Len(q) : q[i].type = "data" /\ q[i].key = k /\ q[i].nonce = n
      BY <2>4 DEF Waits
    <3>2. i \in 1..Len(r) /\ r[i] = q[i]
      BY <1>10
    <3> QED  BY <3>1, <3>2 DEF Waits
  <2>5. ASSUME NEW x \in D \cap S, x.key = k, x.nonce = n PROVE Waits(r, k, n)
    <3>1. PICK m \in 1..Len(e) : e[m] = x
      BY <1>8
    <3>2. Len(q) + m \in 1..Len(r) /\ r[Len(q) + m] = x
      BY <1>10, <3>1
    <3> QED  BY <1>5, <2>5, <3>2 DEF Waits
  <2> QED  BY <2>2, <2>3, <2>4, <2>5
<1>13. MissedInv'
  <2> SUFFICES ASSUME NEW m \in missed'
               PROVE  m.nonce = KeyNonce \/ [key |-> m.key, nonce |-> m.nonce] \in used'
    BY DEF MissedInv, KeyNonce
  <2>1. CASE m \in missed
    BY <1>6, <1>9, <2>1 DEF RepairInv, MissedInv
  <2>2. CASE \E x \in air' \ S : m = Miss(x, "lost")
    <3>1. PICK x \in air' \ S : m = Miss(x, "lost")
      BY <2>2
    <3>2. CASE x.type = "data"
      <4>1. x \in D /\ m.key = x.key /\ m.nonce = x.nonce
        BY <1>5, <3>1, <3>2 DEF Miss, Nonce
      <4> QED  BY <1>6, <4>1
    <3>3. CASE x.type # "data"
      BY <3>1, <3>3 DEF Miss, Nonce
    <3> QED  BY <3>2, <3>3
  <2> QED  BY <1>3, <2>1, <2>2
<1>14. ASSUME NEW k, NEW n \in Nat PROVE Taken(r, k, n)' <=> Taken(q, k, n)
  <2>1. \A x \in D : x.key = k /\ x.nonce = n => [key |-> k, nonce |-> n] \notin used
    BY <1>6
  <2>2. [key |-> k, nonce |-> n] \in used' <=> \/ [key |-> k, nonce |-> n] \in used
                                              \/ \E x \in D : x.key = k /\ x.nonce = n
    BY <1>6
  <2>3. /\ IsMissed(k, n)' <=> \/ IsMissed(k, n)
                               \/ \E x \in D \ S : x.key = k /\ x.nonce = n
        /\ Waits(r, k, n) <=> \/ Waits(q, k, n)
                              \/ \E x \in D \cap S : x.key = k /\ x.nonce = n
    BY <1>12
  <2>4. Waits(r, k, n)' <=> Waits(r, k, n)
    BY DEF Waits
  <2> QED  BY <2>1, <2>2, <2>3, <2>4 DEF Taken
<1>15. \A k, b : b \in 0..MaxBlock => Got(r, k, b)' = Got(q, k, b)
  <2> SUFFICES ASSUME NEW k, NEW b \in 0..MaxBlock PROVE Got(r, k, b)' = Got(q, k, b)
    OBVIOUS
  <2>1. \A f \in TXP!Fragments : b * 256 + f \in Nat
    BY DEF TXP!Fragments
  <2>2. \A f \in TXP!Fragments : Taken(r, k, b * 256 + f)' <=> Taken(q, k, b * 256 + f)
    BY <1>14, <2>1
  <2> QED  BY <2>2 DEF Got, TXP!Fragments
<1>16. PICK k \in Nat : k = session_key /\ CurrentInv(q, k)
  BY <1>9 DEF RepairInv
\* The packets that come are new, and later than all others.
<1>17. WaitingInv(q) /\ \A i \in 1..Len(q) : q[i].type = "data" =>
                          [key |-> q[i].key, nonce |-> q[i].nonce] \in used
  BY <1>9 DEF RepairInv, QueueInv, PacketInv
<1>18. ASSUME NEW i \in 1..Len(r), r[i].type = "data" PROVE ~IsMissed(r[i].key, r[i].nonce)'
  <2>1. CASE i \in 1..Len(q) /\ r[i] = q[i]
    <3>1. [key |-> q[i].key, nonce |-> q[i].nonce] \in used /\ ~IsMissed(q[i].key, q[i].nonce)
      BY <1>17, <1>18, <2>1 DEF WaitingInv
    <3>2. q[i].nonce \in Nat
      BY <1>7, <3>1
    <3>3. \A x \in D \ S : ~(x.key = q[i].key /\ x.nonce = q[i].nonce)
      BY <1>6, <3>1
    <3>4. ~IsMissed(q[i].key, q[i].nonce)'
      BY <1>12, <3>1, <3>2, <3>3
    <3> QED  BY <2>1, <3>4
  <2>2. CASE \E m \in 1..Len(e) : i = Len(q) + m /\ r[i] = e[m]
    <3>1. PICK y \in S : y = r[i] /\ y \in D
      BY <1>5, <1>8, <1>18, <2>2
    <3>2. y.nonce \in Nat /\ y.key \in Nat
      BY <1>6, <3>1
    <3>3. ~IsMissed(y.key, y.nonce)
      <4>1. [key |-> y.key, nonce |-> y.nonce] \notin used
        BY <1>6, <3>1
      <4> QED  BY <1>9, <3>2, <4>1 DEF RepairInv, MissedInv, IsMissed, KeyNonce
    <3>4. ASSUME NEW x \in D \ S, x.key = y.key, x.nonce = y.nonce PROVE FALSE
      <4>1. x.at < y.at \/ y.at < x.at
        BY <1>4, <1>5, <3>1
      <4>2. ~TXP!After(x, y) /\ ~TXP!After(y, x)
        BY <3>2, <3>4 DEF TXP!After
      <4> QED  BY <1>6, <3>1, <4>1, <4>2
    <3>5. ~IsMissed(y.key, y.nonce)'
      BY <1>12, <3>2, <3>3, <3>4
    <3> QED  BY <3>1, <3>5
  <2> QED  BY <1>11, <2>1, <2>2
<1>19. ASSUME NEW i \in 1..Len(r), NEW j \in 1..Len(r), i < j,
              r[i].type = "data", r[j].type = "data", r[i].key = r[j].key
       PROVE  r[i].nonce < r[j].nonce
  <2>1. CASE j \in 1..Len(q)
    <3>1. i \in 1..Len(q) /\ r[i] = q[i] /\ r[j] = q[j]
      BY <1>10, <1>19, <2>1
    <3> QED  BY <1>17, <1>19, <2>1, <3>1 DEF WaitingInv
  <2>2. CASE j \notin 1..Len(q)
    <3>1. PICK m \in 1..Len(e) : j = Len(q) + m /\ r[j] = e[m]
      BY <1>11, <2>2
    <3>2. r[j] \in D
      BY <1>5, <1>8, <1>19, <3>1
    <3>3. CASE i \in 1..Len(q) /\ r[i] = q[i]
      <4>1. [key |-> r[i].key, nonce |-> r[i].nonce] \in used
        BY <1>17, <1>19, <3>3
      <4>2. TXP!After(r[j], [key |-> r[i].key, nonce |-> r[i].nonce])
        BY <1>6, <3>2, <4>1
      <4> QED  BY <1>6, <1>7, <1>19, <3>2, <4>1, <4>2 DEF TXP!After
    <3>4. CASE \E l \in 1..Len(e) : i = Len(q) + l /\ r[i] = e[l]
      <4>1. PICK l \in 1..Len(e) : i = Len(q) + l /\ r[i] = e[l]
        BY <3>4
      <4>2. r[i] \in D /\ l < m
        <5>1. r[i] \in D
          BY <1>5, <1>8, <1>19, <4>1
        <5> QED  BY <1>10, <1>19, <3>1, <4>1, <5>1
      <4>3. TXP!After(r[j], r[i])
        BY <1>6, <1>8, <3>1, <3>2, <4>1, <4>2
      <4> QED  BY <1>6, <1>19, <3>2, <4>2, <4>3 DEF TXP!After
    <3> QED  BY <1>11, <3>3, <3>4
  <2> QED  BY <2>1, <2>2
<1>20. session_key' = session_key /\ last_known_block' = last_known_block
       /\ last_known_block \in -1..MaxBlock
  <2>1. last_known_block \in 0..MaxBlock \cup {-1}
    BY DEF RXP!RingInv, RXP!RingTypeOK, RXP!Blocks
  <2>2. session_key' = session_key /\ last_known_block' = last_known_block
    BY DEF rxVars
  <2> QED  BY <2>1, <2>2, LinkAssumption
<1>21. ASSUME NEW i \in 1..Len(r), r[i].type = "data", r[i].key = session_key
       PROVE  r[i].nonce >= last_known_block * 256
  <2>1. CASE i \in 1..Len(q) /\ r[i] = q[i]
    BY <1>17, <1>21, <2>1 DEF WaitingInv
  <2>2. CASE \E m \in 1..Len(e) : i = Len(q) + m /\ r[i] = e[m]
    <3>1. r[i] \in D /\ r[i].nonce \in Nat /\ r[i].key \in Nat
      BY <1>5, <1>6, <1>8, <1>21, <2>2
    <3>2. CASE last_known_block = -1
      BY <3>1, <3>2
    <3>3. CASE last_known_block # -1
      <4>1. PICK b \in 0..MaxBlock : b = last_known_block
        BY <1>20, <3>3
      <4>2. Got(q, k, b) # {}
        BY <1>16, <4>1 DEF CurrentInv, NewestInv
      <4>3. PICK f \in TXP!Fragments : Taken(q, k, b * 256 + f)
        BY <4>2 DEF Got
      <4>4. [key |-> session_key, nonce |-> b * 256 + f] \in used
        BY <1>16, <4>3 DEF Taken
      <4>5. TXP!After(r[i], [key |-> session_key, nonce |-> b * 256 + f])
        BY <1>6, <3>1, <4>4
      <4>6. f \in Nat /\ b \in Nat
        BY DEF TXP!Fragments
      <4> QED  BY <1>16, <1>21, <3>1, <4>1, <4>5, <4>6 DEF TXP!After
    <3> QED  BY <3>2, <3>3
  <2> QED  BY <1>11, <2>1, <2>2
<1>22. WaitingInv(r)'
  BY <1>18, <1>19, <1>20, <1>21 DEF WaitingInv
<1>23. OthersInv(r)' /\ CurrentInv(r, k)'
  <2>1. UNCHANGED <<session_key, RXP!ring>> /\ delivered \subseteq delivered'
    BY DEF rxVars, RXP!ring
  <2>2. OthersInv(q)
    BY <1>9 DEF RepairInv
  <2> QED  BY <1>15, <1>16, <2>1, <2>2, BlocksRest
<1>24. RepairInv(r)'
  BY <1>13, <1>16, <1>20, <1>22, <1>23 DEF RepairInv
<1> QED  BY <1>2, <1>24

LEMMA AloneRepair ==
  ASSUME NEW c \in Cards, RepairInv(heard[c]), UNCHANGED <<used, rxVars, heard, missed, delivered>>
  PROVE  RepairInv(heard[c])'
<1>1. PICK q : q = heard[c] /\ q = heard'[c]
  OBVIOUS
<1>2. UNCHANGED <<session_key, last_known_block, RXP!ring>> /\ delivered \subseteq delivered'
  BY DEF rxVars, RXP!ring
<1>3. \A k, n : IsMissed(k, n)' <=> IsMissed(k, n)
  BY DEF IsMissed
<1>4. \A k, b : Got(q, k, b)' = Got(q, k, b)
  BY <1>3 DEF Got, Taken, Waits, TXP!Fragments
<1>5. MissedInv' /\ WaitingInv(q)'
  BY <1>1, <1>2, <1>3 DEF RepairInv, MissedInv, WaitingInv, KeyNonce
<1>6. PICK k \in Nat : k = session_key /\ CurrentInv(q, k)
  BY <1>1 DEF RepairInv
<1>7. OthersInv(q)' /\ CurrentInv(q, k)'
  BY <1>1, <1>2, <1>4, <1>6, BlocksRest DEF RepairInv
<1>8. RepairInv(q)'
  BY <1>2, <1>5, <1>6, <1>7 DEF RepairInv
<1> QED  BY <1>1, <1>8
-----------------------------------------------------------------------------
LEMMA WaitsTail ==
  ASSUME NEW q, IsSequence(q), q # <<>>, NEW k, NEW n
  PROVE  Waits(q, k, n) <=> \/ q[1].type = "data" /\ q[1].key = k /\ q[1].nonce = n
                            \/ Waits(Tail(q), k, n)
<1>1. /\ Len(q) \in Nat /\ Len(q) > 0 /\ Len(Tail(q)) = Len(q) - 1
      /\ \A i \in 1..Len(Tail(q)) : i + 1 \in 1..Len(q) /\ Tail(q)[i] = q[i + 1]
  BY TailFacts
<1>2. ASSUME Waits(q, k, n)
      PROVE  \/ q[1].type = "data" /\ q[1].key = k /\ q[1].nonce = n
             \/ Waits(Tail(q), k, n)
  <2>1. PICK i \in 1..Len(q) : q[i].type = "data" /\ q[i].key = k /\ q[i].nonce = n
    BY <1>2 DEF Waits
  <2>2. CASE i = 1
    BY <2>1, <2>2
  <2>3. CASE i # 1
    <3>1. PICK j \in 1..Len(Tail(q)) : i = j + 1
      <4>1. i - 1 \in 1..Len(Tail(q)) /\ i = (i - 1) + 1
        BY <1>1, <2>3
      <4> QED  BY <4>1
    <3>2. Tail(q)[j] = q[i]
      BY <1>1, <3>1
    <3> QED  BY <2>1, <3>2 DEF Waits
  <2> QED  BY <2>2, <2>3
<1>3. q[1].type = "data" /\ q[1].key = k /\ q[1].nonce = n => Waits(q, k, n)
  <2>1. 1 \in 1..Len(q)
    BY <1>1
  <2> QED  BY <2>1 DEF Waits
<1>4. Waits(Tail(q), k, n) => Waits(q, k, n)
  BY <1>1 DEF Waits
<1> QED  BY <1>2, <1>3, <1>4

\* The receiver takes a packet: a fragment it opens is one more that it has.
TakesNext(c, q, r) ==
  /\ MissedInv'
  /\ Packet(c) = q[1] /\ PacketInv(q, 1)
  /\ \A i \in 1..Len(r) :
       /\ PacketInv(q, i + 1) /\ r[i] = q[i + 1]
       /\ r[i].type = "data" => /\ r[i].nonce \in Nat /\ ~IsMissed(r[i].key, r[i].nonce)'
       /\ r[i].type = "data" /\ q[1].type = "data" /\ r[i].key = q[1].key
            => r[i].nonce > q[1].nonce
       /\ r[i].type = "data" /\ r[i].key = session_key
            => r[i].nonce >= last_known_block * 256
  /\ \A i, j \in 1..Len(r) :
       i < j /\ r[i].type = "data" /\ r[j].type = "data" /\ r[i].key = r[j].key
         => r[i].nonce < r[j].nonce
  /\ \A k : \A n \in Nat :
       Taken(r, k, n)' <=> \/ Taken(q, k, n)
                           \/ /\ Packet(c).type = "data" /\ missed' = missed
                              /\ k = q[1].key /\ n = q[1].nonce
  /\ q[1].type = "data" => /\ q[1].nonce \in Nat
                           /\ q[1].nonce >= last_known_block * 256
                              \/ q[1].key # session_key
                           /\ ~Taken(q, q[1].key, q[1].nonce)

LEMMA TakesRepair ==
  ASSUME NEW c \in Cards, LinkInv(c), RepairInv(heard[c]), TakesFrom(c),
         NEW q, q = heard[c], NEW r, r = heard'[c],
         missed' = missed \/ /\ Packet(c).type = "data"
                             /\ missed' = missed \cup {Miss(Packet(c), "unread")}
  PROVE  TakesNext(c, q, r)
<1>1. /\ q # <<>> /\ r = Tail(q) /\ used' = used
  <2>1. heard \in [Cards -> {heard[d] : d \in Cards}]
    BY DEF LinkInv
  <2> QED  BY <2>1 DEF TakesFrom, txVars
<1>2. QueueInv(q) /\ WaitingInv(q) /\ MissedInv
  BY DEF LinkInv, RepairInv
<1>3. IsSequence(q) /\ \A i \in 1..Len(q) : PacketInv(q, i)
  BY <1>2 DEF QueueInv
<1>4. /\ Len(q) \in Nat /\ Len(q) > 0 /\ Head(q) = q[1] /\ Len(r) = Len(q) - 1
      /\ \A i \in 1..Len(r) : i + 1 \in 1..Len(q) /\ r[i] = q[i + 1]
      /\ 1 \in 1..Len(q)
  <2>1. /\ Len(q) \in Nat /\ Len(q) > 0 /\ Head(q) = q[1] /\ Len(r) = Len(q) - 1
        /\ \A i \in 1..Len(r) : i + 1 \in 1..Len(q) /\ r[i] = q[i + 1]
    BY <1>1, <1>3, TailFacts
  <2> QED  BY <2>1
<1>5. Packet(c) = q[1] /\ PacketInv(q, 1)
  BY <1>3, <1>4 DEF Packet
<1>6. \A p \in used : p.key \in Nat /\ p.nonce \in Nat
  BY DEF LinkInv, TXP!GapInv, TXP!SendInv, TXP!SendType
<1>7. \A i \in 1..Len(q) : q[i].type = "data" =>
        /\ [key |-> q[i].key, nonce |-> q[i].nonce] \in used /\ q[i].nonce \in Nat
        /\ ~IsMissed(q[i].key, q[i].nonce)
        /\ q[i].key = session_key => q[i].nonce >= last_known_block * 256
  <2> SUFFICES ASSUME NEW i \in 1..Len(q), q[i].type = "data"
               PROVE  /\ [key |-> q[i].key, nonce |-> q[i].nonce] \in used /\ q[i].nonce \in Nat
                      /\ ~IsMissed(q[i].key, q[i].nonce)
                      /\ q[i].key = session_key => q[i].nonce >= last_known_block * 256
    OBVIOUS
  <2>1. [key |-> q[i].key, nonce |-> q[i].nonce] \in used
    BY <1>3 DEF PacketInv
  <2>2. q[i].nonce \in Nat
    BY <1>6, <2>1
  <2> QED  BY <1>2, <2>1, <2>2 DEF WaitingInv
<1>8. \A i, j \in 1..Len(q) :
        i < j /\ q[i].type = "data" /\ q[j].type = "data" /\ q[i].key = q[j].key
          => q[i].nonce < q[j].nonce
  BY <1>2 DEF WaitingInv
<1>9. ASSUME NEW k, NEW n \in Nat
      PROVE  IsMissed(k, n)' <=> \/ IsMissed(k, n)
                                 \/ /\ Packet(c).type = "data" /\ missed' # missed
                                    /\ k = q[1].key /\ n = q[1].nonce
  <2>1. CASE missed' = missed
    BY <2>1 DEF IsMissed
  <2>2. CASE Packet(c).type = "data" /\ missed' = missed \cup {Miss(Packet(c), "unread")}
    <3>1. Miss(Packet(c), "unread").key = q[1].key /\ Miss(Packet(c), "unread").nonce = q[1].nonce
      BY <1>5, <2>2 DEF Miss, Nonce
    <3>2. IsMissed(k, n)' <=> IsMissed(k, n) \/ (k = q[1].key /\ n = q[1].nonce)
      BY <2>2, <3>1 DEF IsMissed
    <3>3. missed' # missed
      <4>1. ~IsMissed(q[1].key, q[1].nonce)
        BY <1>4, <1>5, <1>7, <2>2
      <4> QED  BY <2>2, <3>1, <4>1 DEF IsMissed
    <3> QED  BY <2>2, <3>2, <3>3
  <2> QED  BY <2>1, <2>2
<1>10. MissedInv'
  <2>1. CASE missed' = missed
    BY <1>1, <1>2, <2>1 DEF MissedInv, KeyNonce
  <2>2. CASE Packet(c).type = "data" /\ missed' = missed \cup {Miss(Packet(c), "unread")}
    <3>1. Miss(Packet(c), "unread").key = q[1].key /\ Miss(Packet(c), "unread").nonce = q[1].nonce
      BY <1>5, <2>2 DEF Miss, Nonce
    <3>2. [key |-> q[1].key, nonce |-> q[1].nonce] \in used
      BY <1>4, <1>5, <1>7, <2>2
    <3> QED  BY <1>1, <1>2, <2>2, <3>1, <3>2 DEF MissedInv, KeyNonce
  <2> QED  BY <2>1, <2>2
<1>11. ASSUME NEW i \in 1..Len(r)
       PROVE  /\ PacketInv(q, i + 1) /\ r[i] = q[i + 1]
              /\ r[i].type = "data" => /\ r[i].nonce \in Nat /\ ~IsMissed(r[i].key, r[i].nonce)'
              /\ r[i].type = "data" /\ q[1].type = "data" /\ r[i].key = q[1].key
                   => r[i].nonce > q[1].nonce
              /\ r[i].type = "data" /\ r[i].key = session_key
                   => r[i].nonce >= last_known_block * 256
  <2>1. i + 1 \in 1..Len(q) /\ 1 < i + 1 /\ r[i] = q[i + 1] /\ PacketInv(q, i + 1)
    BY <1>3, <1>4
  <2>2. ASSUME r[i].type = "data", q[1].type = "data", r[i].key = q[1].key
        PROVE  r[i].nonce > q[1].nonce
    <3>1. q[1].nonce < q[i + 1].nonce
      BY <1>4, <1>8, <2>1, <2>2
    <3>2. q[1].nonce \in Nat /\ q[i + 1].nonce \in Nat
      BY <1>4, <1>7, <2>1, <2>2
    <3> QED  BY <2>1, <3>1, <3>2
  <2>3. ASSUME r[i].type = "data"
        PROVE  r[i].nonce \in Nat /\ ~IsMissed(r[i].key, r[i].nonce)'
    <3>1. r[i].nonce \in Nat /\ ~IsMissed(r[i].key, r[i].nonce)
      BY <1>7, <2>1, <2>3
    <3>2. PICK k, n : k = r[i].key /\ n = r[i].nonce /\ n \in Nat /\ ~IsMissed(k, n)
      BY <3>1
    <3>3. ~(Packet(c).type = "data" /\ k = q[1].key /\ n = q[1].nonce)
      BY <1>5, <2>2, <2>3, <3>2
    <3>4. ~IsMissed(k, n)'
      BY <1>9, <3>2, <3>3
    <3> QED  BY <3>1, <3>2, <3>4
  <2>4. r[i].type = "data" /\ r[i].key = session_key
          => r[i].nonce >= last_known_block * 256
    BY <1>7, <2>1
  <2> QED  BY <2>1, <2>2, <2>3, <2>4
<1>12. ASSUME NEW i \in 1..Len(r), NEW j \in 1..Len(r), i < j,
              r[i].type = "data", r[j].type = "data", r[i].key = r[j].key
       PROVE  r[i].nonce < r[j].nonce
  <2>1. /\ i + 1 \in 1..Len(q) /\ j + 1 \in 1..Len(q) /\ i + 1 < j + 1
        /\ r[i] = q[i + 1] /\ r[j] = q[j + 1]
    BY <1>4, <1>12
  <2> QED  BY <1>8, <1>12, <2>1
<1>13. q[1].type = "data" => ~Waits(r, q[1].key, q[1].nonce)
  <2>1. ASSUME q[1].type = "data", NEW i \in 1..Len(r), r[i].type = "data",
               r[i].key = q[1].key, r[i].nonce = q[1].nonce
        PROVE  FALSE
    <3>1. q[1].nonce \in Nat
      BY <1>4, <1>7, <2>1
    <3>2. r[i].nonce > q[1].nonce
      BY <1>11, <2>1
    <3> QED  BY <2>1, <3>1, <3>2
  <2> QED  BY <2>1 DEF Waits
<1>14. ASSUME NEW k, NEW n \in Nat
       PROVE  Taken(r, k, n)' <=> \/ Taken(q, k, n)
                                  \/ /\ Packet(c).type = "data" /\ missed' = missed
                                     /\ k = q[1].key /\ n = q[1].nonce
  <2>1. Waits(q, k, n) <=> \/ q[1].type = "data" /\ q[1].key = k /\ q[1].nonce = n
                           \/ Waits(r, k, n)
    BY <1>1, <1>3, WaitsTail
  <2>2. Waits(r, k, n)' <=> Waits(r, k, n)
    BY DEF Waits
  <2>3. IsMissed(k, n)' <=> \/ IsMissed(k, n)
                            \/ /\ Packet(c).type = "data" /\ missed' # missed
                               /\ k = q[1].key /\ n = q[1].nonce
    BY <1>9
  <2>4. /\ Taken(r, k, n)' <=> /\ [key |-> k, nonce |-> n] \in used
                               /\ ~IsMissed(k, n)' /\ ~Waits(r, k, n)
        /\ Taken(q, k, n) <=> /\ [key |-> k, nonce |-> n] \in used
                              /\ ~IsMissed(k, n) /\ ~Waits(q, k, n)
    BY <1>1, <2>2 DEF Taken
  <2>5. ASSUME Packet(c).type = "data", k = q[1].key, n = q[1].nonce
        PROVE  /\ [key |-> k, nonce |-> n] \in used /\ ~IsMissed(k, n)
               /\ Waits(q, k, n) /\ ~Waits(r, k, n)
    BY <1>4, <1>5, <1>7, <1>13, <2>1, <2>5
  <2> QED  BY <1>5, <2>1, <2>3, <2>4, <2>5
<1>15. ASSUME q[1].type = "data"
       PROVE  /\ q[1].nonce \in Nat
              /\ q[1].nonce >= last_known_block * 256 \/ q[1].key # session_key
              /\ ~Taken(q, q[1].key, q[1].nonce)
  <2>1. Waits(q, q[1].key, q[1].nonce)
    BY <1>4, <1>15 DEF Waits
  <2> QED  BY <1>4, <1>7, <1>15, <2>1 DEF Taken
<1> QED  BY <1>5, <1>10, <1>11, <1>12, <1>14, <1>15 DEF TakesNext
-----------------------------------------------------------------------------
LEMMA GotSame ==
  ASSUME NEW q, NEW r, \A l : \A n \in Nat : Taken(r, l, n)' <=> Taken(q, l, n)
  PROVE  \A l, b : b \in 0..MaxBlock => Got(r, l, b)' = Got(q, l, b)
<1> SUFFICES ASSUME NEW l, NEW b \in 0..MaxBlock PROVE Got(r, l, b)' = Got(q, l, b)
  OBVIOUS
<1>1. \A f \in TXP!Fragments : b * 256 + f \in Nat
  BY DEF TXP!Fragments
<1>2. \A f \in TXP!Fragments : Taken(r, l, b * 256 + f)' <=> Taken(q, l, b * 256 + f)
  BY <1>1
<1> QED  BY <1>2 DEF Got, TXP!Fragments

\* The receiver takes packet m of session k.
Takes(q, r, k, m) == \A l : \A n \in Nat :
                       Taken(r, l, n)' <=> Taken(q, l, n) \/ (l = k /\ n = m)

LEMMA GotGrows ==
  ASSUME NEW q, NEW r, NEW k, NEW b \in 0..MaxBlock, NEW f \in TXP!Fragments,
         NEW m, m = b * 256 + f, Takes(q, r, k, m)
  PROVE  /\ Got(r, k, b)' = Got(q, k, b) \cup {f}
         /\ \A l, d : d \in 0..MaxBlock /\ (l # k \/ d # b) => Got(r, l, d)' = Got(q, l, d)
<1>1. ASSUME NEW l, NEW d \in 0..MaxBlock, NEW g \in TXP!Fragments
      PROVE  Taken(r, l, d * 256 + g)' <=> \/ Taken(q, l, d * 256 + g)
                                           \/ (l = k /\ d = b /\ g = f)
  <2>1. d * 256 + g \in Nat /\ (d * 256 + g = b * 256 + f <=> d = b /\ g = f)
    <3>1. d \in Nat /\ b \in Nat /\ g \in 0..255 /\ f \in 0..255
      BY LinkAssumption DEF TXP!Fragments
    <3> QED  BY <3>1
  <2>2. PICK n \in Nat : n = d * 256 + g
    BY <2>1
  <2>3. Taken(r, l, n)' <=> Taken(q, l, n) \/ (l = k /\ n = b * 256 + f)
    BY DEF Takes
  <2> QED  BY <2>1, <2>2, <2>3
<1>2. TXP!Fragments' = TXP!Fragments
  BY DEF TXP!Fragments
<1>3. Got(r, k, b)' = Got(q, k, b) \cup {f}
  <2>1. \A g \in TXP!Fragments : Taken(r, k, b * 256 + g)' <=> Taken(q, k, b * 256 + g) \/ g = f
    BY <1>1
  <2> QED  BY <1>2, <2>1 DEF Got
<1>4. ASSUME NEW l, NEW d \in 0..MaxBlock, l # k \/ d # b PROVE Got(r, l, d)' = Got(q, l, d)
  <2>1. \A g \in TXP!Fragments : Taken(r, l, d * 256 + g)' <=> Taken(q, l, d * 256 + g)
    BY <1>1, <1>4
  <2> QED  BY <1>2, <2>1 DEF Got
<1> QED  BY <1>3, <1>4

\* What a session got that is not the receiver's, or no longer, stays.
LEMMA OthersRest ==
  ASSUME NEW q, NEW r, OthersInv(q), delivered \subseteq delivered', UNCHANGED session_key,
         \A l, b : b \in 0..MaxBlock /\ l # session_key => Got(r, l, b)' = Got(q, l, b)
  PROVE  OthersInv(r)'
<1> SUFFICES ASSUME NEW l \in 1..MaxSession, NEW b \in 0..MaxBlock
             PROVE  /\ l > session_key => Got(r, l, b)' = {}
                    /\ l < session_key => Good(r, l, b)'
  BY DEF OthersInv
<1>1. \A a \in 0..b : a \in 0..MaxBlock
  BY LinkAssumption
<1>2. CASE l = session_key
  <2>1. ~(l > session_key) /\ ~(l < session_key)
    BY <1>2
  <2> QED  BY <2>1
<1>3. CASE l # session_key
  <2>1. /\ Got(r, l, b)' = Got(q, l, b)
        /\ \A a \in 0..(b - 1) : Got(r, l, a)' = Got(q, l, a)
    BY <1>1, <1>3
  <2>2. Good(q, l, b) => Good(r, l, b)'
    BY <2>1, ServedStays
  <2> QED  BY <2>1, <2>2 DEF OthersInv
<1> QED  BY <1>2, <1>3

LEMMA NewestSends ==
  ASSUME RXP!RingInv, rx_ring_alloc > 0
  PROVE  Newest.send_fragment_idx \in Int
<1>1. rx_ring_alloc - 1 \in Nat
  BY DEF RXP!RingInv, RXP!RingTypeOK
<1>2. RXP!SlotAt(rx_ring_alloc - 1) \in RXP!Slots
  BY <1>1, RxAssumptions, RXP!SlotType DEF RXP!RingInv, RXP!RingTypeOK
<1>3. Newest \in RXP!Entry
  BY <1>2 DEF Newest, RXP!EntryAt, RXP!RingInv, RXP!RingTypeOK
<1>4. RXP!Entry = [block_idx : 0..MaxBlock, send_fragment_idx : 0..FecK,
                   has_fragments : 0..FecN, fragment_map : SUBSET RXP!Frags]
  BY DEF RXP!Entry, RXP!Blocks
<1>5. Newest.send_fragment_idx \in 0..FecK
  <2> HIDE DEF Newest
  <2> QED  BY <1>3, <1>4
<1> QED  BY <1>5

\* A fragment of the newest block, or of a newer one, enters the ring.
LEMMA NewDataServes ==
  ASSUME NEW q, NEW r, NEW k \in 1..MaxSession, k = session_key,
         NEW b \in 0..MaxBlock, NEW f \in TXP!Fragments, NEW A, RXP!NewData(k, b, f, A), Deliver,
         RXP!GenuineInv, CurrentInv(q, k), b >= last_known_block,
         Got(r, k, b)' = Got(q, k, b) \cup {f},
         \A d : d \in 0..MaxBlock /\ d # b => Got(r, k, d)' = Got(q, k, d)
  PROVE  CurrentInv(r, k)' /\ last_known_block' = b
<1> DEFINE Old == RXP!Place(b) = RXP!Overridden(b)
<1>1. /\ b \in RXP!Blocks /\ f \in RXP!Frags /\ RXP!RingInv
      /\ ~RXP!AlreadyProcessed(b)
  BY HighFacts DEF RXP!Blocks, RXP!Frags, TXP!Fragments, RXP!NewData
<1>2. /\ last_known_block \in -1..MaxBlock /\ rx_ring_alloc \in Nat /\ MaxBlock \in Nat
      /\ FecK \in Nat
  BY <1>1, LinkAssumption DEF RXP!RingInv, RXP!RingTypeOK, RXP!Blocks
<1>3. /\ last_known_block' = b /\ rx_ring_alloc' \in Nat
      /\ RXP!Found(b) # {} => /\ b = last_known_block /\ rx_ring_alloc > 0
                              /\ RXP!Place(b) = rx_ring_alloc - 1 /\ RXP!Overridden(b) = 0
                              /\ RXP!Target(b) = Newest
      /\ RXP!Found(b) = {} => b > last_known_block
      /\ RXP!Finishes(b, f) => rx_ring_alloc' = 0
      /\ ~RXP!Finishes(b, f) => /\ rx_ring_alloc' > 0 /\ Newest' = RXP!NewEntry(b, f)
                                /\ rx_ring_alloc' = 1 <=> Old
  BY <1>1, RxAssumptions, RXP!NewestServed DEF Newest
<1>4. /\ session_key' = session_key /\ delivered \subseteq delivered'
      /\ delivered' = delivered \cup
           {[number |-> Number(session_key, RXP!Position(x)),
             whole  |-> x.pkt = [key |-> session_key, blk |-> x.blk]] : x \in out'}
  <2>1. \A x \in out' : RX!Position(x) = RXP!Position(x)
    BY SameNames
  <2>2. session_key' = session_key
    BY DEF RXP!NewData
  <2> QED  BY <2>1, <2>2 DEF Deliver
\* The blocks before it are as they were.
<1>5. ASSUME NEW d \in 0..MaxBlock, d <= b
      PROVE  \A a \in 0..(d - 1) : Got(r, k, a)' = Got(q, k, a)
  BY <1>2, <1>5
<1>6. ASSUME NEW d \in 0..MaxBlock, d < b PROVE Good(r, k, d)'
  <2>1. \A a \in 0..(d - 1) : Got(r, k, a)' = Got(q, k, a)
    BY <1>2, <1>5, <1>6
  <2>2. Got(r, k, d)' = Got(q, k, d) /\ Good(q, k, d)
    BY <1>1, <1>6, CurrentGood
  <2> QED  BY <1>4, <2>1, <2>2, ServedStays
<1>7. Clean(r, k, b)' <=> Clean(q, k, b)
  <2>1. \A a \in 0..(b - 1) : Got(r, k, a)' = Got(q, k, a)
    BY <1>2, <1>5
  <2> QED  BY <1>4, <2>1, ServedStays
\* A block that has to wait for another one waits for one that cannot be repaired.
<1>8. ASSUME ~Old PROVE ~Clean(q, k, b)
  <2>1. CASE RXP!Found(b) # {}
    <3>1. b = last_known_block /\ rx_ring_alloc > 1
      BY <1>2, <1>3, <1>8, <2>1
    <3> QED  BY <3>1 DEF CurrentInv, NewestInv
  <2>2. CASE RXP!Found(b) = {}
    <3>1. /\ last_known_block # -1 /\ b # 0
          /\ b - 1 > last_known_block \/ (b - 1 = last_known_block /\ rx_ring_alloc > 0)
      BY <1>1, <1>8, <2>2, RxAssumptions, RXP!WaitsBehind
    <3>2. PICK l : l = last_known_block /\ l \in 0..MaxBlock /\ l \in 0..(b - 1)
      BY <1>2, <3>1
    <3>3. Got(q, k, l) # {} /\ (rx_ring_alloc > 0 => Got(q, k, l) = Newest.fragment_map)
      BY <3>2 DEF CurrentInv, NewestInv
    <3>4. b - 1 \in 0..MaxBlock
      BY <1>2, <3>1
    <3>5. Cardinality(Got(q, k, b - 1)) < FecK
      <4>1. CASE b - 1 > last_known_block
        <5>1. Got(q, k, b - 1) = {}
          BY <3>4, <4>1 DEF CurrentInv
        <5> QED  BY <5>1, GotFinite
      <4>2. CASE b - 1 = last_known_block /\ rx_ring_alloc > 0
        BY <1>1, <3>2, <3>3, <4>2, NewestFew
      <4> QED  BY <3>1, <4>1, <4>2
    <3>6. Cardinality(Got(q, k, b - 1)) \in Nat
      BY GotFinite
    <3> QED  BY <1>2, <3>1, <3>2, <3>3, <3>5, <3>6 DEF Clean
  <2> QED  BY <2>1, <2>2
\* The oldest block has handed over what it has sent.
<1>9. ASSUME Old, NEW g \in 0..(FecK - 1), g < RXP!SentTo(b, f) PROVE Handed(k, b, g)'
  <2>1. CASE g < RXP!Target(b).send_fragment_idx
    <3>1. RXP!Found(b) # {}
      <4>1. RXP!Found(b) = {} => RXP!Target(b).send_fragment_idx = 0
        BY <1>1, <1>2, <1>3, RxAssumptions, RXP!NewestPlace
      <4> QED  BY <2>1, <4>1
    <3>2. b = last_known_block /\ rx_ring_alloc = 1 /\ RXP!Target(b) = Newest
      BY <1>2, <1>3, <1>9, <3>1
    <3>3. g \in 0..(Newest.send_fragment_idx - 1)
      <4>1. Newest.send_fragment_idx \in Int
        BY <1>1, <3>2, NewestSends
      <4> QED  BY <2>1, <3>2, <4>1
    <3>4. Handed(k, b, g)
      BY <3>2, <3>3 DEF CurrentInv, NewestInv
    <3> QED  BY <1>4, <3>4 DEF Handed, Number
  <2>2. CASE RXP!Target(b).send_fragment_idx <= g
    <3>1. k \in 1..MaxSession /\ g \in RXP!Data
      BY DEF RXP!Data
    <3>2. PICK x \in out' : x.blk = b /\ x.frag = g /\ x.pkt = [key |-> k, blk |-> b]
      BY <1>1, <1>9, <2>2, <3>1, RxAssumptions, RXP!OldestServed
    <3>3. RXP!Position(x) = b * FecK + g
      BY <3>2 DEF RXP!Position
    <3> QED  BY <1>4, <3>2, <3>3 DEF Handed, Number
  <2>3. g \in Int /\ RXP!Target(b).send_fragment_idx \in Int
    <3>1. RXP!Found(b) = {} => RXP!Target(b).send_fragment_idx = 0
      BY <1>1, <1>2, <1>3, RxAssumptions, RXP!NewestPlace
    <3>2. RXP!Found(b) # {} => RXP!Target(b).send_fragment_idx \in Int
      <4>1. rx_ring_alloc > 0 => Newest.send_fragment_idx \in Int
        BY <1>1, NewestSends
      <4> QED  BY <1>3, <4>1
    <3> QED  BY <3>1, <3>2
  <2> QED  BY <2>1, <2>2, <2>3
\* What the ring holds of it is what came of it.
<1>10. ASSUME ~RXP!Finishes(b, f) PROVE Got(r, k, b)' = (Newest.fragment_map)'
  <2>1. Got(q, k, b) = RXP!Target(b).fragment_map
    <3>1. CASE RXP!Found(b) # {}
      BY <1>3, <3>1 DEF CurrentInv, NewestInv
    <3>2. CASE RXP!Found(b) = {}
      BY <1>1, <1>2, <1>3, <3>2, RxAssumptions, RXP!NewestPlace DEF CurrentInv
    <3> QED  BY <3>1, <3>2
  <2>2. RXP!NewEntry(b, f).fragment_map = RXP!Target(b).fragment_map \cup {f}
    BY DEF RXP!NewEntry, RXP!Stored
  <2> QED  BY <1>3, <1>10, <2>1, <2>2
<1>11. NewestInv(r, k, b)'
  <2>1. Got(r, k, b)' # {}
    OBVIOUS
  <2>2. CASE RXP!Finishes(b, f)
    <3>1. rx_ring_alloc' = 0 /\ RXP!SentTo(b, f) = FecK
      BY <1>3, <2>2 DEF RXP!SentTo
    <3>2. ASSUME Clean(r, k, b)', NEW g \in 0..(FecK - 1) PROVE Handed(k, b, g)'
      BY <1>2, <1>7, <1>8, <1>9, <3>1, <3>2
    <3>3. Served(r, k, b)'
      BY <3>2 DEF Served
    <3> QED  BY <2>1, <3>1, <3>3 DEF NewestInv
  <2>3. CASE ~RXP!Finishes(b, f)
    <3>1. rx_ring_alloc' > 0 /\ rx_ring_alloc' \in Nat /\ (rx_ring_alloc' = 1 <=> Old)
      BY <1>3, <2>3
    <3>2. ASSUME rx_ring_alloc' = 1, NEW g \in 0..((Newest.send_fragment_idx)' - 1)
          PROVE  Handed(k, b, g)'
      <4>1. (Newest.send_fragment_idx)' = RXP!SentTo(b, f) /\ RXP!SentTo(b, f) \in 0..FecK
        <5>1. (Newest.send_fragment_idx)' = RXP!SentTo(b, f)
          BY <1>3, <2>3 DEF RXP!NewEntry
        <5> QED  BY <1>1, <5>1, RxAssumptions, RXP!SentToType
      <4>2. g \in 0..(FecK - 1) /\ g < RXP!SentTo(b, f)
        BY <1>2, <4>1
      <4> QED  BY <1>9, <3>1, <3>2, <4>2
    <3>3. rx_ring_alloc' > 1 => ~Clean(r, k, b)'
      BY <1>7, <1>8, <3>1
    <3> QED  BY <1>10, <2>1, <2>3, <3>1, <3>2, <3>3 DEF NewestInv
  <2> QED  BY <2>2, <2>3
<1>12. CurrentInv(r, k)'
  <2> SUFFICES ASSUME NEW d \in 0..MaxBlock
               PROVE  /\ d > b => Got(r, k, d)' = {}
                      /\ d < b => Good(r, k, d)'
                      /\ d = b => NewestInv(r, k, d)'
    BY <1>3 DEF CurrentInv
  <2>1. d > b => Got(q, k, d) = {}
    BY <1>2 DEF CurrentInv
  <2> QED  BY <1>2, <1>6, <1>11, <2>1
<1> QED  BY <1>3, <1>12
-----------------------------------------------------------------------------
\* A fragment of the newest block after that block was finished: of no use any more.
LEMMA FinishedServes ==
  ASSUME NEW q, NEW r, NEW k, NEW b \in 0..MaxBlock, NEW f, CurrentInv(q, k),
         b = last_known_block, rx_ring_alloc = 0, delivered \subseteq delivered',
         UNCHANGED RXP!ring, Got(r, k, b)' = Got(q, k, b) \cup {f},
         \A d : d \in 0..MaxBlock /\ d # b => Got(r, k, d)' = Got(q, k, d)
  PROVE  CurrentInv(r, k)'
<1>1. b \in Nat /\ MaxBlock \in Nat /\ rx_ring_alloc' = 0 /\ last_known_block' = b
  BY LinkAssumption DEF RXP!ring
<1>2. ASSUME NEW d \in 0..MaxBlock, d <= b
      PROVE  \A a \in 0..(d - 1) : Got(r, k, a)' = Got(q, k, a)
  BY <1>1, <1>2
<1>3. ASSUME NEW d \in 0..MaxBlock, d < b PROVE Good(r, k, d)'
  <2>1. \A a \in 0..(d - 1) : Got(r, k, a)' = Got(q, k, a)
    BY <1>1, <1>2, <1>3
  <2>2. Got(r, k, d)' = Got(q, k, d) /\ Good(q, k, d)
    BY <1>1, <1>3 DEF CurrentInv
  <2> QED  BY <2>1, <2>2, ServedStays
<1>4. NewestInv(r, k, b)'
  <2>1. \A a \in 0..(b - 1) : Got(r, k, a)' = Got(q, k, a)
    BY <1>1, <1>2
  <2>2. Served(q, k, b)
    BY DEF CurrentInv, NewestInv
  <2>3. Served(r, k, b)'
    BY <2>1, <2>2, ServedStays
  <2> QED  BY <1>1, <2>3 DEF NewestInv
<1> QED  BY <1>1, <1>3, <1>4 DEF CurrentInv

LEMMA ReceiveDataRepair ==
  ASSUME NEW c \in Cards, LinkInv(c), RepairInv(heard[c]), ReceiveData(c)
  PROVE  RepairInv(heard[c])'
<1>1. TakesFrom(c) /\ Packet(c).type = "data" /\ Deliver
  BY DEF ReceiveData
<1>2. session \in 1..MaxSession /\ session \in Nat /\ TXP!Indexed /\ RXP!GenuineInv
  BY <1>1, TransmitterRests DEF LinkInv, TakesFrom, TXP!GapInv
<1>3. PICK x, q, r : x = Packet(c) /\ q = heard[c] /\ r = heard'[c]
  OBVIOUS
<1>4. \/ missed' = missed \cup {Miss(x, "unread")} /\ RXP!UndecryptableData(x.key)
      \/ /\ x.nonce \div 256 > MaxBlock \/ x.nonce % 256 >= FecN
         /\ missed' = missed
      \/ missed' = missed /\ RXP!KnownData(x.key, x.nonce \div 256, x.nonce % 256, {c})
      \/ missed' = missed /\ RXP!NewData(x.key, x.nonce \div 256, x.nonce % 256, {c})
  BY <1>3, SameUndecryptableData, SameKnownData, SameNewData DEF ReceiveData
<1> DEFINE Opens == missed' = missed
<1>5. /\ MissedInv' /\ x = q[1] /\ PacketInv(q, 1)
      /\ \A i \in 1..Len(r) :
           /\ r[i].type = "data" => /\ r[i].nonce \in Nat /\ ~IsMissed(r[i].key, r[i].nonce)'
           /\ r[i].type = "data" /\ r[i].key = x.key => r[i].nonce > x.nonce
           /\ r[i].type = "data" /\ r[i].key = session_key
                => r[i].nonce >= last_known_block * 256
      /\ \A i, j \in 1..Len(r) :
           i < j /\ r[i].type = "data" /\ r[j].type = "data" /\ r[i].key = r[j].key
             => r[i].nonce < r[j].nonce
      /\ \A k : \A n \in Nat :
           Taken(r, k, n)' <=> Taken(q, k, n) \/ (Opens /\ k = x.key /\ n = x.nonce)
      /\ x.nonce \in Nat
      /\ x.nonce >= last_known_block * 256 \/ x.key # session_key
      /\ ~Taken(q, x.key, x.nonce)
  <2>1. missed' = missed \/ /\ Packet(c).type = "data"
                            /\ missed' = missed \cup {Miss(Packet(c), "unread")}
    BY <1>1, <1>3, <1>4
  <2> HIDE DEF Opens
  <2>2. TakesNext(c, q, r)
    BY <1>1, <1>3, <2>1, TakesRepair
  <2>3. x = q[1] /\ q[1].type = "data"
    BY <1>1, <1>3, <2>2 DEF TakesNext
  <2>4. \A i \in 1..Len(r) :
          /\ r[i].type = "data" => /\ r[i].nonce \in Nat /\ ~IsMissed(r[i].key, r[i].nonce)'
          /\ r[i].type = "data" /\ r[i].key = x.key => r[i].nonce > x.nonce
          /\ r[i].type = "data" /\ r[i].key = session_key
               => r[i].nonce >= last_known_block * 256
    BY <2>2, <2>3, Zenon DEF TakesNext
  <2>5. \A k : \A n \in Nat :
          Taken(r, k, n)' <=> Taken(q, k, n) \/ (Opens /\ k = x.key /\ n = x.nonce)
    BY <1>1, <2>2, <2>3 DEF Opens, TakesNext
  <2> QED  BY <2>2, <2>3, <2>4, <2>5 DEF TakesNext
<1> HIDE DEF Opens
<1>6. x.key \in 1..MaxSession /\ [key |-> x.key, nonce |-> x.nonce] \in used
  BY <1>1, <1>2, <1>3, <1>5, LinkAssumption DEF PacketInv
<1>7. PICK b \in 0..MaxBlock, f \in TXP!Fragments :
        [key |-> x.key, nonce |-> x.nonce] = TXP!Lies(x.key, b, f)
  BY <1>2, <1>6 DEF TXP!Indexed
<1>8. /\ x.nonce = b * 256 + f /\ x.nonce \div 256 = b /\ x.nonce % 256 = f
      /\ b \in Nat /\ f \in 0..255 /\ f < FecN /\ b <= MaxBlock
  <2>1. f \in 0..255 /\ b \in Nat /\ x.nonce = b * 256 + f
    BY <1>7, LinkAssumption DEF TXP!Lies, TXP!Fragments
  <2> QED  BY <2>1, LinkAssumption DEF TXP!Fragments
<1>9. PICK k \in Nat : k = session_key /\ CurrentInv(q, k)
  BY <1>3 DEF RepairInv
<1>10. OthersInv(q)
  BY <1>3 DEF RepairInv
<1>11. /\ RXP!RingInv /\ b \in RXP!Blocks /\ f \in RXP!Frags
       /\ last_known_block \in -1..MaxBlock /\ rx_ring_alloc \in Nat
  <2>1. RXP!RingInv
    BY <1>2, HighFacts
  <2>2. last_known_block \in 0..MaxBlock \cup {-1} /\ rx_ring_alloc \in Nat
    BY <2>1 DEF RXP!RingInv, RXP!RingTypeOK, RXP!Blocks
  <2> QED  BY <2>1, <2>2, LinkAssumption DEF RXP!Blocks, RXP!Frags, TXP!Fragments
<1>12. delivered \subseteq delivered'
  BY <1>1 DEF Deliver
\* If the session stays, it is enough to look at its blocks.
<1>13. ASSUME session_key' = session_key, OthersInv(r)', CurrentInv(r, k)',
              \/ last_known_block' = last_known_block
              \/ x.key = session_key /\ last_known_block' = b
       PROVE  RepairInv(r)'
  <2>1. ASSUME NEW i \in 1..Len(r), r[i].type = "data", r[i].key = session_key
        PROVE  r[i].nonce >= last_known_block' * 256
    <3>1. CASE last_known_block' = last_known_block
      BY <1>5, <2>1, <3>1
    <3>2. CASE x.key = session_key /\ last_known_block' = b
      <4>1. r[i].nonce \in Nat /\ r[i].nonce > b * 256 + f
        BY <1>5, <1>8, <2>1, <3>2
      <4>2. PICK n \in Nat : n = r[i].nonce
        BY <4>1
      <4>3. b \in Nat /\ f \in Nat
        BY <1>8
      <4>4. n >= b * 256
        BY <4>1, <4>2, <4>3
      <4> QED  BY <3>2, <4>2, <4>4
    <3> QED  BY <1>13, <3>1, <3>2
  <2>2. WaitingInv(r)'
    BY <1>5, <1>13, <2>1 DEF WaitingInv
  <2> QED  BY <1>5, <1>9, <1>13, <2>2 DEF RepairInv
<1>14. CASE missed' = missed \cup {Miss(x, "unread")} /\ RXP!UndecryptableData(x.key)
  <2>1. UNCHANGED <<RXP!ring, session_key>> /\ last_known_block' = last_known_block
    BY <1>14 DEF RXP!UndecryptableData, RXP!Drops, RXP!ring
  <2>2. IsMissed(x.key, x.nonce)'
    <3>1. Miss(x, "unread") \in missed' /\ Miss(x, "unread").key = x.key
          /\ Miss(x, "unread").nonce = x.nonce
      BY <1>1, <1>3, <1>14 DEF Miss, Nonce
    <3> QED  BY <3>1 DEF IsMissed
  <2>3. \A l : \A n \in Nat : Taken(r, l, n)' <=> Taken(q, l, n)
    BY <1>5, <2>2 DEF Taken
  <2>4. \A l, d : d \in 0..MaxBlock => Got(r, l, d)' = Got(q, l, d)
    BY <2>3, GotSame
  <2>5. OthersInv(r)' /\ CurrentInv(r, k)'
    BY <1>9, <1>10, <1>12, <2>1, <2>4, BlocksRest
  <2>6. session_key' = session_key /\ last_known_block' = last_known_block
    BY <2>1
  <2>7. RepairInv(r)'
    BY <1>13, <2>5, <2>6
  <2> QED  BY <1>3, <2>7
\* A packet that is opened.
<1>15. ASSUME Opens, x.key = session_key
       PROVE  /\ k \in 1..MaxSession /\ x.key = k
              /\ Got(r, k, b)' = Got(q, k, b) \cup {f} /\ f \notin Got(q, k, b)
              /\ \A l, d : d \in 0..MaxBlock /\ (l # k \/ d # b)
                             => Got(r, l, d)' = Got(q, l, d)
              /\ b >= last_known_block
  <2>1. k \in 1..MaxSession /\ x.key = k
    BY <1>6, <1>9, <1>15
  <2>2. Takes(q, r, k, x.nonce)
    BY <1>5, <1>15, <2>1 DEF Takes
  <2>3. /\ Got(r, k, b)' = Got(q, k, b) \cup {f}
        /\ \A l, d : d \in 0..MaxBlock /\ (l # k \/ d # b) => Got(r, l, d)' = Got(q, l, d)
    <3>1. PICK m : m = x.nonce /\ m = b * 256 + f
      BY <1>8
    <3>2. Takes(q, r, k, m)
      BY <2>2, <3>1
    <3>3. /\ Got(r, k, b)' = Got(q, k, b) \cup {f}
          /\ \A l, d : d \in 0..MaxBlock /\ (l # k \/ d # b)
                         => Got(r, l, d)' = Got(q, l, d)
      BY <3>1, <3>2, GotGrows
    <3> QED  BY <3>3
  <2>4. f \notin Got(q, k, b)
    <3>1. ~Taken(q, x.key, x.nonce) /\ x.nonce = b * 256 + f
      BY <1>5, <1>8
    <3> QED  BY <2>1, <3>1 DEF Got
  <2>5. b >= last_known_block
    BY <1>5, <1>8, <1>11, <1>15
  <2> QED  BY <2>1, <2>3, <2>4, <2>5
<1>16. CASE missed' = missed /\ RXP!KnownData(x.key, b, f, {c})
  <2>1. /\ UNCHANGED <<RXP!ring, session_key>> /\ last_known_block' = last_known_block
        /\ x.key = session_key /\ (RXP!AlreadyProcessed(b) \/ f \in RXP!Target(b).fragment_map)
    BY <1>16 DEF RXP!KnownData, RXP!Drops, RXP!ring, RXP!Accepted
  <2>2. /\ k \in 1..MaxSession /\ x.key = k
        /\ Got(r, k, b)' = Got(q, k, b) \cup {f} /\ f \notin Got(q, k, b)
        /\ \A l, d : d \in 0..MaxBlock /\ (l # k \/ d # b) => Got(r, l, d)' = Got(q, l, d)
        /\ b >= last_known_block
    BY <1>15, <1>16, <2>1 DEF Opens
  <2>3. /\ RXP!Found(b) # {} => /\ b = last_known_block /\ rx_ring_alloc > 0
                                /\ RXP!Target(b) = Newest
        /\ RXP!Found(b) = {} => RXP!Target(b).fragment_map = {}
        /\ RXP!Found(b) = {} /\ b = last_known_block => rx_ring_alloc = 0
    BY <1>11, <2>2, RxAssumptions, RXP!NewestPlace DEF Newest
  <2>4. RXP!Found(b) = {}
    <3>1. ASSUME RXP!Found(b) # {} PROVE FALSE
      <4>1. f \in Newest.fragment_map /\ b = last_known_block /\ rx_ring_alloc > 0
        BY <2>1, <2>3, <3>1 DEF RXP!AlreadyProcessed
      <4>2. Got(q, k, b) = Newest.fragment_map
        BY <1>9, <4>1 DEF CurrentInv, NewestInv
      <4> QED  BY <2>2, <4>1, <4>2
    <3> QED  BY <3>1
  <2>5. b = last_known_block /\ rx_ring_alloc = 0
    <3>1. b <= last_known_block
      BY <2>1, <2>3, <2>4 DEF RXP!AlreadyProcessed
    <3> QED  BY <1>8, <1>11, <2>2, <2>3, <2>4, <3>1
  <2>6. CurrentInv(r, k)'
    BY <1>9, <1>12, <2>1, <2>2, <2>5, FinishedServes
  <2>7. OthersInv(r)'
    BY <1>9, <1>10, <1>12, <2>1, <2>2, OthersRest
  <2>8. session_key' = session_key /\ last_known_block' = last_known_block
    BY <2>1
  <2>9. RepairInv(r)'
    BY <1>13, <2>6, <2>7, <2>8
  <2> QED  BY <1>3, <2>9
<1>17. CASE missed' = missed /\ RXP!NewData(x.key, b, f, {c})
  <2>1. x.key = session_key /\ session_key' = session_key
    BY <1>17 DEF RXP!NewData, RXP!Accepted
  <2>2. /\ k \in 1..MaxSession /\ x.key = k
        /\ Got(r, k, b)' = Got(q, k, b) \cup {f}
        /\ \A l, d : d \in 0..MaxBlock /\ (l # k \/ d # b) => Got(r, l, d)' = Got(q, l, d)
        /\ b >= last_known_block
    BY <1>15, <1>17, <2>1 DEF Opens
  <2>3. CurrentInv(r, k)' /\ last_known_block' = b
    <3>1. \A d : d \in 0..MaxBlock /\ d # b => Got(r, k, d)' = Got(q, k, d)
      BY <2>2
    <3>2. RXP!NewData(k, b, f, {c})
      BY <1>17, <2>2
    <3> QED  BY <1>1, <1>2, <1>9, <2>2, <3>1, <3>2, NewDataServes
  <2>4. OthersInv(r)'
    BY <1>9, <1>10, <1>12, <2>1, <2>2, OthersRest
  <2>5. session_key' = session_key /\ x.key = session_key /\ last_known_block' = b
    BY <2>1, <2>3
  <2>6. CurrentInv(r, k)'
    BY <2>3
  <2>7. RepairInv(r)'
    BY <1>13, <2>4, <2>5, <2>6
  <2> QED  BY <1>3, <2>7
<1> QED
  <2>1. ~(x.nonce \div 256 > MaxBlock \/ x.nonce % 256 >= FecN)
    BY <1>8, LinkAssumption
  <2> QED  BY <1>4, <1>8, <1>14, <1>16, <1>17, <2>1
-----------------------------------------------------------------------------
\* A new session: what the blocks of the old one got is all that they will get.
LEMMA ReceiveKeyRepair ==
  ASSUME NEW c \in Cards, LinkInv(c), RepairInv(heard[c]), ReceiveKey(c)
  PROVE  RepairInv(heard[c])'
<1>1. PICK l, q, r : l = Packet(c).key /\ q = heard[c] /\ r = heard'[c]
  OBVIOUS
<1>2. /\ TakesFrom(c) /\ Packet(c).type = "key" /\ RXP!SessionKey(l)
      /\ UNCHANGED <<missed, delivered>>
  BY <1>1, SameSessionKey DEF ReceiveKey
<1>3. TakesNext(c, q, r)
  <2>1. missed' = missed
    BY <1>2
  <2> QED  BY <1>1, <1>2, <2>1, TakesRepair
<1>4. /\ l \in 1..MaxSession /\ l \in Nat /\ session_key \in Nat /\ l >= session_key
      /\ RXP!RingInv
  <2>1. session \in 1..MaxSession /\ session \in Nat
    BY <1>2, TransmitterRests DEF LinkInv, TakesFrom
  <2>2. l \in 1..session /\ l >= session_key
    BY <1>1, <1>3 DEF TakesNext, PacketInv
  <2>3. session_key \in 0..session
    BY DEF LinkInv, QueueInv
  <2>4. RXP!RingInv
    BY HighFacts DEF LinkInv
  <2> QED  BY <2>1, <2>2, <2>3, <2>4, LinkAssumption
<1>5. \A h, b : b \in 0..MaxBlock => Got(r, h, b)' = Got(q, h, b)
  <2>1. \A h : \A n \in Nat : Taken(r, h, n)' <=> Taken(q, h, n)
    BY <1>2, <1>3 DEF TakesNext
  <2> QED  BY <2>1, GotSame
<1>6. PICK k \in Nat : k = session_key /\ CurrentInv(q, k)
  BY <1>1 DEF RepairInv
<1>7. OthersInv(q)
  BY <1>1 DEF RepairInv
<1>8. delivered \subseteq delivered' /\ session_key' = l
  BY <1>2 DEF RXP!SessionKey
<1>9. ASSUME OthersInv(r)', CurrentInv(r, l)',
             \A i \in 1..Len(r) : r[i].type = "data" /\ r[i].key = session_key'
                                    => r[i].nonce >= last_known_block' * 256
      PROVE  RepairInv(r)'
  <2>1. WaitingInv(r)'
    BY <1>3, <1>9 DEF WaitingInv, TakesNext
  <2> QED  BY <1>3, <1>4, <1>8, <1>9, <2>1 DEF RepairInv, TakesNext
<1>10. CASE l = session_key
  <2>1. UNCHANGED <<session_key, RXP!ring>> /\ last_known_block' = last_known_block
    BY <1>2, <1>10 DEF RXP!SessionKey, RXP!ring
  <2>2. OthersInv(r)' /\ CurrentInv(r, k)'
    BY <1>5, <1>6, <1>7, <1>8, <2>1, BlocksRest
  <2>3. k = l
    BY <1>6, <1>10
  <2>4. \A i \in 1..Len(r) : r[i].type = "data" /\ r[i].key = session_key'
                               => r[i].nonce >= last_known_block' * 256
    BY <1>3, <2>1 DEF TakesNext
  <2>5. RepairInv(r)'
    BY <1>9, <2>2, <2>3, <2>4
  <2> QED  BY <1>1, <2>5
<1>11. CASE l # session_key
  <2>1. last_known_block' = -1
    BY <1>2, <1>11 DEF RXP!SessionKey
  <2>2. l > session_key
    BY <1>4, <1>11
  <2>3. ASSUME NEW h \in 1..MaxSession, NEW b \in 0..MaxBlock
        PROVE  /\ h > l => Got(r, h, b)' = {}
               /\ h < l => Good(r, h, b)'
    <3>1. Got(r, h, b)' = Got(q, h, b)
      BY <1>5
    <3>2. h > session_key => Got(q, h, b) = {}
      BY <1>7 DEF OthersInv
    <3>3. Good(q, h, b)
      <4>1. CASE h < session_key
        BY <1>7, <4>1 DEF OthersInv
      <4>2. CASE h = session_key
        <5>1. h = k
          BY <1>6, <4>2
        <5> QED  BY <1>4, <1>6, <5>1, CurrentGood
      <4>3. CASE h > session_key
        <5>1. /\ Cardinality(Got(q, h, b)) \in Nat
              /\ Got(q, h, b) = {} => Cardinality(Got(q, h, b)) < FecK
          BY GotFinite
        <5> QED  BY <3>2, <4>3, <5>1, LinkAssumption DEF Good
      <4> QED  BY <1>4, <4>1, <4>2, <4>3
    <3>4. \A a \in 0..(b - 1) : a \in 0..MaxBlock
      BY LinkAssumption
    <3>5. \A a \in 0..(b - 1) : Got(r, h, a)' = Got(q, h, a)
      BY <1>5, <3>4
    <3>6. Good(r, h, b)'
      BY <1>8, <3>1, <3>3, <3>5, ServedStays
    <3> QED  BY <1>4, <2>2, <3>1, <3>2, <3>6
  <2>4. OthersInv(r)'
    BY <1>8, <2>3 DEF OthersInv
  <2>5. CurrentInv(r, l)'
    <3>1. \A b \in 0..MaxBlock : Got(r, l, b)' = {}
      BY <1>4, <1>5, <1>7, <2>2 DEF OthersInv
    <3>2. \A b \in 0..MaxBlock : ~(b < -1) /\ b # -1
      OBVIOUS
    <3> QED  BY <2>1, <3>1, <3>2 DEF CurrentInv
  <2>6. \A i \in 1..Len(r) : r[i].type = "data" /\ r[i].key = session_key'
                               => r[i].nonce >= last_known_block' * 256
    BY <1>3, <2>1 DEF TakesNext
  <2>7. RepairInv(r)'
    BY <1>9, <2>4, <2>5, <2>6
  <2> QED  BY <1>1, <2>7
<1> QED  BY <1>10, <1>11

\* A receiver that starts again has nothing of what was sent.
LEMMA RxRestartRepair ==
  ASSUME NEW c \in Cards, LinkInv(c), RepairInv(heard[c]), RxRestart
  PROVE  RepairInv(heard[c])'
<1>1. PICK r : r = heard'[c] /\ r = <<>>
  BY DEF RxRestart
<1>2. /\ used' = used /\ session_key' = 0 /\ last_known_block' = -1
      /\ missed' = missed
           \cup {[key |-> p.key, nonce |-> p.nonce, why |-> "restart"] : p \in used}
           \cup {[key |-> k, nonce |-> KeyNonce, why |-> "restart"] : k \in 1..session}
  BY DEF RxRestart, txVars
<1>3. MissedInv'
  <2> SUFFICES ASSUME NEW m \in missed'
               PROVE  m.nonce = KeyNonce \/ [key |-> m.key, nonce |-> m.nonce] \in used
    BY <1>2 DEF MissedInv, KeyNonce
  <2>1. CASE m \in missed
    BY <2>1 DEF RepairInv, MissedInv
  <2>2. CASE \E p \in used : m = [key |-> p.key, nonce |-> p.nonce, why |-> "restart"]
    <3>1. PICK p \in used : m = [key |-> p.key, nonce |-> p.nonce, why |-> "restart"]
      BY <2>2
    <3>2. m.key = p.key /\ m.nonce = p.nonce
      BY <3>1
    <3>3. p = [key |-> p.key, nonce |-> p.nonce]
      <4>1. PICK b \in 0..MaxBlock, f \in TXP!Fragments : p = TXP!Lies(p.key, b, f)
        BY DEF LinkInv, TXP!GapInv, TXP!Indexed
      <4> QED  BY <4>1 DEF TXP!Lies
    <3> QED  BY <3>2, <3>3
  <2>3. CASE \E k \in 1..session : m = [key |-> k, nonce |-> KeyNonce, why |-> "restart"]
    BY <2>3
  <2> QED  BY <1>2, <2>1, <2>2, <2>3
<1>4. ASSUME NEW k, NEW b PROVE Got(r, k, b)' = {}
  <2>1. ASSUME NEW n, [key |-> k, nonce |-> n] \in used PROVE IsMissed(k, n)'
    <3>1. [key |-> k, nonce |-> n, why |-> "restart"] \in missed'
      BY <1>2, <2>1
    <3> QED  BY <3>1 DEF IsMissed
  <2>2. \A f \in TXP!Fragments : ~Taken(r, k, b * 256 + f)'
    BY <1>2, <2>1 DEF Taken
  <2> QED  BY <2>2 DEF Got, TXP!Fragments
<1>5. WaitingInv(r)'
  BY <1>1 DEF WaitingInv
<1>6. OthersInv(r)' /\ CurrentInv(r, 0)' /\ 0 \in Nat
  <2>1. OthersInv(r)'
    <3>1. \A k \in 1..MaxSession : ~(k < 0)
      OBVIOUS
    <3> QED  BY <1>2, <1>4, <3>1 DEF OthersInv
  <2>2. \A b \in 0..MaxBlock : ~(b < -1) /\ b # -1
    OBVIOUS
  <2> QED  BY <1>2, <1>4, <2>1, <2>2 DEF CurrentInv
<1>7. RepairInv(r)'
  BY <1>2, <1>3, <1>5, <1>6 DEF RepairInv
<1> QED  BY <1>1, <1>7
-----------------------------------------------------------------------------
LEMMA RepairStep ==
  ASSUME NEW c, Cards = {c}, LinkInv(c), RepairInv(heard[c]), [Next]_linkVars
  PROVE  RepairInv(heard[c])'
<1>1. CASE Send
  <2>1. PICK size \in Sizes : TXP!Sends(size)
    <3>1. CASE \E size \in Sizes : TX!Datagram(size)
      BY <3>1, SameDatagram DEF TXP!Sends
    <3>2. CASE \E size \in Sizes, cut \in 0..(FecN + 1) : TX!InjectFails(size, cut)
      BY <3>2, SameInjectFails DEF TXP!Sends
    <3> QED  BY <1>1, <3>1, <3>2 DEF Send
  <2>2. Propagate /\ UNCHANGED <<rxVars, delivered>>
    BY <1>1 DEF Send
  <2>3. TXP!SendInv /\ QueueInv(heard[c]) /\ RXP!RingInv
    BY HighFacts DEF LinkInv, TXP!GapInv
  <2> QED  BY <2>1, <2>2, <2>3, SendRepair
<1>2. CASE TxRestart
  <2>1. used' = used
    BY <1>2, SameRestart DEF TxRestart, TXP!Restart, TXP!Observe, TXP!DataIn
  <2>2. UNCHANGED <<used, rxVars, heard, missed, delivered>>
    BY <1>2, <2>1 DEF TxRestart, history
  <2> QED  BY <2>2, AloneRepair
<1>3. CASE Tick
  <2>1. UNCHANGED <<used, rxVars, heard, missed, delivered>>
    BY <1>3, SameTick DEF Tick, TXP!Tick, history
  <2> QED  BY <2>1, AloneRepair
<1>4. CASE \E d \in Cards : ReceiveKey(d) \/ ReceiveData(d)
  <2>1. ReceiveKey(c) \/ ReceiveData(c)
    BY <1>4
  <2> QED  BY <2>1, ReceiveKeyRepair, ReceiveDataRepair
<1>5. CASE RxRestart
  BY <1>5, RxRestartRepair
<1>6. CASE UNCHANGED linkVars
  <2>1. UNCHANGED <<used, rxVars, heard, missed, delivered>>
    BY <1>6 DEF linkVars, txVars, history
  <2> QED  BY <2>1, AloneRepair
<1> QED  BY <1>1, <1>2, <1>3, <1>4, <1>5, <1>6 DEF Next

Lost(k, b) == {f \in TXP!Fragments : IsMissed(k, b * 256 + f)}

LEMMA FragmentsCounted == IsFiniteSet(TXP!Fragments) /\ Cardinality(TXP!Fragments) = FecN
<1>1. 0 \in Int /\ FecN - 1 \in Int /\ ~(0 > FecN - 1) /\ FecN - 1 - 0 + 1 = FecN
  BY LinkAssumption
<1>2. IsFiniteSet(0..(FecN - 1)) /\ Cardinality(0..(FecN - 1)) = FecN
  BY <1>1, FS_Interval
<1> QED  BY <1>2 DEF TXP!Fragments

\* MissedOf counts the fragments of a block that were missed.
LEMMA LostCounted ==
  ASSUME MissedInv, TXP!Indexed, NEW k, NEW b \in 0..MaxBlock
  PROVE  /\ MissedOf(k, b) = Cardinality(Lost(k, b)) /\ MissedOf(k, b) \in Nat
         /\ MissedOf(k, b) = FecN => Lost(k, b) = TXP!Fragments
         /\ Cardinality(TXP!Fragments \ Lost(k, b)) = FecN - MissedOf(k, b)
<1> DEFINE L == Lost(k, b)
           S == {m.nonce : m \in {q \in missed : BlockIs(k, b, q)}}
           g == [f \in L |-> b * 256 + f]
<1>1. L \subseteq TXP!Fragments
  BY DEF Lost
<1>2. IsFiniteSet(L) /\ Cardinality(L) \in Nat
  BY <1>1, FragmentsCounted, FS_Subset, FS_CardinalityType
<1>3. ASSUME NEW d \in 0..MaxBlock, NEW f \in TXP!Fragments
      PROVE  d * 256 + f \in Nat /\ (d * 256 + f) \div 256 = d
  <2>1. d \in Nat /\ f \in 0..255
    BY LinkAssumption DEF TXP!Fragments
  <2> QED  BY <2>1
<1>4. ASSUME NEW m \in missed, BlockIs(k, b, m)
      PROVE  \E f \in L : m.nonce = g[f]
  <2>1. m.key = k /\ m.nonce \div 256 = b
    BY <1>4 DEF BlockIs
  <2>2. m.nonce # KeyNonce
    <3>1. PICK n \in Int : n = KeyNonce
      BY DEF KeyNonce
    <3>2. n < 0
      BY <3>1 DEF KeyNonce
    <3>3. n \div 256 < 0
      BY <3>2
    <3> QED  BY <2>1, <3>1, <3>3
  <2>3. PICK d \in 0..MaxBlock, f \in TXP!Fragments :
          [key |-> m.key, nonce |-> m.nonce] = TXP!Lies(m.key, d, f)
    BY <2>2 DEF MissedInv, TXP!Indexed
  <2>4. m.nonce = d * 256 + f
    BY <2>3 DEF TXP!Lies
  <2>5. d = b
    BY <1>3, <2>1, <2>4
  <2>6. IsMissed(k, b * 256 + f)
    BY <2>1, <2>4, <2>5 DEF IsMissed
  <2>7. f \in L
    BY <2>6 DEF Lost
  <2> QED  BY <2>4, <2>5, <2>7
<1>5. ASSUME NEW f \in L
      PROVE  g[f] \in S
  <2>1. PICK m \in missed : m.key = k /\ m.nonce = b * 256 + f
    BY DEF Lost, IsMissed
  <2>2. BlockIs(k, b, m)
    BY <1>1, <1>3, <2>1 DEF BlockIs
  <2> QED  BY <2>1, <2>2
<1>6. g \in Bijection(L, S)
  <2>1. \A f \in L, h \in L : g[f] = g[h] => f = h
    <3>1. \A f \in L : f \in Int
      BY <1>1 DEF TXP!Fragments
    <3> QED  BY <3>1
  <2>2. g \in [L -> S]
    BY <1>5
  <2>3. \A s \in S : \E f \in L : g[f] = s
    BY <1>4
  <2> HIDE DEF g, L, S
  <2> QED  BY <2>1, <2>2, <2>3 DEF Bijection, Injection, Surjection, IsInjective
<1>7. MissedOf(k, b) = Cardinality(L)
  <2>1. ExistsBijection(L, S)
    BY <1>6 DEF ExistsBijection
  <2>2. Cardinality(S) = Cardinality(L)
    <3> HIDE DEF L, S
    <3> QED  BY <1>2, <2>1, FS_Bijection
  <2> QED  BY <2>2 DEF MissedOf
<1>8. Cardinality(L) = FecN => L = TXP!Fragments
  BY <1>1, FragmentsCounted, FS_Subset
<1>9. Cardinality(TXP!Fragments \ L) = FecN - Cardinality(L)
  <2>1. TXP!Fragments \cap L = L
    BY <1>1
  <2>2. Cardinality(TXP!Fragments \ L)
          = Cardinality(TXP!Fragments) - Cardinality(TXP!Fragments \cap L)
    BY FragmentsCounted, FS_Difference
  <2> QED  BY <2>1, <2>2, FragmentsCounted
<1> QED  BY <1>2, <1>7, <1>8, <1>9

LEMMA GotUnlessLost ==
  ASSUME NEW c \in Cards, QueueInv(heard[c]), NEW k, NEW b \in 0..MaxBlock,
         Transmitted(k, b), Processed(k, b)
  PROVE  Got(heard[c], k, b) = TXP!Fragments \ Lost(k, b)
<1> SUFFICES ASSUME NEW f \in TXP!Fragments
             PROVE  Taken(heard[c], k, b * 256 + f) <=> ~IsMissed(k, b * 256 + f)
  BY DEF Got, Lost
<1>1. [key |-> k, nonce |-> b * 256 + f] \in used
  BY DEF Transmitted, TXP!Fragments
<1>2. ~Waits(heard[c], k, b * 256 + f)
  <2> SUFFICES ASSUME Waits(heard[c], k, b * 256 + f) PROVE FALSE
    OBVIOUS
  <2>1. PICK i \in 1..Len(heard[c]) : /\ heard[c][i].type = "data" /\ heard[c][i].key = k
                                      /\ heard[c][i].nonce = b * 256 + f
    BY DEF Waits
  <2>2. i \in DOMAIN heard[c]
    BY DEF QueueInv, IsSequence
  <2>3. (b * 256 + f) \div 256 = b
    <3>1. b \in Nat /\ f \in 0..255
      BY LinkAssumption DEF TXP!Fragments
    <3> QED  BY <3>1
  <2>4. BlockIs(k, b, heard[c][i])
    BY <2>1, <2>3 DEF BlockIs
  <2> QED  BY <2>1, <2>2, <2>4 DEF Processed
<1> QED  BY <1>1, <1>2 DEF Taken

\* When something of a block was taken, nothing of the one before is waiting.
LEMMA EarlierProcessed ==
  ASSUME NEW c, Cards = {c}, QueueInv(heard[c]), RXP!RingInv, RepairInv(heard[c]), TXP!Indexed,
         NEW k \in 1..MaxSession, NEW b \in 0..MaxBlock, b # 0, Got(heard[c], k, b) # {}
  PROVE  Processed(k, b - 1)
<1> SUFFICES ASSUME NEW i \in DOMAIN heard[c], heard[c][i].type = "data",
                    BlockIs(k, b - 1, heard[c][i])
             PROVE  FALSE
  BY DEF Processed
<1>1. PICK q : q = heard[c]
  OBVIOUS
<1>2. /\ i \in 1..Len(q) /\ q[i].type = "data" /\ q[i].key = k /\ q[i].nonce \div 256 = b - 1
      /\ PacketInv(q, i)
  BY <1>1 DEF QueueInv, IsSequence, BlockIs
<1>3. session_key \in Nat /\ last_known_block \in Int
  BY DEF RepairInv, RXP!RingInv, RXP!RingTypeOK, RXP!Blocks
<1>4. k >= session_key /\ k <= session_key
  <2>1. k >= session_key
    BY <1>2 DEF PacketInv
  <2>2. ~(k > session_key)
    BY <1>1 DEF RepairInv, OthersInv
  <2> QED  BY <1>3, <2>1, <2>2
<1>5. k = session_key
  BY <1>3, <1>4
<1>6. b <= last_known_block
  <2>1. CurrentInv(q, k)
    BY <1>1, <1>5 DEF RepairInv
  <2>2. ~(b > last_known_block)
    BY <1>1, <2>1 DEF CurrentInv
  <2> QED  BY <1>3, <2>2
<1>7. q[i].nonce >= last_known_block * 256
  BY <1>1, <1>2, <1>5 DEF RepairInv, WaitingInv
<1>8. PICK d \in 0..MaxBlock, f \in TXP!Fragments : q[i].nonce = d * 256 + f
  BY <1>2 DEF PacketInv, TXP!Indexed, TXP!Lies
<1>9. d \in Nat /\ f \in 0..255 /\ b \in Nat
  BY LinkAssumption DEF TXP!Fragments
<1>10. d = b - 1 /\ d >= last_known_block
  BY <1>2, <1>3, <1>7, <1>8, <1>9
<1> QED  BY <1>3, <1>6, <1>9, <1>10

LEMMA RepairedFrom ==
  ASSUME NEW c, Cards = {c}, LinkInv(c), RepairInv(heard[c])
  PROVE  Repaired
<1> SUFFICES ASSUME NEW k \in 1..session, NEW b \in 0..MaxBlock,
                    Transmitted(k, b), Processed(k, b), Repairable(k, b),
                    b = 0 \/ Repairable(k, b - 1) \/ \A a \in 0..(b - 1) : Unheard(k, a)
             PROVE  Delivered(k, b)
  BY DEF Repaired
<1>1. PICK q : q = heard[c]
  OBVIOUS
<1>2. /\ QueueInv(q) /\ RXP!RingInv /\ TXP!Indexed /\ TXP!GapFree /\ MissedInv
      /\ OthersInv(q) /\ \E l \in Nat : l = session_key /\ CurrentInv(q, l)
  BY <1>1, HighFacts DEF LinkInv, TXP!GapInv, RepairInv
<1>3. k \in 1..MaxSession
  <2>1. session \in 1..MaxSession
    BY DEF LinkInv, TXP!GapInv, TXP!SendInv, TXP!SendType
  <2> QED  BY <2>1, LinkAssumption
<1>4. ASSUME NEW a \in 0..MaxBlock, Transmitted(k, a), Processed(k, a), Repairable(k, a)
      PROVE  Cardinality(Got(q, k, a)) >= FecK
  <2>1. Got(q, k, a) = TXP!Fragments \ Lost(k, a)
    BY <1>1, <1>2, <1>4, GotUnlessLost
  <2>2. /\ Cardinality(TXP!Fragments \ Lost(k, a)) = FecN - MissedOf(k, a)
        /\ MissedOf(k, a) \in Nat
    BY <1>2, LostCounted
  <2> QED  BY <1>4, <2>1, <2>2, LinkAssumption DEF Repairable
<1>5. Cardinality(Got(q, k, b)) >= FecK
  BY <1>4
<1>6. Got(q, k, b) # {}
  <2>1. Cardinality(Got(q, k, b)) \in Nat
    BY GotFinite
  <2> QED  BY <1>5, <2>1, GotFinite, LinkAssumption
<1>7. Clean(q, k, b)
  <2>1. CASE b # 0 /\ Repairable(k, b - 1)
    <3>1. b - 1 \in 0..MaxBlock
      BY <2>1, LinkAssumption
    <3>2. Processed(k, b - 1)
      BY <1>1, <1>2, <1>3, <1>6, <2>1, EarlierProcessed
    <3>3. Transmitted(k, b - 1)
      <4>1. 0 \in TXP!Fragments
        BY LinkAssumption DEF TXP!Fragments
      <4>2. TXP!Lies(k, b, 0) \in used
        BY <4>1 DEF Transmitted, TXP!Fragments, TXP!Lies
      <4>3. \A g \in TXP!Fragments : TXP!Before(b - 1, g, b, 0)
        BY DEF TXP!Before
      <4>4. \A g \in TXP!Fragments : TXP!Lies(k, b - 1, g) \in used
        BY <1>2, <1>3, <3>1, <4>1, <4>2, <4>3 DEF TXP!GapFree
      <4> QED  BY <4>4 DEF Transmitted, TXP!Fragments, TXP!Lies
    <3>4. Cardinality(Got(q, k, b - 1)) >= FecK
      BY <1>4, <2>1, <3>1, <3>2, <3>3
    <3> QED  BY <3>4 DEF Clean
  <2>2. ASSUME NEW a \in 0..(b - 1), Unheard(k, a) PROVE Got(q, k, a) = {}
    <3>1. a \in 0..MaxBlock
      BY LinkAssumption
    <3>2. Lost(k, a) = TXP!Fragments
      BY <1>2, <2>2, <3>1, LostCounted DEF Unheard
    <3> QED  BY <3>2 DEF Lost, Got, Taken
  <2> QED  BY <2>1, <2>2 DEF Clean
<1>8. Good(q, k, b)
  <2>1. PICK l \in Nat : l = session_key /\ CurrentInv(q, l)
    BY <1>2
  <2>2. CASE k < session_key
    BY <1>2, <1>3, <2>2 DEF OthersInv
  <2>3. CASE k = session_key
    BY <1>2, <2>1, <2>3, CurrentGood
  <2>4. ~(k > session_key)
    BY <1>2, <1>3, <1>6 DEF OthersInv
  <2> QED  BY <2>1, <2>2, <2>3, <2>4
<1> QED  BY <1>5, <1>7, <1>8 DEF Good, Served, Handed, Delivered
-----------------------------------------------------------------------------
(***************************************************************************)
(* The theorems                                                            *)
(***************************************************************************)
LEMMA LinkStep ==
  ASSUME NEW c, Cards = {c}, LinkInv(c), [Next]_linkVars
  PROVE  LinkInv(c)'
<1>1. CASE Send
  BY <1>1, SendStep
<1>2. CASE TxRestart
  <2>1. TXP!Restart /\ UNCHANGED <<rxVars, heard, rx_starts, history>>
    BY <1>2, SameRestart DEF TxRestart
  <2> QED  BY <2>1, AloneStep
<1>3. CASE Tick
  <2>1. TXP!Tick /\ UNCHANGED <<rxVars, heard, rx_starts, history>>
    BY <1>3, SameTick DEF Tick
  <2> QED  BY <2>1, AloneStep
<1>4. CASE \E d \in Cards : ReceiveKey(d) \/ ReceiveData(d)
  <2>1. ReceiveKey(c) \/ ReceiveData(c)
    BY <1>4
  <2> QED  BY <2>1, ReceiveKeyStep, ReceiveDataStep
<1>5. CASE RxRestart
  BY <1>5, RxRestartStep
<1>6. CASE UNCHANGED linkVars
  <2>1. UNCHANGED txVars /\ UNCHANGED <<rxVars, heard, rx_starts, history>>
    BY <1>6 DEF linkVars
  <2> QED  BY <2>1, AloneStep
<1> QED  BY <1>1, <1>2, <1>3, <1>4, <1>5, <1>6 DEF Next

\* Receivers are counted as they start.
Counted == rx_starts \in Nat

LEMMA StartsCounted == ASSUME Counted, [Next]_linkVars PROVE Counted'
<1> USE DEF Counted
<1>1. CASE RxRestart
  BY <1>1 DEF RxRestart
<1>2. CASE UNCHANGED rx_starts
  BY <1>2
<1> QED  BY <1>1, <1>2 DEF Next, Send, TxRestart, Tick, ReceiveKey, ReceiveData, TakesFrom, linkVars

InOrderOfSessions == rx_starts' = rx_starts => session_key' >= session_key

\* A card that keeps its order never takes the receiver back.
LEMMA KeysRise ==
  ASSUME NEW c, Cards = {c}, LinkInv(c), Counted, [Next]_linkVars
  PROVE  InOrderOfSessions
<1>1. session_key \in Int
  <2>1. session \in Nat
    BY LinkAssumption DEF LinkInv, TXP!GapInv, TXP!SendInv, TXP!SendType
  <2> QED  BY <2>1 DEF LinkInv, QueueInv
<1>2. CASE session_key' = session_key
  BY <1>1, <1>2 DEF InOrderOfSessions
<1>3. CASE RxRestart
  <2>1. rx_starts' # rx_starts
    BY <1>3 DEF RxRestart, Counted
  <2> QED  BY <2>1 DEF InOrderOfSessions
<1>4. CASE \E d \in Cards : ReceiveKey(d)
  <2>1. session_key' >= session_key
    BY <1>4, ReceiveKeyStep
  <2> QED  BY <2>1 DEF InOrderOfSessions
<1>5. CASE \E d \in Cards : ReceiveData(d)
  <2>1. PICK d \in Cards : ReceiveData(d)
    BY <1>5
  <2>2. session_key' = session_key
    BY <2>1, Zenon DEF ReceiveData, RX!UndecryptableData, RX!BadIndexData, RX!KnownData,
                       RX!NewData, RX!Drops
  <2> QED  BY <1>2, <2>2
<1>6. CASE Send \/ TxRestart \/ Tick \/ UNCHANGED linkVars
  BY <1>2, <1>6 DEF Send, TxRestart, Tick, linkVars, rxVars
<1> QED  BY <1>3, <1>4, <1>5, <1>6 DEF Next

LEMMA StreamInit == Init => Stream!Init
<1> SUFFICES ASSUME Init PROVE Stream!Init
  OBVIOUS
<1>1. used = {} /\ last = -1
  BY SameInits DEF Init, TXP!Init
<1> QED  BY <1>1 DEF Stream!Init, Datagrams

\* With one card, for every fec_k, fec_n, ring size and number of sessions, through
\* losses, failed injections and restarts of either side: what waits at the card are
\* packets of the sessions in their order, each behind the key it needs, and what the
\* receiver's ring holds was sent.
THEOREM LinkInvariant == ASSUME NEW c, Cards = {c} PROVE Spec => []LinkInv(c)
<1>1. Init => LinkInv(c)
  BY InitLinkInv
<1>2. LinkInv(c) /\ [Next]_linkVars => LinkInv(c)'
  BY LinkStep
<1> QED  BY <1>1, <1>2, PTL DEF Spec

\* A DATA packet that was heard fails to be opened only if a KEY packet of its session
\* was missed: the transmitter announces a key before it is used and in time after
\* that (send_session_key of src/src/tx.cpp), and a card keeps that order.
THEOREM HeardIsOpened == ASSUME NEW c, Cards = {c} PROVE Spec => []OpensWhatItHears
<1>1. LinkInv(c) => OpensWhatItHears
  BY DEF LinkInv
<1> QED  BY <1>1, LinkInvariant, PTL

\* A block is repaired whenever enough of it was heard, whatever was lost of the rest:
\* if fec_k of its packets reached a receiver that has the key, and the block before it
\* was repairable too or nothing came before it, every datagram of it is handed over,
\* as it was sent (the ring and FEC of src/src/rx.cpp against the blocks of src/src/tx.cpp).
THEOREM BlocksRepaired == ASSUME NEW c, Cards = {c} PROVE Spec => []Repaired
<1>1. Init => LinkInv(c) /\ RepairInv(heard[c])
  BY InitLinkInv, InitRepairInv
<1>2. LinkInv(c) /\ RepairInv(heard[c]) /\ [Next]_linkVars
        => LinkInv(c)' /\ RepairInv(heard[c])'
  BY LinkStep, RepairStep
<1>3. LinkInv(c) /\ RepairInv(heard[c]) => Repaired
  BY RepairedFrom
<1> QED  BY <1>1, <1>2, <1>3, PTL DEF Spec

\* With any number of cards, however far behind each other they are, what is handed over
\* was sent, in the session it is handed over in: a KEY packet that waited at a card takes
\* the receiver back to an old session, but empties its ring first (rx.cpp:459-480).
THEOREM HandedWasSent == Spec => []OnlySent
<1>1. Init => CardsInv
  BY InitCardsInv
<1>2. CardsInv /\ [Next]_linkVars => CardsInv'
  BY CardsStep
<1>3. CardsInv => OnlySent
  BY DEF CardsInv
<1> QED  BY <1>1, <1>2, <1>3, PTL DEF Spec

\* What is handed over stays within the stream, for any number of cards.
LEMMA CardsInvariant == Spec => [](CardsInv /\ LastInv)
<1>1. Init => CardsInv /\ LastInv
  BY InitCardsInv
<1>2. CardsInv /\ LastInv /\ [Next]_linkVars => CardsInv' /\ LastInv'
  BY CardsStep DEF Streams
<1> QED  BY <1>1, <1>2, PTL DEF Spec

\* With any number of cards the link implements LossyStream: what one card brings early or
\* late, or all of them bring several times, is handed over in order and once, over sessions
\* and blocks (the ring of src/src/rx.cpp); a receiver that starts again, or obeys the KEY
\* packet of an old session, is the only way to begin anew.
THEOREM LinkIsStream == Spec => ImplementsStream
<1>1. CardsInv /\ LastInv /\ [Next]_linkVars => [Stream!Next]_<<Datagrams, last>>
  BY CardsStep DEF Streams
<1> QED  BY <1>1, CardsInvariant, StreamInit, PTL DEF Spec, ImplementsStream, Stream!Spec

\* Nothing is handed over twice within the stream, not even the newest datagram again, however
\* often the cards bring it.
THEOREM LinkHandsOnce == Spec => OnlyNew
<1>1. CardsInv /\ LastInv /\ [Next]_linkVars => [HandsOverNew]_linkVars
  BY CardsStep DEF Streams
<1> QED  BY <1>1, CardsInvariant, PTL DEF Spec, OnlyNew

\* With one card the receiver never goes back to a session it has left, so the stream begins
\* anew only where the receiver does: a card keeps the order of the KEY packets, and the
\* transmitter announces no old one (src/src/tx.cpp:287).
THEOREM OneCardNeverBack == ASSUME NEW c, Cards = {c} PROVE Spec => NeverBack
<1>1. Init => LinkInv(c) /\ Counted
  BY InitLinkInv DEF Init, Counted
<1>2. LinkInv(c) /\ Counted /\ [Next]_linkVars => LinkInv(c)' /\ Counted'
  BY LinkStep, StartsCounted
<1>3. LinkInv(c) /\ Counted /\ [Next]_linkVars
        => [rx_starts' = rx_starts => session_key' >= session_key]_linkVars
  BY KeysRise DEF InOrderOfSessions
<1> QED  BY <1>1, <1>2, <1>3, PTL DEF Spec, NeverBack
=============================================================================
