---------------------------- MODULE RxRingProofs ----------------------------
(***************************************************************************)
(* Proofs about RxRing for all values of its constants.                    *)
(***************************************************************************)
EXTENDS RxRing, FiniteSetTheorems, NaturalsInduction, WellFoundedInduction, TLAPS

-----------------------------------------------------------------------------
(***************************************************************************)
(* Least elements                                                          *)
(***************************************************************************)
\* The least-number principle for sets of natural numbers.
LEMMA Least ==
  ASSUME NEW T \in SUBSET Nat, T # {}
  PROVE  \E x \in T : \A y \in T : x <= y
<1>1. ASSUME NEW x \in Nat, NEW y \in Nat, x < y
      PROVE  <<x, y>> \in OpToRel(<, Nat)
  <2>1. <<x, y>>[1] < <<x, y>>[2] /\ <<x, y>> \in Nat \X Nat
    BY <1>1
  <2> QED  BY <2>1, Zenon DEF OpToRel
<1>2. PICK x \in T : \A y \in T : ~(<<y, x>> \in OpToRel(<, Nat))
  BY NatLessThanWellFounded, WFMin, Zenon
<1>3. \A y \in T : ~(y < x)
  BY <1>1, <1>2, Zenon
<1> QED  BY <1>3
-----------------------------------------------------------------------------
(***************************************************************************)
(* Sums.  The induction over subsets is a search for a least               *)
(* counterexample, as the prover has no induction over predicates.         *)
(***************************************************************************)
\* Sums over the subsets of a set, as MapThenSumSet computes them.
Choice(s) == CHOOSE x \in s : TRUE
Sums(g, F, S) == g = [s \in SUBSET S |-> IF s = {} THEN 0
                                         ELSE F[Choice(s)] + g[s \ {Choice(s)}]]

LEMMA ChoiceFacts ==
  ASSUME NEW S, IsFiniteSet(S), NEW s \in SUBSET S, s # {}
  PROVE  /\ Choice(s) \in s /\ Choice(s) \in S
         /\ \A x \in s : /\ s \ {x} \in SUBSET S
                         /\ Cardinality(s) \in Nat /\ Cardinality(s \ {x}) \in Nat
                         /\ Cardinality(s \ {x}) = Cardinality(s) - 1
<1>1. Choice(s) \in s
  BY DEF Choice
<1>2. IsFiniteSet(s)
  BY FS_Subset
<1>3. ASSUME NEW x \in s
      PROVE  /\ Cardinality(s) \in Nat /\ Cardinality(s \ {x}) \in Nat
             /\ Cardinality(s \ {x}) = Cardinality(s) - 1
  BY <1>2, FS_RemoveElement, FS_CardinalityType
<1> QED  BY <1>1, <1>3

\* Two summands can be taken in either order, so any element may be taken first.
LEMMA SumFacts ==
  ASSUME NEW S, IsFiniteSet(S), NEW F \in [S -> Int], NEW g, Sums(g, F, S)
  PROVE  /\ \A s \in SUBSET S : g[s] \in Int /\ \A x \in s : g[s] = F[x] + g[s \ {x}]
         /\ g[{}] = 0
<1> DEFINE P(s) == g[s] \in Int /\ \A x \in s : g[s] = F[x] + g[s \ {x}]
           T == {n \in Nat : \E s \in SUBSET S : Cardinality(s) = n /\ ~P(s)}
<1>1. \A s \in SUBSET S : g[s] = IF s = {} THEN 0 ELSE F[Choice(s)] + g[s \ {Choice(s)}]
  BY DEF Sums
<1>2. SUFFICES ASSUME T # {} PROVE FALSE
  <2>1. ASSUME T = {}, NEW s \in SUBSET S PROVE P(s)
    <3>1. Cardinality(s) \in Nat
      BY FS_Subset, FS_CardinalityType
    <3> QED  BY <2>1, <3>1
  <2> QED  BY <1>1, <2>1
<1>3. PICK n \in T : \A m \in T : n <= m
  BY <1>2, Least
<1>4. PICK s \in SUBSET S : Cardinality(s) = n /\ ~P(s)
  BY <1>3
<1>5. \A t \in SUBSET S : Cardinality(t) \in Nat /\ Cardinality(t) < n => P(t)
  <2> SUFFICES ASSUME NEW t \in SUBSET S, Cardinality(t) \in Nat, Cardinality(t) < n, ~P(t)
               PROVE  FALSE
    OBVIOUS
  <2>1. Cardinality(t) \in T
    OBVIOUS
  <2> QED  BY <1>3, <2>1
<1>6. s # {}
  <2> SUFFICES ASSUME s = {} PROVE FALSE
    OBVIOUS
  <2>1. g[s] = 0
    BY <1>1
  <2> QED  BY <1>4, <2>1
<1> DEFINE c == Choice(s)
<1>7. c \in s /\ c \in S
  BY <1>6, ChoiceFacts
<1>13. n \in Nat
  OBVIOUS
<1>9. g[s] = F[c] + g[s \ {c}]
  BY <1>1, <1>6
<1> HIDE DEF T, P, c
<1>8. ASSUME NEW x \in s PROVE P(s \ {x}) /\ s \ {x} \in SUBSET S
  BY <1>4, <1>5, <1>6, ChoiceFacts
<1>10. F[c] \in Int /\ g[s \ {c}] \in Int
  BY <1>7, <1>8 DEF P
<1>11. ASSUME NEW x \in s, x # c PROVE g[s] = F[x] + g[s \ {x}]
  <2>1. g[s \ {c}] = F[x] + g[(s \ {c}) \ {x}]
    BY <1>7, <1>8, <1>11 DEF P
  <2>2. g[s \ {x}] = F[c] + g[(s \ {x}) \ {c}]
    BY <1>7, <1>8, <1>11 DEF P
  <2>3. (s \ {c}) \ {x} = (s \ {x}) \ {c}
    OBVIOUS
  <2>4. g[(s \ {x}) \ {c}] \in Int
    <3>1. /\ s \ {x} \in SUBSET S /\ s \ {x} # {}
          /\ Cardinality(s \ {x}) < n /\ Cardinality(s \ {x}) \in Nat
      BY <1>4, <1>6, <1>7, <1>11, ChoiceFacts
    <3>2. /\ (s \ {x}) \ {c} \in SUBSET S
          /\ Cardinality((s \ {x}) \ {c}) \in Nat /\ Cardinality((s \ {x}) \ {c}) < n
      BY <1>13, <1>7, <1>11, <3>1, ChoiceFacts
    <3> QED  BY <1>5, <3>2 DEF P
  <2>5. F[x] \in Int
    OBVIOUS
  <2> DEFINE a == g[s \ {c}]  d == g[s \ {x}]  e == g[(s \ {x}) \ {c}]
  <2>6. g[s] = F[c] + a /\ a = F[x] + e /\ d = F[c] + e
    BY <1>9, <2>1, <2>2, <2>3
  <2> HIDE DEF a, e
  <2>7. g[s] = F[x] + d
    BY <1>10, <2>4, <2>5, <2>6 DEF a, e
  <2> QED  BY <2>7
<1>12. P(s)
  <2>1. g[s] \in Int
    BY <1>9, <1>10
  <2>2. ASSUME NEW x \in s PROVE g[s] = F[x] + g[s \ {x}]
    <3>1. CASE x = c
      BY <1>9, <3>1
    <3> QED  BY <1>11, <3>1
  <2> QED  BY <2>1, <2>2 DEF P
<1> QED  BY <1>4, <1>12

LEMMA SumsExist ==
  ASSUME NEW S, IsFiniteSet(S), NEW F \in [S -> Int]
  PROVE  \E g : Sums(g, F, S)
<1> DEFINE Upto(n) == {s \in SUBSET S : Cardinality(s) <= n}
           Step(h, s) == IF s = {} THEN 0 ELSE F[Choice(s)] + h[s \ {Choice(s)}]
           Good(n) == \E h : h = [s \in Upto(n) |-> Step(h, s)]
           T == {n \in Nat : ~Good(n)}
<1>1. SUFFICES ASSUME T # {} PROVE FALSE
  <2>1. ASSUME T = {} PROVE \E g : Sums(g, F, S)
    <3>1. Cardinality(S) \in Nat
      BY FS_CardinalityType
    <3>2. PICK h : h = [s \in Upto(Cardinality(S)) |-> Step(h, s)]
      BY <2>1, <3>1
    <3>3. Upto(Cardinality(S)) = SUBSET S
      BY FS_Subset
    <3> HIDE DEF Upto
    <3>4. h = [s \in SUBSET S |-> Step(h, s)]
      BY <3>2, <3>3
    <3> QED  BY <3>4 DEF Sums
  <2> QED  BY <2>1
<1>2. PICK n \in T : \A m \in T : n <= m
  BY <1>1, Least
<1>3. n # 0
  <2>1. ASSUME NEW s \in Upto(0) PROVE s = {}
    <3>1. IsFiniteSet(s) /\ Cardinality(s) \in Nat
      BY FS_Subset, FS_CardinalityType
    <3> QED  BY <3>1, FS_EmptySet
  <2> DEFINE h == [s \in Upto(0) |-> 0]
  <2>2. h = [s \in Upto(0) |-> Step(h, s)]
    BY <2>1
  <2>3. Good(0)
    BY <2>2
  <2> QED  BY <2>3
<1>4. n - 1 \in Nat /\ Good(n - 1)
  <2>1. n \in Nat /\ n - 1 \in Nat
    BY <1>3
  <2>2. n - 1 \notin T
    <3> HIDE DEF T
    <3> QED  BY <1>2, <2>1
  <2> HIDE DEF Good
  <2> QED  BY <2>1, <2>2 DEF T
<1>5. PICK g : g = [s \in Upto(n - 1) |-> Step(g, s)]
  BY <1>4
<1> DEFINE h == [s \in Upto(n) |-> Step(g, s)]
<1>6. \A s \in Upto(n) : h[s] = Step(h, s)
  <2> SUFFICES ASSUME NEW s \in Upto(n), s # {} PROVE h[s] = Step(h, s)
    OBVIOUS
  <2> DEFINE r == s \ {Choice(s)}
  <2>1. r \in Upto(n - 1) /\ r \in Upto(n)
    BY ChoiceFacts
  <2>2. g[r] = Step(g, r) /\ h[r] = Step(g, r)
    <3> HIDE DEF r, Upto, Step
    <3> QED  BY <1>5, <2>1
  <2> QED  BY <2>2
<1>7. h = [s \in Upto(n) |-> Step(h, s)]
  <2> HIDE DEF Step, Upto
  <2> QED  BY <1>6
<1>8. Good(n)
  <2> HIDE DEF h
  <2> QED BY <1>7
<1> QED  BY <1>8
-----------------------------------------------------------------------------
USE FecAssumption, RingAssumption, KeyAssumption, BoundAssumption
(***************************************************************************)
(* Arithmetic                                                              *)
(***************************************************************************)
\* modN on the numbers the aggregator applies it to, all below 3 * RingSize.
LEMMA ModType == ASSUME NEW x \in Int PROVE modN(x) \in Slots
BY DEF modN, Slots

LEMMA ModSmall == ASSUME NEW x \in Int, 0 <= x, x < RingSize PROVE modN(x) = x
BY DEF modN

LEMMA ModOnce ==
  ASSUME NEW x \in Int, RingSize <= x, x < 2 * RingSize
  PROVE  modN(x) = x - RingSize
BY DEF modN

LEMMA ModTwice ==
  ASSUME NEW x \in Int, 2 * RingSize <= x, x < 3 * RingSize
  PROVE  modN(x) = x - 2 * RingSize
BY DEF modN

LEMMA ModAdd ==
  ASSUME NEW x \in Nat, NEW y \in Nat, x + y < 3 * RingSize
  PROVE  modN(modN(x) + y) = modN(x + y)
<1>1. CASE x < RingSize
  BY <1>1, ModSmall
<1>2. CASE RingSize <= x /\ x < 2 * RingSize
  <2>1. modN(x) + y = x + y - RingSize
    BY <1>2, ModOnce
  <2>2. CASE x + y < 2 * RingSize
    BY <1>2, <2>1, <2>2, ModOnce, ModSmall
  <2>3. CASE 2 * RingSize <= x + y
    BY <1>2, <2>1, <2>3, ModOnce, ModTwice
  <2> QED  BY <2>2, <2>3
<1>3. CASE 2 * RingSize <= x
  BY <1>3, ModTwice, ModSmall
<1> QED  BY <1>1, <1>2, <1>3

\* Fewer than RingSize numbers in a row fall on different slots.
LEMMA ModInjective ==
  ASSUME NEW x \in Nat, NEW y \in Nat, x < 3 * RingSize, y < 3 * RingSize,
         x - y < RingSize, y - x < RingSize, modN(x) = modN(y)
  PROVE  x = y
<1>1. x < RingSize => modN(x) = x
  BY ModSmall
<1>2. RingSize <= x /\ x < 2 * RingSize => modN(x) = x - RingSize
  BY ModOnce
<1>3. 2 * RingSize <= x => modN(x) = x - 2 * RingSize
  BY ModTwice
<1>4. y < RingSize => modN(y) = y
  BY ModSmall
<1>5. RingSize <= y /\ y < 2 * RingSize => modN(y) = y - RingSize
  BY ModOnce
<1>6. 2 * RingSize <= y => modN(y) = y - 2 * RingSize
  BY ModTwice
<1> QED  BY <1>1, <1>2, <1>3, <1>4, <1>5, <1>6
-----------------------------------------------------------------------------
(***************************************************************************)
(* What a call does, in terms of the places before it                      *)
(***************************************************************************)
LEMMA FirstGapFacts ==
  ASSUME NEW m, NEW s \in 0..FecK
  PROVE  /\ FirstGap(m, s) \in s..FecK
         /\ s..(FirstGap(m, s) - 1) \subseteq m
         /\ FirstGap(m, s) < FecK => FirstGap(m, s) \notin m
<1> DEFINE T == {g \in s..FecK : g < FecK => g \notin m}
<1>1. T \subseteq Nat /\ FecK \in T
  OBVIOUS
<1>2. PICK g \in T : \A h \in T : g <= h
  BY <1>1, Least
<1>3. s..(g - 1) \subseteq m
  BY <1>2
<1>4. \E h \in s..FecK : s..(h - 1) \subseteq m /\ (h < FecK => h \notin m)
  BY <1>2, <1>3
<1> QED  BY <1>4 DEF FirstGap

LEMMA SlotType ==
  ASSUME RingInv, NEW i \in Int
  PROVE  SlotAt(i) \in Slots
<1>1. rx_ring_front \in Int
  BY DEF RingInv, RingTypeOK, Slots
<1>2. rx_ring_front + i \in Int
  BY <1>1
<1> QED  BY <1>2, ModType DEF SlotAt

\* Fewer than RingSize places in a row have different slots.
LEMMA SlotInjective ==
  ASSUME RingInv, NEW i \in 0..(2 * RingSize), NEW h \in 0..(2 * RingSize),
         i - h < RingSize, h - i < RingSize, SlotAt(i) = SlotAt(h)
  PROVE  i = h
<1> DEFINE x == rx_ring_front + i
           y == rx_ring_front + h
<1>1. rx_ring_front \in 0..(RingSize - 1)
  BY DEF RingInv, RingTypeOK, Slots
<1>2. /\ x \in Nat /\ y \in Nat /\ x < 3 * RingSize /\ y < 3 * RingSize
      /\ x - y < RingSize /\ y - x < RingSize
  BY <1>1
<1>3. modN(x) = modN(y)
  BY DEF SlotAt
<1>4. x = y
  <2> HIDE DEF x, y
  <2> QED  BY <1>2, <1>3, ModInjective
<1> QED  BY <1>1, <1>4

\* A block is found at the only place the window leaves for it.
LEMMA FoundFacts ==
  ASSUME RingInv, NEW b \in Blocks
  PROVE  /\ Found(b) # {} => /\ rx_ring_alloc > 0 /\ last_known_block # -1
                             /\ b <= last_known_block
                             /\ Found(b) = {b - last_known_block + rx_ring_alloc - 1}
         /\ Found(b) \subseteq Places
<1> USE DEF RingInv, RingTypeOK, RingWindow, Places, Found, Blocks
<1>1. \A i \in Found(b) : i = b - last_known_block + rx_ring_alloc - 1
  OBVIOUS
<1>2. \A i \in Found(b) : b <= last_known_block /\ rx_ring_alloc > 0 /\ last_known_block # -1
  OBVIOUS
<1> QED  BY <1>1, <1>2

\* The place of a block that is not finished, and what is overridden for it.
LEMMA PlaceFacts ==
  ASSUME RingInv, NEW b \in Blocks, ~AlreadyProcessed(b)
  PROVE  /\ NewBlocks(b) \in 0..RingSize
         /\ Overridden(b) \in 0..rx_ring_alloc
         /\ rx_ring_alloc + NewBlocks(b) - Overridden(b) <= RingSize
         /\ Place(b) \in Overridden(b)..(rx_ring_alloc + NewBlocks(b) - 1)
         /\ Found(b) # {} => /\ NewBlocks(b) = 0 /\ Place(b) \in Places
                             /\ Overridden(b) = 0
                             /\ EntryAt(Place(b)).block_idx = b
                             /\ b = last_known_block - (rx_ring_alloc - 1) + Place(b)
         /\ Found(b) = {} => /\ NewBlocks(b) > 0
                             /\ Place(b) = rx_ring_alloc + NewBlocks(b) - 1
                             /\ NewBlocks(b) <= b + 1
                             /\ last_known_block < b
                             /\ Overridden(b) = rx_ring_alloc
                                \/ b = last_known_block + NewBlocks(b)
<1> USE DEF RingInv, RingTypeOK
<1>1. CASE Found(b) # {}
  <2>1. PICK i \in Places : Found(b) = {i}
    BY <1>1, FoundFacts
  <2>2. Place(b) = i /\ EntryAt(i).block_idx = b
    BY <2>1 DEF Place, Found
  <2>3. NewBlocks(b) = 0 /\ Overridden(b) = 0
    BY <1>1 DEF NewBlocks, Overridden
  <2> QED  BY <1>1, <2>1, <2>2, <2>3 DEF Places, RingWindow, Blocks
<1>2. CASE Found(b) = {}
  <2>1. last_known_block = -1 \/ b > last_known_block
    BY <1>2 DEF AlreadyProcessed, Blocks
  <2>2. last_known_block = -1 => rx_ring_alloc = 0
    BY DEF RingWindow
  <2>3. CASE last_known_block = -1
    <3>1. NewBlocks(b) = 1 /\ Overridden(b) = 0
      BY <1>2, <2>2, <2>3 DEF NewBlocks, Overridden
    <3> QED  BY <1>2, <2>2, <2>3, <3>1 DEF Place, Blocks
  <2>4. CASE last_known_block # -1
    <3>1. NewBlocks(b) = IF b - last_known_block < RingSize THEN b - last_known_block
                                                            ELSE RingSize
      BY <1>2, <2>4 DEF NewBlocks
    <3>2. NewBlocks(b) \in 1..RingSize
      BY <2>1, <2>4, <3>1 DEF Blocks
    <3>3. Place(b) = rx_ring_alloc + NewBlocks(b) - 1
      BY <1>2 DEF Place
    <3> QED  BY <1>2, <2>1, <2>4, <3>1, <3>2, <3>3 DEF Overridden, Blocks
  <2> QED  BY <2>3, <2>4
<1> QED  BY <1>1, <1>2
\* The entry of the block as the call finds or makes it.
LEMMA TargetFacts ==
  ASSUME RingInv, NEW b \in Blocks, ~AlreadyProcessed(b)
  PROVE  /\ Target(b) \in Entry /\ Target(b).block_idx = b
         /\ Target(b).has_fragments = Cardinality(Target(b).fragment_map)
         /\ Target(b).has_fragments < FecK /\ Target(b).send_fragment_idx < FecK
         /\ 0..(Target(b).send_fragment_idx - 1) \subseteq Target(b).fragment_map
         /\ Place(b) > 0 => Target(b).send_fragment_idx = 0
<1>1. CASE Found(b) # {}
  <2>1. /\ Place(b) \in Places /\ EntryAt(Place(b)).block_idx = b
        /\ Target(b) = EntryAt(Place(b))
    BY <1>1, PlaceFacts DEF Target
  <2>2. EntryAt(Place(b)) \in Entry
    <3>1. SlotAt(Place(b)) \in Slots
      BY <2>1, SlotType DEF Places
    <3> QED  BY <3>1 DEF RingInv, RingTypeOK, EntryAt
  <2>3. UnfinishedEntry(Place(b))
    BY <2>1 DEF RingInv, UnfinishedBlocks
  <2> QED  BY <2>1, <2>2, <2>3 DEF UnfinishedEntry
<1>2. CASE Found(b) = {}
  <2>1. Target(b) = [block_idx |-> b, send_fragment_idx |-> 0,
                     has_fragments |-> 0, fragment_map |-> {}]
    BY <1>2 DEF Target, EmptyEntry
  <2> QED  BY <2>1, FS_EmptySet DEF Entry
<1> QED  BY <1>1, <1>2

LEMMA YieldFacts ==
  ASSUME RingInv, NEW b \in Blocks, NEW f \in Frags, ~AlreadyProcessed(b)
  PROVE  /\ YieldedTo(b, f) \in Target(b).send_fragment_idx..FecK
         /\ 0..(YieldedTo(b, f) - 1) \subseteq Stored(b, f)
         /\ Place(b) # Overridden(b) => YieldedTo(b, f) = 0
<1>1. /\ Target(b).send_fragment_idx \in 0..(FecK - 1)
      /\ 0..(Target(b).send_fragment_idx - 1) \subseteq Stored(b, f)
      /\ Place(b) > 0 => Target(b).send_fragment_idx = 0
  BY TargetFacts DEF Entry, Stored
<1>2. Place(b) \in Nat /\ Overridden(b) \in Nat /\ Place(b) >= Overridden(b)
  BY PlaceFacts DEF RingInv, RingTypeOK
<1>3. CASE Place(b) = Overridden(b)
  <2> DEFINE s == Target(b).send_fragment_idx
             g == FirstGap(Stored(b, f), s)
  <2>1. g \in s..FecK /\ s..(g - 1) \subseteq Stored(b, f)
    BY <1>1, FirstGapFacts
  <2>2. 0..(g - 1) \subseteq Stored(b, f)
    BY <1>1, <2>1
  <2> QED  BY <1>1, <1>3, <2>1, <2>2 DEF YieldedTo
<1>4. CASE Place(b) # Overridden(b)
  BY <1>1, <1>2, <1>4 DEF YieldedTo
<1> QED  BY <1>3, <1>4

LEMMA SentToType ==
  ASSUME RingInv, NEW b \in Blocks, NEW f \in Frags, ~AlreadyProcessed(b)
  PROVE  SentTo(b, f) \in 0..FecK
BY YieldFacts, TargetFacts DEF SentTo, Entry

\* The blocks that leave the ring are its oldest ones; what remains fits.
LEMMA RemovedFacts ==
  ASSUME RingInv, NEW b \in Blocks, NEW f \in Frags, ~AlreadyProcessed(b)
  PROVE  /\ Removed(b, f) \in Overridden(b)..(rx_ring_alloc + NewBlocks(b))
         /\ rx_ring_alloc + NewBlocks(b) - Removed(b, f) \in 0..RingSize
         /\ Finishes(b, f) => Removed(b, f) = Place(b) + 1
         /\ ~Finishes(b, f) => Removed(b, f) = Overridden(b)
BY PlaceFacts DEF Removed, RingInv, RingTypeOK

\* A stored fragment is one more; a block that is not finished can take it.
LEMMA NewEntryFacts ==
  ASSUME RingInv, NEW b \in Blocks, NEW f \in Frags, ~AlreadyProcessed(b),
         f \notin Target(b).fragment_map
  PROVE  /\ NewEntry(b, f) \in Entry
         /\ NewEntry(b, f).block_idx = b
         /\ NewEntry(b, f).send_fragment_idx = SentTo(b, f)
         /\ NewEntry(b, f).fragment_map = Stored(b, f)
         /\ NewEntry(b, f).has_fragments = Cardinality(Stored(b, f))
         /\ NewEntry(b, f).has_fragments = Target(b).has_fragments + 1
<1>1. /\ Target(b) \in Entry /\ Target(b).block_idx = b /\ Target(b).has_fragments < FecK
      /\ Target(b).has_fragments = Cardinality(Target(b).fragment_map)
  BY TargetFacts
<1>2. SentTo(b, f) \in 0..FecK
  BY YieldFacts, <1>1 DEF SentTo, Entry
<1>3. Stored(b, f) \subseteq Frags
  BY <1>1 DEF Stored, Entry
<1>4. IsFiniteSet(Target(b).fragment_map)
  <2>1. IsFiniteSet(Frags)
    <3>1. 0 \in Int /\ FecN - 1 \in Int
      OBVIOUS
    <3>2. IsFiniteSet(0..(FecN - 1))
      BY <3>1, FS_Interval
    <3> QED  BY <3>2 DEF Frags
  <2> QED  BY <1>1, <2>1, FS_Subset DEF Entry
<1>5. Cardinality(Stored(b, f)) = Target(b).has_fragments + 1
  BY <1>1, <1>4, FS_AddElement DEF Stored
<1>6. Target(b).has_fragments + 1 \in 0..FecN
  BY <1>1 DEF Entry
<1> QED  BY <1>1, <1>2, <1>3, <1>5, <1>6 DEF Entry, NewEntry
\* The slot of a place that survives the call holds what it should: block b,
\* an untouched older block, or a block just pushed.
Fresh(b, i) == [block_idx |-> b + i + 1 - rx_ring_alloc - NewBlocks(b),
                send_fragment_idx |-> 0, has_fragments |-> 0, fragment_map |-> {}]

LEMMA PushedFacts ==
  ASSUME RingInv, NEW b \in Blocks, ~AlreadyProcessed(b),
         NEW i \in Overridden(b)..(rx_ring_alloc + NewBlocks(b) - 1)
  PROVE  Pushed(b, SlotAt(i)) = IF i < rx_ring_alloc THEN EntryAt(i) ELSE Fresh(b, i)
<1> DEFINE fresh == {h \in rx_ring_alloc..(rx_ring_alloc + NewBlocks(b) - 1) :
                       SlotAt(h) = SlotAt(i)}
<1>1. /\ rx_ring_alloc \in 0..RingSize /\ NewBlocks(b) \in 0..RingSize
      /\ rx_ring_front \in 0..(RingSize - 1) /\ Overridden(b) \in 0..rx_ring_alloc
      /\ rx_ring_alloc + NewBlocks(b) - Overridden(b) <= RingSize
  BY PlaceFacts DEF RingInv, RingTypeOK, Slots
<1>2. \A h \in fresh : h = i
  <2> TAKE h \in fresh
  <2>1. /\ h \in 0..(2 * RingSize) /\ i \in 0..(2 * RingSize)
        /\ h - i < RingSize /\ i - h < RingSize
    BY <1>1
  <2>2. SlotAt(h) = SlotAt(i)
    OBVIOUS
  <2> QED  BY <2>1, <2>2, SlotInjective
<1>3. i < rx_ring_alloc => fresh = {}
  BY <1>1, <1>2
<1>4. ~(i < rx_ring_alloc) => fresh # {} /\ (CHOOSE h \in fresh : TRUE) = i
  <2> SUFFICES ASSUME ~(i < rx_ring_alloc) PROVE fresh # {} /\ (CHOOSE h \in fresh : TRUE) = i
    OBVIOUS
  <2>1. i \in fresh
    BY <1>1
  <2> QED  BY <1>2, <2>1
<1>5. Pushed(b, SlotAt(i)) =
        IF fresh = {} THEN rx_ring[SlotAt(i)]
        ELSE [EmptyEntry EXCEPT !.block_idx = b + (CHOOSE h \in fresh : TRUE)
                                                + 1 - rx_ring_alloc - NewBlocks(b)]
  BY DEF Pushed
<1> HIDE DEF fresh
<1>6. CASE i < rx_ring_alloc
  BY <1>3, <1>5, <1>6 DEF EntryAt
<1>7. CASE ~(i < rx_ring_alloc)
  <2>1. Pushed(b, SlotAt(i)) =
          [EmptyEntry EXCEPT !.block_idx = b + i + 1 - rx_ring_alloc - NewBlocks(b)]
    BY <1>4, <1>5, <1>7
  <2> QED  BY <1>7, <2>1 DEF EmptyEntry, Fresh
<1> QED  BY <1>6, <1>7

EntryAfter(j) == rx_ring'[modN(rx_ring_front' + j)]

\* Place j after the call is the slot of place Removed(b, f) + j before it.
LEMMA SurvivorSlot ==
  ASSUME RingInv, NEW k \in Keys, NEW b \in Blocks, NEW f \in Frags, NEW A,
         NewData(k, b, f, A), NEW j \in 0..(rx_ring_alloc' - 1)
  PROVE  LET i == Removed(b, f) + j
         IN  /\ i \in Overridden(b)..(rx_ring_alloc + NewBlocks(b) - 1)
             /\ modN(rx_ring_front' + j) = SlotAt(i) /\ SlotAt(i) \in Slots
             /\ i # Place(b) => SlotAt(i) # SlotAt(Place(b))
<1> DEFINE i == Removed(b, f) + j
<1>1. /\ ~AlreadyProcessed(b) /\ rx_ring_front' = modN(rx_ring_front + Removed(b, f))
      /\ rx_ring_alloc' = rx_ring_alloc + NewBlocks(b) - Removed(b, f)
  BY DEF NewData
<1>2. /\ rx_ring_alloc \in 0..RingSize /\ NewBlocks(b) \in 0..RingSize
      /\ rx_ring_front \in 0..(RingSize - 1) /\ Overridden(b) \in 0..rx_ring_alloc
      /\ rx_ring_alloc + NewBlocks(b) - Overridden(b) <= RingSize
      /\ Place(b) \in Overridden(b)..(rx_ring_alloc + NewBlocks(b) - 1)
  BY <1>1, PlaceFacts DEF RingInv, RingTypeOK, Slots
<1>3. Removed(b, f) \in Overridden(b)..(rx_ring_alloc + NewBlocks(b))
  BY <1>1, RemovedFacts
<1>4. i \in Overridden(b)..(rx_ring_alloc + NewBlocks(b) - 1)
  BY <1>1, <1>2, <1>3
<1>5. modN(rx_ring_front' + j) = SlotAt(i)
  <2>1. /\ rx_ring_front + Removed(b, f) \in Nat
        /\ rx_ring_front + Removed(b, f) + j < 3 * RingSize
        /\ (rx_ring_front + Removed(b, f)) + j = rx_ring_front + i
    BY <1>1, <1>2, <1>3
  <2>2. modN(modN(rx_ring_front + Removed(b, f)) + j) = modN(rx_ring_front + i)
    BY <2>1, ModAdd
  <2> QED  BY <1>1, <2>2 DEF SlotAt
<1>6. SlotAt(i) \in Slots
  BY <1>2, <1>4, SlotType
<1>7. i # Place(b) => SlotAt(i) # SlotAt(Place(b))
  <2>1. /\ i \in 0..(2 * RingSize) /\ Place(b) \in 0..(2 * RingSize)
        /\ i - Place(b) < RingSize /\ Place(b) - i < RingSize
    BY <1>2, <1>4
  <2> QED  BY <2>1, SlotInjective
<1> QED  BY <1>4, <1>5, <1>6, <1>7

LEMMA Survivors ==
  ASSUME RingInv, NEW k \in Keys, NEW b \in Blocks, NEW f \in Frags, NEW A,
         NewData(k, b, f, A), NEW j \in 0..(rx_ring_alloc' - 1)
  PROVE  LET i == Removed(b, f) + j
         IN  /\ i \in Overridden(b)..(rx_ring_alloc + NewBlocks(b) - 1)
             /\ EntryAfter(j) = IF i = Place(b) THEN NewEntry(b, f)
                                ELSE IF i < rx_ring_alloc THEN EntryAt(i) ELSE Fresh(b, i)
<1> DEFINE i == Removed(b, f) + j
<1>1. /\ ~AlreadyProcessed(b)
      /\ rx_ring' = [s \in Slots |-> IF s = SlotAt(Place(b)) THEN NewEntry(b, f)
                                                             ELSE Pushed(b, s)]
  BY DEF NewData
<1>2. /\ i \in Overridden(b)..(rx_ring_alloc + NewBlocks(b) - 1)
      /\ modN(rx_ring_front' + j) = SlotAt(i) /\ SlotAt(i) \in Slots
      /\ i # Place(b) => SlotAt(i) # SlotAt(Place(b))
  BY SurvivorSlot
<1>3. Pushed(b, SlotAt(i)) = IF i < rx_ring_alloc THEN EntryAt(i) ELSE Fresh(b, i)
  BY <1>1, <1>2, PushedFacts
<1> QED  BY <1>1, <1>2, <1>3 DEF EntryAfter
-----------------------------------------------------------------------------
(***************************************************************************)
(* NewData preserves each part of the invariant                            *)
(***************************************************************************)
LEMMA FreshType ==
  ASSUME RingInv, NEW b \in Blocks, ~AlreadyProcessed(b), NEW s \in Slots
  PROVE  Pushed(b, s) \in Entry
<1> DEFINE fresh == {i \in rx_ring_alloc..(rx_ring_alloc + NewBlocks(b) - 1) : SlotAt(i) = s}
<1>1. CASE fresh = {}
  <2>1. Pushed(b, s) = rx_ring[s]
    BY <1>1 DEF Pushed
  <2> QED  BY <2>1 DEF RingInv, RingTypeOK
<1>2. CASE fresh # {}
  <2>1. PICK i \in fresh : i = CHOOSE h \in fresh : TRUE
    BY <1>2
  <2>2. Pushed(b, s) = [EmptyEntry EXCEPT !.block_idx =
                          b + (CHOOSE h \in fresh : TRUE) + 1 - rx_ring_alloc - NewBlocks(b)]
    BY <1>2 DEF Pushed
  <2>3. Pushed(b, s) = [block_idx |-> b + i + 1 - rx_ring_alloc - NewBlocks(b),
                        send_fragment_idx |-> 0, has_fragments |-> 0, fragment_map |-> {}]
    BY <2>1, <2>2 DEF EmptyEntry
  <2>4. NewBlocks(b) \in 0..(b + 1) /\ rx_ring_alloc \in Nat
    BY PlaceFacts DEF RingInv, RingTypeOK, Blocks
  <2>5. b + i + 1 - rx_ring_alloc - NewBlocks(b) \in Blocks
    BY <2>4 DEF Blocks
  <2> QED  BY <2>3, <2>5 DEF Entry
<1> QED  BY <1>1, <1>2

LEMMA BuffersType ==
  ASSUME RingInv, NEW k \in Keys, NEW b \in Blocks, NEW f \in Frags, ~AlreadyProcessed(b)
  PROVE  Buffers(k, b, f) \in [Frags -> Contents]
<1> DEFINE kept == [fragments[SlotAt(Place(b))] EXCEPT ![f] = [key |-> k, blk |-> b]]
<1>1. SlotAt(Place(b)) \in Slots
  BY PlaceFacts, SlotType DEF RingInv, RingTypeOK
<1>2. fragments[SlotAt(Place(b))] \in [Frags -> Contents]
  BY <1>1 DEF RingInv, RingTypeOK
<1>3. kept \in [Frags -> Contents]
  BY <1>2 DEF Contents
<1>4. Recovered(kept, Stored(b, f)) \in Contents
  BY DEF Recovered, Contents
<1>5. Buffers(k, b, f) = IF FecApplied(b, f)
        THEN [g \in Frags |-> IF g \in Data \ Stored(b, f)
                              THEN Recovered(kept, Stored(b, f)) ELSE kept[g]]
        ELSE kept
  BY DEF Buffers
<1> HIDE DEF kept
<1> QED  BY <1>3, <1>4, <1>5

LEMMA NewDataType ==
  ASSUME RingInv, NEW k \in Keys, NEW b \in Blocks, NEW f \in Frags, NEW A,
         NewData(k, b, f, A)
  PROVE  RingTypeOK'
<1>1. /\ ~AlreadyProcessed(b) /\ f \notin Target(b).fragment_map
      /\ rx_ring' = [s \in Slots |-> IF s = SlotAt(Place(b)) THEN NewEntry(b, f)
                                                             ELSE Pushed(b, s)]
      /\ fragments' = [fragments EXCEPT ![SlotAt(Place(b))] = Buffers(k, b, f)]
      /\ rx_ring_front' = modN(rx_ring_front + Removed(b, f))
      /\ rx_ring_alloc' = rx_ring_alloc + NewBlocks(b) - Removed(b, f)
      /\ last_known_block' = IF Found(b) = {} THEN b ELSE last_known_block
      /\ session_key' = session_key
  BY DEF NewData
<1>2. rx_ring' \in [Slots -> Entry]
  BY <1>1, NewEntryFacts, FreshType
<1>3. fragments' \in [Slots -> [Frags -> Contents]]
  BY <1>1, BuffersType DEF RingInv, RingTypeOK
<1>4. rx_ring_front' \in Slots
  <2>1. rx_ring_front + Removed(b, f) \in Int
    BY <1>1, RemovedFacts, PlaceFacts DEF RingInv, RingTypeOK, Slots
  <2> QED  BY <1>1, <2>1, ModType
<1>5. rx_ring_alloc' \in 0..RingSize
  BY <1>1, RemovedFacts
<1>6. last_known_block' \in Blocks \cup {-1} /\ session_key' \in Keys \cup {NoKey}
  BY <1>1 DEF RingInv, RingTypeOK
<1> QED  BY <1>2, <1>3, <1>4, <1>5, <1>6 DEF RingTypeOK

LEMMA NewDataWindow ==
  ASSUME RingInv, NEW k \in Keys, NEW b \in Blocks, NEW f \in Frags, NEW A,
         NewData(k, b, f, A)
  PROVE  RingWindow'
<1>1. /\ ~AlreadyProcessed(b) /\ f \notin Target(b).fragment_map
      /\ rx_ring_alloc' = rx_ring_alloc + NewBlocks(b) - Removed(b, f)
      /\ last_known_block' = IF Found(b) = {} THEN b ELSE last_known_block
  BY DEF NewData
<1>2. rx_ring_alloc' \in 0..RingSize
  BY <1>1, RemovedFacts
<1>3. last_known_block' \in Int /\ last_known_block' # -1
  BY <1>1, FoundFacts DEF Blocks, RingInv, RingTypeOK
<1>4. \A j \in 0..(rx_ring_alloc' - 1) :
        EntryAfter(j).block_idx = last_known_block' - (rx_ring_alloc' - 1) + j
  <2> TAKE j \in 0..(rx_ring_alloc' - 1)
  <2> DEFINE i == Removed(b, f) + j
  <2>1. /\ i \in Overridden(b)..(rx_ring_alloc + NewBlocks(b) - 1)
        /\ EntryAfter(j) = IF i = Place(b) THEN NewEntry(b, f)
                         ELSE IF i < rx_ring_alloc THEN EntryAt(i) ELSE Fresh(b, i)
    BY <1>2, Survivors
  <2>2. /\ rx_ring_alloc \in 0..RingSize /\ NewBlocks(b) \in 0..RingSize
        /\ Overridden(b) \in 0..rx_ring_alloc /\ b \in Nat
        /\ last_known_block \in Int /\ last_known_block' \in Int
        /\ Removed(b, f) \in Overridden(b)..(rx_ring_alloc + NewBlocks(b))
    BY <1>1, PlaceFacts, RemovedFacts DEF RingInv, RingTypeOK, Blocks
  <2>3. last_known_block' - (rx_ring_alloc' - 1) + j
          = last_known_block' - (rx_ring_alloc + NewBlocks(b) - 1) + i
    BY <1>1, <1>3, <2>2 DEF Blocks
  <2>4. CASE i = Place(b)
    <3>1. EntryAfter(j).block_idx = b
      BY <1>1, <2>1, <2>4, NewEntryFacts
    <3> QED  BY <1>1, <2>2, <2>3, <2>4, <3>1, PlaceFacts
  <2>5. CASE i # Place(b) /\ i < rx_ring_alloc
    <3>1. EntryAfter(j).block_idx = last_known_block - (rx_ring_alloc - 1) + i
      BY <2>1, <2>2, <2>5 DEF RingInv, RingWindow, Places
    <3>2. last_known_block' - NewBlocks(b) = last_known_block
      BY <1>1, <2>1, <2>2, <2>5, PlaceFacts
    <3> QED  BY <1>2, <2>2, <2>3, <3>1, <3>2
  <2>6. CASE i # Place(b) /\ ~(i < rx_ring_alloc)
    <3>1. EntryAfter(j).block_idx = b + i + 1 - rx_ring_alloc - NewBlocks(b)
      BY <2>1, <2>6 DEF Fresh
    <3>2. last_known_block' = b
      BY <1>1, <2>1, <2>2, <2>6, PlaceFacts
    <3> QED  BY <1>2, <2>2, <2>3, <3>1, <3>2
  <2> QED  BY <2>4, <2>5, <2>6
<1> QED  BY <1>3, <1>4 DEF RingWindow, Places, EntryAt, SlotAt, EntryAfter
LEMMA NewDataUnfinished ==
  ASSUME RingInv, NEW k \in Keys, NEW b \in Blocks, NEW f \in Frags, NEW A,
         NewData(k, b, f, A)
  PROVE  UnfinishedBlocks'
<1> DEFINE Good(j, e) == /\ e.has_fragments = Cardinality(e.fragment_map)
                         /\ e.has_fragments < FecK /\ e.send_fragment_idx < FecK
                         /\ 0..(e.send_fragment_idx - 1) \subseteq e.fragment_map
                         /\ j > 0 => e.send_fragment_idx = 0
<1>1. /\ ~AlreadyProcessed(b) /\ f \notin Target(b).fragment_map
      /\ rx_ring_alloc' = rx_ring_alloc + NewBlocks(b) - Removed(b, f)
  BY DEF NewData
<1>2. \A j \in 0..(rx_ring_alloc' - 1) : Good(j, EntryAfter(j))
  <2> TAKE j \in 0..(rx_ring_alloc' - 1)
  <2> DEFINE i == Removed(b, f) + j
  <2>1. /\ i \in Overridden(b)..(rx_ring_alloc + NewBlocks(b) - 1)
        /\ EntryAfter(j) = IF i = Place(b) THEN NewEntry(b, f)
                           ELSE IF i < rx_ring_alloc THEN EntryAt(i) ELSE Fresh(b, i)
    BY Survivors
  <2>2. /\ rx_ring_alloc \in Nat /\ j \in Nat
        /\ Removed(b, f) \in Nat /\ i \in Nat /\ i >= j /\ Overridden(b) \in Nat
    BY <1>1, PlaceFacts, RemovedFacts DEF RingInv, RingTypeOK
  <2>3. CASE i = Place(b)
    <3>1. ~Finishes(b, f) /\ i = Overridden(b) + j
      BY <1>1, <2>2, <2>3, RemovedFacts
    <3>2. YieldedTo(b, f) \in 0..(FecK - 1) /\ SentTo(b, f) = YieldedTo(b, f)
      <4>1. YieldedTo(b, f) \in 0..FecK
        BY <1>1, YieldFacts, TargetFacts DEF Entry
      <4> QED  BY <3>1, <4>1 DEF Finishes, SentTo
    <3>3. NewEntry(b, f).has_fragments < FecK
      <4>1. Target(b).has_fragments + 1 # FecK
        BY <3>1, <3>2 DEF Finishes, Decodes
      <4>2. Target(b).has_fragments \in 0..(FecK - 1)
        BY <1>1, TargetFacts DEF Entry
      <4> QED  BY <1>1, <4>1, <4>2, NewEntryFacts
    <3>4. j > 0 => YieldedTo(b, f) = 0
      BY <1>1, <2>2, <2>3, <3>1, YieldFacts
    <3>5. 0..(YieldedTo(b, f) - 1) \subseteq Stored(b, f)
      BY <1>1, YieldFacts
    <3> QED  BY <1>1, <2>1, <2>3, <3>2, <3>3, <3>4, <3>5, NewEntryFacts
  <2>4. CASE i # Place(b) /\ i < rx_ring_alloc
    <3>1. UnfinishedEntry(i) /\ EntryAfter(j) = EntryAt(i)
      BY <2>1, <2>2, <2>4 DEF RingInv, UnfinishedBlocks, Places
    <3> QED  BY <2>2, <3>1 DEF UnfinishedEntry
  <2>5. CASE i # Place(b) /\ ~(i < rx_ring_alloc)
    <3>1. EntryAfter(j) = Fresh(b, i)
      BY <2>1, <2>5
    <3> QED  BY <3>1, FS_EmptySet DEF Fresh
  <2> QED  BY <2>3, <2>4, <2>5
<1> QED  BY <1>2 DEF UnfinishedBlocks, UnfinishedEntry, Places, EntryAt, SlotAt, EntryAfter
-----------------------------------------------------------------------------
(***************************************************************************)
(* The invariant                                                           *)
(***************************************************************************)
LEMMA InitRingInv == Init => RingInv
<1> SUFFICES ASSUME Init PROVE RingInv
  OBVIOUS
<1> USE DEF Init
<1>1. RingTypeOK
  BY DEF RingTypeOK, Slots, Entry, EmptyEntry, Blocks, Contents
<1>2. RingWindow /\ UnfinishedBlocks
  BY DEF RingWindow, UnfinishedBlocks, Places
<1> QED  BY <1>1, <1>2 DEF RingInv

LEMMA SameRing ==
  ASSUME RingInv, UNCHANGED <<ring, fragments, session_key>>
  PROVE  RingInv'
<1> USE DEF ring, EntryAt, SlotAt, Places
<1>1. RingTypeOK'
  BY DEF RingInv, RingTypeOK
<1>2. RingWindow'
  BY DEF RingInv, RingWindow
<1>3. UnfinishedBlocks'
  BY DEF RingInv, UnfinishedBlocks, UnfinishedEntry
<1> QED  BY <1>1, <1>2, <1>3 DEF RingInv

LEMMA SessionKeyRingInv ==
  ASSUME RingInv, NEW k \in Keys, SessionKey(k)
  PROVE  RingInv'
<1>1. CASE k = session_key
  BY <1>1, SameRing DEF SessionKey
<1>2. CASE k # session_key
  <2> USE <1>2 DEF SessionKey
  <2>1. RingTypeOK'
    <3>1. EmptyEntry \in Entry
      BY FecAssumption, BoundAssumption DEF Entry, EmptyEntry, Blocks
    <3>2. rx_ring' \in [Slots -> Entry]
      BY <3>1
    <3>3. rx_ring_front' \in Slots /\ rx_ring_alloc' \in 0..RingSize
      BY RingAssumption DEF Slots
    <3>4. fragments' \in [Slots -> [Frags -> Contents]]
      BY DEF RingInv, RingTypeOK
    <3> QED  BY <3>2, <3>3, <3>4 DEF RingTypeOK
  <2>2. RingWindow' /\ UnfinishedBlocks'
    BY DEF RingWindow, UnfinishedBlocks, Places
  <2> QED  BY <2>1, <2>2 DEF RingInv
<1> QED  BY <1>1, <1>2

LEMMA NextRingInv == RingInv /\ [Next]_vars => RingInv'
<1> SUFFICES ASSUME RingInv, [Next]_vars PROVE RingInv'
  OBVIOUS
<1>1. ASSUME NEW k \in Keys, SessionKey(k) PROVE RingInv'
  BY <1>1, SessionKeyRingInv
<1>2. ASSUME NEW k \in Keys, NEW b \in Blocks, NEW f \in Frags, NEW A, NewData(k, b, f, A)
      PROVE  RingInv'
  BY <1>2, NewDataType, NewDataWindow, NewDataUnfinished DEF RingInv
<1>3. ASSUME NEW hit, Drops(hit) PROVE RingInv'
  BY <1>3, SameRing DEF Drops
<1>4. ASSUME NEW k \in Keys, NEW A, DataPacket(k, A) PROVE RingInv'
  BY <1>2, <1>3, <1>4 DEF DataPacket, UndecryptableData, BadIndexData, KnownData
<1>5. CASE EmptyPacket \/ MalformedPacket \/ UndecryptableKey
  BY <1>3, <1>5 DEF EmptyPacket, MalformedPacket, UndecryptableKey
<1>6. CASE dump_stats
  BY <1>6, SameRing DEF dump_stats
<1>7. CASE UNCHANGED vars
  BY <1>7, SameRing DEF vars
<1> QED  BY <1>1, <1>4, <1>5, <1>6, <1>7 DEF Next

\* The ring of every aggregator is well formed in every reachable state: types,
\* consecutive blocks, and unfinished ones only (get_block_ring_idx,
\* rx_ring_push, process_packet).
THEOREM RingCorrect == Spec => []RingInv
BY InitRingInv, NextRingInv, PTL DEF Spec

\* The blocks of the ring are consecutive and end with the newest known one.
THEOREM WindowCorrect == Spec => []RingWindow
<1>1. RingInv => RingWindow
  BY DEF RingInv
<1> QED  BY <1>1, RingCorrect, PTL

\* No block of the ring could be decoded already, and only the oldest has
\* been sent from.
THEOREM UnfinishedCorrect == Spec => []UnfinishedBlocks
<1>1. RingInv => UnfinishedBlocks
  BY DEF RingInv
<1> QED  BY <1>1, RingCorrect, PTL
-----------------------------------------------------------------------------
(***************************************************************************)
(* Positions: blocks of FecK packets in a row                              *)
(***************************************************************************)
LEMMA BlockOrder ==
  ASSUME NEW a \in Int, NEW c \in Int, a < c
  PROVE  /\ a * FecK \in Int /\ c * FecK \in Int
         /\ (a + 1) * FecK = a * FecK + FecK
         /\ a * FecK + FecK <= c * FecK
<1>1. \A x, y \in Int : x * FecK \in Int /\ (x + y) * FecK = x * FecK + y * FecK
  OBVIOUS
<1>2. \A z \in Nat : z * FecK \in Nat
  OBVIOUS
<1>3. c = (a + 1) + (c - a - 1) /\ c - a - 1 \in Nat
  OBVIOUS
<1>4. c * FecK = (a + 1) * FecK + (c - a - 1) * FecK
  BY <1>1, <1>3
<1>5. (a + 1) * FecK = a * FecK + FecK
  OBVIOUS
<1> QED  BY <1>1, <1>2, <1>3, <1>4, <1>5

\* Turns are ordered as pairs of a place and a fragment.
LEMMA TurnOrder ==
  ASSUME NEW i \in Int, NEW j \in Int, NEW g \in Data, NEW h \in Data,
         i * FecK + g < j * FecK + h
  PROVE  i < j \/ (i = j /\ g < h)
<1>1. CASE j < i
  BY <1>1, BlockOrder DEF Data
<1>2. CASE i = j
  <2>1. i * FecK \in Int
    OBVIOUS
  <2> QED  BY <1>2, <2>1 DEF Data
<1> QED  BY <1>1, <1>2
-----------------------------------------------------------------------------
(***************************************************************************)
(* What a call of NewData sends                                            *)
(***************************************************************************)
LEMMA FlushedFacts ==
  ASSUME RingInv, NEW b \in Blocks, NEW f \in Frags, ~AlreadyProcessed(b)
  PROVE  /\ Flushed(b, f) \in 0..Place(b) /\ Flushed(b, f) <= Removed(b, f)
         /\ \A i \in Places : i < Removed(b, f) => i < Flushed(b, f) \/ i = Place(b)
<1>1. /\ Overridden(b) \in Nat /\ Place(b) \in Nat /\ Overridden(b) <= Place(b)
  BY PlaceFacts DEF RingInv, RingTypeOK
<1>2. /\ Finishes(b, f) => Removed(b, f) = Place(b) + 1
      /\ ~Finishes(b, f) => Removed(b, f) = Overridden(b)
  BY RemovedFacts
<1>3. Flushed(b, f) = IF Decodes(b, f) THEN Place(b) ELSE Overridden(b)
  BY DEF Flushed
<1>4. Finishes(b, f) /\ ~Decodes(b, f) => Place(b) = Overridden(b)
  BY YieldFacts DEF Finishes
<1>5. Decodes(b, f) => Finishes(b, f)
  BY DEF Finishes
<1> QED  BY <1>1, <1>2, <1>3, <1>4, <1>5 DEF Places

\* A packet sent comes from an older block of the ring or from block b.
FromFlush(x, b, f) == \E i \in Places, g \in Data :
  /\ i < Flushed(b, f) /\ g \in Unsent(EntryAt(i))
  /\ x = Sent(i, EntryAt(i).block_idx, g, fragments[SlotAt(i)][g])
FromBlock(x, k, b, f) == \E g \in Data :
  /\ g >= Target(b).send_fragment_idx /\ g < SentTo(b, f)
  /\ x = Sent(Place(b), b, g, Buffers(k, b, f)[g])

LEMMA SendsFrom ==
  ASSUME RingInv, NEW k \in Keys, NEW b \in Blocks, NEW f \in Frags, ~AlreadyProcessed(b),
         NEW x
  PROVE  x \in Sends(k, b, f) <=> FromFlush(x, b, f) \/ FromBlock(x, k, b, f)
<1>1. x \in FlushSends(b, f) <=> FromFlush(x, b, f)
  BY DEF FlushSends, FromFlush, Unsent
<1>2. SentTo(b, f) \in 0..FecK /\ Target(b).send_fragment_idx \in Nat
  BY YieldFacts, TargetFacts DEF SentTo, Entry
<1>3. x \in BlockSends(k, b, f) <=> FromBlock(x, k, b, f)
  BY <1>2 DEF BlockSends, FromBlock, Data
<1> QED  BY <1>1, <1>3 DEF Sends
\* The block at place i, up to the place of block b.
BlockAt(b, i) == IF i = Place(b) THEN b ELSE last_known_block - (rx_ring_alloc - 1) + i

LEMMA BlockAtOrder ==
  ASSUME RingInv, NEW b \in Blocks, ~AlreadyProcessed(b),
         NEW i \in Places \cup {Place(b)}, NEW j \in Places \cup {Place(b)},
         i < j, j <= Place(b)
  PROVE  BlockAt(b, i) < BlockAt(b, j) /\ BlockAt(b, i) \in Int /\ BlockAt(b, j) \in Int
<1>1. /\ rx_ring_alloc \in Nat /\ last_known_block \in Int /\ b \in Int /\ Place(b) \in Nat
  BY PlaceFacts DEF RingInv, RingTypeOK, Blocks
<1>2. i \in Places /\ BlockAt(b, i) = last_known_block - (rx_ring_alloc - 1) + i
  BY <1>1 DEF BlockAt, Places
<1>3. CASE j # Place(b)
  BY <1>1, <1>2, <1>3 DEF BlockAt, Places
<1>4. CASE j = Place(b)
  <2>1. BlockAt(b, j) = b
    BY <1>4 DEF BlockAt
  <2>2. Found(b) # {} => b = last_known_block - (rx_ring_alloc - 1) + j
    BY <1>4, PlaceFacts
  <2>3. Found(b) = {} => last_known_block < b
    BY PlaceFacts
  <2> QED  BY <1>1, <1>2, <2>1, <2>2, <2>3 DEF Places
<1> QED  BY <1>3, <1>4

SendInv == RingInv /\ SentBelowRing /\ high \in Int

LEMMA SendPlace ==
  ASSUME SendInv, NEW k \in Keys, NEW b \in Blocks, NEW f \in Frags, ~AlreadyProcessed(b),
         NEW x \in Sends(k, b, f)
  PROVE  \E i \in Places \cup {Place(b)}, g \in Data :
           /\ i \in 0..Place(b) /\ x.at = i * FecK + g
           /\ x.blk = BlockAt(b, i) /\ x.blk \in Blocks /\ x.frag = g
           /\ Position(x) > high
           /\ i < Removed(b, f) \/ (i = Place(b) /\ g < SentTo(b, f))
<1> USE DEF SendInv
<1>1. FromFlush(x, b, f) \/ FromBlock(x, k, b, f)
  BY SendsFrom
<1>2. /\ Place(b) \in Nat /\ rx_ring_alloc \in Nat /\ last_known_block \in Int /\ b \in Nat
  BY PlaceFacts DEF RingInv, RingTypeOK, Blocks
<1>3. CASE FromFlush(x, b, f)
  <2>1. PICK i \in Places, g \in Data :
          /\ i < Flushed(b, f) /\ g \in Unsent(EntryAt(i))
          /\ x = Sent(i, EntryAt(i).block_idx, g, fragments[SlotAt(i)][g])
    BY <1>3 DEF FromFlush
  <2>2. i \in 0..Place(b) /\ i # Place(b) /\ i < Removed(b, f)
    BY <1>2, <2>1, FlushedFacts, RemovedFacts, PlaceFacts DEF Places, RingInv, RingTypeOK
  <2>3. EntryAt(i) \in Entry
    <3>1. SlotAt(i) \in Slots
      BY SlotType DEF Places
    <3> QED  BY <3>1 DEF EntryAt, RingInv, RingTypeOK
  <2>4. /\ x.at = i * FecK + g /\ x.blk = EntryAt(i).block_idx /\ x.frag = g
    BY <2>1 DEF Sent
  <2>5. x.blk = BlockAt(b, i) /\ x.blk \in Blocks
    BY <2>2, <2>3, <2>4 DEF BlockAt, RingInv, RingWindow, Entry
  <2>6. Position(x) > high
    <3>1. high < EntryAt(i).block_idx * FecK + EntryAt(i).send_fragment_idx
      BY DEF SentBelowRing
    <3>2. g >= EntryAt(i).send_fragment_idx
      BY <2>1 DEF Unsent
    <3>3. EntryAt(i).block_idx * FecK \in Int
      BY <2>3 DEF Entry, Blocks
    <3>4. Position(x) = EntryAt(i).block_idx * FecK + g
      BY <2>4 DEF Position
    <3>5. EntryAt(i).send_fragment_idx \in Int
      BY <2>3 DEF Entry
    <3> QED  BY <3>1, <3>2, <3>3, <3>4, <3>5 DEF Data
  <2> QED  BY <2>2, <2>4, <2>5, <2>6
<1>4. CASE FromBlock(x, k, b, f)
  <2>1. PICK g \in Data :
          /\ g >= Target(b).send_fragment_idx /\ g < SentTo(b, f)
          /\ x = Sent(Place(b), b, g, Buffers(k, b, f)[g])
    BY <1>4 DEF FromBlock
  <2>2. /\ x.at = Place(b) * FecK + g /\ x.blk = b /\ x.frag = g
    BY <2>1 DEF Sent
  <2>3. Position(x) > high
    <3>1. Position(x) = b * FecK + g /\ b * FecK \in Int /\ g \in Nat
      BY <1>2, <2>2 DEF Position, Data
    <3>2. CASE Found(b) # {}
      <4>1. /\ Place(b) \in Places /\ Target(b) = EntryAt(Place(b))
            /\ EntryAt(Place(b)).block_idx = b
        BY <3>2, PlaceFacts DEF Target
      <4>2. high < b * FecK + Target(b).send_fragment_idx
        BY <4>1 DEF SentBelowRing
      <4>3. Target(b).send_fragment_idx \in Int
        BY TargetFacts DEF Entry
      <4> QED  BY <2>1, <3>1, <4>2, <4>3
    <3>3. CASE Found(b) = {}
      <4>1. last_known_block < b
        BY <3>3, PlaceFacts
      <4>2. /\ last_known_block * FecK + FecK <= b * FecK
            /\ (last_known_block + 1) * FecK = last_known_block * FecK + FecK
            /\ last_known_block * FecK \in Int
        BY <1>2, <4>1, BlockOrder
      <4> QED  BY <3>1, <4>2 DEF SentBelowRing
    <3> QED  BY <3>2, <3>3
  <2> QED  BY <1>2, <2>1, <2>2, <2>3 DEF BlockAt
<1> QED  BY <1>1, <1>3, <1>4
\* Packets leave in the order of their positions.
LEMMA SendOrder ==
  ASSUME SendInv, NEW k \in Keys, NEW b \in Blocks, NEW f \in Frags, ~AlreadyProcessed(b),
         NEW x \in Sends(k, b, f), NEW y \in Sends(k, b, f)
  PROVE  /\ x.at < y.at => Position(x) < Position(y)
         /\ x.at = y.at => Position(x) = Position(y)
         /\ x.at \in Nat /\ Position(x) \in Nat
<1>1. PICK i \in Places \cup {Place(b)}, g \in Data :
        /\ i \in 0..Place(b) /\ x.at = i * FecK + g
        /\ x.blk = BlockAt(b, i) /\ x.blk \in Blocks /\ x.frag = g
  BY SendPlace
<1>2. PICK j \in Places \cup {Place(b)}, h \in Data :
        /\ j \in 0..Place(b) /\ y.at = j * FecK + h
        /\ y.blk = BlockAt(b, j) /\ y.blk \in Blocks /\ y.frag = h
  BY SendPlace
<1>3. /\ i \in Int /\ j \in Int /\ x.blk \in Int /\ y.blk \in Int
      /\ x.blk * FecK \in Nat /\ y.blk * FecK \in Nat /\ i * FecK \in Nat
      /\ g \in 0..(FecK - 1) /\ h \in 0..(FecK - 1)
  BY <1>1, <1>2 DEF Blocks, Data
<1>4. Position(x) = x.blk * FecK + g /\ Position(y) = y.blk * FecK + h
  BY <1>1, <1>2 DEF Position
<1>5. CASE i < j
  <2>1. x.blk < y.blk
    BY <1>1, <1>2, <1>5, BlockAtOrder DEF SendInv
  <2>2. x.blk * FecK + FecK <= y.blk * FecK
    BY <1>3, <2>1, BlockOrder
  <2>3. i * FecK + FecK <= j * FecK /\ j * FecK \in Int
    BY <1>3, <1>5, BlockOrder
  <2> QED  BY <1>1, <1>2, <1>3, <1>4, <2>2, <2>3
<1>6. CASE i = j
  <2>1. x.blk = y.blk
    BY <1>1, <1>2, <1>6
  <2> QED  BY <1>1, <1>2, <1>3, <1>4, <1>6, <2>1
<1>7. CASE j < i
  <2>1. j * FecK + FecK <= i * FecK /\ j * FecK \in Int
    BY <1>3, <1>7, BlockOrder
  <2> QED  BY <1>1, <1>2, <1>3, <1>4, <2>1
<1> QED  BY <1>3, <1>5, <1>6, <1>7

\* send_packet ends a call with the packet of the latest turn.
LEMMA LastSend ==
  ASSUME SendInv, NEW k \in Keys, NEW b \in Blocks, NEW f \in Frags, ~AlreadyProcessed(b),
         Sends(k, b, f) # {}
  PROVE  /\ LastOf(Sends(k, b, f)) \in Sends(k, b, f)
         /\ \A y \in Sends(k, b, f) : Position(y) <= Position(LastOf(Sends(k, b, f)))
<1> DEFINE S == Sends(k, b, f)
           M == Place(b) * FecK + FecK
           T == {M - x.at : x \in S}
<1>1. M \in Nat
  BY PlaceFacts DEF SendInv, RingInv, RingTypeOK
<1>2. \A x \in S : x.at \in Nat /\ x.at <= M
  <2> TAKE x \in S
  <2>1. PICK i \in 0..Place(b), g \in Data : x.at = i * FecK + g
    BY SendPlace
  <2>2. Place(b) \in Nat
    BY PlaceFacts DEF SendInv, RingInv, RingTypeOK
  <2>3. i \in Nat /\ i * FecK \in Nat /\ Place(b) * FecK \in Nat
    BY <2>2
  <2>4. i = Place(b) \/ i * FecK + FecK <= Place(b) * FecK
    BY <2>2, BlockOrder
  <2> QED  BY <2>1, <2>3, <2>4 DEF Data
<1> HIDE DEF M
<1>3. T \subseteq Nat /\ T # {}
  BY <1>1, <1>2
<1>4. PICK t \in T : \A u \in T : t <= u
  BY <1>3, Least
<1>5. PICK x \in S : t = M - x.at
  BY <1>4
<1>6. ASSUME NEW y \in S PROVE y.at <= x.at
  <2>1. M - y.at \in T /\ t <= M - y.at
    BY <1>4
  <2>2. y.at \in Nat /\ x.at \in Nat
    BY <1>2
  <2> QED  BY <1>1, <1>5, <2>1, <2>2
<1>7. LastOf(S) \in S /\ \A y \in S : y.at <= LastOf(S).at
  BY <1>5, <1>6 DEF LastOf
<1>8. ASSUME NEW y \in S PROVE Position(y) <= Position(LastOf(S))
  <2>1. y.at < LastOf(S).at \/ y.at = LastOf(S).at
    BY <1>2, <1>7
  <2>2. /\ y.at < LastOf(S).at => Position(y) < Position(LastOf(S))
        /\ y.at = LastOf(S).at => Position(y) = Position(LastOf(S))
        /\ Position(y) \in Nat
    BY <1>7, SendOrder
  <2>3. Position(LastOf(S)) \in Nat
    BY <1>7, SendOrder
  <2> QED  BY <2>1, <2>2, <2>3
<1> QED  BY <1>7, <1>8
-----------------------------------------------------------------------------
(***************************************************************************)
(* What was sent stays below what is left                                  *)
(***************************************************************************)
\* The positions of the packets before entry e of block c end below e's next one.
LEMMA BelowEntry ==
  ASSUME NEW a \in Int, NEW g \in Data, NEW c \in Int, NEW s \in Nat,
         a < c \/ (a = c /\ g < s)
  PROVE  a * FecK + g < c * FecK + s
<1>1. a * FecK \in Int /\ c * FecK \in Int
  OBVIOUS
<1>2. CASE a < c
  <2>1. a * FecK + FecK <= c * FecK
    BY <1>2, BlockOrder
  <2> QED  BY <1>1, <2>1 DEF Data
<1>3. CASE a = c /\ g < s
  BY <1>1, <1>3 DEF Data
<1> QED  BY <1>2, <1>3

\* A survivor's block is the one the new window puts at its place; it is past
\* every place before it, and its next fragment is not below the old one.
LEMMA SurvivorFacts ==
  ASSUME RingInv, NEW k \in Keys, NEW b \in Blocks, NEW f \in Frags, NEW A,
         NewData(k, b, f, A), NEW j \in 0..(rx_ring_alloc' - 1)
  PROVE  LET i == Removed(b, f) + j
             e == EntryAfter(j)
         IN  /\ i \in Nat /\ i >= Removed(b, f) /\ e \in Entry
             /\ i = Place(b) => e = NewEntry(b, f)
             /\ i # Place(b) /\ i \in Places => e = EntryAt(i)
             /\ i \notin Places /\ i # Place(b) => e.block_idx > last_known_block
             /\ e.block_idx = last_known_block' - (rx_ring_alloc + NewBlocks(b) - 1) + i
<1> DEFINE i == Removed(b, f) + j
           e == EntryAfter(j)
<1>1. /\ ~AlreadyProcessed(b) /\ f \notin Target(b).fragment_map
      /\ rx_ring_alloc' = rx_ring_alloc + NewBlocks(b) - Removed(b, f)
      /\ last_known_block' = IF Found(b) = {} THEN b ELSE last_known_block
  BY DEF NewData
<1>2. /\ i \in Overridden(b)..(rx_ring_alloc + NewBlocks(b) - 1)
      /\ e = IF i = Place(b) THEN NewEntry(b, f)
             ELSE IF i < rx_ring_alloc THEN EntryAt(i) ELSE Fresh(b, i)
  BY Survivors
<1>3. /\ rx_ring_alloc \in Nat /\ NewBlocks(b) \in Nat /\ Overridden(b) \in Nat
      /\ Removed(b, f) \in Nat /\ j \in Nat /\ b \in Nat
      /\ last_known_block \in Int /\ last_known_block' \in Int
  BY <1>1, PlaceFacts, RemovedFacts DEF RingInv, RingTypeOK, Blocks
<1>4. RingTypeOK' /\ RingWindow'
  BY NewDataType, NewDataWindow
<1>5. e \in Entry
  <2>1. rx_ring' \in [Slots -> Entry] /\ rx_ring_front' \in Slots
    BY <1>4 DEF RingTypeOK
  <2>2. rx_ring_front' + j \in Int
    BY <2>1 DEF Slots
  <2> QED  BY <2>1, <2>2, ModType DEF EntryAfter
<1>6. e.block_idx = last_known_block' - (rx_ring_alloc' - 1) + j
  BY <1>4 DEF RingWindow, Places, EntryAt, SlotAt, EntryAfter
<1>7. e.block_idx = last_known_block' - (rx_ring_alloc + NewBlocks(b) - 1) + i
  BY <1>1, <1>3, <1>6
<1>8. i \in Nat /\ i >= Removed(b, f) /\ (i \in Places <=> i < rx_ring_alloc)
  BY <1>3 DEF Places
<1>9. ASSUME i \notin Places, i # Place(b) PROVE e.block_idx > last_known_block
  <2>1. e.block_idx = b + i + 1 - rx_ring_alloc - NewBlocks(b) /\ i >= rx_ring_alloc
    BY <1>2, <1>3, <1>8, <1>9 DEF Fresh
  <2>2. Found(b) = {}
    <3> HIDE DEF i
    <3>1. NewBlocks(b) # 0
      BY <1>2, <1>3, <1>8, <2>1
    <3> QED  BY <3>1 DEF NewBlocks
  <2>3. last_known_block = -1 \/ NewBlocks(b) <= b - last_known_block
    BY <1>3, <2>2 DEF NewBlocks
  <2>4. NewBlocks(b) <= b + 1
    BY <1>1, <2>2, PlaceFacts
  <2> QED  BY <1>3, <2>1, <2>3, <2>4
<1> QED  BY <1>2, <1>5, <1>7, <1>8, <1>9
LEMMA SendBelowSurvivor ==
  ASSUME SendInv, NEW k \in Keys, NEW b \in Blocks, NEW f \in Frags, NEW A,
         NewData(k, b, f, A), NEW j \in 0..(rx_ring_alloc' - 1), NEW y \in Sends(k, b, f)
  PROVE  Position(y) < EntryAfter(j).block_idx * FecK + EntryAfter(j).send_fragment_idx
<1> DEFINE i == Removed(b, f) + j
           e == EntryAfter(j)
<1>1. /\ ~AlreadyProcessed(b) /\ f \notin Target(b).fragment_map
      /\ last_known_block' = IF Found(b) = {} THEN b ELSE last_known_block
  BY DEF NewData
<1>2. /\ i \in Nat /\ i >= Removed(b, f) /\ e \in Entry
      /\ i = Place(b) => e = NewEntry(b, f)
      /\ i # Place(b) /\ i \in Places => e = EntryAt(i)
      /\ i \notin Places /\ i # Place(b) => e.block_idx > last_known_block
      /\ e.block_idx = last_known_block' - (rx_ring_alloc + NewBlocks(b) - 1) + i
  BY SurvivorFacts DEF SendInv
<1>3. PICK h \in Places \cup {Place(b)}, g \in Data :
        /\ h \in 0..Place(b) /\ y.blk = BlockAt(b, h) /\ y.blk \in Blocks /\ y.frag = g
        /\ h < Removed(b, f) \/ (h = Place(b) /\ g < SentTo(b, f))
  BY <1>1, SendPlace
<1>4. /\ rx_ring_alloc \in Nat /\ NewBlocks(b) \in Nat /\ Place(b) \in Nat
      /\ b \in Nat /\ last_known_block \in Int /\ Removed(b, f) \in Nat
  BY <1>1, PlaceFacts, RemovedFacts DEF SendInv, RingInv, RingTypeOK, Blocks
<1> HIDE DEF i, e
<1>5. b = last_known_block' - (rx_ring_alloc + NewBlocks(b) - 1) + Place(b)
  BY <1>1, <1>4, PlaceFacts DEF SendInv
<1>6. BlockAt(b, h) <= b
  BY <1>1, <1>3, <1>4, BlockAtOrder DEF SendInv, BlockAt
<1>7. i > Place(b) => BlockAt(b, h) < e.block_idx
  <2>1. BlockAt(b, h) \in Int /\ last_known_block' \in Int
    BY <1>1, <1>3, <1>4 DEF Blocks
  <2> QED  BY <1>2, <1>4, <1>5, <1>6, <2>1
<1>8. CASE h < Removed(b, f)
  <2>1. BlockAt(b, h) < e.block_idx
    <3>1. CASE i <= Place(b) /\ i \in Places \cup {Place(b)}
      <4>1. e.block_idx = BlockAt(b, i)
        <5>1. i = Place(b) => e.block_idx = b
          BY <1>1, <1>2, NewEntryFacts DEF SendInv
        <5>2. i # Place(b) => e.block_idx = last_known_block - (rx_ring_alloc - 1) + i
          BY <1>2, <3>1 DEF SendInv, RingInv, RingWindow
        <5> QED  BY <5>1, <5>2 DEF BlockAt
      <4> QED  BY <1>1, <1>2, <1>3, <1>4, <1>8, <3>1, <4>1, BlockAtOrder DEF SendInv
    <3>2. CASE i < Place(b) /\ i \notin Places
      <4>1. h # Place(b) /\ h \in Places
        BY <1>2, <1>3, <1>4, <1>8, <3>2
      <4>2. BlockAt(b, h) <= last_known_block /\ BlockAt(b, h) \in Int
        BY <1>4, <4>1 DEF BlockAt, Places
      <4> QED  BY <1>2, <1>4, <3>2, <4>2 DEF Entry, Blocks
    <3> QED  BY <1>2, <1>4, <1>7, <3>1, <3>2
  <2>2. e.block_idx \in Int /\ e.send_fragment_idx \in Nat /\ y.blk \in Int
    BY <1>2, <1>3 DEF Entry, Blocks
  <2> QED  BY <1>3, <2>1, <2>2, BelowEntry DEF Position, e
<1>9. CASE ~(h < Removed(b, f)) /\ h = Place(b) /\ g < SentTo(b, f)
  <2>1. ~Finishes(b, f)
    BY <1>1, <1>4, <1>9, RemovedFacts DEF SendInv
  <2>2. Place(b) = Removed(b, f)
    BY <1>1, <1>9, <2>1, RemovedFacts, YieldFacts DEF SendInv, SentTo, Data
  <2>3. BlockAt(b, h) = b
    BY <1>9 DEF BlockAt
  <2>4. i = Place(b) => e.block_idx = b /\ e.send_fragment_idx = SentTo(b, f)
    BY <1>1, <1>2, NewEntryFacts DEF SendInv
  <2>5. e.block_idx \in Int /\ e.send_fragment_idx \in Nat /\ y.blk \in Int
    BY <1>2, <1>3 DEF Entry, Blocks
  <2>6. y.blk < e.block_idx \/ (y.blk = e.block_idx /\ g < e.send_fragment_idx)
    BY <1>2, <1>3, <1>4, <1>7, <1>9, <2>2, <2>3, <2>4
  <2> QED  BY <1>3, <2>5, <2>6, BelowEntry DEF Position, e
<1> QED  BY <1>3, <1>8, <1>9

LEMMA HighBelowSurvivor ==
  ASSUME SendInv, NEW k \in Keys, NEW b \in Blocks, NEW f \in Frags, NEW A,
         NewData(k, b, f, A), NEW j \in 0..(rx_ring_alloc' - 1)
  PROVE  high < EntryAfter(j).block_idx * FecK + EntryAfter(j).send_fragment_idx
<1> DEFINE i == Removed(b, f) + j
           e == EntryAfter(j)
<1>1. ~AlreadyProcessed(b) /\ f \notin Target(b).fragment_map
  BY DEF NewData
<1>2. /\ i \in Nat /\ i >= Removed(b, f) /\ e \in Entry
      /\ i = Place(b) => e = NewEntry(b, f)
      /\ i # Place(b) /\ i \in Places => e = EntryAt(i)
      /\ i \notin Places /\ i # Place(b) => e.block_idx > last_known_block
  BY SurvivorFacts DEF SendInv
<1>3. /\ high \in Int /\ e.block_idx \in Int /\ e.send_fragment_idx \in Nat
      /\ e.block_idx * FecK \in Int /\ last_known_block \in Int
  BY <1>2 DEF SendInv, RingInv, RingTypeOK, Entry, Blocks
<1> HIDE DEF i, e
<1>4. CASE e.block_idx > last_known_block
  <2>1. /\ last_known_block * FecK + FecK <= e.block_idx * FecK
        /\ (last_known_block + 1) * FecK = last_known_block * FecK + FecK
        /\ last_known_block * FecK \in Int
    BY <1>3, <1>4, BlockOrder
  <2> QED  BY <1>3, <2>1 DEF SendInv, SentBelowRing, e
<1>5. CASE i = Place(b) /\ ~(e.block_idx > last_known_block)
  <2>1. e.block_idx = b /\ e.send_fragment_idx = SentTo(b, f)
    BY <1>1, <1>2, <1>5, NewEntryFacts DEF SendInv
  <2>2. Found(b) # {}
    BY <1>1, <1>5, <2>1, PlaceFacts DEF SendInv
  <2>3. /\ Place(b) \in Places /\ Target(b) = EntryAt(Place(b))
        /\ EntryAt(Place(b)).block_idx = b
    BY <1>1, <2>2, PlaceFacts DEF SendInv, Target
  <2>4. high < b * FecK + Target(b).send_fragment_idx
    BY <2>3 DEF SendInv, SentBelowRing
  <2>5. SentTo(b, f) >= Target(b).send_fragment_idx /\ Target(b).send_fragment_idx \in Int
    BY <1>1, YieldFacts, TargetFacts DEF SendInv, SentTo, Entry
  <2> QED  BY <1>3, <2>1, <2>4, <2>5 DEF e
<1>6. CASE i # Place(b) /\ i \in Places
  BY <1>2, <1>6 DEF SendInv, SentBelowRing, e
<1> QED  BY <1>2, <1>4, <1>5, <1>6
LEMMA NewDataSendInv ==
  ASSUME SendInv, NEW k \in Keys, NEW b \in Blocks, NEW f \in Frags, NEW A,
         NewData(k, b, f, A)
  PROVE  SentBelowRing' /\ high' \in Int
<1> DEFINE S == Sends(k, b, f)
           y == LastOf(S)
<1>1. /\ ~AlreadyProcessed(b) /\ f \notin Target(b).fragment_map
      /\ last_known_block' = IF Found(b) = {} THEN b ELSE last_known_block
      /\ high' = IF S = {} THEN high ELSE Position(y)
  BY DEF NewData
<1>2. /\ high \in Int /\ last_known_block \in Int /\ b \in Nat /\ last_known_block >= -1
      /\ rx_ring_alloc \in Nat
  BY DEF SendInv, RingInv, RingTypeOK, Blocks
<1>3. last_known_block' >= last_known_block /\ last_known_block' >= b /\ last_known_block' \in Int
  BY <1>1, <1>2, PlaceFacts, FoundFacts DEF SendInv
<1>4. CASE S = {}
  <2>1. \A j \in 0..(rx_ring_alloc' - 1) :
          high' < EntryAfter(j).block_idx * FecK + EntryAfter(j).send_fragment_idx
    BY <1>1, <1>4, HighBelowSurvivor
  <2>2. high' < (last_known_block' + 1) * FecK
    <3>1. high < (last_known_block + 1) * FecK
      BY DEF SendInv, SentBelowRing
    <3>2. CASE last_known_block' = last_known_block
      BY <1>1, <1>4, <3>1, <3>2
    <3>3. CASE last_known_block < last_known_block'
      <4>1. /\ (last_known_block + 1) * FecK = last_known_block * FecK + FecK
            /\ last_known_block * FecK + FecK <= last_known_block' * FecK
            /\ last_known_block * FecK \in Int /\ last_known_block' * FecK \in Int
        BY <1>2, <1>3, <3>3, BlockOrder
      <4>2. (last_known_block' + 1) * FecK = last_known_block' * FecK + FecK
        BY <1>3, BlockOrder
      <4> QED  BY <1>1, <1>2, <1>4, <3>1, <4>1, <4>2
    <3> QED  BY <1>2, <1>3, <3>2, <3>3
  <2> QED  BY <1>1, <1>2, <1>4, <2>1, <2>2
           DEF SentBelowRing, Places, EntryAt, SlotAt, EntryAfter
<1>5. CASE S # {}
  <2>1. y \in S /\ high' = Position(y)
    BY <1>1, <1>5, LastSend
  <2>2. \A j \in 0..(rx_ring_alloc' - 1) :
          high' < EntryAfter(j).block_idx * FecK + EntryAfter(j).send_fragment_idx
    BY <2>1, SendBelowSurvivor
  <2>3. high' < (last_known_block' + 1) * FecK
    <3>1. PICK h \in Places \cup {Place(b)}, g \in Data :
            y.blk = BlockAt(b, h) /\ y.blk \in Blocks /\ y.frag = g
      BY <1>1, <2>1, SendPlace
    <3> HIDE DEF y
    <3>2. y.blk <= last_known_block'
      <4>1. CASE h = Place(b)
        BY <1>2, <1>3, <3>1, <4>1 DEF BlockAt
      <4>2. CASE h # Place(b)
        <5>1. h \in 0..(rx_ring_alloc - 1) /\ y.blk = last_known_block - (rx_ring_alloc - 1) + h
          BY <3>1, <4>2 DEF BlockAt, Places
        <5> QED  BY <1>2, <1>3, <5>1
      <4> QED  BY <4>1, <4>2
    <3>3. y.blk * FecK + g < (last_known_block' + 1) * FecK + 0
      <4>1. /\ last_known_block' + 1 \in Int /\ 0 \in Nat
            /\ y.blk \in Int /\ y.blk < last_known_block' + 1
        BY <1>3, <3>1, <3>2 DEF Blocks
      <4> QED  BY <4>1, BelowEntry
    <3>4. (last_known_block' + 1) * FecK \in Int
      BY <1>3
    <3> QED  BY <2>1, <3>1, <3>3, <3>4 DEF Position
  <2>4. high' \in Int
    BY <1>1, <2>1, SendOrder
  <2> QED  BY <2>2, <2>3, <2>4 DEF SentBelowRing, Places, EntryAt, SlotAt, EntryAfter
<1> QED  BY <1>4, <1>5

LEMMA InitSendInv == Init => SendInv
<1> SUFFICES ASSUME Init PROVE SendInv
  OBVIOUS
<1>1. SentBelowRing /\ high \in Int
  BY DEF Init, SentBelowRing, Places
<1> QED  BY <1>1, InitRingInv DEF SendInv

LEMMA SameSend ==
  ASSUME SendInv, UNCHANGED <<ring, fragments, session_key, high>>
  PROVE  SendInv'
<1>1. RingInv'
  BY SameRing DEF SendInv
<1>2. SentBelowRing' /\ high' \in Int
  BY DEF SendInv, SentBelowRing, ring, Places, EntryAt, SlotAt
<1> QED  BY <1>1, <1>2 DEF SendInv

\* A step either handles a new fragment or sends nothing at all.
LEMMA NextCases ==
  ASSUME [Next]_vars
  PROVE  \/ \E k \in Keys, b \in Blocks, f \in Frags : \E A \in SUBSET Antennas :
              NewData(k, b, f, A)
         \/ /\ UNCHANGED <<ring, fragments, session_key, high>>
            /\ out' = {} \/ UNCHANGED vars
         \/ \E k \in Keys : SessionKey(k) /\ k # session_key
<1>1. ASSUME NEW hit, Drops(hit)
      PROVE  UNCHANGED <<ring, fragments, session_key, high>> /\ out' = {}
  BY <1>1 DEF Drops
<1>2. CASE EmptyPacket \/ MalformedPacket \/ UndecryptableKey
  BY <1>1, <1>2 DEF EmptyPacket, MalformedPacket, UndecryptableKey
<1>3. CASE \E k \in Keys : SessionKey(k)
  BY <1>3 DEF SessionKey
<1>4. CASE \E k \in Keys, A \in SUBSET Antennas : DataPacket(k, A)
  BY <1>1, <1>4 DEF DataPacket, UndecryptableData, BadIndexData, KnownData
<1>5. CASE dump_stats \/ UNCHANGED vars
  BY <1>5 DEF dump_stats, vars
<1> QED  BY <1>2, <1>3, <1>4, <1>5 DEF Next

LEMMA NextSendInv == SendInv /\ [Next]_vars => SendInv'
<1> SUFFICES ASSUME SendInv, [Next]_vars PROVE SendInv'
  OBVIOUS
<1>1. RingInv'
  BY NextRingInv DEF SendInv
<1>2. CASE \E k \in Keys, b \in Blocks, f \in Frags : \E A \in SUBSET Antennas :
             NewData(k, b, f, A)
  BY <1>1, <1>2, NewDataSendInv DEF SendInv
<1>3. CASE UNCHANGED <<ring, fragments, session_key, high>>
  BY <1>3, SameSend
<1>4. CASE \E k \in Keys : SessionKey(k) /\ k # session_key
  <2>1. rx_ring_alloc' = 0 /\ last_known_block' = -1 /\ high' = -1
    BY <1>4 DEF SessionKey
  <2> QED  BY <1>1, <2>1 DEF SendInv, SentBelowRing, Places
<1> QED  BY <1>2, <1>3, <1>4, NextCases

LEMMA NewDataInOrder ==
  ASSUME SendInv, NEW k \in Keys, NEW b \in Blocks, NEW f \in Frags, NEW A,
         NewData(k, b, f, A)
  PROVE  /\ \A x \in out' : Position(x) > high
         /\ \A x, y \in out' : x.at < y.at => Position(x) < Position(y)
<1>1. ~AlreadyProcessed(b) /\ out' \subseteq Sends(k, b, f)
  BY DEF NewData
<1>2. ASSUME NEW x \in out' PROVE Position(x) > high
  BY <1>1, SendPlace
<1>3. ASSUME NEW x \in out', NEW y \in out', x.at < y.at PROVE Position(x) < Position(y)
  BY <1>1, <1>3, SendOrder
<1> QED  BY <1>2, <1>3

\* What was sent in a session lies below everything the ring still holds.
THEOREM SentBelowCorrect == Spec => []SentBelowRing
<1>1. SendInv => SentBelowRing
  BY DEF SendInv
<1> QED  BY <1>1, InitSendInv, NextSendInv, PTL DEF Spec

\* The client gets the packets of a session in the order the transmitter was
\* given them, each at most once, for any loss, duplication and reordering of
\* radio packets and any sizes of block and ring (process_packet, send_packet).
THEOREM DeliveryInOrder == Spec => InOrder
<1>1. SendInv /\ [Next]_vars =>
        [~NewSession => /\ \A x \in out' : Position(x) > high
                        /\ \A x, y \in out' : x.at < y.at => Position(x) < Position(y)]_vars
  <2> SUFFICES ASSUME SendInv, [Next]_vars, ~NewSession, ~UNCHANGED vars
               PROVE  /\ \A x \in out' : Position(x) > high
                      /\ \A x, y \in out' : x.at < y.at => Position(x) < Position(y)
    OBVIOUS
  <2>1. CASE \E k \in Keys, b \in Blocks, f \in Frags : \E A \in SUBSET Antennas :
               NewData(k, b, f, A)
    BY <2>1, NewDataInOrder
  <2>2. CASE out' = {}
    BY <2>2
  <2>3. ~(\E k \in Keys : SessionKey(k) /\ k # session_key)
    BY DEF SessionKey, NewSession
  <2> QED  BY <2>1, <2>2, <2>3, NextCases
<1> QED  BY <1>1, InitSendInv, NextSendInv, PTL DEF Spec, InOrder
-----------------------------------------------------------------------------
(***************************************************************************)
(* Nothing that was received is dropped                                    *)
(***************************************************************************)
HoldInv == SendInv /\ HeldFragments

Packet(c, b) == \E k \in Keys : c = [key |-> k, blk |-> b]

LEMMA PacketNotJunk ==
  ASSUME NEW c, NEW b \in Blocks, Packet(c, b)
  PROVE  c # Junk
BY DEF Packet, Blocks

\* The buffer of a stored fragment: the one just received, or one block b held before,
\* whether fec is applied or not.
LEMMA StoredBuffers ==
  ASSUME RingInv, NEW k \in Keys, NEW b \in Blocks, NEW f \in Frags, ~AlreadyProcessed(b),
         NEW g \in Stored(b, f)
  PROVE  \/ g = f /\ Buffers(k, b, f)[g] = [key |-> k, blk |-> b]
         \/ /\ Place(b) \in Places /\ g \in EntryAt(Place(b)).fragment_map
            /\ EntryAt(Place(b)).block_idx = b
            /\ Buffers(k, b, f)[g] = fragments[SlotAt(Place(b))][g]
<1> DEFINE old  == fragments[SlotAt(Place(b))]
           kept == [old EXCEPT ![f] = [key |-> k, blk |-> b]]
<1>1. SlotAt(Place(b)) \in Slots /\ old \in [Frags -> Contents]
  <2>1. SlotAt(Place(b)) \in Slots
    BY PlaceFacts, SlotType DEF RingInv, RingTypeOK
  <2> QED  BY <2>1 DEF RingInv, RingTypeOK
<1>2. Stored(b, f) \subseteq Frags
  BY TargetFacts DEF Stored, Entry
<1>3. Buffers(k, b, f)[g] = kept[g]
  <2>1. Buffers(k, b, f) = IF FecApplied(b, f)
          THEN [h \in Frags |-> IF h \in Data \ Stored(b, f)
                                THEN Recovered(kept, Stored(b, f)) ELSE kept[h]]
          ELSE kept
    BY DEF Buffers
  <2> HIDE DEF kept
  <2> QED  BY <1>2, <2>1
<1>4. CASE g = f
  BY <1>1, <1>3, <1>4
<1>5. CASE g # f
  <2>1. g \in Target(b).fragment_map
    BY <1>5 DEF Stored
  <2>2. Found(b) # {}
    BY <2>1 DEF Target, EmptyEntry
  <2>3. /\ Place(b) \in Places /\ Target(b) = EntryAt(Place(b))
        /\ EntryAt(Place(b)).block_idx = b
    BY <2>2, PlaceFacts DEF Target
  <2>4. kept[g] = old[g]
    BY <1>1, <1>2, <1>5
  <2> QED  BY <1>3, <2>1, <2>3, <2>4
<1> QED  BY <1>4, <1>5

\* The buffers of block b hold what was received.
LEMMA ReceivedBuffers ==
  ASSUME HoldInv, NEW k \in Keys, NEW b \in Blocks, NEW f \in Frags, ~AlreadyProcessed(b),
         NEW g \in Stored(b, f)
  PROVE  Packet(Buffers(k, b, f)[g], b)
BY StoredBuffers DEF HoldInv, SendInv, HeldFragments, Packet

LEMMA NewDataHeld ==
  ASSUME HoldInv, NEW k \in Keys, NEW b \in Blocks, NEW f \in Frags, NEW A,
         NewData(k, b, f, A)
  PROVE  HeldFragments'
<1> USE DEF HoldInv, SendInv
<1>1. /\ ~AlreadyProcessed(b) /\ f \notin Target(b).fragment_map
      /\ fragments' = [fragments EXCEPT ![SlotAt(Place(b))] = Buffers(k, b, f)]
  BY DEF NewData
<1>2. \A j \in 0..(rx_ring_alloc' - 1) : \A g \in EntryAfter(j).fragment_map :
        Packet(fragments'[modN(rx_ring_front' + j)][g], EntryAfter(j).block_idx)
  <2> TAKE j \in 0..(rx_ring_alloc' - 1)
  <2> TAKE g \in EntryAfter(j).fragment_map
  <2> DEFINE i == Removed(b, f) + j
  <2>1. /\ modN(rx_ring_front' + j) = SlotAt(i) /\ SlotAt(i) \in Slots
        /\ i # Place(b) => SlotAt(i) # SlotAt(Place(b))
    BY SurvivorSlot
  <2>2. EntryAfter(j) = IF i = Place(b) THEN NewEntry(b, f)
                        ELSE IF i < rx_ring_alloc THEN EntryAt(i) ELSE Fresh(b, i)
    BY Survivors
  <2>3. i \in Nat /\ (i < rx_ring_alloc => i \in Places)
    BY <1>1, SurvivorFacts DEF Places, RingInv, RingTypeOK
  <2>4. fragments \in [Slots -> [Frags -> Contents]]
    BY DEF RingInv, RingTypeOK
  <2>5. CASE i = Place(b)
    <3>1. g \in Stored(b, f) /\ EntryAfter(j).block_idx = b
      BY <1>1, <2>2, <2>5, NewEntryFacts
    <3>2. fragments'[SlotAt(i)] = Buffers(k, b, f)
      BY <1>1, <2>1, <2>4, <2>5
    <3> QED  BY <1>1, <2>1, <3>1, <3>2, ReceivedBuffers
  <2>6. CASE i # Place(b)
    <3>1. fragments'[SlotAt(i)] = fragments[SlotAt(i)]
      BY <1>1, <2>1, <2>4, <2>6
    <3>2. EntryAfter(j) = EntryAt(i) /\ i \in Places
      BY <2>2, <2>3, <2>6 DEF Fresh
    <3> QED  BY <2>1, <3>1, <3>2 DEF HeldFragments, Packet
  <2> QED  BY <2>5, <2>6
<1> QED  BY <1>2 DEF HeldFragments, Packet, Places, EntryAt, SlotAt, EntryAfter
\* A packet of the ring that is not sent by the call still waits after it.
LEMMA NewDataKeeps ==
  ASSUME HoldInv, NEW k \in Keys, NEW b \in Blocks, NEW f \in Frags, NEW A,
         NewData(k, b, f, A), NEW p \in Waiting
  PROVE  p \in Waiting' \/ \E x \in out' : Position(x) = p
<1> USE DEF HoldInv, SendInv
<1>1. /\ ~AlreadyProcessed(b) /\ f \notin Target(b).fragment_map
      /\ rx_ring_alloc' = rx_ring_alloc + NewBlocks(b) - Removed(b, f)
      /\ \E corrupted \in SUBSET Corruptible(Sends(k, b, f)) : out' = Sends(k, b, f) \ corrupted
  BY DEF NewData
<1>2. PICK i \in Places, g \in Data :
        /\ g >= EntryAt(i).send_fragment_idx /\ g \in EntryAt(i).fragment_map
        /\ p = EntryAt(i).block_idx * FecK + g
  BY DEF Waiting, Unsent
<1>3. /\ rx_ring_alloc \in Nat /\ NewBlocks(b) \in Nat /\ Removed(b, f) \in Nat
      /\ Place(b) \in Nat /\ i \in Nat /\ i < rx_ring_alloc
  BY <1>1, <1>2, PlaceFacts, RemovedFacts DEF Places, RingInv, RingTypeOK
<1>4. \A x \in Sends(k, b, f), c \in Blocks : Packet(x.pkt, c) => x \in out'
  BY <1>1, PacketNotJunk DEF Corruptible
<1>5. CASE i < Flushed(b, f)
  <2> DEFINE x == Sent(i, EntryAt(i).block_idx, g, fragments[SlotAt(i)][g])
  <2>1. x \in Sends(k, b, f)
    <3>1. FromFlush(x, b, f)
      BY <1>2, <1>5 DEF FromFlush, Unsent
    <3> QED  BY <1>1, <3>1, SendsFrom
  <2>2. Packet(x.pkt, EntryAt(i).block_idx)
    BY <1>2 DEF HeldFragments, Packet, Sent
  <2>3. EntryAt(i).block_idx \in Blocks
    <3>1. SlotAt(i) \in Slots
      BY <1>3, SlotType
    <3> QED  BY <3>1 DEF EntryAt, RingInv, RingTypeOK, Entry
  <2>4. x \in out'
    BY <1>4, <2>1, <2>2, <2>3
  <2>5. Position(x) = p
    BY <1>2 DEF Position, Sent
  <2> QED  BY <2>4, <2>5
<1>6. ASSUME i = Place(b)
      PROVE  /\ Target(b) = EntryAt(i) /\ EntryAt(i).block_idx = b
             /\ g \in Stored(b, f)
  <2>1. Found(b) # {}
    BY <1>1, <1>3, <1>6, PlaceFacts
  <2> QED  BY <1>1, <1>2, <1>6, <2>1, PlaceFacts DEF Target, Stored
<1>7. CASE i = Place(b) /\ g < SentTo(b, f)
  <2> DEFINE x == Sent(Place(b), b, g, Buffers(k, b, f)[g])
  <2>1. x \in Sends(k, b, f)
    <3>1. FromBlock(x, k, b, f)
      BY <1>2, <1>6, <1>7 DEF FromBlock
    <3> QED  BY <1>1, <3>1, SendsFrom
  <2>2. Packet(x.pkt, b)
    BY <1>1, <1>6, <1>7, ReceivedBuffers DEF Sent
  <2>3. x \in out'
    BY <1>4, <2>1, <2>2
  <2>4. Position(x) = p
    BY <1>2, <1>6, <1>7 DEF Position, Sent
  <2> QED  BY <2>3, <2>4
<1>8. CASE i >= Removed(b, f) /\ ~(i = Place(b) /\ g < SentTo(b, f))
  <2> DEFINE j == i - Removed(b, f)
  <2>1. j \in 0..(rx_ring_alloc' - 1) /\ Removed(b, f) + j = i
    BY <1>1, <1>3, <1>8
  <2>2. EntryAfter(j) = IF i = Place(b) THEN NewEntry(b, f) ELSE EntryAt(i)
    <3> HIDE DEF j
    <3>1. EntryAfter(j) = IF Removed(b, f) + j = Place(b) THEN NewEntry(b, f)
                          ELSE IF Removed(b, f) + j < rx_ring_alloc
                               THEN EntryAt(Removed(b, f) + j)
                               ELSE Fresh(b, Removed(b, f) + j)
      BY <2>1, Survivors
    <3> QED  BY <1>3, <2>1, <3>1
  <2>3. /\ EntryAfter(j).block_idx = EntryAt(i).block_idx
        /\ g >= EntryAfter(j).send_fragment_idx /\ g \in EntryAfter(j).fragment_map
    <3>1. CASE i = Place(b)
      <4>1. /\ EntryAfter(j).block_idx = b
            /\ EntryAfter(j).send_fragment_idx = SentTo(b, f)
            /\ EntryAfter(j).fragment_map = Stored(b, f)
        BY <1>1, <2>2, <3>1, NewEntryFacts
      <4>2. SentTo(b, f) \in 0..FecK /\ g \in Nat
        BY <1>1, YieldFacts, TargetFacts DEF SentTo, Entry, Data
      <4> QED  BY <1>6, <1>8, <3>1, <4>1, <4>2
    <3>2. CASE i # Place(b)
      BY <1>2, <2>2, <3>2
    <3> QED  BY <3>1, <3>2
  <2> HIDE DEF j
  <2>4. \E h \in 0..(rx_ring_alloc' - 1), d \in Data :
          /\ d >= EntryAfter(h).send_fragment_idx /\ d \in EntryAfter(h).fragment_map
          /\ p = EntryAfter(h).block_idx * FecK + d
    BY <1>2, <2>1, <2>3
  <2>5. p \in Waiting'
    BY <2>4 DEF Waiting, Unsent, Places, EntryAt, SlotAt, EntryAfter
  <2> QED  BY <2>5
<1>9. i < Removed(b, f) => i < Flushed(b, f) \/ (i = Place(b) /\ g < SentTo(b, f))
  <2> SUFFICES ASSUME i < Removed(b, f), ~(i < Flushed(b, f))
               PROVE  i = Place(b) /\ g < SentTo(b, f)
    OBVIOUS
  <2>1. i = Place(b)
    BY <1>1, FlushedFacts
  <2>2. Finishes(b, f)
    BY <1>1, <1>3, <2>1, RemovedFacts, PlaceFacts DEF RingInv, RingTypeOK
  <2> QED  BY <2>1, <2>2 DEF SentTo, Data
<1> QED  BY <1>3, <1>5, <1>7, <1>8, <1>9

LEMMA InitHoldInv == Init => HoldInv
<1> SUFFICES ASSUME Init PROVE HoldInv
  OBVIOUS
<1>1. HeldFragments
  BY DEF Init, HeldFragments, Places
<1> QED  BY <1>1, InitSendInv DEF HoldInv

LEMMA NextHoldInv == HoldInv /\ [Next]_vars => HoldInv'
<1> SUFFICES ASSUME HoldInv, [Next]_vars PROVE HoldInv'
  OBVIOUS
<1>1. SendInv'
  BY NextSendInv DEF HoldInv
<1>2. CASE \E k \in Keys, b \in Blocks, f \in Frags : \E A \in SUBSET Antennas :
             NewData(k, b, f, A)
  BY <1>1, <1>2, NewDataHeld DEF HoldInv
<1>3. CASE UNCHANGED <<ring, fragments, session_key, high>>
  <2>1. HeldFragments'
    BY <1>3 DEF HoldInv, HeldFragments, ring, Places, EntryAt, SlotAt
  <2> QED  BY <1>1, <2>1 DEF HoldInv
<1>4. CASE \E k \in Keys : SessionKey(k) /\ k # session_key
  <2>1. rx_ring_alloc' = 0
    BY <1>4 DEF SessionKey
  <2> QED  BY <1>1, <2>1 DEF HoldInv, HeldFragments, Places
<1> QED  BY <1>2, <1>3, <1>4, NextCases

\* A fragment the ring holds is in its buffer as it was received, although a
\* buffer is reused by block after block and session after session without
\* being cleared (process_packet, rx.cpp:539-546).
THEOREM HeldCorrect == Spec => []HeldFragments
<1>1. HoldInv => HeldFragments
  BY DEF HoldInv
<1> QED  BY <1>1, InitHoldInv, NextHoldInv, PTL DEF Spec

\* A data fragment the aggregator stored is handed to the client or still in
\* the ring, whatever is overridden or flushed for newer blocks (rx_ring_push,
\* process_packet).
THEOREM ReceivedNotDropped == Spec => NothingDropped
<1>1. HoldInv /\ [Next]_vars =>
        [~NewSession => \A p \in Waiting : p \in Waiting' \/ \E x \in out' : Position(x) = p]_vars
  <2> SUFFICES ASSUME HoldInv, [Next]_vars, ~NewSession, ~UNCHANGED vars, NEW p \in Waiting
               PROVE  p \in Waiting' \/ \E x \in out' : Position(x) = p
    OBVIOUS
  <2>1. CASE \E k \in Keys, b \in Blocks, f \in Frags : \E A \in SUBSET Antennas :
               NewData(k, b, f, A)
    BY <2>1, NewDataKeeps
  <2>2. CASE UNCHANGED ring
    <3>1. Waiting' = Waiting
      BY <2>2 DEF ring, Waiting, Places, EntryAt, SlotAt
    <3> QED  BY <3>1
  <2>3. ~(\E k \in Keys : SessionKey(k) /\ k # session_key)
    BY DEF SessionKey, NewSession
  <2> QED  BY <2>1, <2>2, <2>3, NextCases
<1> QED  BY <1>1, InitHoldInv, NextHoldInv, PTL DEF Spec, NothingDropped
-----------------------------------------------------------------------------
(***************************************************************************)
(* The moving window                                                       *)
(***************************************************************************)
LEMMA NewDataForward ==
  ASSUME RingInv, NEW k \in Keys, NEW b \in Blocks, NEW f \in Frags, NEW A,
         NewData(k, b, f, A)
  PROVE  Oldest' >= Oldest /\ last_known_block' >= last_known_block
<1>1. /\ ~AlreadyProcessed(b)
      /\ rx_ring_alloc' = rx_ring_alloc + NewBlocks(b) - Removed(b, f)
      /\ last_known_block' = IF Found(b) = {} THEN b ELSE last_known_block
  BY DEF NewData
<1>2. /\ rx_ring_alloc \in Nat /\ NewBlocks(b) \in Nat /\ Removed(b, f) \in Nat
      /\ b \in Nat /\ last_known_block \in Int
  BY <1>1, PlaceFacts, RemovedFacts DEF RingInv, RingTypeOK, Blocks
<1>3. CASE Found(b) # {}
  <2>1. NewBlocks(b) = 0 /\ last_known_block' = last_known_block
    BY <1>1, <1>3, PlaceFacts
  <2> QED  BY <1>1, <1>2, <2>1 DEF Oldest
<1>4. CASE Found(b) = {}
  <2>1. last_known_block' = b /\ last_known_block < b
    BY <1>1, <1>4, PlaceFacts
  <2>2. NewBlocks(b) <= b - last_known_block
    <3>1. CASE last_known_block = -1
      BY <1>1, <1>2, <1>4, <3>1, PlaceFacts
    <3>2. CASE last_known_block # -1
      BY <1>2, <1>4, <2>1, <3>2 DEF NewBlocks
    <3> QED  BY <3>1, <3>2
  <2> QED  BY <1>1, <1>2, <2>1, <2>2 DEF Oldest
<1> QED  BY <1>3, <1>4

\* A finished block never comes back in its session.
THEOREM WindowMovesForward == Spec => WindowForward
<1>1. RingInv /\ [Next]_vars =>
        [~NewSession => Oldest' >= Oldest /\ last_known_block' >= last_known_block]_vars
  <2> SUFFICES ASSUME RingInv, [Next]_vars, ~NewSession
               PROVE  Oldest' >= Oldest /\ last_known_block' >= last_known_block
    OBVIOUS
  <2>1. CASE \E k \in Keys, b \in Blocks, f \in Frags : \E A \in SUBSET Antennas :
               NewData(k, b, f, A)
    BY <2>1, NewDataForward
  <2>2. CASE UNCHANGED ring
    BY <2>2 DEF ring, Oldest, RingInv, RingTypeOK, Blocks
  <2>3. ~(\E k \in Keys : SessionKey(k) /\ k # session_key)
    BY DEF SessionKey, NewSession
  <2> QED  BY <2>1, <2>2, <2>3, NextCases
<1> QED  BY <1>1, InitRingInv, NextRingInv, PTL DEF Spec, WindowForward
-----------------------------------------------------------------------------
(***************************************************************************)
(* What was received reaches the client unaltered                          *)
(***************************************************************************)
\* With encryption, everything the ring holds belongs to the session.
HeldGenuine == \A i \in Places : \A g \in EntryAt(i).fragment_map :
  fragments[SlotAt(i)][g] = [key |-> session_key, blk |-> EntryAt(i).block_idx]

GenuineInv == HoldInv /\ HeldGenuine

LEMMA GenuineBuffers ==
  ASSUME GenuineInv, NEW k \in Keys, k = session_key, NEW b \in Blocks, NEW f \in Frags,
         ~AlreadyProcessed(b), NEW g \in Stored(b, f)
  PROVE  Buffers(k, b, f)[g] = [key |-> k, blk |-> b]
BY StoredBuffers DEF GenuineInv, HoldInv, SendInv, HeldGenuine

LEMMA NewDataGenuine ==
  ASSUME IsEncrypt, GenuineInv, NEW k \in Keys, NEW b \in Blocks, NEW f \in Frags, NEW A,
         NewData(k, b, f, A)
  PROVE  HeldGenuine'
<1> USE DEF GenuineInv, HoldInv, SendInv
<1>1. /\ ~AlreadyProcessed(b) /\ f \notin Target(b).fragment_map
      /\ fragments' = [fragments EXCEPT ![SlotAt(Place(b))] = Buffers(k, b, f)]
      /\ k = session_key /\ session_key' = session_key
  BY DEF NewData, Accepted
<1>2. \A j \in 0..(rx_ring_alloc' - 1) : \A g \in EntryAfter(j).fragment_map :
        fragments'[modN(rx_ring_front' + j)][g]
          = [key |-> session_key, blk |-> EntryAfter(j).block_idx]
  <2> TAKE j \in 0..(rx_ring_alloc' - 1)
  <2> TAKE g \in EntryAfter(j).fragment_map
  <2> DEFINE i == Removed(b, f) + j
  <2>1. /\ modN(rx_ring_front' + j) = SlotAt(i) /\ SlotAt(i) \in Slots
        /\ i # Place(b) => SlotAt(i) # SlotAt(Place(b))
    BY SurvivorSlot
  <2>2. EntryAfter(j) = IF i = Place(b) THEN NewEntry(b, f)
                        ELSE IF i < rx_ring_alloc THEN EntryAt(i) ELSE Fresh(b, i)
    BY Survivors
  <2>3. i \in Nat /\ (i < rx_ring_alloc => i \in Places)
    BY <1>1, SurvivorFacts DEF Places, RingInv, RingTypeOK
  <2>4. fragments \in [Slots -> [Frags -> Contents]]
    BY DEF RingInv, RingTypeOK
  <2>5. CASE i = Place(b)
    <3>1. g \in Stored(b, f) /\ EntryAfter(j).block_idx = b
      BY <1>1, <2>2, <2>5, NewEntryFacts
    <3>2. fragments'[SlotAt(i)] = Buffers(k, b, f)
      BY <1>1, <2>1, <2>4, <2>5
    <3> QED  BY <1>1, <2>1, <3>1, <3>2, GenuineBuffers
  <2>6. CASE i # Place(b)
    <3>1. fragments'[SlotAt(i)] = fragments[SlotAt(i)]
      BY <1>1, <2>1, <2>4, <2>6
    <3>2. EntryAfter(j) = EntryAt(i) /\ i \in Places
      BY <2>2, <2>3, <2>6 DEF Fresh
    <3> QED  BY <2>1, <3>1, <3>2 DEF HeldGenuine
  <2> QED  BY <2>5, <2>6
<1> QED  BY <1>1, <1>2 DEF HeldGenuine, Places, EntryAt, SlotAt, EntryAfter

\* A block that decodes without apply_fec is not the oldest, had yielded nothing and
\* holds fragment 0.
LEMMA SkippedFec ==
  ASSUME RingInv, NEW b \in Blocks, NEW f \in Frags, ~AlreadyProcessed(b),
         Decodes(b, f), ~FecApplied(b, f)
  PROVE  Place(b) # Overridden(b) /\ 0 \in Stored(b, f)
<1>1. YieldedTo(b, f) < FecK /\ YieldedTo(b, f) \in Stored(b, f)
  BY DEF Decodes, FecApplied
<1>2. Target(b).send_fragment_idx \in 0..FecK
  BY TargetFacts DEF Entry
<1>3. Place(b) # Overridden(b)
  BY <1>1, <1>2, FirstGapFacts DEF YieldedTo
<1>4. YieldedTo(b, f) = 0
  BY <1>3, YieldFacts
<1> QED  BY <1>1, <1>3, <1>4

\* What apply_fec recovers from fragments of one block is that block.
LEMMA RecoveredGenuine ==
  ASSUME NEW c \in Contents, NEW bufs, NEW m, m # {}, \A g \in m : bufs[g] = c
  PROVE  Recovered(bufs, m) = c
BY DEF Recovered

LEMMA BlockHolds ==
  ASSUME RingInv, NEW k \in Keys, NEW b \in Blocks, NEW f \in Frags, ~AlreadyProcessed(b),
         \A h \in Stored(b, f) : Buffers(k, b, f)[h] = [key |-> k, blk |-> b],
         NEW g \in Data, g < SentTo(b, f)
  PROVE  \/ Buffers(k, b, f)[g] = [key |-> k, blk |-> b]
         \/ Undecoded(b, f, g)
<1> USE DEF Undecoded
<1> DEFINE c    == [key |-> k, blk |-> b]
           kept == [fragments[SlotAt(Place(b))] EXCEPT ![f] = c]
<1>1. CASE g \in Stored(b, f)
  BY <1>1
<1>2. CASE g \notin Stored(b, f)
  <2>1. Decodes(b, f)
    BY <1>2, YieldFacts DEF SentTo, Finishes, Data
  <2>2. CASE ~FecApplied(b, f)
    BY <1>2, <2>1, <2>2, SkippedFec
  <2>3. CASE FecApplied(b, f)
    <3>1. Buffers(k, b, f) = [h \in Frags |-> IF h \in Data \ Stored(b, f)
                                THEN Recovered(kept, Stored(b, f)) ELSE kept[h]]
      BY <2>3 DEF Buffers
    <3> HIDE DEF kept
    <3>2. \A h \in Stored(b, f) : kept[h] = c
      <4>1. ASSUME NEW h \in Stored(b, f) PROVE kept[h] = c
        <5>1. Buffers(k, b, f)[h] = c
          OBVIOUS
        <5>2. h \in Frags
          BY TargetFacts DEF Stored, Entry
        <5> QED  BY <3>1, <5>1, <5>2
      <4> QED  BY <4>1
    <3>3. Recovered(kept, Stored(b, f)) = c
      <4>1. c \in Contents /\ Stored(b, f) # {}
        BY DEF Contents, Stored
      <4> QED  BY <3>2, <4>1, RecoveredGenuine
    <3>4. g \in Frags
      BY DEF Data, Frags
    <3> QED  BY <1>2, <3>1, <3>3, <3>4
  <2> QED  BY <2>2, <2>3
<1> QED  BY <1>1, <1>2

LEMMA BlockGenuine ==
  ASSUME GenuineInv, NEW k \in Keys, k = session_key, NEW b \in Blocks, NEW f \in Frags,
         ~AlreadyProcessed(b), NEW g \in Data, g < SentTo(b, f)
  PROVE  \/ Buffers(k, b, f)[g] = [key |-> k, blk |-> b]
         \/ /\ Place(b) # Overridden(b)
            /\ 0 \in Stored(b, f) /\ g \notin Stored(b, f)
<1>1. \A h \in Stored(b, f) : Buffers(k, b, f)[h] = [key |-> k, blk |-> b]
  BY GenuineBuffers
<1> QED  BY <1>1, BlockHolds DEF GenuineInv, HoldInv, SendInv, Undecoded

LEMMA InitGenuineInv == Init => GenuineInv
<1> SUFFICES ASSUME Init PROVE GenuineInv
  OBVIOUS
<1>1. HeldGenuine
  BY DEF Init, HeldGenuine, Places
<1> QED  BY <1>1, InitHoldInv DEF GenuineInv

LEMMA NextGenuineInv == ASSUME IsEncrypt PROVE GenuineInv /\ [Next]_vars => GenuineInv'
<1> SUFFICES ASSUME GenuineInv, [Next]_vars PROVE GenuineInv'
  OBVIOUS
<1>1. HoldInv'
  BY NextHoldInv DEF GenuineInv
<1>2. CASE \E k \in Keys, b \in Blocks, f \in Frags : \E A \in SUBSET Antennas :
             NewData(k, b, f, A)
  BY <1>1, <1>2, NewDataGenuine DEF GenuineInv
<1>3. CASE UNCHANGED <<ring, fragments, session_key, high>>
  <2>1. HeldGenuine'
    BY <1>3 DEF GenuineInv, HeldGenuine, ring, Places, EntryAt, SlotAt
  <2> QED  BY <1>1, <2>1 DEF GenuineInv
<1>4. CASE \E k \in Keys : SessionKey(k) /\ k # session_key
  <2>1. rx_ring_alloc' = 0
    BY <1>4 DEF SessionKey
  <2> QED  BY <1>1, <2>1 DEF GenuineInv, HeldGenuine, Places
<1> QED  BY <1>2, <1>3, <1>4, NextCases

LEMMA NewDataSendsGenuine ==
  ASSUME IsEncrypt, GenuineInv, NEW k \in Keys, NEW b \in Blocks, NEW f \in Frags, NEW A,
         NewData(k, b, f, A), NEW x \in out'
  PROVE  Genuine(x) \/ \E s \in Slots :
           /\ EntryOf(x, s) /\ 0 \in rx_ring'[s].fragment_map
           /\ x.frag \notin rx_ring'[s].fragment_map
<1> USE DEF GenuineInv, HoldInv, SendInv
<1>1. /\ ~AlreadyProcessed(b) /\ f \notin Target(b).fragment_map
      /\ rx_ring' = [s \in Slots |-> IF s = SlotAt(Place(b)) THEN NewEntry(b, f)
                                                             ELSE Pushed(b, s)]
      /\ k = session_key /\ session_key' = session_key
      /\ x \in Sends(k, b, f)
  BY DEF NewData, Accepted
<1>2. CASE FromFlush(x, b, f)
  BY <1>1, <1>2 DEF FromFlush, Unsent, HeldGenuine, Sent, Genuine
<1>3. CASE FromBlock(x, k, b, f)
  <2>1. PICK g \in Data :
          /\ g >= Target(b).send_fragment_idx /\ g < SentTo(b, f)
          /\ x = Sent(Place(b), b, g, Buffers(k, b, f)[g])
    BY <1>3 DEF FromBlock
  <2>2. x.blk = b /\ x.frag = g /\ x.pkt = Buffers(k, b, f)[g]
    BY <2>1 DEF Sent
  <2>3. CASE Buffers(k, b, f)[g] = [key |-> k, blk |-> b]
    BY <1>1, <2>2, <2>3 DEF Genuine
  <2>4. CASE 0 \in Stored(b, f) /\ g \notin Stored(b, f)
    <3>1. SlotAt(Place(b)) \in Slots
      BY <1>1, PlaceFacts, SlotType DEF RingInv, RingTypeOK
    <3>2. rx_ring'[SlotAt(Place(b))] = NewEntry(b, f)
      BY <1>1, <3>1
    <3> QED  BY <2>2, <2>4, <3>1, <3>2 DEF EntryOf, NewEntry
  <2> QED  BY <1>1, <2>1, <2>3, <2>4, BlockGenuine
<1> QED  BY <1>1, <1>2, <1>3, SendsFrom

\* Whatever bytes blocks and sessions have left in the buffers, a fragment that was received
\* is handed over as it was sent, and so is a recovered one whenever apply_fec runs; it does
\* not run only if fragment 0 of its block is there (rx.cpp:595-605). In the clear there is
\* no session to belong to.
THEOREM ReceivedStaysGenuine == ASSUME IsEncrypt PROVE Spec => ReceivedIsGenuine
<1>1. GenuineInv /\ [Next]_vars =>
        [\A x \in out' : Genuine(x) \/ \E s \in Slots :
           EntryOf(x, s) /\ 0 \in rx_ring'[s].fragment_map
             /\ x.frag \notin rx_ring'[s].fragment_map]_vars
  <2> SUFFICES ASSUME GenuineInv, [Next]_vars, ~UNCHANGED vars, NEW x \in out'
               PROVE  Genuine(x) \/ \E s \in Slots :
                        /\ EntryOf(x, s) /\ 0 \in rx_ring'[s].fragment_map
                        /\ x.frag \notin rx_ring'[s].fragment_map
    OBVIOUS
  <2>1. CASE \E k \in Keys, b \in Blocks, f \in Frags : \E A \in SUBSET Antennas :
               NewData(k, b, f, A)
    BY <2>1, NewDataSendsGenuine
  <2>2. CASE \E k \in Keys : SessionKey(k) /\ k # session_key
    BY <2>2 DEF SessionKey
  <2> QED  BY <2>1, <2>2, NextCases
<1>2. GenuineInv /\ [Next]_vars => GenuineInv'
  BY NextGenuineInv
<1> QED  BY <1>1, <1>2, InitGenuineInv, PTL DEF Spec, ReceivedIsGenuine
-----------------------------------------------------------------------------
(***************************************************************************)
(* Complete blocks.  What is counted as sent of a block in the ring is not *)
(* above the last position sent.  A complete block sends the rest, and of  *)
(* that only what was not decoded can be too bad to be sent.               *)
(***************************************************************************)
Reaches(e) == e.send_fragment_idx > 0 => high >= e.block_idx * FecK + e.send_fragment_idx - 1

PrefixSent  == \A i \in Places : Reaches(EntryAt(i))
CompleteInv == HoldInv /\ PrefixSent /\ (IsEncrypt => HeldGenuine)

\* All that is held was sent for one session.
OneSession == IsEncrypt \/ \A k, l \in Keys : k = l

\* The last position sent only rises, to that of every packet of the call.
LEMMA HighRises ==
  ASSUME SendInv, NEW k \in Keys, NEW b \in Blocks, NEW f \in Frags, NEW A,
         NewData(k, b, f, A)
  PROVE  /\ high' >= high /\ high \in Int /\ high' \in Int
         /\ \A x \in Sends(k, b, f) : high' >= Position(x)
<1> DEFINE S == Sends(k, b, f)
<1>1. ~AlreadyProcessed(b) /\ high' = IF S = {} THEN high ELSE Position(LastOf(S))
  BY DEF NewData
<1>2. high \in Int
  BY DEF SendInv
<1>3. CASE S = {}
  BY <1>1, <1>2, <1>3
<1>4. CASE S # {}
  <2>1. LastOf(S) \in S /\ \A y \in S : Position(y) <= Position(LastOf(S))
    BY <1>1, <1>4, LastSend
  <2>2. Position(LastOf(S)) > high
    BY <1>1, <2>1, SendPlace
  <2>3. \A y \in S : Position(y) \in Nat
    BY <1>1, SendOrder
  <2>4. high' = Position(LastOf(S)) /\ LastOf(S) \in S
    BY <1>1, <1>4, <2>1
  <2>5. high' \in Nat /\ high' > high
    BY <2>2, <2>3, <2>4
  <2>6. \A y \in S : high' >= Position(y)
    <3>1. TAKE y \in S
    <3>2. Position(y) <= high' /\ Position(y) \in Nat
      BY <2>1, <2>3, <2>4
    <3> QED  BY <2>5, <3>2
  <2> QED  BY <1>2, <2>5, <2>6
<1> QED  BY <1>3, <1>4

\* What an entry has sent lies at or below the last position sent.
LEMMA ReachesAll ==
  ASSUME NEW e \in Entry, Reaches(e), high \in Int, NEW g \in Data, g < e.send_fragment_idx
  PROVE  e.block_idx * FecK + g <= high
<1>1. e.block_idx \in Nat /\ e.send_fragment_idx \in Nat /\ g \in Nat
  BY DEF Entry, Blocks, Data
<1>2. e.block_idx * FecK \in Nat
  BY <1>1
<1> DEFINE m == e.block_idx * FecK
<1> HIDE DEF m
<1>3. m \in Nat /\ (e.send_fragment_idx > 0 => high >= m + e.send_fragment_idx - 1)
  BY <1>2 DEF m, Reaches
<1>4. m + g <= high
  BY <1>1, <1>3
<1> QED  BY <1>4 DEF m

\* What the target had sent before the call.
LEMMA TargetReaches ==
  ASSUME RingInv, PrefixSent, NEW b \in Blocks, ~AlreadyProcessed(b)
  PROVE  Reaches(Target(b))
<1>1. CASE Found(b) # {}
  <2>1. Place(b) \in Places /\ Target(b) = EntryAt(Place(b))
    BY <1>1, PlaceFacts DEF Target
  <2> QED  BY <2>1 DEF PrefixSent
<1>2. CASE Found(b) = {}
  BY <1>2 DEF Target, EmptyEntry, Reaches
<1> QED  BY <1>1, <1>2

\* A fragment of its block that the call sends and that is a packet goes out.
LEMMA BlockSent ==
  ASSUME RingInv, NEW k \in Keys, NEW b \in Blocks, NEW f \in Frags, NEW A,
         NewData(k, b, f, A), NEW g \in Data,
         g >= Target(b).send_fragment_idx, g < SentTo(b, f),
         Packet(Buffers(k, b, f)[g], b)
  PROVE  \E x \in out' : x.blk = b /\ x.frag = g
<1> DEFINE x == Sent(Place(b), b, g, Buffers(k, b, f)[g])
<1>1. /\ ~AlreadyProcessed(b)
      /\ \E corrupted \in SUBSET Corruptible(Sends(k, b, f)) : out' = Sends(k, b, f) \ corrupted
  BY DEF NewData
<1>2. FromBlock(x, k, b, f)
  BY DEF FromBlock
<1>3. x \in Sends(k, b, f)
  BY <1>1, <1>2, SendsFrom
<1>4. x.pkt # Junk /\ x.blk = b /\ x.frag = g
  BY PacketNotJunk DEF Sent
<1>5. x \in out'
  BY <1>1, <1>3, <1>4 DEF Corruptible
<1> QED  BY <1>4, <1>5

\* The stored fragments of a block, with one session.
LEMMA StoredOfSession ==
  ASSUME CompleteInv, OneSession, NEW k \in Keys, NEW b \in Blocks, NEW f \in Frags, NEW A,
         NewData(k, b, f, A)
  PROVE  \A h \in Stored(b, f) : Buffers(k, b, f)[h] = [key |-> k, blk |-> b]
<1>1. ~AlreadyProcessed(b) /\ (IsEncrypt => k = session_key)
  BY DEF NewData, Accepted
<1>2. CASE IsEncrypt
  BY <1>1, <1>2, GenuineBuffers DEF CompleteInv, GenuineInv
<1>3. CASE ~IsEncrypt
  <2> SUFFICES ASSUME NEW h \in Stored(b, f)
               PROVE  Buffers(k, b, f)[h] = [key |-> k, blk |-> b]
    OBVIOUS
  <2>1. Packet(Buffers(k, b, f)[h], b)
    BY <1>1, ReceivedBuffers DEF CompleteInv
  <2> QED  BY <1>3, <2>1 DEF Packet, OneSession
<1> QED  BY <1>2, <1>3

LEMMA NewDataComplete ==
  ASSUME CompleteInv, OneSession, NEW k \in Keys, NEW b \in Blocks, NEW f \in Frags, NEW A,
         NewData(k, b, f, A), Target(b).has_fragments + 1 = FecK, NEW g \in Data
  PROVE  Gone(b, g) \/ Undecoded(b, f, g)
<1> USE DEF CompleteInv, HoldInv, SendInv
<1>1. ~AlreadyProcessed(b)
  BY DEF NewData
<1>2. Target(b) \in Entry /\ Target(b).block_idx = b /\ high \in Int
  BY <1>1, TargetFacts
<1>3. SentTo(b, f) = FecK
  <2>1. YieldedTo(b, f) \in 0..FecK
    BY <1>1, YieldFacts, TargetFacts DEF Entry
  <2> QED  BY <2>1 DEF SentTo, Finishes, Decodes
<1>4. CASE g < Target(b).send_fragment_idx
  BY <1>1, <1>2, <1>4, TargetReaches, ReachesAll DEF Gone
<1>5. CASE ~(g < Target(b).send_fragment_idx)
  <2>1. g >= Target(b).send_fragment_idx /\ g < SentTo(b, f)
    BY <1>2, <1>3, <1>5 DEF Entry, Data
  <2>2. \/ Buffers(k, b, f)[g] = [key |-> k, blk |-> b]
        \/ Undecoded(b, f, g)
    BY <1>1, <2>1, StoredOfSession, BlockHolds
  <2>3. Buffers(k, b, f)[g] = [key |-> k, blk |-> b] => \E x \in out' : x.blk = b /\ x.frag = g
    BY <2>1, BlockSent DEF Packet
  <2> QED  BY <2>2, <2>3 DEF Gone
<1> QED  BY <1>4, <1>5

\* The entries after a call: the block of the packet, an older one, or a new one.
LEMMA EntriesAfter ==
  ASSUME RingInv, NEW k \in Keys, NEW b \in Blocks, NEW f \in Frags, NEW A,
         NewData(k, b, f, A), NEW j \in 0..(rx_ring_alloc' - 1)
  PROVE  /\ EntryAfter(j) \in Entry
         /\ \/ ~Finishes(b, f) /\ EntryAfter(j) = NewEntry(b, f)
            \/ \E i \in Places : EntryAfter(j) = EntryAt(i)
            \/ EntryAfter(j).send_fragment_idx = 0
<1> DEFINE i == Removed(b, f) + j
<1>1. ~AlreadyProcessed(b)
  BY DEF NewData
<1>2. /\ i \in Nat /\ i >= Removed(b, f) /\ EntryAfter(j) \in Entry
      /\ EntryAfter(j) = IF i = Place(b) THEN NewEntry(b, f)
                         ELSE IF i < rx_ring_alloc THEN EntryAt(i) ELSE Fresh(b, i)
  BY Survivors, SurvivorFacts
<1>3. rx_ring_alloc \in Nat /\ Place(b) \in Nat
  BY <1>1, PlaceFacts DEF RingInv, RingTypeOK
<1> HIDE DEF i
<1>4. i = Place(b) => ~Finishes(b, f)
  BY <1>1, <1>2, <1>3, RemovedFacts
<1>5. i < rx_ring_alloc => i \in Places
  BY <1>2, <1>3 DEF Places
<1> QED  BY <1>2, <1>4, <1>5 DEF Fresh

\* What the block's own entry has sent when it stays.
LEMMA NewEntryGone ==
  ASSUME HoldInv, PrefixSent, NEW k \in Keys, NEW b \in Blocks, NEW f \in Frags, NEW A,
         NewData(k, b, f, A), ~Finishes(b, f), NEW g \in Data, g < SentTo(b, f)
  PROVE  Gone(b, g) /\ high' >= b * FecK + g
<1> USE DEF HoldInv, SendInv
<1>1. ~AlreadyProcessed(b)
  BY DEF NewData
<1>2. /\ Target(b) \in Entry /\ Target(b).block_idx = b /\ high \in Int /\ high' \in Int
      /\ high' >= high /\ \A x \in Sends(k, b, f) : high' >= Position(x)
      /\ b * FecK \in Nat /\ g \in Nat
  BY <1>1, TargetFacts, HighRises DEF Blocks, Data
<1>3. CASE g < Target(b).send_fragment_idx
  <2>1. b * FecK + g <= high
    BY <1>1, <1>2, <1>3, TargetReaches, ReachesAll
  <2> QED  BY <1>2, <2>1 DEF Gone
<1>4. CASE ~(g < Target(b).send_fragment_idx)
  <2>1. g >= Target(b).send_fragment_idx
    BY <1>2, <1>4 DEF Entry
  <2>2. g \in Stored(b, f)
    <3>1. SentTo(b, f) = YieldedTo(b, f) /\ YieldedTo(b, f) \in Nat
      BY <1>1, YieldFacts, TargetFacts DEF SentTo, Entry
    <3>2. g \in 0..(YieldedTo(b, f) - 1)
      BY <1>2, <3>1
    <3> QED  BY <1>1, <3>2, YieldFacts
  <2>3. \E x \in out' : x.blk = b /\ x.frag = g
    <3>1. Packet(Buffers(k, b, f)[g], b)
      BY <1>1, <2>2, ReceivedBuffers
    <3> QED  BY <2>1, <3>1, BlockSent
  <2>4. PICK x \in out' : x.blk = b /\ x.frag = g
    BY <2>3
  <2>5. x \in Sends(k, b, f)
    BY DEF NewData
  <2>6. high' >= b * FecK + g
    BY <1>2, <2>4, <2>5 DEF Position
  <2> QED  BY <2>3, <2>6 DEF Gone
<1> QED  BY <1>3, <1>4

LEMMA NewDataPrefix ==
  ASSUME HoldInv, PrefixSent, NEW k \in Keys, NEW b \in Blocks, NEW f \in Frags, NEW A,
         NewData(k, b, f, A), NEW j \in 0..(rx_ring_alloc' - 1)
  PROVE  /\ EntryAfter(j).send_fragment_idx > 0
              => high' >= EntryAfter(j).block_idx * FecK + EntryAfter(j).send_fragment_idx - 1
         /\ \A g \in 0..(EntryAfter(j).send_fragment_idx - 1) : Gone(EntryAfter(j).block_idx, g)
<1> USE DEF HoldInv, SendInv
<1> DEFINE e == EntryAfter(j)
<1>1. /\ ~AlreadyProcessed(b) /\ f \notin Target(b).fragment_map
      /\ high' >= high /\ high \in Int /\ high' \in Int
  BY HighRises DEF NewData
<1>2. e \in Entry
  BY EntriesAfter
<1>3. /\ e.block_idx \in Nat /\ e.send_fragment_idx \in 0..FecK
      /\ 0..(e.send_fragment_idx - 1) \subseteq Data
      /\ e.block_idx * FecK \in Nat
  BY <1>2 DEF Entry, Blocks, Data
<1>4. CASE ~Finishes(b, f) /\ e = NewEntry(b, f)
  <2>1. e.block_idx = b /\ e.send_fragment_idx = SentTo(b, f)
    BY <1>1, <1>4, NewEntryFacts
  <2> HIDE DEF e
  <2>2. \A g \in 0..(e.send_fragment_idx - 1) : Gone(b, g) /\ high' >= b * FecK + g
    <3> TAKE g \in 0..(e.send_fragment_idx - 1)
    <3>1. g \in Data /\ g < SentTo(b, f)
      BY <1>3, <2>1
    <3> QED  BY <1>4, <3>1, NewEntryGone
  <2>3. e.send_fragment_idx > 0
          => high' >= e.block_idx * FecK + e.send_fragment_idx - 1
    <3> SUFFICES ASSUME e.send_fragment_idx > 0
                 PROVE  high' >= e.block_idx * FecK + e.send_fragment_idx - 1
      OBVIOUS
    <3>1. e.send_fragment_idx - 1 \in 0..(e.send_fragment_idx - 1)
      BY <1>3
    <3>2. high' >= b * FecK + (e.send_fragment_idx - 1)
      BY <2>2, <3>1
    <3> QED  BY <1>1, <1>3, <2>1, <3>2
  <2> QED  BY <2>1, <2>2, <2>3 DEF e
<1>5. CASE \E i \in Places : e = EntryAt(i)
  <2>1. Reaches(e)
    BY <1>5 DEF PrefixSent
  <2> HIDE DEF e
  <2>2. \A g \in 0..(e.send_fragment_idx - 1) : e.block_idx * FecK + g <= high
    <3> TAKE g \in 0..(e.send_fragment_idx - 1)
    <3>1. g \in Data /\ g < e.send_fragment_idx
      BY <1>3
    <3> QED  BY <1>1, <1>2, <2>1, <3>1, ReachesAll
  <2>3. e.send_fragment_idx > 0
          => high' >= e.block_idx * FecK + e.send_fragment_idx - 1
    BY <1>1, <1>3, <2>1 DEF Reaches
  <2> QED  BY <2>2, <2>3 DEF e, Gone
<1>6. CASE e.send_fragment_idx = 0
  BY <1>6
<1> QED  BY <1>4, <1>5, <1>6, EntriesAfter

LEMMA InitCompleteInv == Init => CompleteInv
<1> SUFFICES ASSUME Init PROVE CompleteInv
  OBVIOUS
<1>1. PrefixSent
  BY DEF Init, PrefixSent, Places
<1> QED  BY <1>1, InitGenuineInv DEF GenuineInv, CompleteInv

LEMMA NextCompleteInv == CompleteInv /\ [Next]_vars => CompleteInv'
<1> SUFFICES ASSUME CompleteInv, [Next]_vars PROVE CompleteInv'
  OBVIOUS
<1>1. HoldInv'
  BY NextHoldInv DEF CompleteInv
<1>2. IsEncrypt => HeldGenuine'
  BY NextGenuineInv DEF CompleteInv, GenuineInv
<1>3. PrefixSent'
  <2>1. CASE \E k \in Keys, b \in Blocks, f \in Frags : \E A \in SUBSET Antennas :
               NewData(k, b, f, A)
    <3>1. \A j \in 0..(rx_ring_alloc' - 1) :
            EntryAfter(j).send_fragment_idx > 0
              => high' >= EntryAfter(j).block_idx * FecK + EntryAfter(j).send_fragment_idx - 1
      BY <2>1, NewDataPrefix DEF CompleteInv
    <3> QED  BY <3>1 DEF PrefixSent, Reaches, Places, EntryAt, SlotAt, EntryAfter
  <2>2. CASE UNCHANGED <<ring, fragments, session_key, high>>
    BY <2>2 DEF CompleteInv, PrefixSent, Reaches, ring, Places, EntryAt, SlotAt
  <2>3. CASE \E k \in Keys : SessionKey(k) /\ k # session_key
    <3>1. rx_ring_alloc' = 0
      BY <2>3 DEF SessionKey
    <3> QED  BY <3>1 DEF PrefixSent, Places
  <2> QED  BY <2>1, <2>2, <2>3, NextCases
<1> QED  BY <1>1, <1>2, <1>3 DEF CompleteInv

\* rx.cpp:565-626: the fec_k-th fragment of a block completes it: all its packets have gone
\* out when the call returns, with no hole, or are the missing ones of a block that was not
\* decoded because its first fragment was there; and a sent prefix has really gone out.
THEOREM CompleteBlocksSent == ASSUME OneSession PROVE Spec => CompleteBlockSent
<1>1. CompleteInv /\ [Next]_vars =>
        [/\ \A k \in Keys, b \in Blocks, f \in Frags, A \in SUBSET Antennas :
              NewData(k, b, f, A) /\ Target(b).has_fragments + 1 = FecK
                => \A g \in Data : Gone(b, g) \/ Undecoded(b, f, g)
         /\ \A i \in Places' : \A g \in 0..(EntryAt(i)'.send_fragment_idx - 1) :
              Gone(EntryAt(i)'.block_idx, g)]_vars
  <2> SUFFICES ASSUME CompleteInv, [Next]_vars, NEW i \in Places',
                      NEW g \in 0..(EntryAt(i)'.send_fragment_idx - 1)
               PROVE  Gone(EntryAt(i)'.block_idx, g)
    BY NewDataComplete
  <2>1. CASE \E k \in Keys, b \in Blocks, f \in Frags : \E A \in SUBSET Antennas :
               NewData(k, b, f, A)
    <3>1. i \in 0..(rx_ring_alloc' - 1) /\ EntryAfter(i) = EntryAt(i)'
      BY DEF Places, EntryAt, SlotAt, EntryAfter
    <3>2. \A h \in 0..(EntryAfter(i).send_fragment_idx - 1) : Gone(EntryAfter(i).block_idx, h)
      BY <2>1, <3>1, NewDataPrefix DEF CompleteInv
    <3> QED  BY <3>1, <3>2
  <2>2. CASE UNCHANGED <<ring, fragments, session_key, high>>
    <3>1. i \in Places /\ EntryAt(i)' = EntryAt(i) /\ high \in Int
      BY <2>2 DEF ring, Places, EntryAt, SlotAt, CompleteInv, HoldInv, SendInv
    <3>2. EntryAt(i) \in Entry
      <4>1. SlotAt(i) \in Slots
        BY <3>1, SlotType DEF Places, CompleteInv, HoldInv, SendInv
      <4> QED  BY <4>1 DEF EntryAt, CompleteInv, HoldInv, SendInv, RingInv, RingTypeOK
    <3>3. g \in Data /\ g < EntryAt(i).send_fragment_idx
      BY <3>1, <3>2 DEF Entry, Data
    <3> QED  BY <3>1, <3>2, <3>3, ReachesAll DEF CompleteInv, PrefixSent, Gone
  <2>3. CASE \E k \in Keys : SessionKey(k) /\ k # session_key
    <3>1. rx_ring_alloc' = 0
      BY <2>3 DEF SessionKey
    <3> QED  BY <3>1 DEF Places
  <2> QED  BY <2>1, <2>2, <2>3, NextCases
<1> QED  BY <1>1, InitCompleteInv, NextCompleteInv, PTL DEF Spec, CompleteBlockSent
-----------------------------------------------------------------------------
(***************************************************************************)
(* Sequence numbers modulo SeqMod                                          *)
(***************************************************************************)
LEMMA DivMod ==
  ASSUME NEW x \in Nat
  PROVE  /\ x \div SeqMod \in Nat /\ x % SeqMod \in 0..(SeqMod - 1)
         /\ x = SeqMod * (x \div SeqMod) + (x % SeqMod)
<1>1. x \div SeqMod \in Int
  OBVIOUS
<1>2. x % SeqMod \in 0..(SeqMod - 1)
  OBVIOUS
<1>3. x = SeqMod * (x \div SeqMod) + (x % SeqMod)
  OBVIOUS
<1> DEFINE q == x \div SeqMod
<1>4. CASE q < 0
  <2>1. PICK d \in Nat : q = -(d + 1)
    BY <1>1, <1>4
  <2>2. SeqMod * q = -(SeqMod + SeqMod * d) /\ SeqMod * d \in Nat
    <3> HIDE DEF q
    <3> QED  BY <2>1
  <2> QED  BY <1>1, <1>2, <1>3, <2>2
<1> QED  BY <1>1, <1>2, <1>3, <1>4

LEMMA ModUnique ==
  ASSUME NEW q \in Nat, NEW r \in 0..(SeqMod - 1)
  PROVE  (SeqMod * q + r) % SeqMod = r
OBVIOUS

\* send_packet counts on from a number that is already taken modulo SeqMod.
LEMMA ModNext ==
  ASSUME NEW x \in Nat
  PROVE  ((x % SeqMod) + 1) % SeqMod = (x + 1) % SeqMod
<1> DEFINE q == x \div SeqMod  r == x % SeqMod
<1>1. /\ q \in Nat /\ r \in 0..(SeqMod - 1) /\ x = SeqMod * q + r
  BY DivMod
<1> HIDE DEF q, r
<1>2. CASE r + 1 < SeqMod
  <2>1. (SeqMod * q + (r + 1)) % SeqMod = r + 1
    BY <1>1, <1>2, ModUnique
  <2>2. (r + 1) % SeqMod = r + 1
    BY <1>1, <1>2
  <2>3. x + 1 = SeqMod * q + (r + 1)
    BY <1>1
  <2> QED  BY <2>1, <2>2, <2>3 DEF r
<1>3. CASE r + 1 = SeqMod
  <2>1. (SeqMod * (q + 1) + 0) % SeqMod = 0
    BY <1>1, <1>3, ModUnique
  <2>2. (r + 1) % SeqMod = 0
    BY <1>1, <1>3
  <2>3. x + 1 = SeqMod * (q + 1) + 0
    BY <1>1, <1>3
  <2> QED  BY <2>1, <2>2, <2>3 DEF r
<1> QED  BY <1>1, <1>2, <1>3

\* Numbers modulo SeqMod are no further apart than the numbers.
LEMMA ModGap ==
  ASSUME NEW p \in Nat, NEW q \in Nat, p <= q
  PROVE  (q % SeqMod) - (p % SeqMod) <= q - p
<1> DEFINE a == p \div SeqMod  b == q \div SeqMod
<1>1. /\ a \in Nat /\ p % SeqMod \in 0..(SeqMod - 1) /\ p = SeqMod * a + (p % SeqMod)
  BY DivMod
<1>2. /\ b \in Nat /\ q % SeqMod \in 0..(SeqMod - 1) /\ q = SeqMod * b + (q % SeqMod)
  BY DivMod
<1> HIDE DEF a, b
<1>3. CASE a <= b
  <2>1. PICK d \in Nat : b = a + d
    BY <1>1, <1>2, <1>3
  <2>2. SeqMod * b = SeqMod * a + SeqMod * d /\ SeqMod * d \in Nat /\ SeqMod * a \in Nat
    BY <1>1, <2>1
  <2> QED  BY <1>1, <1>2, <2>2
<1>4. CASE b < a
  <2>1. PICK d \in Nat : a = b + 1 + d
    BY <1>1, <1>2, <1>4
  <2>2. SeqMod * a = SeqMod * b + SeqMod + SeqMod * d /\ SeqMod * d \in Nat /\ SeqMod * b \in Nat
    BY <1>2, <2>1
  <2> QED  BY <1>1, <1>2, <2>2
<1> QED  BY <1>1, <1>2, <1>3, <1>4
-----------------------------------------------------------------------------
(***************************************************************************)
(* The packets of a call have turns of their own                           *)
(***************************************************************************)
\* The packet a call may send for fragment g of the block at place i.
PacketAt(k, b, f, i, g) == IF i = Place(b) THEN Sent(i, b, g, Buffers(k, b, f)[g])
                           ELSE Sent(i, EntryAt(i).block_idx, g, fragments[SlotAt(i)][g])

LEMMA SendTurn ==
  ASSUME RingInv, NEW k \in Keys, NEW b \in Blocks, NEW f \in Frags, ~AlreadyProcessed(b),
         NEW x \in Sends(k, b, f)
  PROVE  \E i \in Int, g \in Data : x.at = i * FecK + g /\ x = PacketAt(k, b, f, i, g)
<1>1. Place(b) \in Nat
  BY PlaceFacts DEF RingInv, RingTypeOK
<1>2. CASE FromFlush(x, b, f)
  <2>1. PICK i \in Places, g \in Data :
          /\ i < Flushed(b, f)
          /\ x = Sent(i, EntryAt(i).block_idx, g, fragments[SlotAt(i)][g])
    BY <1>2 DEF FromFlush
  <2>2. i \in Int /\ i # Place(b)
    <3>1. rx_ring_alloc \in Int /\ Flushed(b, f) \in 0..Place(b)
      BY FlushedFacts DEF RingInv, RingTypeOK
    <3> QED  BY <1>1, <2>1, <3>1 DEF Places
  <2>3. x.at = i * FecK + g
    BY <2>1 DEF Sent
  <2> QED  BY <2>1, <2>2, <2>3 DEF PacketAt
<1>3. CASE FromBlock(x, k, b, f)
  <2>1. PICK g \in Data : x = Sent(Place(b), b, g, Buffers(k, b, f)[g])
    BY <1>3 DEF FromBlock
  <2>2. x.at = Place(b) * FecK + g
    BY <2>1 DEF Sent
  <2>3. x = PacketAt(k, b, f, Place(b), g) /\ Place(b) \in Int
    BY <1>1, <2>1 DEF PacketAt
  <2> QED  BY <2>2, <2>3
<1> QED  BY <1>2, <1>3, SendsFrom

LEMMA SendOnce ==
  ASSUME RingInv, NEW k \in Keys, NEW b \in Blocks, NEW f \in Frags, ~AlreadyProcessed(b),
         NEW x \in Sends(k, b, f), NEW y \in Sends(k, b, f), x.at = y.at
  PROVE  x = y
<1>1. PICK i \in Int, g \in Data : x.at = i * FecK + g /\ x = PacketAt(k, b, f, i, g)
  BY SendTurn
<1>2. PICK j \in Int, h \in Data : y.at = j * FecK + h /\ y = PacketAt(k, b, f, j, h)
  BY SendTurn
<1>3. i = j /\ g = h
  <2>1. i * FecK \in Int /\ j * FecK \in Int /\ g \in 0..(FecK - 1) /\ h \in 0..(FecK - 1)
    BY DEF Data
  <2>2. /\ i < j => i * FecK + FecK <= j * FecK
        /\ j < i => j * FecK + FecK <= i * FecK
    BY BlockOrder
  <2>3. i * FecK + g = j * FecK + h
    BY <1>1, <1>2
  <2>4. ~(i < j) /\ ~(j < i)
    BY <2>1, <2>2, <2>3
  <2>5. i = j
    BY <2>4
  <2> QED  BY <2>1, <2>3, <2>5
<1> QED  BY <1>1, <1>2, <1>3

\* What a call sends: packets in turns of their own, above all sent before.
Ordered(S) ==
  /\ \E M \in Nat : \A x \in S : x.at \in 0..M
  /\ \A x \in S : Position(x) \in Nat /\ Position(x) > high
  /\ \A x, y \in S : /\ x.at < y.at => Position(x) < Position(y)
                     /\ x.at = y.at => x = y

LEMMA SendsOrdered ==
  ASSUME SendInv, NEW k \in Keys, NEW b \in Blocks, NEW f \in Frags, ~AlreadyProcessed(b)
  PROVE  Ordered(Sends(k, b, f))
<1> DEFINE S == Sends(k, b, f)
           M == Place(b) * FecK + FecK
<1>1. Place(b) \in Nat /\ Place(b) * FecK \in Nat /\ M \in Nat
  <2>1. Place(b) \in Nat
    BY PlaceFacts DEF SendInv, RingInv, RingTypeOK
  <2> QED  BY <2>1
<1> HIDE DEF M
<1>2. ASSUME NEW x \in S PROVE x.at \in 0..M
  <2>1. PICK i \in 0..Place(b), g \in Data : x.at = i * FecK + g
    BY SendPlace
  <2>2. i \in Nat /\ i * FecK \in Nat
    BY <1>1
  <2>3. i = Place(b) \/ i * FecK + FecK <= Place(b) * FecK
    BY <1>1, BlockOrder
  <2> QED  BY <1>1, <2>1, <2>2, <2>3 DEF Data, M
<1>3. ASSUME NEW x \in S PROVE Position(x) \in Nat /\ Position(x) > high
  BY SendPlace, SendOrder
<1>4. ASSUME NEW x \in S, NEW y \in S
      PROVE  /\ x.at < y.at => Position(x) < Position(y)
             /\ x.at = y.at => x = y
  BY SendOrder, SendOnce DEF SendInv
<1> QED  BY <1>1, <1>2, <1>3, <1>4 DEF Ordered

LEMMA OrderedFinite ==
  ASSUME NEW S, Ordered(S)
  PROVE  IsFiniteSet(S)
<1>1. PICK M \in Nat : \A x \in S : x.at \in 0..M
  BY DEF Ordered
<1> DEFINE turn == [x \in S |-> x.at]
<1>2. turn \in Injection(S, 0..M)
  BY <1>1 DEF Ordered, Injection, IsInjective
<1>3. IsFiniteSet(0..M)
  BY FS_Interval
<1> QED  BY <1>2, <1>3, FS_Injection

LEMMA LastFacts ==
  ASSUME NEW S, Ordered(S), NEW T \in SUBSET S, T # {}
  PROVE  /\ LastOf(T) \in T
         /\ \A y \in T : y.at <= LastOf(T).at /\ y.at \in Nat
<1>1. PICK M \in Nat : \A x \in S : x.at \in 0..M
  BY DEF Ordered
<1> DEFINE U == {M - x.at : x \in T}
<1>2. U \subseteq Nat /\ U # {}
  BY <1>1
<1>3. PICK u \in U : \A v \in U : u <= v
  BY <1>2, Least
<1>4. PICK x \in T : u = M - x.at
  BY <1>3
<1>5. ASSUME NEW y \in T PROVE y.at <= x.at
  <2>1. M - y.at \in U /\ u <= M - y.at
    BY <1>3
  <2>2. y.at \in Nat /\ x.at \in Nat
    BY <1>1
  <2> QED  BY <1>1, <1>4, <2>1, <2>2
<1> QED  BY <1>1, <1>5 DEF LastOf
-----------------------------------------------------------------------------
(***************************************************************************)
(* Counting what was lost                                                  *)
(***************************************************************************)
\* seq is the sequence number of the last position sent, modulo its width.
SeqInv == /\ high \in Int /\ high >= -1
          /\ seq = IF high = -1 THEN 0 ELSE high % SeqMod

\* The last position of the packets T of a call, the base if there are none.
Reached(S, T) == IF T = {} THEN Base(S) ELSE Position(LastOf(T))
Prior(x, S)   == {y \in S : y.at < x.at}

LEMMA BaseFacts ==
  ASSUME SeqInv, NEW S
  PROVE  /\ Base(S) \in Int /\ Base(S) >= -1
         /\ high # -1 => Base(S) = high
         /\ high = -1 => Base(S) = 0 \/ (Base(S) = -1 /\ \E x \in S : Position(x) = 0)
         /\ high = -1 /\ (\E x \in S : Position(x) = 0) => Base(S) = -1
BY DEF SeqInv, Base

LEMMA ModZero == 0 % SeqMod = 0 /\ (1 <= SeqMod)
OBVIOUS

\* The gap send_packet counts before x: what is missing up to x, unless numbers wrap.
LEMMA GapFacts ==
  ASSUME SeqInv, NEW S, Ordered(S), NEW x \in S
  PROVE  /\ LostBefore(x, S) \in Nat
         /\ LostBefore(x, S) <= Position(x) - Reached(S, Prior(x, S)) - 1
         /\ Position(x) < SeqMod
              => LostBefore(x, S) = Position(x) - Reached(S, Prior(x, S)) - 1
         /\ Reached(S, Prior(x, S)) \in Int /\ Reached(S, Prior(x, S)) >= -1
<1> DEFINE before == Prior(x, S)
           sent   == IF before = {} THEN seq ELSE packet_seq(LastOf(before))
           next   == (sent + 1) % SeqMod
           p      == Position(x)
           r      == Reached(S, before)
<1>1. /\ p \in Nat /\ p > high
      /\ LostBefore(x, S) = IF p % SeqMod > next THEN (p % SeqMod) - next ELSE 0
  BY DEF Ordered, LostBefore, Prior, packet_seq
<1>2. CASE before = {} /\ r = -1
  <2>1. high = -1 /\ seq = 0 /\ p = 0
    <3>1. high = -1 /\ \E y \in S : Position(y) = 0
      BY <1>2, BaseFacts DEF Reached
    <3>2. PICK y \in S : Position(y) = 0
      BY <3>1
    <3>3. ~(y.at < x.at)
      BY <1>2 DEF Prior
    <3>4. x.at \in Int /\ y.at \in Int
      BY DEF Ordered
    <3>5. ~(x.at < y.at)
      BY <1>1, <3>2 DEF Ordered
    <3>6. x = y
      BY <3>3, <3>4, <3>5 DEF Ordered
    <3> QED  BY <3>1, <3>2, <3>6 DEF SeqInv
  <2>2. p % SeqMod = 0 /\ next \in Nat
    BY <1>2, <2>1, ModZero
  <2> HIDE DEF p, r, next, before
  <2> QED  BY <1>1, <1>2, <2>1, <2>2 DEF before, p, r
<1>3. CASE ~(before = {} /\ r = -1)
  <2>1. r \in Nat /\ r < p /\ sent = r % SeqMod
    <3>1. CASE before = {}
      <4>1. r = Base(S) /\ r \in Nat
        BY <1>3, <3>1, BaseFacts DEF Reached
      <4>2. CASE high # -1
        BY <1>1, <3>1, <4>1, <4>2, BaseFacts DEF SeqInv
      <4>3. CASE high = -1
        <5>1. r = 0 /\ seq = 0 /\ p # 0
          <6>1. r = 0
            BY <4>1, <4>3, BaseFacts
          <6>2. p # 0
            <7>1. SUFFICES ASSUME Position(x) = 0 PROVE FALSE
              OBVIOUS
            <7>2. \E y \in S : Position(y) = 0
              BY <7>1
            <7>3. Base(S) = -1
              BY <4>3, <7>2, BaseFacts
            <7> QED  BY <4>1, <7>3
          <6> QED  BY <4>3, <6>1, <6>2 DEF SeqInv
        <5> QED  BY <1>1, <3>1, <5>1, ModZero
      <4> QED  BY <4>2, <4>3
    <3>2. CASE before # {}
      <4>1. LastOf(before) \in before
        BY <3>2, LastFacts DEF Prior
      <4> DEFINE l == LastOf(before)
      <4>2. l \in S /\ l.at < x.at
        BY <4>1 DEF Prior
      <4> HIDE DEF l
      <4>3. Position(l) \in Nat /\ Position(l) < p
        BY <4>2 DEF Ordered
      <4> QED  BY <3>2, <4>3 DEF Reached, packet_seq, l
    <3> QED  BY <3>1, <3>2
  <2> HIDE DEF p, r, before
  <2>2. next = (r + 1) % SeqMod
    BY <2>1, ModNext
  <2>3. (p % SeqMod) - ((r + 1) % SeqMod) <= p - (r + 1)
    <3>1. p \in Nat /\ r + 1 \in Nat /\ r + 1 <= p
      BY <1>1, <2>1
    <3> HIDE DEF next
    <3> QED  BY <3>1, ModGap
  <2>4. p % SeqMod \in Nat /\ (r + 1) % SeqMod \in Nat
    BY <1>1, <2>1
  <2>5. p < SeqMod => p % SeqMod = p /\ (r + 1) % SeqMod = r + 1
    BY <1>1, <2>1
  <2> HIDE DEF next
  <2> DEFINE a == p % SeqMod  c == (r + 1) % SeqMod
  <2>6. /\ a \in Nat /\ c \in Nat /\ a - c <= p - (r + 1)
        /\ LostBefore(x, S) = IF a > c THEN a - c ELSE 0
        /\ p < SeqMod => a = p /\ c = r + 1
    BY <1>1, <2>2, <2>3, <2>4, <2>5
  <2> HIDE DEF a, c
  <2> QED  BY <1>1, <2>1, <2>6 DEF p, r, before
<1> QED  BY <1>2, <1>3

\* The gaps of a call add up to the positions it advances over and does not send.
LEMMA GapSum ==
  ASSUME SeqInv, NEW S, Ordered(S), NEW g, Sums(g, [x \in S |-> LostBefore(x, S)], S)
  PROVE  /\ g[S] \in Nat
         /\ g[S] <= Reached(S, S) - Base(S) - Cardinality(S)
         /\ (\A x \in S : Position(x) < SeqMod)
              => g[S] = Reached(S, S) - Base(S) - Cardinality(S)
<1> DEFINE F == [x \in S |-> LostBefore(x, S)]
           Initial(T) == \A x \in T, y \in S : y.at < x.at => y \in T
           Small == \A x \in S : Position(x) < SeqMod
           Room(T) == Reached(S, T) - Base(S) - Cardinality(T)
           P(T) == g[T] \in Nat /\ g[T] <= Room(T) /\ (Small => g[T] = Room(T))
           Bad == {n \in Nat : \E T \in SUBSET S : Cardinality(T) = n /\ Initial(T) /\ ~P(T)}
<1>1. IsFiniteSet(S)
  BY OrderedFinite
<1>2. F \in [S -> Int]
  BY GapFacts
<1>3. /\ \A T \in SUBSET S : \A x \in T : g[T] = F[x] + g[T \ {x}]
      /\ g[{}] = 0
  <2> HIDE DEF F
  <2>1. Sums(g, F, S)
    BY DEF F
  <2> QED  BY <1>1, <1>2, <2>1, SumFacts
<1>4. SUFFICES ASSUME Bad # {} PROVE FALSE
  <2>1. ASSUME Bad = {} PROVE P(S)
    <3>1. Cardinality(S) \in Nat /\ Initial(S) /\ S \in SUBSET S
      BY <1>1, FS_CardinalityType
    <3> HIDE DEF P, Initial
    <3> QED  BY <2>1, <3>1
  <2> QED  BY <2>1
<1>5. PICK n \in Bad : \A m \in Bad : n <= m
  BY <1>4, Least
<1>6. PICK T \in SUBSET S : Cardinality(T) = n /\ Initial(T) /\ ~P(T)
  BY <1>5
<1>7. T # {}
  <2> SUFFICES ASSUME T = {} PROVE FALSE
    OBVIOUS
  <2>1. Cardinality(T) = 0 /\ Reached(S, T) = Base(S) /\ g[T] = 0
    BY <1>3, FS_EmptySet DEF Reached
  <2>2. Base(S) \in Int
    BY BaseFacts
  <2>3. P(T)
    BY <2>1, <2>2
  <2> QED  BY <1>6, <2>3
<1> DEFINE x == LastOf(T)
           R == T \ {x}
<1>8. x \in T /\ \A y \in T : y.at <= x.at /\ y.at \in Nat
  BY <1>7, LastFacts
<1> HIDE DEF x, F
<1>9. R = Prior(x, S)
  <2>1. ASSUME NEW y \in R PROVE y \in Prior(x, S)
    <3>1. y \in T /\ y # x /\ y.at <= x.at /\ y.at \in Nat /\ x.at \in Nat
      BY <1>8
    <3>2. y.at # x.at
      BY <1>8, <3>1 DEF Ordered
    <3> QED  BY <3>1, <3>2 DEF Prior
  <2>2. ASSUME NEW y \in Prior(x, S) PROVE y \in R
    <3>1. y \in S /\ y.at < x.at
      BY DEF Prior
    <3>2. y \in T
      BY <1>6, <1>8, <3>1
    <3>3. x.at \in Nat
      BY <1>8
    <3> QED  BY <3>1, <3>2, <3>3
  <2> QED  BY <2>1, <2>2
<1>10. /\ R \in SUBSET S /\ Initial(R)
       /\ Cardinality(R) \in Nat /\ Cardinality(R) = n - 1 /\ n \in Nat
  <2>1. Initial(R)
    <3> SUFFICES ASSUME NEW y \in R, NEW z \in S, z.at < y.at PROVE z \in R
      OBVIOUS
    <3>1. z \in T
      BY <1>6
    <3>2. y.at <= x.at /\ y.at \in Nat /\ x.at \in Nat /\ z.at \in Nat
      BY <1>8, <3>1
    <3> QED  BY <3>1, <3>2
  <2>2. IsFiniteSet(T)
    BY <1>1, FS_Subset
  <2>3. IsFiniteSet(R) /\ Cardinality(R) = n - 1 /\ n \in Nat
    BY <1>6, <1>8, <2>2, FS_RemoveElement, FS_CardinalityType
  <2> HIDE DEF R
  <2> QED  BY <2>1, <2>3, FS_CardinalityType DEF R
<1>11. P(R)
  <2> SUFFICES ASSUME ~P(R) PROVE FALSE
    OBVIOUS
  <2>1. n - 1 \in Bad
    <3> HIDE DEF P, Initial, R
    <3> QED  BY <1>10
  <2> HIDE DEF Bad
  <2> QED  BY <1>5, <1>10, <2>1
<1>12. /\ g[T] = LostBefore(x, S) + g[R]
       /\ Reached(S, T) = Position(x) /\ Position(x) \in Nat
  BY <1>3, <1>7, <1>8 DEF F, x, Reached, Ordered
<1> DEFINE l == LostBefore(x, S)  r == Reached(S, R)  p == Position(x)  c == Cardinality(R)
           h == g[R]  u == Base(S)
<1>13. /\ l \in Nat /\ l <= p - r - 1 /\ r \in Int
       /\ Small => l = p - r - 1
  BY <1>8, <1>9, GapFacts
<1>14. u \in Int
  BY BaseFacts
<1>15. h \in Nat /\ h <= r - u - c /\ (Small => h = r - u - c)
  BY <1>11
<1>16. /\ g[T] = l + h /\ Room(T) = p - u - (c + 1) /\ c \in Nat /\ p \in Nat
  BY <1>6, <1>10, <1>12
<1> HIDE DEF l, r, p, c, h, u, Small, Room
<1>17. P(T)
  BY <1>13, <1>14, <1>15, <1>16
<1> QED  BY <1>6, <1>17

\* What the counter grows by, as a sum of gaps.
LEMMA LostSum ==
  ASSUME NEW S, IsFiniteSet(S), \A x \in S : LostBefore(x, S) \in Int
  PROVE  \E g : /\ Sums(g, [x \in S |-> LostBefore(x, S)], S)
                /\ Losses(S) = g[S]
<1> DEFINE F == [x \in S |-> LostBefore(x, S)]
           Body(g) == [s \in SUBSET S |->
                         IF s = {} THEN 0 ELSE LostBefore(CHOOSE x \in s : TRUE, S)
                                             + g[s \ {CHOOSE x \in s : TRUE}]]
           h == CHOOSE g : g = Body(g)
<1>1. ASSUME NEW g PROVE Sums(g, F, S) <=> g = Body(g)
  <2>1. \A s \in SUBSET S : s # {} => F[Choice(s)] = LostBefore(CHOOSE x \in s : TRUE, S)
    BY DEF Choice
  <2>2. [s \in SUBSET S |-> IF s = {} THEN 0 ELSE F[Choice(s)] + g[s \ {Choice(s)}]] = Body(g)
    BY <2>1 DEF Choice
  <2> QED  BY <2>2 DEF Sums
<1>2. \E g : Sums(g, F, S)
  <2>1. F \in [S -> Int]
    OBVIOUS
  <2> HIDE DEF F
  <2> QED  BY <2>1, SumsExist
<1>3. h = Body(h)
  <2> HIDE DEF Body
  <2> QED  BY <1>1, <1>2
<1>4. Losses(S) = h[S]
  BY DEF Losses, MapThenSumSet, MapThenFoldSet
<1>5. Sums(h, F, S)
  <2> HIDE DEF h, Body
  <2> QED  BY <1>1, <1>3
<1> QED  BY <1>4, <1>5

-----------------------------------------------------------------------------
Counters == {"all", "dec_err", "dec_ok", "fec_recovered", "lost", "bad"}
CountInv == /\ SendInv /\ SeqInv
            /\ count_p \in [Counters -> Nat] /\ antenna_stat \in [Antennas -> Nat]

LEMMA NewDataCounts ==
  ASSUME SendInv, SeqInv, count_p \in [Counters -> Nat],
         NEW k \in Keys, NEW b \in Blocks, NEW f \in Frags, NEW A, NewData(k, b, f, A)
  PROVE  LET S == Sends(k, b, f)
         IN  \E corrupted \in SUBSET Corruptible(S), lost \in Nat :
               /\ out' = S \ corrupted
               /\ Ordered(S) /\ IsFiniteSet(S)
               /\ count_p' \in [Counters -> Nat]
               /\ count_p'.lost = count_p.lost + lost
               /\ count_p'.bad = count_p.bad + Cardinality(corrupted)
               /\ lost <= Reached(S, S) - Base(S) - Cardinality(S)
               /\ (\A x \in S : Position(x) < SeqMod)
                    => lost = Reached(S, S) - Base(S) - Cardinality(S)
<1> DEFINE S == Sends(k, b, f)
           lost == Losses(S)
           rec  == IF FecApplied(b, f) THEN FecK - YieldedTo(b, f) ELSE 0
<1>1. PICK corrupted \in SUBSET Corruptible(S) :
        /\ out' = S \ corrupted
        /\ count_p' = [count_p EXCEPT
             !.all = @ + 1, !.dec_ok = @ + 1,
             !.fec_recovered = IF FecApplied(b, f) THEN @ + FecK - YieldedTo(b, f) ELSE @,
             !.lost = @ + lost,
             !.bad = @ + Cardinality(corrupted)]
  BY DEF NewData
<1>2. ~AlreadyProcessed(b)
  BY DEF NewData
<1>3. Ordered(S) /\ IsFiniteSet(S)
  BY <1>2, SendsOrdered, OrderedFinite
<1>4. /\ lost \in Nat
      /\ lost <= Reached(S, S) - Base(S) - Cardinality(S)
      /\ (\A x \in S : Position(x) < SeqMod)
           => lost = Reached(S, S) - Base(S) - Cardinality(S)
  <2>1. \A x \in S : LostBefore(x, S) \in Int
    BY <1>3, GapFacts
  <2> HIDE DEF S
  <2>2. PICK g : Sums(g, [x \in S |-> LostBefore(x, S)], S) /\ lost = g[S]
    BY <1>3, <2>1, LostSum
  <2> HIDE DEF lost
  <2> QED  BY <1>3, <2>2, GapSum
<1>5. Cardinality(corrupted) \in Nat
  BY <1>3, FS_Subset, FS_CardinalityType DEF Corruptible
<1>6. YieldedTo(b, f) \in 0..FecK
  BY <1>2, YieldFacts, TargetFacts DEF SendInv, Entry
<1> DEFINE d == Cardinality(corrupted)
<1>7. count_p' \in [Counters -> Nat] /\ count_p'.lost = count_p.lost + lost
      /\ count_p'.bad = count_p.bad + d
  <2>1. d \in Nat /\ lost \in Nat
    BY <1>4, <1>5
  <2> HIDE DEF lost, d
  <2> DEFINE n == IF FecApplied(b, f) THEN count_p.fec_recovered + FecK - YieldedTo(b, f)
                                       ELSE count_p.fec_recovered
  <2>2. n \in Nat
    BY <1>6 DEF Counters
  <2>3. count_p' = [count_p EXCEPT !.all = @ + 1, !.dec_ok = @ + 1, !.fec_recovered = n,
                                   !.lost = @ + lost, !.bad = @ + d]
    BY <1>1 DEF d
  <2> HIDE DEF n
  <2>4. count_p' \in [Counters -> Nat]
    <3> DEFINE c1 == [count_p EXCEPT !.all = @ + 1]
               c2 == [c1 EXCEPT !.dec_ok = @ + 1]
               c3 == [c2 EXCEPT !.fec_recovered = n]
               c4 == [c3 EXCEPT !.lost = @ + lost]
               c5 == [c4 EXCEPT !.bad = @ + d]
    <3>1. count_p' = c5
      BY <2>3
    <3>2. c1 \in [Counters -> Nat]
      BY DEF Counters
    <3> HIDE DEF c1
    <3>3. c2 \in [Counters -> Nat]
      BY <3>2 DEF Counters
    <3> HIDE DEF c2
    <3>4. c3 \in [Counters -> Nat]
      BY <2>2, <3>3 DEF Counters
    <3> HIDE DEF c3
    <3>5. c4 \in [Counters -> Nat]
      BY <2>1, <3>4 DEF Counters
    <3> HIDE DEF c4
    <3> QED  BY <2>1, <3>1, <3>5 DEF Counters
  <2>5. count_p'.lost = count_p.lost + lost
    BY <2>3 DEF Counters
  <2>6. count_p'.bad = count_p.bad + d
    BY <2>3 DEF Counters
  <2> QED  BY <2>4, <2>5, <2>6
<1> HIDE DEF lost
<1> QED  BY <1>1, <1>3, <1>4, <1>7

LEMMA NewDataSeq ==
  ASSUME SendInv, SeqInv, NEW k \in Keys, NEW b \in Blocks, NEW f \in Frags, NEW A,
         NewData(k, b, f, A)
  PROVE  SeqInv'
<1> DEFINE S == Sends(k, b, f)  y == LastOf(S)
<1>1. /\ ~AlreadyProcessed(b)
      /\ seq' = IF S = {} THEN seq ELSE packet_seq(y)
      /\ high' = IF S = {} THEN high ELSE Position(y)
  BY DEF NewData
<1>2. CASE S = {}
  BY <1>1, <1>2 DEF SeqInv
<1>3. CASE S # {}
  <2>1. Ordered(S)
    BY <1>1, SendsOrdered
  <2>2. y \in S
    BY <1>3, <2>1, LastFacts
  <2>3. Position(y) \in Nat
    BY <2>1, <2>2 DEF Ordered
  <2> HIDE DEF y, S
  <2> QED  BY <1>1, <1>3, <2>3 DEF SeqInv, packet_seq
<1> QED  BY <1>2, <1>3

LEMMA InitCountInv == Init => CountInv
<1> SUFFICES ASSUME Init PROVE CountInv
  OBVIOUS
<1>1. SeqInv /\ count_p \in [Counters -> Nat] /\ antenna_stat \in [Antennas -> Nat]
  BY DEF Init, SeqInv, Counters, NoCounts
<1> QED  BY <1>1, InitSendInv DEF CountInv

LEMMA NextCountInv == CountInv /\ [Next]_vars => CountInv'
<1> SUFFICES ASSUME CountInv, [Next]_vars PROVE CountInv'
  OBVIOUS
<1> USE DEF CountInv
<1>1. SendInv'
  BY NextSendInv
<1>2. ASSUME NEW hit, Drops(hit)
      PROVE  SeqInv' /\ count_p' \in [Counters -> Nat]
  <2>1. SeqInv'
    BY <1>2 DEF Drops, SeqInv
  <2>2. count_p' \in [Counters -> Nat]
    BY <1>2 DEF Drops
  <2> QED  BY <2>1, <2>2
<1>3. ASSUME NEW A, log_rssi(A) PROVE antenna_stat' \in [Antennas -> Nat]
  BY <1>3 DEF log_rssi
<1>4. CASE EmptyPacket \/ MalformedPacket \/ UndecryptableKey
  BY <1>1, <1>2, <1>4 DEF EmptyPacket, MalformedPacket, UndecryptableKey
<1>5. ASSUME NEW k \in Keys, SessionKey(k) PROVE CountInv'
  <2>1. count_p' = [count_p EXCEPT !.all = @ + 1, !.dec_ok = @ + 1]
    BY <1>5 DEF SessionKey
  <2>2. count_p' \in [Counters -> Nat]
    <3> DEFINE c == [count_p EXCEPT !.all = @ + 1]
    <3>1. count_p' = [c EXCEPT !.dec_ok = @ + 1]
      BY <2>1
    <3>2. c \in [Counters -> Nat]
      BY DEF Counters
    <3> HIDE DEF c
    <3> QED  BY <3>1, <3>2 DEF Counters
  <2>3. SeqInv' /\ antenna_stat' = antenna_stat
    BY <1>5 DEF SessionKey, SeqInv
  <2> QED  BY <1>1, <2>2, <2>3
<1>6. ASSUME NEW k \in Keys, NEW A, DataPacket(k, A) PROVE CountInv'
  <2>1. CASE UndecryptableData(k)
    BY <1>1, <1>2, <2>1 DEF UndecryptableData
  <2>2. CASE BadIndexData(k, A)
    BY <1>1, <1>2, <1>3, <2>2 DEF BadIndexData
  <2>3. ASSUME NEW b \in Blocks, NEW f \in Frags, KnownData(k, b, f, A) PROVE CountInv'
    BY <1>1, <1>2, <1>3, <2>3 DEF KnownData
  <2>4. ASSUME NEW b \in Blocks, NEW f \in Frags, NewData(k, b, f, A) PROVE CountInv'
    <3>1. count_p' \in [Counters -> Nat] /\ SeqInv'
      BY <2>4, NewDataCounts, NewDataSeq
    <3>2. log_rssi(A)
      BY <2>4 DEF NewData
    <3> QED  BY <1>1, <1>3, <3>1, <3>2
  <2> QED  BY <1>6, <2>1, <2>2, <2>3, <2>4 DEF DataPacket
<1>7. CASE dump_stats
  <2>1. SeqInv' /\ antenna_stat' \in [Antennas -> Nat]
    BY <1>7 DEF dump_stats, SeqInv
  <2>2. count_p' \in [Counters -> Nat]
    BY <1>7 DEF dump_stats, NoCounts, Counters
  <2> QED  BY <1>1, <2>1, <2>2
<1>8. CASE UNCHANGED vars
  BY <1>1, <1>8 DEF vars, SeqInv
<1> QED  BY <1>4, <1>5, <1>6, <1>7, <1>8 DEF Next

\* Every variable keeps its type: the number of the last packet sent fits its width, the
\* position it stands for lies in the session, the counters never get negative.
THEOREM ReceiverTypeOK == Spec => []TypeOK
<1>1. CountInv => TypeOK
  <2> SUFFICES ASSUME CountInv PROVE TypeOK
    OBVIOUS
  <2> USE DEF CountInv
  <2>1. RingTypeOK /\ antenna_stat \in [Antennas -> Nat]
    BY DEF SendInv, RingInv
  <2>2. seq \in 0..(SeqMod - 1)
    BY DEF SeqInv
  <2>3. \A c \in DOMAIN count_p : count_p[c] \in Nat
    OBVIOUS
  <2>4. high \in -1..((MaxBlock + 1) * FecK - 1)
    <3>1. high < (last_known_block + 1) * FecK /\ last_known_block \in Blocks \cup {-1}
      BY DEF SendInv, SentBelowRing, RingInv, RingTypeOK
    <3>2. (last_known_block + 1) * FecK <= (MaxBlock + 1) * FecK
      <4>1. /\ last_known_block + 1 \in Int /\ MaxBlock + 1 \in Int
            /\ last_known_block + 1 <= MaxBlock + 1
        BY <3>1 DEF Blocks
      <4>2. CASE last_known_block + 1 = MaxBlock + 1
        BY <4>1, <4>2
      <4>3. CASE last_known_block + 1 < MaxBlock + 1
        BY <4>1, <4>3, BlockOrder
      <4> QED  BY <4>1, <4>2, <4>3
    <3>3. /\ (last_known_block + 1) * FecK \in Int /\ (MaxBlock + 1) * FecK \in Int
      BY <3>1 DEF Blocks
    <3> QED  BY <3>1, <3>2, <3>3 DEF SeqInv
  <2> QED  BY <2>1, <2>2, <2>3, <2>4 DEF TypeOK
<1> QED  BY <1>1, InitCountInv, NextCountInv, PTL DEF Spec

-----------------------------------------------------------------------------
\* A call that sends anything counts what it advances over, lost or bad, up to wraps of
\* the sequence number.
LEMMA CountedCases ==
  ASSUME SendInv, [Next]_vars, Counted
  PROVE  \E k \in Keys, b \in Blocks, f \in Frags : \E A \in SUBSET Antennas :
           NewData(k, b, f, A)
<1>1. high' # high /\ ~(\E k \in Keys : SessionKey(k) /\ k # session_key)
  BY DEF Counted, NewSession, SessionKey
<1> QED  BY <1>1, NextCases

LEMMA NewDataCounted ==
  ASSUME SendInv, SeqInv, count_p \in [Counters -> Nat], Counted,
         NEW k \in Keys, NEW b \in Blocks, NEW f \in Frags, NEW A, NewData(k, b, f, A)
  PROVE  LET S == Sends(k, b, f)
             lost == count_p'.lost - count_p.lost
             bad  == count_p'.bad - count_p.bad
         IN  /\ out' \subseteq S /\ \A x \in S \ out' : x.pkt = Junk
             /\ Cardinality(out') \in Nat /\ lost \in Nat /\ bad \in Nat
             /\ S # out' => bad > 0
             /\ lost + bad + Cardinality(out') <= high' - Base(S)
             /\ high' < SeqMod => lost + bad + Cardinality(out') = high' - Base(S)
             /\ high' \in Int
<1> DEFINE S == Sends(k, b, f)
<1>1. PICK corrupted \in SUBSET Corruptible(S), lost \in Nat :
        /\ out' = S \ corrupted
        /\ Ordered(S) /\ IsFiniteSet(S)
        /\ count_p'.lost = count_p.lost + lost
        /\ count_p'.bad = count_p.bad + Cardinality(corrupted)
        /\ lost <= Reached(S, S) - Base(S) - Cardinality(S)
        /\ (\A x \in S : Position(x) < SeqMod)
             => lost = Reached(S, S) - Base(S) - Cardinality(S)
  BY NewDataCounts
<1>2. high' = IF S = {} THEN high ELSE Position(LastOf(S))
  BY DEF NewData
<1> HIDE DEF S
<1>3. S # {} /\ high' = Reached(S, S)
  BY <1>2 DEF Counted, Reached
<1>4. /\ LastOf(S) \in S /\ \A y \in S : Position(y) <= high' /\ Position(y) \in Nat
      /\ high' \in Nat
  <2>1. LastOf(S) \in S /\ \A y \in S : y.at <= LastOf(S).at /\ y.at \in Nat
    BY <1>1, <1>3, LastFacts
  <2>2. high' = Position(LastOf(S))
    BY <1>2, <1>3
  <2> DEFINE l == LastOf(S)
  <2> HIDE DEF l
  <2>3. ASSUME NEW y \in S PROVE Position(y) <= Position(l) /\ Position(y) \in Nat
    <3>1. y.at = l.at \/ y.at < l.at
      BY <2>1 DEF l
    <3>2. l \in S
      BY <2>1 DEF l
    <3> QED  BY <1>1, <3>1, <3>2 DEF Ordered
  <2> QED  BY <2>1, <2>2, <2>3 DEF l
<1>5. high' < SeqMod => \A x \in S : Position(x) < SeqMod
  BY <1>4
<1> DEFINE d == Cardinality(corrupted)  o == Cardinality(out')  n == Cardinality(S)
<1>6. /\ corrupted \in SUBSET S /\ IsFiniteSet(corrupted) /\ IsFiniteSet(out')
      /\ d \in Nat /\ o \in Nat
  <2>1. corrupted \in SUBSET S /\ out' \in SUBSET S
    BY <1>1 DEF Corruptible
  <2>2. IsFiniteSet(corrupted) /\ IsFiniteSet(out')
    BY <1>1, <2>1, FS_Subset
  <2> QED  BY <2>1, <2>2, FS_CardinalityType
<1>7. n = o + d
  <2>1. S = out' \cup corrupted /\ out' \cap corrupted = {}
    BY <1>1, <1>6
  <2>2. Cardinality({}) = 0
    BY FS_EmptySet
  <2>3. Cardinality(out' \cup corrupted) = o + d - Cardinality(out' \cap corrupted)
    BY <1>6, FS_Union
  <2>4. Cardinality(out' \cap corrupted) = 0
    BY <2>1, <2>2
  <2>5. n = Cardinality(out' \cup corrupted)
    BY <2>1
  <2> HIDE DEF n, o, d
  <2> QED  BY <1>6, <2>3, <2>4, <2>5
<1>8. S # out' => d > 0
  <2> SUFFICES ASSUME d = 0 PROVE S = out'
    BY <1>6
  <2>1. corrupted = {}
    BY <1>6, FS_EmptySet
  <2> QED  BY <1>1, <2>1
<1>9. count_p.lost \in Nat /\ count_p.bad \in Nat
  BY DEF Counters
<1>10. /\ out' \subseteq S /\ \A x \in S \ out' : x.pkt = Junk
  BY <1>1 DEF Corruptible
<1>11. Base(S) \in Int
  BY BaseFacts
<1> DEFINE u == Base(S)  l == count_p'.lost - count_p.lost  c == count_p'.bad - count_p.bad
<1>12. l = lost /\ c = d
  BY <1>1, <1>6, <1>9
<1> HIDE DEF d, o, n, u, l, c
<1>13. /\ l + c + o <= high' - u
       /\ high' < SeqMod => l + c + o = high' - u
  BY <1>1, <1>3, <1>4, <1>5, <1>6, <1>7, <1>11, <1>12 DEF u, n
<1> QED  BY <1>4, <1>6, <1>8, <1>10, <1>12, <1>13 DEF d, o, u, l, c, S

\* Losses are never made up, over all flushes, overrides and decoding of a call and for any
\* wrap of the sequence numbers: what a call counts as lost it has skipped.
THEOREM LossesNotMadeUp == Spec => LostNotOvercounted
<1>1. CountInv /\ [Next]_vars =>
        [Counted => count_p'.lost - count_p.lost <= high' - Base(out') - Cardinality(out')]_vars
  <2> SUFFICES ASSUME CountInv, [Next]_vars, Counted
               PROVE  count_p'.lost - count_p.lost <= high' - Base(out') - Cardinality(out')
    OBVIOUS
  <2> USE DEF CountInv
  <2>1. PICK k \in Keys, b \in Blocks, f \in Frags : \E A \in SUBSET Antennas :
          NewData(k, b, f, A)
    BY CountedCases
  <2> DEFINE S == Sends(k, b, f)
             lost == count_p'.lost - count_p.lost
             bad  == count_p'.bad - count_p.bad
             o    == Cardinality(out')
  <2>2. /\ o \in Nat /\ lost \in Nat /\ bad \in Nat /\ out' \subseteq S
        /\ S # out' => bad > 0
        /\ lost + bad + o <= high' - Base(S)
        /\ high' \in Int
    BY <2>1, NewDataCounted
  <2> HIDE DEF S, lost, bad, o
  <2>3. /\ Base(S) \in Int /\ Base(out') \in Int
        /\ Base(out') = Base(S) \/ (S # out' /\ Base(out') = Base(S) + 1)
    BY <2>2 DEF Base, SeqInv
  <2>4. lost <= high' - Base(out') - o
    BY <2>2, <2>3
  <2> QED  BY <2>4 DEF lost, o
<1> QED  BY <1>1, InitCountInv, NextCountInv, PTL DEF Spec, LostNotOvercounted

\* With encryption, the very first packet of a session is never a buffer without a fragment.
LEMMA FirstNotJunk ==
  ASSUME IsEncrypt, GenuineInv, NEW k \in Keys, NEW b \in Blocks, NEW f \in Frags, NEW A,
         NewData(k, b, f, A), NEW x \in Sends(k, b, f), Position(x) = 0
  PROVE  x.pkt # Junk
<1> USE DEF GenuineInv, HoldInv, SendInv
<1>1. ~AlreadyProcessed(b) /\ k = session_key
  BY DEF NewData, Accepted
<1>2. CASE FromFlush(x, b, f)
  <2>1. PICK i \in Places, g \in Data :
          /\ g \in Unsent(EntryAt(i))
          /\ x = Sent(i, EntryAt(i).block_idx, g, fragments[SlotAt(i)][g])
    BY <1>2 DEF FromFlush
  <2>2. x.pkt = [key |-> k, blk |-> EntryAt(i).block_idx]
    BY <1>1, <2>1 DEF HeldGenuine, Unsent, Sent
  <2>3. SlotAt(i) \in Slots
    BY SlotType DEF Places
  <2>4. EntryAt(i).block_idx \in Blocks
    BY <2>3 DEF RingInv, RingTypeOK, EntryAt, Entry
  <2> QED  BY <2>2, <2>4, PacketNotJunk DEF Packet
<1>3. CASE FromBlock(x, k, b, f)
  <2>1. PICK g \in Data :
          /\ g < SentTo(b, f) /\ x = Sent(Place(b), b, g, Buffers(k, b, f)[g])
    BY <1>3 DEF FromBlock
  <2>2. g = 0
    <3>1. Position(x) = b * FecK + g /\ b * FecK \in Nat
      BY <2>1 DEF Sent, Position, Blocks
    <3> QED  BY <3>1 DEF Data
  <2>3. x.pkt = [key |-> k, blk |-> b]
    BY <1>1, <2>1, <2>2, BlockGenuine DEF Sent
  <2> QED  BY <2>3, PacketNotJunk DEF Packet
<1> QED  BY <1>1, <1>2, <1>3, SendsFrom

AccountInv == GenuineInv /\ CountInv

\* As long as a session has not sent SeqMod packets, every position the stream advances over
\* is counted exactly once: sent, lost, or bad.
THEOREM EachPositionCountedOnce ==
  ASSUME IsEncrypt PROVE Spec => EachPositionCounted
<1>1. AccountInv /\ [Next]_vars =>
        [Counted /\ high' < SeqMod =>
           high' - Base(out') = Cardinality(out') + (count_p'.lost - count_p.lost)
                                                  + (count_p'.bad - count_p.bad)]_vars
  <2> SUFFICES ASSUME AccountInv, [Next]_vars, Counted, high' < SeqMod
               PROVE  high' - Base(out') = Cardinality(out') + (count_p'.lost - count_p.lost)
                                                             + (count_p'.bad - count_p.bad)
    OBVIOUS
  <2> USE DEF AccountInv, CountInv
  <2>1. PICK k \in Keys, b \in Blocks, f \in Frags : \E A \in SUBSET Antennas :
          NewData(k, b, f, A)
    BY CountedCases
  <2> DEFINE S == Sends(k, b, f)
             lost == count_p'.lost - count_p.lost
             bad  == count_p'.bad - count_p.bad
             o    == Cardinality(out')
  <2>2. /\ o \in Nat /\ lost \in Nat /\ bad \in Nat /\ out' \subseteq S
        /\ \A x \in S \ out' : x.pkt = Junk
        /\ lost + bad + o = high' - Base(S)
        /\ high' \in Int
    BY <2>1, NewDataCounted
  <2>3. \A x \in S : Position(x) = 0 => x.pkt # Junk
    BY <2>1, FirstNotJunk
  <2> HIDE DEF S, lost, bad, o
  <2>4. Base(S) = Base(out') /\ Base(S) \in Int
    BY <2>2, <2>3 DEF Base, SeqInv
  <2>5. high' - Base(out') = o + lost + bad
    BY <2>2, <2>4
  <2> QED  BY <2>5 DEF lost, bad, o
<1>2. AccountInv /\ [Next]_vars => AccountInv'
  BY NextGenuineInv, NextCountInv DEF AccountInv
<1>3. Init => AccountInv
  BY InitGenuineInv, InitCountInv DEF AccountInv
<1> QED  BY <1>1, <1>2, <1>3, PTL DEF Spec, EachPositionCounted
-----------------------------------------------------------------------------
(***************************************************************************)
(* What a call keeps and sends, in terms of the packets it was given       *)
(***************************************************************************)
\* The ring holds fragment g of block c.
Held(c, g) == \E i \in Places : EntryAt(i).block_idx = c /\ g \in EntryAt(i).fragment_map

LEMMA StoredHeld ==
  ASSUME RingInv, NEW b \in Blocks, NEW f \in Frags, ~AlreadyProcessed(b),
         NEW g \in Stored(b, f)
  PROVE  g \in Frags /\ (g = f \/ Held(b, g))
<1>1. g \in Frags
  BY TargetFacts DEF Stored, Entry
<1>2. CASE Found(b) # {}
  <2>1. Place(b) \in Places /\ EntryAt(Place(b)).block_idx = b /\ Target(b) = EntryAt(Place(b))
    BY <1>2, PlaceFacts DEF Target
  <2> QED  BY <1>1, <2>1 DEF Stored, Held
<1>3. CASE Found(b) = {}
  BY <1>1, <1>3 DEF Stored, Target, EmptyEntry
<1> QED  BY <1>2, <1>3

\* Nothing but the packet of the call is new in the ring.
LEMMA NewDataHolds ==
  ASSUME RingInv, NEW k \in Keys, NEW b \in Blocks, NEW f \in Frags, NEW A,
         NewData(k, b, f, A), NEW c, NEW g, Held(c, g)'
  PROVE  Held(c, g) \/ (c = b /\ g = f)
<1>1. ~AlreadyProcessed(b) /\ f \notin Target(b).fragment_map
  BY DEF NewData
<1>2. PICK j \in 0..(rx_ring_alloc' - 1) :
        EntryAfter(j).block_idx = c /\ g \in EntryAfter(j).fragment_map
  BY DEF Held, Places, EntryAt, SlotAt, EntryAfter
<1> DEFINE i == Removed(b, f) + j
<1>3. EntryAfter(j) = IF i = Place(b) THEN NewEntry(b, f)
                      ELSE IF i < rx_ring_alloc THEN EntryAt(i) ELSE Fresh(b, i)
  BY Survivors
<1>4. i \in Nat /\ (i < rx_ring_alloc => i \in Places)
  <2>1. i \in Overridden(b)..(rx_ring_alloc + NewBlocks(b) - 1) /\ Overridden(b) \in Nat
    BY <1>1, Survivors, PlaceFacts DEF RingInv, RingTypeOK
  <2>2. i \in Nat
    BY <2>1
  <2> HIDE DEF i
  <2> QED  BY <2>2 DEF Places, RingInv, RingTypeOK
<1>5. CASE i = Place(b)
  <2>1. g \in Stored(b, f) /\ c = b
    BY <1>1, <1>2, <1>3, <1>5, NewEntryFacts
  <2> QED  BY <1>1, <2>1, StoredHeld
<1>6. CASE i # Place(b)
  <2>1. EntryAfter(j) = EntryAt(i) /\ i \in Places
    BY <1>2, <1>3, <1>4, <1>6 DEF Fresh
  <2> QED  BY <1>2, <2>1 DEF Held
<1> QED  BY <1>5, <1>6

\* A packet is sent because it was received, now or earlier, or because parity of its block was.
LEMMA SendOrigin ==
  ASSUME RingInv, NEW k \in Keys, NEW b \in Blocks, NEW f \in Frags, ~AlreadyProcessed(b),
         f \notin Target(b).fragment_map, NEW x \in Sends(k, b, f)
  PROVE  /\ x.frag \in Data
         /\ \/ Held(x.blk, x.frag)
            \/ x.blk = b /\ x.frag = f
            \/ x.blk = b /\ \E h \in Frags : h >= FecK /\ (h = f \/ Held(b, h))
<1>1. CASE FromFlush(x, b, f)
  <2>1. PICK i \in Places, g \in Data :
          /\ g \in Unsent(EntryAt(i))
          /\ x = Sent(i, EntryAt(i).block_idx, g, fragments[SlotAt(i)][g])
    BY <1>1 DEF FromFlush
  <2>2. x.blk = EntryAt(i).block_idx /\ x.frag = g
    BY <2>1 DEF Sent
  <2> QED  BY <2>1, <2>2 DEF Unsent, Held
<1>2. CASE FromBlock(x, k, b, f)
  <2>1. PICK g \in Data : g < SentTo(b, f) /\ x = Sent(Place(b), b, g, Buffers(k, b, f)[g])
    BY <1>2 DEF FromBlock
  <2>2. x.blk = b /\ x.frag = g
    BY <2>1 DEF Sent
  <2>3. CASE g \in Stored(b, f)
    BY <2>2, <2>3, StoredHeld
  <2>4. CASE g \notin Stored(b, f)
    <3>1. Decodes(b, f)
      BY <2>1, <2>4, YieldFacts DEF SentTo, Finishes, Data
    <3>2. Cardinality(Stored(b, f)) = FecK
      BY <3>1, NewEntryFacts DEF Decodes
    <3>3. \E h \in Stored(b, f) : h >= FecK
      <4> SUFFICES ASSUME \A h \in Stored(b, f) : ~(h >= FecK) PROVE FALSE
        OBVIOUS
      <4>1. Stored(b, f) \subseteq Data \ {g}
        BY <2>4, StoredHeld DEF Frags, Data
      <4>2. IsFiniteSet(Data) /\ Cardinality(Data) = FecK
        <5>1. 0 \in Int /\ FecK - 1 \in Int
          OBVIOUS
        <5> QED  BY <5>1, FS_Interval DEF Data
      <4>3. IsFiniteSet(Data \ {g}) /\ Cardinality(Data \ {g}) = FecK - 1
        BY <4>2, FS_RemoveElement
      <4>4. Cardinality(Stored(b, f)) <= FecK - 1
        BY <4>1, <4>3, FS_Subset
      <4> QED  BY <3>2, <4>4
    <3>4. PICK h \in Stored(b, f) : h >= FecK
      BY <3>3
    <3>5. h \in Frags /\ (h = f \/ Held(b, h))
      BY StoredHeld
    <3> QED  BY <2>2, <3>4, <3>5
  <2> QED  BY <2>3, <2>4
<1> QED  BY <1>1, <1>2, SendsFrom

\* Positions lie within a session.
LEMMA HighBound ==
  ASSUME SendInv
  PROVE  high < (MaxBlock + 1) * FecK
<1>1. last_known_block \in -1..MaxBlock
  BY DEF SendInv, RingInv, RingTypeOK, Blocks
<1>2. (last_known_block + 1) * FecK <= (MaxBlock + 1) * FecK
  <2>1. last_known_block = MaxBlock \/ last_known_block + 1 < MaxBlock + 1
    BY <1>1
  <2>2. last_known_block + 1 \in Int /\ MaxBlock + 1 \in Int
    BY <1>1
  <2>3. last_known_block + 1 < MaxBlock + 1 =>
          (last_known_block + 1) * FecK + FecK <= (MaxBlock + 1) * FecK
    BY <2>2, BlockOrder
  <2>4. (last_known_block + 1) * FecK \in Int /\ (MaxBlock + 1) * FecK \in Int
    BY <2>2
  <2> QED  BY <2>1, <2>3, <2>4
<1>3. (last_known_block + 1) * FecK \in Int /\ (MaxBlock + 1) * FecK \in Int /\ high \in Int
  BY <1>1 DEF SendInv
<1> QED  BY <1>2, <1>3 DEF SendInv, SentBelowRing

\* What a call hands over lies above what was sent, and high keeps up with it.
LEMMA NewDataHigh ==
  ASSUME SendInv, NEW k \in Keys, NEW b \in Blocks, NEW f \in Frags, NEW A,
         NewData(k, b, f, A)
  PROVE  /\ out' \subseteq Sends(k, b, f)
         /\ high' >= high
         /\ \A x \in out' : Position(x) \in Nat /\ Position(x) > high /\ Position(x) <= high'
         /\ out' # {} => /\ LastOf(out') \in out'
                         /\ \A x \in out' : Position(x) <= Position(LastOf(out'))
<1> DEFINE S == Sends(k, b, f)
<1>1. ~AlreadyProcessed(b)
  BY DEF NewData
<1>2. out' \subseteq S /\ high' = IF S = {} THEN high ELSE Position(LastOf(S))
  BY DEF NewData
<1>3. Ordered(S) /\ high \in Int
  BY <1>1, SendsOrdered DEF SendInv
<1> HIDE DEF S
<1>4. ASSUME NEW T \in SUBSET S, T # {}
      PROVE  LastOf(T) \in T /\ \A x \in T : Position(x) <= Position(LastOf(T))
  <2>1. LastOf(T) \in T /\ \A y \in T : y.at <= LastOf(T).at /\ y.at \in Nat
    BY <1>3, <1>4, LastFacts
  <2>2. ASSUME NEW x \in T PROVE Position(x) <= Position(LastOf(T))
    <3>1. x.at < LastOf(T).at \/ x.at = LastOf(T).at
      BY <2>1
    <3>2. Position(x) \in Nat /\ Position(LastOf(T)) \in Nat
      BY <1>3, <2>1 DEF Ordered
    <3> QED  BY <1>3, <2>1, <3>1, <3>2 DEF Ordered
  <2> QED  BY <2>1, <2>2
<1>5. \A x \in S : Position(x) \in Nat /\ Position(x) > high
  BY <1>3 DEF Ordered
<1>6. \A x \in S : Position(x) <= high'
  BY <1>2, <1>4
<1>7. high' >= high
  BY <1>2, <1>3, <1>4, <1>5
<1>8. out' # {} => /\ LastOf(out') \in out'
                   /\ \A x \in out' : Position(x) <= Position(LastOf(out'))
  BY <1>2, <1>4
<1> QED  BY <1>2, <1>5, <1>6, <1>7, <1>8 DEF S
-----------------------------------------------------------------------------
(***************************************************************************)
(* Packets in order: a call serves the newest block                        *)
(***************************************************************************)
\* The oldest block hands over what was sent, from where it stood.
LEMMA OldestServed ==
  ASSUME IsEncrypt, GenuineInv, NEW k \in Keys, NEW b \in Blocks, NEW f \in Frags, NEW A,
         NewData(k, b, f, A), Place(b) = Overridden(b),
         NEW g \in Data, Target(b).send_fragment_idx <= g, g < SentTo(b, f)
  PROVE  \E x \in out' : x.blk = b /\ x.frag = g /\ x.pkt = [key |-> k, blk |-> b]
<1> DEFINE x == Sent(Place(b), b, g, Buffers(k, b, f)[g])
<1>1. ~AlreadyProcessed(b) /\ k = session_key /\ RingInv
  BY DEF NewData, Accepted, GenuineInv, HoldInv, SendInv
<1>2. Buffers(k, b, f)[g] = [key |-> k, blk |-> b]
  BY <1>1, BlockGenuine
<1>3. x.blk = b /\ x.frag = g /\ x.pkt = [key |-> k, blk |-> b]
  BY <1>2 DEF Sent
<1>4. x \in Sends(k, b, f)
  <2>1. FromBlock(x, k, b, f)
    BY DEF FromBlock
  <2> QED  BY <1>1, <2>1, SendsFrom
<1>5. x.pkt # Junk
  BY <1>3 DEF Blocks
<1> HIDE DEF x
<1>6. PICK corrupted \in SUBSET Corruptible(Sends(k, b, f)) : out' = Sends(k, b, f) \ corrupted
  BY DEF NewData
<1>7. x \in out'
  BY <1>4, <1>5, <1>6 DEF Corruptible
<1> QED  BY <1>3, <1>7

\* A block not older than any known one is the newest of the ring, or not in it.
LEMMA NewestPlace ==
  ASSUME RingInv, NEW b \in Blocks, b >= last_known_block
  PROVE  /\ Found(b) # {} => /\ b = last_known_block /\ rx_ring_alloc > 0
                             /\ Target(b) = EntryAt(rx_ring_alloc - 1)
         /\ Found(b) = {} => Target(b).fragment_map = {} /\ Target(b).send_fragment_idx = 0
         /\ Found(b) = {} /\ b = last_known_block => rx_ring_alloc = 0
<1>1. /\ last_known_block \in Int /\ rx_ring_alloc \in Nat /\ b \in Nat
  BY DEF RingInv, RingTypeOK, Blocks
<1>2. ASSUME Found(b) # {}
      PROVE  /\ b = last_known_block /\ rx_ring_alloc > 0
             /\ Target(b) = EntryAt(rx_ring_alloc - 1)
  <2>1. /\ b <= last_known_block /\ rx_ring_alloc > 0
        /\ Found(b) = {b - last_known_block + rx_ring_alloc - 1}
    BY <1>2, FoundFacts
  <2>2. b = last_known_block /\ Found(b) = {rx_ring_alloc - 1}
    BY <1>1, <2>1
  <2>3. Place(b) = rx_ring_alloc - 1
    BY <1>1, <2>2 DEF Place
  <2> QED  BY <1>2, <2>1, <2>2, <2>3 DEF Target
<1>3. Found(b) = {} => Target(b).fragment_map = {} /\ Target(b).send_fragment_idx = 0
  BY DEF Target, EmptyEntry
<1>4. ASSUME b = last_known_block, rx_ring_alloc > 0 PROVE Found(b) # {}
  <2>1. rx_ring_alloc - 1 \in Places
    BY <1>1, <1>4 DEF Places
  <2>2. EntryAt(rx_ring_alloc - 1).block_idx = b
    BY <1>1, <1>4, <2>1 DEF RingInv, RingWindow
  <2> QED  BY <2>1, <2>2 DEF Found
<1> QED  BY <1>1, <1>2, <1>3, <1>4

\* A block not older than any known one leaves the ring empty, or becomes its newest.
LEMMA NewestServed ==
  ASSUME RingInv, NEW k \in Keys, NEW b \in Blocks, NEW f \in Frags, NEW A,
         NewData(k, b, f, A), b >= last_known_block
  PROVE  /\ last_known_block' = b /\ rx_ring_alloc' \in Nat
         /\ Found(b) # {} => /\ b = last_known_block /\ rx_ring_alloc > 0
                             /\ Place(b) = rx_ring_alloc - 1 /\ Overridden(b) = 0
                             /\ Target(b) = EntryAt(rx_ring_alloc - 1)
         /\ Found(b) = {} => b > last_known_block
         /\ Finishes(b, f) => rx_ring_alloc' = 0
         /\ ~Finishes(b, f) => /\ rx_ring_alloc' > 0
                               /\ EntryAt(rx_ring_alloc - 1)' = NewEntry(b, f)
                               /\ rx_ring_alloc' = 1 <=> Place(b) = Overridden(b)
<1>1. /\ ~AlreadyProcessed(b)
      /\ rx_ring_alloc' = rx_ring_alloc + NewBlocks(b) - Removed(b, f)
      /\ last_known_block' = IF Found(b) = {} THEN b ELSE last_known_block
  BY DEF NewData
<1>2. /\ last_known_block \in Int /\ rx_ring_alloc \in Nat /\ b \in Nat
  BY DEF RingInv, RingTypeOK, Blocks
<1>3. /\ NewBlocks(b) \in Nat /\ Overridden(b) \in 0..rx_ring_alloc
      /\ Place(b) \in Overridden(b)..(rx_ring_alloc + NewBlocks(b) - 1)
  BY <1>1, PlaceFacts
<1>4. ASSUME Found(b) # {}
      PROVE  /\ b = last_known_block /\ rx_ring_alloc > 0
             /\ Place(b) = rx_ring_alloc - 1 /\ Overridden(b) = 0
             /\ Target(b) = EntryAt(rx_ring_alloc - 1)
  <2>1. /\ rx_ring_alloc > 0 /\ b <= last_known_block /\ NewBlocks(b) = 0 /\ Overridden(b) = 0
        /\ b = last_known_block - (rx_ring_alloc - 1) + Place(b)
    BY <1>1, <1>4, PlaceFacts, FoundFacts
  <2>2. b = last_known_block /\ Place(b) = rx_ring_alloc - 1
    BY <1>2, <1>3, <2>1
  <2>3. Target(b) = EntryAt(rx_ring_alloc - 1)
    BY <1>4, <2>2 DEF Target
  <2> QED  BY <2>1, <2>2, <2>3
<1>5. Found(b) = {} => b > last_known_block
  BY <1>1, <1>2, PlaceFacts
<1>6. Place(b) = rx_ring_alloc + NewBlocks(b) - 1
  <2>1. Found(b) # {} => NewBlocks(b) = 0
    BY <1>1, PlaceFacts
  <2>2. Found(b) = {} => Place(b) = rx_ring_alloc + NewBlocks(b) - 1
    BY <1>1, PlaceFacts
  <2> QED  BY <1>2, <1>3, <1>4, <2>1, <2>2
<1>7. last_known_block' = b
  BY <1>1, <1>4, <1>5
<1>8. Finishes(b, f) => rx_ring_alloc' = 0
  BY <1>1, <1>2, <1>3, <1>6, RemovedFacts
<1>9. ASSUME ~Finishes(b, f)
      PROVE  /\ rx_ring_alloc' > 0
             /\ EntryAt(rx_ring_alloc - 1)' = NewEntry(b, f)
             /\ rx_ring_alloc' = 1 <=> Place(b) = Overridden(b)
  <2>1. Removed(b, f) = Overridden(b)
    BY <1>1, <1>9, RemovedFacts
  <2>2. rx_ring_alloc' = Place(b) + 1 - Overridden(b) /\ rx_ring_alloc' \in Nat \ {0}
    BY <1>1, <1>2, <1>3, <1>6, <2>1
  <2>3. PICK j : j = rx_ring_alloc' - 1 /\ j \in 0..(rx_ring_alloc' - 1)
    BY <2>2
  <2>4. Removed(b, f) + j = Place(b)
    BY <1>3, <2>1, <2>2, <2>3
  <2>5. EntryAfter(j) = NewEntry(b, f)
    BY <2>3, <2>4, Survivors
  <2>6. EntryAt(rx_ring_alloc - 1)' = EntryAfter(j)
    BY <2>3 DEF EntryAt, SlotAt, EntryAfter
  <2> QED  BY <1>3, <2>2, <2>5, <2>6
<1>10. rx_ring_alloc' \in Nat
  BY <1>1, <1>2, RemovedFacts
<1> QED  BY <1>4, <1>5, <1>7, <1>8, <1>9, <1>10

\* A new block has to wait only behind one that is not finished, or never came.
LEMMA WaitsBehind ==
  ASSUME RingInv, NEW b \in Blocks, ~AlreadyProcessed(b), Found(b) = {},
         Place(b) # Overridden(b)
  PROVE  /\ last_known_block # -1 /\ b # 0
         /\ b - 1 > last_known_block \/ (b - 1 = last_known_block /\ rx_ring_alloc > 0)
<1>1. /\ last_known_block \in -1..MaxBlock /\ rx_ring_alloc \in Nat /\ b \in Nat
      /\ rx_ring_alloc > 0 => last_known_block # -1
  BY DEF RingInv, RingTypeOK, RingWindow, Blocks
<1>2. /\ NewBlocks(b) \in Nat /\ Overridden(b) \in 0..rx_ring_alloc
      /\ Place(b) = rx_ring_alloc + NewBlocks(b) - 1 /\ last_known_block < b
  BY PlaceFacts
<1>3. NewBlocks(b) = IF last_known_block = -1 THEN 1
                     ELSE IF b - last_known_block < RingSize THEN b - last_known_block
                     ELSE RingSize
  BY DEF NewBlocks
<1>4. rx_ring_alloc > 0 \/ NewBlocks(b) # 1
  BY <1>1, <1>2
<1> QED  BY <1>1, <1>2, <1>3, <1>4
=============================================================================
