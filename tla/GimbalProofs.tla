---------------------------- MODULE GimbalProofs ----------------------------
(***************************************************************************)
(* Proofs about GimbalLink and Gimbal, for any lines, reads and losses of  *)
(* the connection and all values of all fields and channels:               *)
(*                                                                         *)
(*   sums and joined sequences; the line as segments of the stream;        *)
(*   one step of the parser, and its loop;                                 *)
(*   what pack writes is what decode reads         RoundTrip               *)
(*   what is handed over was sent                  HandedAsSent            *)
(*   good frames are all handed over               NoneLeftBehind          *)
(*   the controller                                NeverAdrift ...         *)
(*   the connection implements the controller      LinkDrivesGimbal        *)
(***************************************************************************)
EXTENDS GimbalLink, WellFoundedInduction, FiniteSetTheorems, TLAPS

-----------------------------------------------------------------------------
(***************************************************************************)
(* Sums and joined sequences.  That the recursive functions exist and what *)
(* they are follows by taking the least place where they do not.           *)
(***************************************************************************)
LEMMA LeastOf ==
  ASSUME NEW S, S # {}, S \subseteq Nat
  PROVE  \E m \in S : \A y \in S : m <= y
<1>1. PICK m \in S : \A y \in S : <<y, m>> \notin OpToRel(<, Nat)
  BY WFMin, NatLessThanWellFounded
<1>2. ASSUME NEW y \in S, y < m PROVE FALSE
  <2>1. <<y, m>> \in Nat \X Nat /\ <<y, m>>[1] < <<y, m>>[2]
    BY <1>2
  <2>2. <<y, m>> \in OpToRel(<, Nat)
    BY <2>1 DEF OpToRel
  <2> QED  BY <1>1, <2>2
<1>3. \A y \in S : m <= y
  BY <1>2
<1> QED  BY <1>3

\* The recursive function of Upto is one.
LEMMA UptoExists ==
  ASSUME NEW s, NEW n \in Nat
  PROVE  \E g : g = [i \in 0 .. n |-> IF i = 0 THEN 0 ELSE g[i - 1] + s[i]]
<1> DEFINE Step(g, i) == IF i = 0 THEN 0 ELSE g[i - 1] + s[i]
           Good(m) == \E g : g = [i \in 0 .. m |-> Step(g, i)]
           T == {m \in Nat : ~Good(m)}
<1>1. SUFFICES ASSUME T # {} PROVE FALSE
  OBVIOUS
<1>2. PICK m \in T : \A l \in T : m <= l
  BY <1>1, LeastOf
<1>3. m \in Nat /\ m # 0
  <2> DEFINE g == [i \in 0 .. 0 |-> 0]
  <2>1. g = [i \in 0 .. 0 |-> Step(g, i)]
    OBVIOUS
  <2>2. Good(0)
    BY <2>1
  <2> QED  BY <2>2
<1>4. PICK g : g = [i \in 0 .. (m - 1) |-> Step(g, i)]
  <2>1. m - 1 \in Nat /\ ~(m <= m - 1)
    BY <1>3
  <2>2. m - 1 \notin T
    <3> HIDE DEF T
    <3> QED  BY <1>2, <2>1
  <2>3. Good(m - 1)
    <3> HIDE DEF Good
    <3> QED  BY <2>1, <2>2 DEF T
  <2> QED  BY <2>3
<1> DEFINE h == [i \in 0 .. m |-> Step(g, i)]
<1>5. ASSUME NEW i \in 0 .. m PROVE Step(g, i) = Step(h, i)
  <2>1. CASE i = 0
    BY <2>1
  <2>2. CASE i # 0
    <3>1. i - 1 \in 0 .. (m - 1) /\ i - 1 \in 0 .. m
      BY <1>3, <2>2
    <3>2. g[i - 1] = Step(g, i - 1)
      BY <1>4, <3>1
    <3>3. h[i - 1] = Step(g, i - 1)
      BY <3>1
    <3> HIDE DEF h
    <3> QED  BY <2>2, <3>2, <3>3
  <2> QED  BY <2>1, <2>2
<1>6. h = [i \in 0 .. m |-> Step(h, i)]
  <2>1. \A i \in 0 .. m : Step(g, i) = Step(h, i)
    BY <1>5
  <2>2. h = [i \in 0 .. m |-> Step(g, i)]
    OBVIOUS
  <2> HIDE DEF h, Step
  <2> QED  BY <2>1, <2>2
<1>7. Good(m)
  <2> HIDE DEF h
  <2> QED  BY <1>6
<1> QED  BY <1>7

\* A sum is the one before it and the next number.
LEMMA UptoIs ==
  ASSUME NEW s
  PROVE  /\ Upto(s, 0) = 0
         /\ \A n \in Nat : Upto(s, n + 1) = Upto(s, n) + s[n + 1]
<1> DEFINE sum(n) == CHOOSE g : g = [i \in 0 .. n |-> IF i = 0 THEN 0 ELSE g[i - 1] + s[i]]
<1>1. \A n \in Nat : sum(n) = [i \in 0 .. n |-> IF i = 0 THEN 0 ELSE sum(n)[i - 1] + s[i]]
  BY UptoExists
<1>2. \A n \in Nat : Upto(s, n) = sum(n)[n]
  BY DEF Upto
<1> HIDE DEF sum
<1>3. ASSUME NEW n \in Nat, NEW i \in 0 .. n
      PROVE  sum(n)[i] = IF i = 0 THEN 0 ELSE sum(n)[i - 1] + s[i]
  BY <1>1
<1>4. ASSUME NEW n \in Nat, NEW l \in Nat, NEW i \in Nat, i <= n, i <= l
      PROVE  sum(n)[i] = sum(l)[i]
  <2> DEFINE T == {m \in Nat : m <= n /\ m <= l /\ sum(n)[m] # sum(l)[m]}
  <2>1. ASSUME T # {} PROVE FALSE
    <3>1. PICK m \in T : \A k \in T : m <= k
      BY <2>1, LeastOf
    <3>2. m \in 0 .. n /\ m \in 0 .. l
      OBVIOUS
    <3>3. m # 0
      BY <1>3, <3>2
    <3>4. m - 1 \in Nat /\ m - 1 \notin T
      BY <3>1, <3>3
    <3>5. sum(n)[m - 1] = sum(l)[m - 1]
      BY <3>4
    <3> QED  BY <1>3, <3>2, <3>5
  <2> QED  BY <1>4, <2>1
<1>5. ASSUME NEW n \in Nat PROVE Upto(s, n + 1) = Upto(s, n) + s[n + 1]
  <2>1. n + 1 \in Nat /\ n + 1 \in 0 .. n + 1 /\ n + 1 # 0 /\ (n + 1) - 1 = n
    OBVIOUS
  <2>2. sum(n + 1)[n + 1] = sum(n + 1)[n] + s[n + 1]
    BY <1>3, <2>1
  <2>3. sum(n + 1)[n] = sum(n)[n]
    BY <1>4, <2>1
  <2> QED  BY <1>2, <2>1, <2>2, <2>3
<1>6. Upto(s, 0) = 0
  BY <1>2, <1>3
<1> QED  BY <1>5, <1>6

\* The first sum is the first number.
LEMMA FirstOfSum ==
  ASSUME NEW s
  PROVE  Upto(s, 0) = 0 /\ Upto(s, 1) = Upto(s, 0) + s[1]
<1>1. PICK z \in Nat : z = 0
  OBVIOUS
<1>2. Upto(s, z + 1) = Upto(s, z) + s[z + 1]
  BY UptoIs, Zenon
<1>3. z + 1 = 1
  BY <1>1
<1> QED  BY <1>1, <1>2, <1>3, UptoIs

\* Sums of natural numbers: they are natural numbers and grow.
LEMMA UptoNat ==
  ASSUME NEW s, NEW N \in Nat, \A i \in 1 .. N : s[i] \in Nat, NEW n \in 0 .. N
  PROVE  Upto(s, n) \in Nat
<1> DEFINE T == {m \in Nat : m <= N /\ Upto(s, m) \notin Nat}
<1>1. ASSUME T # {} PROVE FALSE
  <2>1. PICK m \in T : \A l \in T : m <= l
    BY <1>1, LeastOf
  <2>2. m # 0
    BY UptoIs
  <2>3. m \in 1 .. N /\ m - 1 \in Nat /\ m - 1 \notin T /\ (m - 1) + 1 = m
    BY <2>1, <2>2
  <2>4. Upto(s, m - 1) \in Nat /\ s[m] \in Nat
    BY <2>3
  <2>5. Upto(s, m) = Upto(s, m - 1) + s[m]
    BY <2>3, UptoIs
  <2> QED  BY <2>4, <2>5
<1> QED  BY <1>1

\* Sums of naturals grow.
LEMMA UptoGrows ==
  ASSUME NEW s, NEW N \in Nat, \A i \in 1 .. N : s[i] \in Nat,
         NEW n \in 0 .. N, NEW l \in 0 .. N, l <= n
  PROVE  Upto(s, l) <= Upto(s, n)
<1> DEFINE T == {m \in Nat : l <= m /\ m <= N /\ ~(Upto(s, l) <= Upto(s, m))}
<1>1. ASSUME T # {} PROVE FALSE
  <2>1. PICK m \in T : \A k \in T : m <= k
    BY <1>1, LeastOf
  <2>2. m # l
    BY UptoNat
  <2>3. m \in 1 .. N /\ m - 1 \in Nat /\ m - 1 \notin T /\ (m - 1) + 1 = m /\ l <= m - 1
    BY <2>1, <2>2
  <2>4. Upto(s, l) <= Upto(s, m - 1) /\ s[m] \in Nat
    BY <2>3
  <2>5. Upto(s, m) = Upto(s, m - 1) + s[m]
    BY <2>3, UptoIs
  <2>6. Upto(s, l) \in Nat /\ Upto(s, m - 1) \in Nat
    BY <2>3, UptoNat
  <2> HIDE DEF T
  <2>7. Upto(s, l) <= Upto(s, m)
    BY <2>4, <2>5, <2>6
  <2> QED  BY <2>7 DEF T
<1> QED  BY <1>1

\* A place in what is added up belongs to one of the numbers.
LEMMA UptoCovers ==
  ASSUME NEW s, NEW N \in Nat, \A i \in 1 .. N : s[i] \in Nat,
         NEW x \in Nat, x < Upto(s, N)
  PROVE  \E k \in 1 .. N : Upto(s, k - 1) <= x /\ x < Upto(s, k)
<1> DEFINE T == {m \in Nat : m <= N /\ x < Upto(s, m)}
<1>1. T # {} /\ T \subseteq Nat
  OBVIOUS
<1>2. PICK m \in T : \A k \in T : m <= k
  BY <1>1, LeastOf
<1>3. m # 0
  BY UptoIs
<1>4. m \in 1 .. N /\ m - 1 \in Nat /\ m - 1 \notin T /\ m - 1 \in 0 .. N
  BY <1>2, <1>3
<1>5. Upto(s, m - 1) \in Nat
  BY <1>4, UptoNat
<1> QED  BY <1>2, <1>4, <1>5

-----------------------------------------------------------------------------
\* The recursive function by which FlattenSeq joins sequences exists.
LEMMA FlattenExists ==
  ASSUME NEW ss, NEW n \in Nat
  PROVE  \E g : g = [i \in 1 .. n |-> IF i = 1 THEN ss[i] ELSE g[i - 1] \o ss[i]]
<1> DEFINE Step(g, i) == IF i = 1 THEN ss[i] ELSE g[i - 1] \o ss[i]
           Good(m) == \E g : g = [i \in 1 .. m |-> Step(g, i)]
           T == {m \in Nat : ~Good(m)}
<1>1. SUFFICES ASSUME T # {} PROVE FALSE
  OBVIOUS
<1>2. PICK m \in T : \A l \in T : m <= l
  BY <1>1, LeastOf
<1>3. m \in Nat /\ m # 0
  <2> DEFINE g == [i \in 1 .. 0 |-> 0]
  <2>1. g = [i \in 1 .. 0 |-> Step(g, i)]
    OBVIOUS
  <2>2. Good(0)
    BY <2>1
  <2> QED  BY <2>2
<1>4. PICK g : g = [i \in 1 .. (m - 1) |-> Step(g, i)]
  <2>1. m - 1 \in Nat /\ ~(m <= m - 1)
    BY <1>3
  <2>2. m - 1 \notin T
    <3> HIDE DEF T
    <3> QED  BY <1>2, <2>1
  <2>3. Good(m - 1)
    <3> HIDE DEF Good
    <3> QED  BY <2>1, <2>2 DEF T
  <2> QED  BY <2>3
<1> DEFINE h == [i \in 1 .. m |-> Step(g, i)]
<1>5. ASSUME NEW i \in 1 .. m PROVE Step(g, i) = Step(h, i)
  <2>1. CASE i = 1
    BY <2>1
  <2>2. CASE i # 1
    <3>1. i - 1 \in 1 .. (m - 1) /\ i - 1 \in 1 .. m
      BY <1>3, <2>2
    <3>2. g[i - 1] = Step(g, i - 1)
      BY <1>4, <3>1
    <3>3. h[i - 1] = Step(g, i - 1)
      BY <3>1
    <3> HIDE DEF h
    <3> QED  BY <2>2, <3>2, <3>3
  <2> QED  BY <2>1, <2>2
<1>6. h = [i \in 1 .. m |-> Step(h, i)]
  <2>1. \A i \in 1 .. m : Step(g, i) = Step(h, i)
    BY <1>5
  <2>2. h = [i \in 1 .. m |-> Step(g, i)]
    OBVIOUS
  <2> HIDE DEF h, Step
  <2> QED  BY <2>1, <2>2
<1>7. Good(m)
  <2> HIDE DEF h
  <2> QED  BY <1>6
<1> QED  BY <1>7

\* What a joined sequence holds.
LEMMA ConcatIs ==
  ASSUME NEW T, NEW a \in Seq(T), NEW b \in Seq(T)
  PROVE  /\ a \o b \in Seq(T) /\ Len(a \o b) = Len(a) + Len(b)
         /\ Len(a) \in Nat /\ Len(b) \in Nat
         /\ \A i \in 1 .. Len(a) : (a \o b)[i] = a[i]
         /\ \A i \in 1 .. Len(b) : (a \o b)[Len(a) + i] = b[i]
OBVIOUS

Lengths(ss) == [i \in DOMAIN ss |-> Len(ss[i])]

\* The lengths of sequences are naturals.
LEMMA LengthsAre ==
  ASSUME NEW T, NEW ss \in Seq(Seq(T))
  PROVE  /\ Len(ss) \in Nat /\ DOMAIN ss = 1 .. Len(ss)
         /\ \A i \in 1 .. Len(ss) : ss[i] \in Seq(T)
         /\ \A i \in 1 .. Len(ss) : Lengths(ss)[i] = Len(ss[i])
         /\ \A i \in 1 .. Len(ss) : Lengths(ss)[i] \in Nat
BY DEF Lengths

\* Flattening joins the sequences one behind the other: each begins where those before it end.
LEMMA FlattenIs ==
  ASSUME NEW T, NEW ss \in Seq(Seq(T))
  PROVE  /\ FlattenSeq(ss) \in Seq(T)
         /\ Len(FlattenSeq(ss)) = Upto(Lengths(ss), Len(ss))
         /\ \A k \in 1 .. Len(ss) : \A j \in 1 .. Len(ss[k]) :
              FlattenSeq(ss)[Upto(Lengths(ss), k - 1) + j] = ss[k][j]
<1> DEFINE lens == Lengths(ss)
           N    == Len(ss)
           flatten == CHOOSE g : g = [i \in 1 .. N |-> IF i = 1 THEN ss[i] ELSE g[i - 1] \o ss[i]]
           Joins(n) == /\ flatten[n] \in Seq(T)
                       /\ Len(flatten[n]) = Upto(lens, n)
                       /\ \A k \in 1 .. n : \A j \in 1 .. Len(ss[k]) :
                            flatten[n][Upto(lens, k - 1) + j] = ss[k][j]
           B == {m \in Nat : m \in 1 .. N /\ ~Joins(m)}
<1>1. /\ N \in Nat /\ DOMAIN ss = 1 .. N
      /\ \A i \in 1 .. N : ss[i] \in Seq(T)
      /\ \A i \in 1 .. N : lens[i] = Len(ss[i])
      /\ \A i \in 1 .. N : lens[i] \in Nat
  BY LengthsAre
<1>2. flatten = [i \in 1 .. N |-> IF i = 1 THEN ss[i] ELSE flatten[i - 1] \o ss[i]]
  BY <1>1, FlattenExists
<1>3. FlattenSeq(ss) = IF N = 0 THEN ss ELSE flatten[N]
  BY DEF FlattenSeq
<1> HIDE DEF flatten, lens, N
<1>4. ASSUME NEW i \in 1 .. N
      PROVE  flatten[i] = IF i = 1 THEN ss[i] ELSE flatten[i - 1] \o ss[i]
  BY <1>2
<1>5. ASSUME B # {} PROVE FALSE
  <2>1. PICK m \in B : \A l \in B : m <= l
    <3>1. B \subseteq Nat
      OBVIOUS
    <3> QED  BY <1>5, <3>1, LeastOf
  <2>2. m \in 1 .. N /\ m \in Nat
    OBVIOUS
  <2>3. m # 1
    <3>1. SUFFICES ASSUME m = 1 PROVE Joins(m)
      OBVIOUS
    <3>2. flatten[1] = ss[1] /\ 1 \in 1 .. N /\ ss[1] \in Seq(T)
      BY <1>1, <1>4, <2>2, <3>1
    <3>3. Upto(lens, 0) = 0 /\ Upto(lens, 1) = Upto(lens, 0) + lens[1]
      BY FirstOfSum, Zenon
    <3>4. Upto(lens, 1) = Len(ss[1]) /\ Len(ss[1]) \in Nat
      BY <1>1, <3>2, <3>3
    <3>5. \A k \in 1 .. 1 : k = 1 /\ k - 1 = 0
      OBVIOUS
    <3>6. \A j \in 1 .. Len(ss[1]) : Upto(lens, 0) + j = j
      BY <3>3
    <3> QED  BY <3>1, <3>2, <3>3, <3>4, <3>5, <3>6
  <2>4. m - 1 \in 1 .. N /\ m - 1 \in Nat /\ (m - 1) + 1 = m /\ ~(m <= m - 1)
    BY <2>2, <2>3, <1>1
  <2>5. Joins(m - 1)
    BY <2>1, <2>4
  <2>6. flatten[m] = flatten[m - 1] \o ss[m] /\ ss[m] \in Seq(T) /\ lens[m] = Len(ss[m])
    BY <1>1, <1>4, <2>2, <2>3
  <2>7. flatten[m] \in Seq(T) /\ Len(flatten[m]) = Len(flatten[m - 1]) + Len(ss[m])
    <3>1. flatten[m - 1] \in Seq(T)
      BY <2>5
    <3> QED  BY <2>6, <3>1, ConcatIs
  <2>8. Upto(lens, m) = Upto(lens, m - 1) + lens[m]
    BY <2>4, UptoIs
  <2>9. Len(flatten[m]) = Upto(lens, m)
    BY <2>5, <2>6, <2>7, <2>8
  <2>10. ASSUME NEW k \in 1 .. m, NEW j \in 1 .. Len(ss[k])
         PROVE  flatten[m][Upto(lens, k - 1) + j] = ss[k][j]
    <3>1. k \in 1 .. N /\ k - 1 \in 0 .. N /\ ss[k] \in Seq(T) /\ Len(ss[k]) \in Nat
      BY <1>1, <2>2
    <3>2. Upto(lens, k - 1) \in Nat
      BY <1>1, <3>1, UptoNat
    <3>3. CASE k = m
      <4>1. Upto(lens, k - 1) + j \in (Len(flatten[m - 1]) + 1) .. Len(flatten[m])
        BY <2>5, <2>6, <2>8, <2>9, <3>1, <3>2, <3>3
      <4> QED  BY <2>5, <2>6, <3>1, <3>2, <3>3, <4>1, SMTT(60)
    <3>4. CASE k # m
      <4>1. k \in 1 .. m - 1 /\ k \in 0 .. N /\ m - 1 \in 0 .. N /\ k <= m - 1 /\ (k - 1) + 1 = k
            /\ k - 1 \in Nat
        BY <2>2, <3>1, <3>4, <1>1
      <4>2. Upto(lens, k) <= Upto(lens, m - 1)
        BY <1>1, <4>1, UptoGrows
      <4>3. Upto(lens, k) = Upto(lens, k - 1) + Len(ss[k])
        <5>1. Upto(lens, (k - 1) + 1) = Upto(lens, k - 1) + lens[(k - 1) + 1]
          BY <4>1, UptoIs
        <5> QED  BY <1>1, <3>1, <4>1, <5>1
      <4>4. Upto(lens, k - 1) + j \in 1 .. Len(flatten[m - 1])
        <5>1. Len(flatten[m - 1]) \in Nat
          BY <2>5
        <5>2. Len(flatten[m - 1]) = Upto(lens, m - 1)
          BY <2>5
        <5> QED  BY <3>1, <3>2, <4>2, <4>3, <5>1, <5>2, SMTT(60)
      <4>5. flatten[m - 1][Upto(lens, k - 1) + j] = ss[k][j]
        BY <2>5, <4>1
      <4>6. flatten[m][Upto(lens, k - 1) + j] = flatten[m - 1][Upto(lens, k - 1) + j]
        <5>1. flatten[m - 1] \in Seq(T)
          BY <2>5
        <5> QED  BY <2>6, <4>4, <5>1, ConcatIs
      <4> QED  BY <4>5, <4>6
    <3> QED  BY <3>3, <3>4
  <2>11. Joins(m)
    BY <2>7, <2>9, <2>10
  <2> QED  BY <2>11
<1>6. CASE N = 0
  <2>1. ss = <<>> /\ FlattenSeq(ss) = ss
    BY <1>3, <1>6 DEF N
  <2>2. Upto(lens, 0) = 0
    BY UptoIs
  <2>3. ss \in Seq(T) /\ Len(ss) = 0
    BY <2>1
  <2>4. Len(FlattenSeq(ss)) = Upto(Lengths(ss), Len(ss))
    BY <2>1, <2>2, <2>3 DEF lens
  <2>5. Len(ss) = 0 /\ \A k \in 1 .. Len(ss) : FALSE
    BY <2>1
  <2>6. FlattenSeq(ss) \in Seq(T)
    BY <2>1, <2>3
  <2> HIDE DEF Joins, B
  <2> QED  BY <2>4, <2>5, <2>6
<1>7. CASE N # 0
  <2>1. N \in 1 .. N
    BY <1>1, <1>7
  <2>2. Joins(N)
    BY <1>5, <2>1
  <2>3. FlattenSeq(ss) = flatten[N]
    BY <1>3, <1>7
  <2> QED  BY <2>2, <2>3 DEF lens, N
<1> QED  BY <1>6, <1>7

-----------------------------------------------------------------------------
(***************************************************************************)
(* The line: where its segments stand in the stream.                       *)
(***************************************************************************)
Segments == [s \in DOMAIN line |-> line[s].bytes]
LineInv == line \in Lines /\ stream = FlattenSeq(Segments)

\* The segments lie behind one another on the stream.
LEMMA LineIs ==
  ASSUME LineInv
  PROVE  /\ Len(line) \in Nat /\ DOMAIN line = 1 .. Len(line)
         /\ stream \in Bytes
         /\ \A s \in DOMAIN line : line[s].bytes \in Bytes /\ Len(line[s].bytes) \in Nat \ {0}
         /\ Start(1) = 0 /\ Start(Len(line) + 1) = Len(stream)
         /\ \A s \in DOMAIN line : Start(s + 1) = Start(s) + Len(line[s].bytes)
         /\ \A s \in 1 .. Len(line) + 1 : Start(s) \in Nat
         /\ \A s, t \in 1 .. Len(line) + 1 : s <= t => Start(s) <= Start(t)
         /\ \A s \in DOMAIN line : \A j \in 1 .. Len(line[s].bytes) :
              stream[Start(s) + j] = line[s].bytes[j]
<1> DEFINE N == Len(line)
           lens == [n \in DOMAIN line |-> Len(line[n].bytes)]
<1>1. N \in Nat /\ DOMAIN line = 1 .. N
  BY LineAssumption DEF LineInv
<1>2. \A s \in 1 .. N : line[s].bytes \in Bytes /\ Len(line[s].bytes) \in Nat \ {0}
  <2> SUFFICES ASSUME NEW s \in 1 .. N
               PROVE  line[s].bytes \in Bytes /\ Len(line[s].bytes) \in Nat \ {0}
    OBVIOUS
  <2>1. line[s].bytes \in Seq(0 .. 255) /\ line[s].bytes # <<>>
    BY <1>1, LineAssumption DEF LineInv, Bytes
  <2> QED  BY <2>1 DEF Bytes
<1>3. Segments \in Seq(Seq(0 .. 255)) /\ Len(Segments) = N
  BY <1>1, <1>2 DEF Segments, Bytes
<1>4. Lengths(Segments) = lens
  BY <1>1, <1>3 DEF Segments, Lengths
<1>5. \A s \in 1 .. N : Segments[s] = line[s].bytes
  BY <1>1 DEF Segments
<1>6. \A s : Start(s) = Upto(lens, s - 1)
  BY DEF Start
<1>7. \A i \in 1 .. N : lens[i] \in Nat /\ lens[i] = Len(line[i].bytes)
  BY <1>1, <1>2
<1> HIDE DEF lens, N
<1>8. stream \in Bytes /\ Len(stream) = Upto(lens, N)
  BY <1>3, <1>4, FlattenIs DEF LineInv, Bytes
<1>9. \A s \in 1 .. N : \A j \in 1 .. Len(line[s].bytes) :
        stream[Upto(lens, s - 1) + j] = line[s].bytes[j]
  <2> SUFFICES ASSUME NEW s \in 1 .. N, NEW j \in 1 .. Len(line[s].bytes)
               PROVE  stream[Upto(lens, s - 1) + j] = line[s].bytes[j]
    OBVIOUS
  <2>1. \A k \in 1 .. N : \A i \in 1 .. Len(Segments[k]) :
          FlattenSeq(Segments)[Upto(lens, k - 1) + i] = Segments[k][i]
    <3>1. \A k \in 1 .. Len(Segments) : \A i \in 1 .. Len(Segments[k]) :
            FlattenSeq(Segments)[Upto(Lengths(Segments), k - 1) + i] = Segments[k][i]
      BY <1>3, FlattenIs, Zenon
    <3> QED  BY <1>3, <1>4, <3>1, Zenon
  <2>2. Segments[s] = line[s].bytes /\ stream = FlattenSeq(Segments)
    BY <1>5 DEF LineInv
  <2> QED  BY <2>1, <2>2
<1>10. Start(1) = 0 /\ Start(N + 1) = Len(stream)
  <2>1. 1 - 1 = 0 /\ (N + 1) - 1 = N
    BY <1>1
  <2>2. Start(1) = Upto(lens, 0) /\ Start(N + 1) = Upto(lens, N)
    BY <1>6, <2>1
  <2> QED  BY <1>8, <2>2, UptoIs
<1>11. \A s \in 1 .. N : Start(s + 1) = Start(s) + Len(line[s].bytes)
  <2> SUFFICES ASSUME NEW s \in 1 .. N PROVE Start(s + 1) = Start(s) + Len(line[s].bytes)
    OBVIOUS
  <2>1. s - 1 \in Nat /\ (s - 1) + 1 = s /\ (s + 1) - 1 = s
    BY <1>1
  <2>2. Upto(lens, (s - 1) + 1) = Upto(lens, s - 1) + lens[(s - 1) + 1]
    BY <2>1, UptoIs
  <2>3. Start(s + 1) = Upto(lens, (s + 1) - 1)
    BY <1>6
  <2> QED  BY <1>6, <1>7, <2>1, <2>2, <2>3
<1>12. \A s \in 1 .. N + 1 : Start(s) \in Nat
  <2> SUFFICES ASSUME NEW s \in 1 .. N + 1 PROVE Start(s) \in Nat
    OBVIOUS
  <2>1. s - 1 \in 0 .. N
    BY <1>1
  <2> QED  BY <1>1, <1>6, <1>7, <2>1, UptoNat
<1>13. \A s, t \in 1 .. N + 1 : s <= t => Start(s) <= Start(t)
  <2> SUFFICES ASSUME NEW s \in 1 .. N + 1, NEW t \in 1 .. N + 1, s <= t
               PROVE  Start(s) <= Start(t)
    OBVIOUS
  <2>1. s - 1 \in 0 .. N /\ t - 1 \in 0 .. N /\ s - 1 <= t - 1
    BY <1>1
  <2>2. Upto(lens, s - 1) <= Upto(lens, t - 1)
    BY <1>1, <1>7, <2>1, UptoGrows
  <2> QED  BY <1>6, <2>2
<1>14. \A s \in 1 .. N : \A j \in 1 .. Len(line[s].bytes) : stream[Start(s) + j] = line[s].bytes[j]
  BY <1>6, <1>9
<1> QED  BY <1>1, <1>2, <1>8, <1>10, <1>11, <1>12, <1>13, <1>14 DEF N

\* Every place before the end of the stream is in one segment.
LEMMA InSegment ==
  ASSUME LineInv, NEW c \in Nat, c < Len(stream)
  PROVE  \E s \in DOMAIN line :
           /\ Start(s) <= c /\ c < Start(s + 1)
           /\ \A t \in DOMAIN line : Start(t) <= c /\ c < Start(t + 1) => t = s
<1>1. /\ Len(line) \in Nat /\ DOMAIN line = 1 .. Len(line)
      /\ Start(1) = 0 /\ Start(Len(line) + 1) = Len(stream)
      /\ \A s \in 1 .. Len(line) + 1 : Start(s) \in Nat
      /\ \A s, t \in 1 .. Len(line) + 1 : s <= t => Start(s) <= Start(t)
  BY LineIs
<1> DEFINE T == {m \in Nat : m \in 1 .. Len(line) + 1 /\ c < Start(m)}
<1>2. T # {} /\ T \subseteq Nat
  <2>1. Len(line) + 1 \in Nat /\ Len(line) + 1 \in 1 .. Len(line) + 1
    BY <1>1
  <2>2. Len(line) + 1 \in T
    BY <1>1, <2>1
  <2> QED  BY <2>2
<1>3. PICK m \in T : \A k \in T : m <= k
  BY <1>2, LeastOf
<1>4. m # 1
  BY <1>1, <1>3
<1>5. m - 1 \in 1 .. Len(line) /\ m - 1 \in Nat /\ m - 1 \in 1 .. Len(line) + 1 /\ m - 1 \notin T
      /\ (m - 1) + 1 = m
  BY <1>1, <1>3, <1>4
<1>6. Start(m - 1) <= c /\ c < Start(m)
  BY <1>1, <1>5
<1>7. ASSUME NEW t \in DOMAIN line, Start(t) <= c, c < Start(t + 1) PROVE t = m - 1
  <2>1. t \in 1 .. Len(line) + 1 /\ t + 1 \in 1 .. Len(line) + 1 /\ m \in 1 .. Len(line) + 1
    BY <1>1
  <2>2. t + 1 \in T
    BY <1>7, <2>1
  <2>3. m <= t + 1
    BY <1>3, <2>2
  <2>4. ~(m <= t)
    <3>1. m <= t => Start(m) <= Start(t)
      BY <1>1, <2>1
    <3> QED  BY <1>1, <1>6, <1>7, <2>1, <3>1
  <2> QED  BY <2>1, <2>3, <2>4, <1>1
<1> QED  BY <1>1, <1>5, <1>6, <1>7

-----------------------------------------------------------------------------
(***************************************************************************)
(* One step of the parser. What it keeps is the stream up to q.            *)
(***************************************************************************)
Parser == [buf : Bytes, expected_length : Nat, have_prefix_error : BOOLEAN]
Rest(p, q) == q - Len(p.buf)
At(p, q) == /\ p \in Parser /\ p.expected_length >= 8
            /\ q \in Nat /\ Len(p.buf) <= q /\ q <= Len(stream)
            /\ \A i \in 1 .. Len(p.buf) : p.buf[i] = stream[Rest(p, q) + i]

\* What a parser that stands at q holds.
LEMMA AtFacts ==
  ASSUME NEW p, NEW q, At(p, q)
  PROVE  /\ p.buf \in Seq(0 .. 255) /\ Len(p.buf) \in Nat /\ p.expected_length \in Nat
         /\ p.expected_length >= 8 /\ q \in Nat /\ Rest(p, q) \in Nat /\ Len(p.buf) <= q
         /\ p \in Parser
<1>1. p \in Parser /\ q \in Nat /\ Len(p.buf) <= q
  BY DEF At
<1>2. p.buf \in Seq(0 .. 255) /\ p.expected_length \in Nat
  BY <1>1 DEF Parser, Bytes
<1> QED  BY <1>1, <1>2 DEF At, Rest, Parser

\* A new parser has read all that came before.
LEMMA NewParserAt ==
  ASSUME NEW q \in Nat, q <= Len(stream)
  PROVE  At(NewParser, q) /\ Rest(NewParser, q) = q
<1>1. <<>> \in Bytes /\ Len(<<>>) = 0 /\ \A i \in 1 .. Len(<<>>) : FALSE
  BY DEF Bytes
<1>2. NewParser \in Parser /\ NewParser.buf = <<>> /\ NewParser.expected_length = 8
  BY <1>1 DEF NewParser, Parser
<1> QED  BY <1>1, <1>2 DEF At, Rest

\* b is what is left of a without its first k elements.
Without(b, a, k) == /\ b \in Seq(0 .. 255) /\ k \in Nat /\ Len(b) = Len(a) - k
                    /\ \A i \in 1 .. Len(b) : b[i] = a[k + i]

\* What a part of a sequence holds.
LEMMA SubSeqIs ==
  ASSUME NEW T, NEW s \in Seq(T), NEW m \in Nat, NEW n \in Nat, m <= n, n <= Len(s)
  PROVE  /\ SubSeq(s, m + 1, n) \in Seq(T) /\ Len(SubSeq(s, m + 1, n)) = n - m
         /\ \A i \in 1 .. n - m : SubSeq(s, m + 1, n)[i] = s[m + i]
<1>1. \A i \in m + 1 .. n : i \in 1 .. Len(s) /\ s[i] \in T
  OBVIOUS
<1>2. SubSeq(s, m + 1, n) = [i \in 1 .. (n - m) |-> s[i + m]]
  OBVIOUS
<1>3. \A i \in 1 .. n - m : i + m \in m + 1 .. n /\ i + m = m + i
  OBVIOUS
<1> QED  BY <1>1, <1>2, <1>3

\* What is left when the first k entries are dropped.
LEMMA WithoutIs ==
  ASSUME NEW a \in Seq(0 .. 255)
  PROVE  /\ Without(a, a, 0)
         /\ a # <<>> => Without(Tail(a), a, 1)
         /\ \A k \in 0 .. Len(a) : Without(SubSeq(a, k + 1, Len(a)), a, k)
<1>1. Len(a) \in Nat
  OBVIOUS
<1>2. Without(a, a, 0)
  BY <1>1 DEF Without
<1>3. ASSUME a # <<>> PROVE Without(Tail(a), a, 1)
  <2>1. /\ Tail(a) \in Seq(0 .. 255) /\ Len(Tail(a)) = Len(a) - 1
        /\ \A i \in 1 .. Len(Tail(a)) : Tail(a)[i] = a[i + 1]
    BY <1>3
  <2>2. \A i \in 1 .. Len(Tail(a)) : i + 1 = 1 + i
    OBVIOUS
  <2> QED  BY <2>1, <2>2 DEF Without
<1>4. ASSUME NEW k \in 0 .. Len(a) PROVE Without(SubSeq(a, k + 1, Len(a)), a, k)
  <2>1. k \in Nat /\ k <= Len(a)
    BY <1>1
  <2>2. PICK b : b = SubSeq(a, k + 1, Len(a))
    OBVIOUS
  <2>3. b \in Seq(0 .. 255) /\ Len(b) = Len(a) - k /\ \A i \in 1 .. Len(a) - k : b[i] = a[k + i]
    <3>1. Len(a) <= Len(a)
      BY <1>1
    <3>2. /\ SubSeq(a, k + 1, Len(a)) \in Seq(0 .. 255)
          /\ Len(SubSeq(a, k + 1, Len(a))) = Len(a) - k
          /\ \A i \in 1 .. Len(a) - k : SubSeq(a, k + 1, Len(a))[i] = a[k + i]
      BY <1>1, <2>1, <3>1, SubSeqIs, ZenonT(60)
    <3> QED  BY <2>2, <3>2, Zenon
  <2>4. Without(b, a, k)
    BY <2>1, <2>3 DEF Without
  <2> QED  BY <2>2, <2>4
<1> QED  BY <1>2, <1>3, <1>4

\* An entry of a sequence is in its set.
LEMMA ElementIs == ASSUME NEW T, NEW s \in Seq(T), NEW i \in 1 .. Len(s) PROVE s[i] \in T
OBVIOUS

\* Bytes may go from the head of the buffer.
LEMMA DropAt ==
  ASSUME NEW p, NEW q, At(p, q), NEW k, NEW r \in Parser, r.expected_length >= 8,
         Without(r.buf, p.buf, k)
  PROVE  At(r, q) /\ Rest(r, q) = Rest(p, q) + k
<1> DEFINE b == r.buf
<1>1. /\ p.buf \in Seq(0 .. 255) /\ Len(p.buf) \in Nat /\ q \in Nat /\ Len(p.buf) <= q
      /\ q <= Len(stream)
  BY AtFacts DEF At
<1>2. /\ b \in Seq(0 .. 255) /\ k \in Nat /\ Len(b) = Len(p.buf) - k
      /\ \A i \in 1 .. Len(b) : b[i] = p.buf[k + i]
  BY DEF Without
<1>3. Rest(r, q) = Rest(p, q) + k /\ Len(b) \in Nat /\ Len(b) <= q
  BY <1>1, <1>2 DEF Rest
<1> HIDE DEF b
<1>4. ASSUME NEW i \in 1 .. Len(b) PROVE b[i] = stream[Rest(r, q) + i]
  <2>1. k + i \in 1 .. Len(p.buf) /\ Rest(p, q) \in Int /\ Rest(p, q) + (k + i) = Rest(r, q) + i
    <3>1. Len(b) \in Nat /\ Len(p.buf) \in Nat /\ k \in Nat /\ Len(b) = Len(p.buf) - k
      BY <1>1, <1>2, <1>3
    <3>2. k + i \in 1 .. Len(p.buf)
      BY <3>1
    <3>3. PICK x \in Nat : x = Rest(p, q)
      BY AtFacts
    <3>4. i \in Nat /\ x + (k + i) = (x + k) + i
      BY <3>1
    <3> QED  BY <1>3, <3>2, <3>3, <3>4
  <2>2. p.buf[k + i] = stream[Rest(p, q) + (k + i)]
    BY <2>1 DEF At
  <2>3. b[i] = p.buf[k + i]
    BY <1>2
  <2> QED  BY <2>1, <2>2, <2>3
<1> QED  BY <1>1, <1>3, <1>4 DEF At, b

\* The parser never waits for fewer than eight bytes (mavlink.py:9723-9739).
LEMMA ExpectedIs ==
  ASSUME NEW p, NEW q, At(p, q), NEW header_len \in {6, 10}
  PROVE  Expected(p, header_len) \in Nat /\ Expected(p, header_len) >= 8
<1>1. p.buf \in Seq(0 .. 255) /\ Len(p.buf) \in Nat /\ p.expected_length \in Nat /\ p.expected_length >= 8
  BY AtFacts
<1>2. CASE Len(p.buf) < 3
  BY <1>1, <1>2 DEF Expected
<1>3. CASE ~(Len(p.buf) < 3)
  <2>1. PICK b \in Seq(0 .. 255) : b = p.buf
    BY <1>1
  <2>2. b[2] \in 0 .. 255
    <3>1. 2 \in 1 .. Len(b)
      BY <1>1, <1>3, <2>1
    <3> QED  BY <3>1, ElementIs
  <2>3. PICK x \in {0, 13} : x = IF p.buf[1] = 253 /\ p.buf[3] % 2 = 1 THEN 13 ELSE 0
    OBVIOUS
  <2>4. Expected(p, header_len) = b[2] + header_len + 2 + x
    BY <1>3, <2>1, <2>3 DEF Expected
  <2>5. PICK y \in 0 .. 255 : y = b[2]
    BY <2>2
  <2>6. Expected(p, header_len) = y + header_len + 2 + x
    BY <2>4, <2>5
  <2> QED  BY <2>6
<1> QED  BY <1>2, <1>3

\* A first byte that is no marker is dropped.
LEMMA PrefixStep ==
  ASSUME NEW p, NEW q, At(p, q), BadPrefix(p.buf)
  PROVE  /\ At(parse_char(p).p, q) /\ Rest(parse_char(p).p, q) = Rest(p, q) + 1
         /\ parse_char(p).r \in {Nothing, MAVError}
<1> DEFINE r == parse_char(p).p
<1>1. p.buf \in Seq(0 .. 255) /\ Len(p.buf) \in Nat /\ p.expected_length \in Nat /\ p.expected_length >= 8
  BY AtFacts
<1>2. p.buf # <<>>
  BY DEF BadPrefix
<1>3. Without(Tail(p.buf), p.buf, 1)
  BY <1>1, <1>2, WithoutIs
<1>4. Tail(p.buf) \in Bytes /\ p \in Parser
  BY <1>3, AtFacts DEF Without, Bytes
<1>5. r \in Parser /\ r.buf = Tail(p.buf) /\ r.expected_length = p.expected_length
  <2>1. r = [p EXCEPT !.buf = Tail(p.buf), !.have_prefix_error = TRUE]
    BY DEF parse_char
  <2> HIDE DEF r
  <2> QED  BY <1>4, <2>1 DEF Parser
<1>6. parse_char(p).r \in {Nothing, MAVError}
  BY DEF parse_char
<1> HIDE DEF r
<1>7. Without(r.buf, p.buf, 1)
  BY <1>3, <1>5
<1>8. At(r, q) /\ Rest(r, q) = Rest(p, q) + 1
  BY <1>1, <1>5, <1>7, DropAt
<1> QED  BY <1>6, <1>8 DEF r

\* Otherwise a whole frame is taken off the buffer, or nothing.
LEMMA FrameStep ==
  ASSUME NEW p, NEW q, At(p, q), ~BadPrefix(p.buf),
         NEW e, e = Expected(p, IF p.buf # <<>> /\ p.buf[1] = 253 THEN 10 ELSE 6)
  PROVE  /\ At(parse_char(p).p, q)
         /\ IF e >= (IF p.buf # <<>> /\ p.buf[1] = 253 THEN 12 ELSE 8) /\ Len(p.buf) >= e
            THEN /\ Rest(parse_char(p).p, q) = Rest(p, q) + e
                 /\ parse_char(p).r = Received(SubSeq(p.buf, 1, e))
            ELSE parse_char(p).p.buf = p.buf /\ parse_char(p).r = Nothing
         /\ e \in Nat /\ e >= 8
<1> DEFINE header_len == IF p.buf # <<>> /\ p.buf[1] = 253 THEN 10 ELSE 6
<1>1. p.buf \in Seq(0 .. 255) /\ Len(p.buf) \in Nat /\ p.expected_length \in Nat /\ p.expected_length >= 8
  BY AtFacts
<1>2. header_len \in {6, 10} /\ e = Expected(p, header_len)
  OBVIOUS
<1>3. e \in Nat /\ e >= 8
  BY <1>2, ExpectedIs
<1>4. p \in Parser
  BY AtFacts
<1> DEFINE r == parse_char(p).p
<1>5. CASE e >= header_len + 2 /\ Len(p.buf) >= e
  <2> DEFINE b == SubSeq(p.buf, e + 1, Len(p.buf))
  <2>1. e \in 0 .. Len(p.buf) /\ header_len + 2 \in Nat /\ header_len + 2 >= 8
    BY <1>1, <1>2, <1>3, <1>5
  <2>2. Without(b, p.buf, e)
    BY <1>1, <2>1, WithoutIs
  <2>3. /\ r = [buf |-> b, expected_length |-> header_len + 2, have_prefix_error |-> FALSE]
        /\ parse_char(p).r = Received(SubSeq(p.buf, 1, e))
    BY <1>5 DEF parse_char
  <2>4. b \in Bytes
    BY <2>2 DEF Without, Bytes
  <2> HIDE DEF b, header_len, r
  <2>5. r \in Parser /\ r.buf = b /\ r.expected_length = header_len + 2
    BY <2>1, <2>3, <2>4 DEF Parser
  <2>6. Without(r.buf, p.buf, e)
    BY <2>2, <2>5
  <2>7. At(r, q) /\ Rest(r, q) = Rest(p, q) + e
    BY <2>1, <2>5, <2>6, DropAt
  <2> QED  BY <1>3, <1>5, <2>3, <2>7 DEF header_len, r
<1>6. CASE ~(e >= header_len + 2 /\ Len(p.buf) >= e)
  <2>1. /\ r = [p EXCEPT !.expected_length = e, !.have_prefix_error = FALSE]
        /\ parse_char(p).r = Nothing
    BY <1>6 DEF parse_char
  <2> HIDE DEF r, header_len
  <2>2. r \in Parser /\ r.buf = p.buf /\ r.expected_length = e
    BY <1>3, <1>4, <2>1 DEF Parser
  <2>3. Without(r.buf, p.buf, 0)
    BY <1>1, <2>2, WithoutIs
  <2>4. At(r, q)
    BY <1>3, <2>2, <2>3, DropAt
  <2> QED  BY <1>3, <1>6, <2>1, <2>2, <2>4 DEF r, header_len
<1> QED  BY <1>5, <1>6

\* One parse_char only moves the parser on (mavlink.py:9709-9768).
LEMMA StepAt ==
  ASSUME NEW p, NEW q, At(p, q)
  PROVE  At(parse_char(p).p, q) /\ Rest(p, q) <= Rest(parse_char(p).p, q)
<1>1. CASE BadPrefix(p.buf)
  BY <1>1, AtFacts, PrefixStep
<1>2. CASE ~BadPrefix(p.buf)
  <2>1. PICK e : e = Expected(p, IF p.buf # <<>> /\ p.buf[1] = 253 THEN 10 ELSE 6)
    OBVIOUS
  <2>2. /\ At(parse_char(p).p, q) /\ e \in Nat
        /\ \/ Rest(parse_char(p).p, q) = Rest(p, q) + e
           \/ parse_char(p).p.buf = p.buf
    BY <1>2, <2>1, FrameStep
  <2>3. Rest(p, q) \in Nat
    BY AtFacts
  <2> QED  BY <2>2, <2>3 DEF Rest
<1> QED  BY <1>1, <1>2

\* Nothing comes of an empty buffer.
LEMMA EmptyStep ==
  ASSUME NEW p, NEW q, At(p, q), p.buf = <<>>
  PROVE  parse_char(p).p.buf = p.buf /\ parse_char(p).r = Nothing
<1>1. ~BadPrefix(p.buf) /\ Len(p.buf) = 0
  BY DEF BadPrefix
<1>2. PICK e : e = Expected(p, IF p.buf # <<>> /\ p.buf[1] = 253 THEN 10 ELSE 6)
  OBVIOUS
<1>3. e \in Nat /\ e >= 8
  BY <1>1, <1>2, FrameStep
<1>4. ~(Len(p.buf) >= e)
  BY <1>1, <1>3
<1> QED  BY <1>1, <1>2, <1>4, FrameStep

\* What the bytes of a frame give.
LEMMA ReceivedIs ==
  ASSUME NEW b
  PROVE  \/ Received(b) = MAVError
         \/ Received(b) = UnicodeDecodeError
         \/ \E m : Received(b) = [out |-> "message", messages |-> <<m>>]
<1>1. ASSUME NEW m, NEW s, NEW f
      PROVE  \/ Decoded(m, s, f) = UnicodeDecodeError
             \/ \E x : Decoded(m, s, f) = [out |-> "message", messages |-> <<x>>]
  BY DEF Decoded
<1>2. ASSUME NEW m, NEW s, NEW first, NEW end
      PROVE  \/ DecodedAs(m, s, b, first, end) = MAVError
             \/ DecodedAs(m, s, b, first, end) = UnicodeDecodeError
             \/ \E x : DecodedAs(m, s, b, first, end) = [out |-> "message", messages |-> <<x>>]
  BY <1>1, ZenonT(60) DEF DecodedAs
<1>3. \/ decode(b) = MAVError
      \/ decode(b) = UnicodeDecodeError
      \/ \E x : decode(b) = [out |-> "message", messages |-> <<x>>]
  <2> DEFINE v1 == b[1] = 254
             headerlen == IF v1 THEN 6 ELSE 10
             msgId == IF v1 THEN b[6] ELSE b[8] + 256 * b[9] + 65536 * b[10]
             s == IF v1 THEN b[3] ELSE b[5]
             end == Len(b) - (2 + (IF ~v1 /\ b[3] % 2 = 1 THEN 13 ELSE 0))
  <2>1. decode(b) = IF b[2] # end - headerlen \/ ~Known(msgId) THEN MAVError
                    ELSE DecodedAs(Class(msgId), s, b, headerlen + 1, end)
    BY DEF decode
  <2> HIDE DEF v1, headerlen, msgId, s, end
  <2> QED  BY <1>2, <2>1
<1> QED  BY <1>3 DEF Received

\* What the outcomes without a message are.
LEMMA OutcomeIs ==
  /\ Nothing.out = "none" /\ Nothing.messages = <<>>
  /\ MAVError.out = "MAVError" /\ MAVError.messages = <<>>
  /\ UnicodeDecodeError.out = "UnicodeDecodeError" /\ UnicodeDecodeError.messages = <<>>
BY DEF Nothing, MAVError, UnicodeDecodeError

-----------------------------------------------------------------------------
(***************************************************************************)
(* The loop of parse_buffer.                                               *)
(***************************************************************************)
Once(s) == IF s.r.out = "message" THEN Another(s) ELSE s

\* The recursive function by which parse_buffer repeats parse_char exists.
LEMMA OncesExist ==
  ASSUME NEW first, NEW n \in Nat
  PROVE  \E g : g = [i \in 0 .. n |-> IF i = 0 THEN first ELSE Once(g[i - 1])]
<1> DEFINE Step(g, i) == IF i = 0 THEN first ELSE Once(g[i - 1])
           Good(m) == \E g : g = [i \in 0 .. m |-> Step(g, i)]
           T == {m \in Nat : ~Good(m)}
<1>1. SUFFICES ASSUME T # {} PROVE FALSE
  OBVIOUS
<1>2. PICK m \in T : \A l \in T : m <= l
  BY <1>1, LeastOf
<1>3. m \in Nat /\ m # 0
  <2> DEFINE g == [i \in 0 .. 0 |-> first]
  <2>1. g = [i \in 0 .. 0 |-> Step(g, i)]
    OBVIOUS
  <2>2. Good(0)
    BY <2>1
  <2> QED  BY <2>2
<1>4. PICK g : g = [i \in 0 .. (m - 1) |-> Step(g, i)]
  <2>1. m - 1 \in Nat /\ ~(m <= m - 1)
    BY <1>3
  <2>2. m - 1 \notin T
    <3> HIDE DEF T
    <3> QED  BY <1>2, <2>1
  <2>3. Good(m - 1)
    <3> HIDE DEF Good
    <3> QED  BY <2>1, <2>2 DEF T
  <2> QED  BY <2>3
<1> DEFINE h == [i \in 0 .. m |-> Step(g, i)]
<1>5. ASSUME NEW i \in 0 .. m PROVE Step(g, i) = Step(h, i)
  <2>1. CASE i = 0
    BY <2>1
  <2>2. CASE i # 0
    <3>1. i - 1 \in 0 .. (m - 1) /\ i - 1 \in 0 .. m
      BY <1>3, <2>2
    <3>2. g[i - 1] = Step(g, i - 1)
      BY <1>4, <3>1
    <3>3. h[i - 1] = Step(g, i - 1)
      BY <3>1
    <3> HIDE DEF h
    <3> QED  BY <2>2, <3>2, <3>3
  <2> QED  BY <2>1, <2>2
<1>6. h = [i \in 0 .. m |-> Step(h, i)]
  <2>1. \A i \in 0 .. m : Step(g, i) = Step(h, i)
    BY <1>5
  <2>2. h = [i \in 0 .. m |-> Step(g, i)]
    OBVIOUS
  <2> HIDE DEF h, Step
  <2> QED  BY <2>1, <2>2
<1>7. Good(m)
  <2> HIDE DEF h
  <2> QED  BY <1>6
<1> QED  BY <1>7

\* The states of the loop, one after another.
LEMMA LoopIs ==
  ASSUME NEW p, NEW data
  PROVE  \E taken : /\ taken[0] = parse_char(Fed(p, data))
                    /\ \A n \in Nat : taken[n + 1] = Once(taken[n])
                    /\ parse_buffer(p, data) = taken[Len(Fed(p, data).buf) \div 8 + 1]
<1> DEFINE first == parse_char(Fed(p, data))
           upto(n) == CHOOSE g : g = [i \in 0 .. n |-> IF i = 0 THEN first ELSE Once(g[i - 1])]
           f == [n \in Nat |-> upto(n)[n]]
<1>1. \A n \in Nat : upto(n) = [i \in 0 .. n |-> IF i = 0 THEN first ELSE Once(upto(n)[i - 1])]
  BY OncesExist
<1> HIDE DEF upto, first
<1>2. ASSUME NEW n \in Nat, NEW i \in 0 .. n
      PROVE  upto(n)[i] = IF i = 0 THEN first ELSE Once(upto(n)[i - 1])
  BY <1>1
<1>3. ASSUME NEW n \in Nat, NEW l \in Nat, NEW i \in Nat, i <= n, i <= l
      PROVE  upto(n)[i] = upto(l)[i]
  <2> DEFINE T == {m \in Nat : m <= n /\ m <= l /\ upto(n)[m] # upto(l)[m]}
  <2>1. ASSUME T # {} PROVE FALSE
    <3>1. PICK m \in T : \A k \in T : m <= k
      BY <2>1, LeastOf
    <3>2. m \in 0 .. n /\ m \in 0 .. l
      OBVIOUS
    <3>3. m # 0
      BY <1>2, <3>2
    <3>4. m - 1 \in Nat /\ m - 1 \notin T
      BY <3>1, <3>3
    <3>5. upto(n)[m - 1] = upto(l)[m - 1]
      BY <3>4
    <3> QED  BY <1>2, <3>2, <3>3, <3>5
  <2> QED  BY <1>3, <2>1
<1>4. \A n \in Nat : f[n] = upto(n)[n]
  OBVIOUS
<1>5. f = [n \in Nat |-> IF n = 0 THEN first ELSE Once(f[n - 1])]
  <2>1. ASSUME NEW n \in Nat PROVE upto(n)[n] = IF n = 0 THEN first ELSE Once(f[n - 1])
    <3>1. CASE n = 0
      BY <1>2, <3>1
    <3>2. CASE n # 0
      <4>1. n - 1 \in Nat /\ n - 1 <= n /\ n - 1 <= n - 1 /\ n \in 0 .. n
        BY <3>2
      <4>2. upto(n)[n] = Once(upto(n)[n - 1])
        BY <1>2, <3>2, <4>1
      <4>3. upto(n)[n - 1] = upto(n - 1)[n - 1]
        BY <1>3, <4>1
      <4>4. f[n - 1] = upto(n - 1)[n - 1]
        BY <1>4, <4>1
      <4> HIDE DEF f
      <4> QED  BY <3>2, <4>2, <4>3, <4>4
    <3> QED  BY <3>1, <3>2
  <2>2. \A n \in Nat : upto(n)[n] = IF n = 0 THEN first ELSE Once(f[n - 1])
    BY <2>1
  <2>3. f = [n \in Nat |-> upto(n)[n]]
    OBVIOUS
  <2> HIDE DEF f
  <2> QED  BY <2>2, <2>3
<1> DEFINE taken == CHOOSE g : g = [n \in Nat |-> IF n = 0 THEN first ELSE Once(g[n - 1])]
<1> HIDE DEF f
<1>6. taken = [n \in Nat |-> IF n = 0 THEN first ELSE Once(taken[n - 1])]
  BY <1>5
<1>7. parse_buffer(p, data) = taken[Len(Fed(p, data).buf) \div 8 + 1]
  BY DEF parse_buffer, Once, first
<1> HIDE DEF taken
<1>8. taken[0] = first
  BY <1>6
<1>9. ASSUME NEW n \in Nat PROVE taken[n + 1] = Once(taken[n])
  <2>1. n + 1 \in Nat /\ n + 1 # 0 /\ (n + 1) - 1 = n
    OBVIOUS
  <2>2. taken[n + 1] = IF n + 1 = 0 THEN first ELSE Once(taken[(n + 1) - 1])
    BY <1>6, <2>1
  <2> QED  BY <2>1, <2>2
<1> QED  BY <1>7, <1>8, <1>9 DEF first

-----------------------------------------------------------------------------
\* Two sequences with the same entries are the same.
LEMMA SameSequence ==
  ASSUME NEW T, NEW a \in Seq(T), NEW b \in Seq(T), Len(a) = Len(b),
         \A i \in 1 .. Len(a) : a[i] = b[i]
  PROVE  a = b
OBVIOUS

\* The bytes are a frame: they begin with a marker, and are as many as their head says.
IsFrame(b) == /\ Len(b) >= 8 /\ b[1] \in {253, 254}
              /\ Len(b) = Expected([NewParser EXCEPT !.buf = b], IF b[1] = 253 THEN 10 ELSE 6)

\* A frame at the head of the buffer is taken as soon as it is whole.
LEMMA HeadFrame ==
  ASSUME LineInv, NEW p, NEW q, At(p, q), NEW s \in DOMAIN line, Rest(p, q) = Start(s),
         IsFrame(line[s].bytes)
  PROVE  /\ At(parse_char(p).p, q)
         /\ IF Len(p.buf) >= Len(line[s].bytes)
            THEN /\ Rest(parse_char(p).p, q) = Start(s + 1)
                 /\ parse_char(p).r = Received(line[s].bytes)
            ELSE parse_char(p).p.buf = p.buf /\ parse_char(p).r = Nothing
         /\ Len(line[s].bytes) \in Nat /\ Len(line[s].bytes) >= 8
<1>1. PICK b \in Seq(0 .. 255) : b = line[s].bytes
  BY LineIs DEF Bytes
<1>2. PICK c \in Nat : c = Start(s)
  BY AtFacts
<1>3. /\ Len(b) \in Nat /\ Start(s + 1) = c + Len(b)
      /\ \A j \in 1 .. Len(b) : stream[c + j] = b[j]
  BY <1>1, <1>2, LineIs
<1>4. PICK a \in Seq(0 .. 255) : a = p.buf
  BY AtFacts
<1>5. \A i \in 1 .. Len(a) : a[i] = stream[c + i]
  BY <1>2, <1>4 DEF At
<1>6. Len(a) \in Nat /\ p.expected_length \in Nat /\ p.expected_length >= 8
  BY <1>4, AtFacts
<1>7. \A i \in 1 .. Len(a) : i <= Len(b) => a[i] = b[i]
  <2> SUFFICES ASSUME NEW i \in 1 .. Len(a), i <= Len(b) PROVE a[i] = b[i]
    OBVIOUS
  <2>1. i \in 1 .. Len(b)
    BY <1>3, <1>6
  <2> QED  BY <1>3, <1>5, <2>1
<1> DEFINE h == IF b[1] = 253 THEN 10 ELSE 6
           x == IF b[1] = 253 /\ b[3] % 2 = 1 THEN 13 ELSE 0
<1>8. Len(b) >= 8 /\ b[1] \in {253, 254} /\ Len(b) = b[2] + h + 2 + x
  <2>1. Len(b) >= 8 /\ b[1] \in {253, 254} /\ Len(b) = Expected([NewParser EXCEPT !.buf = b], h)
    BY <1>1 DEF IsFrame
  <2>2. [NewParser EXCEPT !.buf = b].buf = b
    BY DEF NewParser
  <2>3. ~(Len(b) < 3)
    BY <1>3, <2>1
  <2> HIDE DEF h
  <2> QED  BY <2>1, <2>2, <2>3 DEF Expected
<1>9. ~BadPrefix(a)
  <2>1. a # <<>> => 1 \in 1 .. Len(a) /\ 1 <= Len(b)
    BY <1>6, <1>8
  <2> QED  BY <1>7, <1>8, <2>1 DEF BadPrefix
<1>10. PICK e : e = Expected(p, IF p.buf # <<>> /\ p.buf[1] = 253 THEN 10 ELSE 6)
  OBVIOUS
<1>11. /\ At(parse_char(p).p, q)
       /\ IF e >= (IF a # <<>> /\ a[1] = 253 THEN 12 ELSE 8) /\ Len(a) >= e
          THEN /\ Rest(parse_char(p).p, q) = Rest(p, q) + e
               /\ parse_char(p).r = Received(SubSeq(a, 1, e))
          ELSE parse_char(p).p.buf = p.buf /\ parse_char(p).r = Nothing
       /\ e \in Nat /\ e >= 8
  BY <1>4, <1>9, <1>10, FrameStep
<1>12. CASE Len(a) < 3
  <2>1. e = p.expected_length
    BY <1>4, <1>10, <1>12 DEF Expected
  <2>2. ~(Len(a) >= e) /\ ~(Len(a) >= Len(b))
    BY <1>3, <1>6, <1>8, <1>12, <2>1
  <2> QED  BY <1>1, <1>3, <1>4, <1>8, <1>11, <2>2
<1>13. CASE ~(Len(a) < 3)
  <2>1. a # <<>> /\ a[1] = b[1] /\ a[2] = b[2] /\ a[3] = b[3]
    <3>1. 1 \in 1 .. Len(a) /\ 2 \in 1 .. Len(a) /\ 3 \in 1 .. Len(a)
          /\ 1 <= Len(b) /\ 2 <= Len(b) /\ 3 <= Len(b)
      BY <1>3, <1>6, <1>8, <1>13
    <3> QED  BY <1>7, <3>1
  <2>2. e = Len(b)
    <3>1. e = Expected(p, h)
      BY <1>4, <1>10, <2>1
    <3> HIDE DEF h
    <3>2. e = b[2] + h + 2 + x
      BY <1>4, <1>13, <2>1, <3>1 DEF Expected
    <3> QED  BY <1>8, <3>2
  <2>3. e >= h + 2
    <3>1. PICK y \in 0 .. 255 : y = b[2]
      <4>1. 2 \in 1 .. Len(b)
        BY <1>3, <1>8
      <4>2. b[2] \in 0 .. 255
        BY <4>1, ElementIs
      <4> QED  BY <4>2
    <3>2. e = y + h + 2 + x
      BY <1>8, <2>2, <3>1
    <3> QED  BY <3>2
  <2>4. CASE Len(a) >= Len(b)
    <3>1. PICK m : m = SubSeq(a, 0 + 1, Len(b))
      OBVIOUS
    <3>2. /\ SubSeq(a, 0 + 1, Len(b)) \in Seq(0 .. 255) /\ Len(SubSeq(a, 0 + 1, Len(b))) = Len(b) - 0
          /\ \A i \in 1 .. Len(b) - 0 : SubSeq(a, 0 + 1, Len(b))[i] = a[0 + i]
      <4>1. 0 \in Nat /\ 0 <= Len(b) /\ Len(b) <= Len(a) /\ Len(b) \in Nat
        BY <1>3, <1>6, <2>4
      <4> QED  BY <4>1, SubSeqIs, ZenonT(60)
    <3>3. m \in Seq(0 .. 255) /\ Len(m) = Len(b) - 0 /\ \A i \in 1 .. Len(b) - 0 : m[i] = a[0 + i]
      BY <3>1, <3>2, Zenon
    <3>4. Len(m) = Len(b) /\ \A i \in 1 .. Len(m) : i \in 1 .. Len(a) /\ i <= Len(b) /\ m[i] = a[i]
      BY <1>3, <1>6, <2>4, <3>3
    <3>5. m = b
      <4>1. \A i \in 1 .. Len(m) : m[i] = b[i]
        BY <1>7, <3>4
      <4> QED  BY <3>3, <3>4, <4>1, SameSequence, Zenon
    <3>6. SubSeq(a, 1, e) = b
      BY <2>2, <3>1, <3>5
    <3>7. h + 2 = IF a # <<>> /\ a[1] = 253 THEN 12 ELSE 8
      BY <2>1
    <3> HIDE DEF h, x
    <3>8. /\ Rest(parse_char(p).p, q) = Rest(p, q) + e
          /\ parse_char(p).r = Received(SubSeq(a, 1, e))
          /\ At(parse_char(p).p, q)
      BY <1>11, <2>2, <2>3, <2>4, <3>7
    <3> QED  BY <1>1, <1>2, <1>3, <1>4, <1>8, <2>2, <2>4, <3>6, <3>8
  <2>5. CASE ~(Len(a) >= Len(b))
    BY <1>1, <1>3, <1>4, <1>8, <1>11, <2>2, <2>5
  <2> QED  BY <2>4, <2>5
<1> QED  BY <1>12, <1>13

-----------------------------------------------------------------------------
(***************************************************************************)
(* What pack writes is what decode reads, for every class and all values.  *)
(***************************************************************************)
Total(m) == Len(m.format)
Values(m) == ValuesBefore(m, Total(m) + 1)
Size(m) == BytesBefore(m, Total(m) + 1)

\* Division as unpack's places need it.
LEMMA DivSmall == ASSUME NEW w \in Nat, NEW x \in Nat, x < w PROVE x \div w = 0 /\ x % w = x
OBVIOUS

\* The byte of a value and the value of a byte.
LEMMA DivPlace ==
  ASSUME NEW w \in {1, 2, 4, 8}, NEW n \in Nat, NEW j \in 1 .. w
  PROVE  (n * w + j - 1) \div w = n /\ (n * w + j - 1) % w = j - 1
<1>1. CASE w = 1
  BY <1>1
<1>2. CASE w = 2
  BY <1>2
<1>3. CASE w = 4
  BY <1>3
<1>4. CASE w = 8
  BY <1>4
<1> QED  BY <1>1, <1>2, <1>3, <1>4

\* A place among c values of w bytes each.
LEMMA Product ==
  ASSUME NEW w \in Nat \ {0}, NEW c \in Nat \ {0}, w \in {1, 2, 4, 8} \/ c = 1
  PROVE  /\ c * w \in Nat \ {0}
         /\ \A n \in 1 .. c : (n - 1) * w \in Nat /\ n * w = (n - 1) * w + w /\ n * w <= c * w
<1>1. CASE c = 1
  BY <1>1
<1>2. CASE w = 1
  BY <1>2
<1>3. CASE w = 2
  BY <1>3
<1>4. CASE w = 4
  BY <1>4
<1>5. CASE w = 8
  BY <1>5
<1> QED  BY <1>1, <1>2, <1>3, <1>4, <1>5

\* The same for a single entry of any width, or many of the widths of the dialect.
LEMMA PlaceIs ==
  ASSUME NEW w \in Nat \ {0}, NEW c \in Nat \ {0}, w \in {1, 2, 4, 8} \/ c = 1,
         NEW n \in 1 .. c, NEW j \in 1 .. w, NEW b, b = (n - 1) * w + j
  PROVE  /\ b \in 1 .. c * w /\ (b - 1) \div w = n - 1 /\ (b - 1) % w = j - 1
<1>1. b \in 1 .. c * w
  <2>1. PICK x \in Nat, y \in Nat, z \in Nat : x = (n - 1) * w /\ y = n * w /\ z = c * w
    BY Product
  <2>2. y = x + w /\ y <= z
    BY <2>1, Product
  <2> QED  BY <2>1, <2>2
<1>2. CASE c = 1
  <2>1. n - 1 = 0 /\ b - 1 = j - 1 /\ j - 1 \in Nat /\ j - 1 < w
    BY <1>2
  <2> QED  BY <1>1, <2>1, DivSmall
<1>3. CASE w \in {1, 2, 4, 8}
  <2>1. n - 1 \in Nat
    OBVIOUS
  <2>2. ((n - 1) * w + j - 1) \div w = n - 1 /\ ((n - 1) * w + j - 1) % w = j - 1
    BY <1>3, <2>1, DivPlace
  <2>3. b - 1 = (n - 1) * w + j - 1
    OBVIOUS
  <2> QED  BY <1>1, <2>2, <2>3
<1> QED  BY <1>2, <1>3

\* The items of a format.
LEMMA ItemIs ==
  ASSUME NEW m, Agrees(m), NEW k \in DOMAIN m.format
  PROVE  /\ Count(m.format[k]) \in Nat \ {0} /\ Width(m.format[k]) \in Nat \ {0}
         /\ Width(m.format[k]) \in {1, 2, 4, 8} \/ Count(m.format[k]) = 1
<1>1. PICK item : item = m.format[k]
  OBVIOUS
<1>2. item \in (Nat \ {0}) \X (DOMAIN CodeSize \cup {"s"})
  <2>1. m.format \in Seq((Nat \ {0}) \X (DOMAIN CodeSize \cup {"s"}))
    BY DEF Agrees
  <2>2. PICK S : S = (Nat \ {0}) \X (DOMAIN CodeSize \cup {"s"})
    OBVIOUS
  <2>3. m.format \in Seq(S)
    BY <2>1, <2>2
  <2>4. k \in 1 .. Len(m.format)
    BY <2>3
  <2>5. m.format[k] \in S
    BY <2>3, <2>4, ElementIs
  <2> QED  BY <1>1, <2>2, <2>5
<1>3. item[1] \in Nat \ {0} /\ item[2] \in DOMAIN CodeSize \cup {"s"}
  BY <1>2
<1>4. DOMAIN CodeSize = {"b", "B", "h", "H", "i", "I", "f", "q", "Q", "d"}
  BY DEF CodeSize
<1>5. \A x \in DOMAIN CodeSize : CodeSize[x] \in {1, 2, 4, 8}
  BY DEF CodeSize
<1>6. Count(item) \in Nat \ {0} /\ Width(item) \in Nat \ {0} /\ (Width(item) \in {1, 2, 4, 8} \/ Count(item) = 1)
  BY <1>3, <1>5 DEF Count, Width
<1> QED  BY <1>1, <1>6

\* How many values and bytes the items before the k-th are.
LEMMA BeforeIs ==
  ASSUME NEW m, Agrees(m)
  PROVE  /\ Total(m) \in Nat /\ DOMAIN m.format = 1 .. Total(m)
         /\ \A k \in 1 .. Total(m) + 1 : ValuesBefore(m, k) \in Nat /\ BytesBefore(m, k) \in Nat
         /\ \A k \in 1 .. Total(m) :
              /\ ValuesBefore(m, k + 1) = ValuesBefore(m, k) + Count(m.format[k])
              /\ BytesBefore(m, k + 1) = BytesBefore(m, k) + Count(m.format[k]) * Width(m.format[k])
              /\ ValuesBefore(m, k + 1) <= Values(m) /\ BytesBefore(m, k + 1) <= Size(m)
<1> DEFINE N == Total(m)
           cs == [i \in DOMAIN m.format |-> Count(m.format[i])]
           bs == [i \in DOMAIN m.format |-> Count(m.format[i]) * Width(m.format[i])]
<1>1. N \in Nat /\ DOMAIN m.format = 1 .. N
  <2>1. m.format \in Seq((Nat \ {0}) \X (DOMAIN CodeSize \cup {"s"}))
    BY DEF Agrees
  <2>2. PICK S : S = (Nat \ {0}) \X (DOMAIN CodeSize \cup {"s"})
    OBVIOUS
  <2>3. m.format \in Seq(S)
    BY <2>1, <2>2
  <2> QED  BY <2>3 DEF Total
<1>2. \A i \in 1 .. N : cs[i] \in Nat /\ bs[i] \in Nat
  <2> SUFFICES ASSUME NEW i \in 1 .. N PROVE cs[i] \in Nat /\ bs[i] \in Nat
    OBVIOUS
  <2>1. PICK c \in Nat \ {0}, w \in Nat \ {0} : c = Count(m.format[i]) /\ w = Width(m.format[i])
    BY <1>1, ItemIs
  <2>2. w \in {1, 2, 4, 8} \/ c = 1
    BY <1>1, <2>1, ItemIs
  <2>3. c * w \in Nat
    BY <2>2, Product
  <2> QED  BY <1>1, <2>1, <2>3
<1>3. \A i \in 1 .. N : cs[i] = Count(m.format[i]) /\ bs[i] = Count(m.format[i]) * Width(m.format[i])
  BY <1>1
<1>4. \A k : ValuesBefore(m, k) = Upto(cs, k - 1) /\ BytesBefore(m, k) = Upto(bs, k - 1)
  BY DEF ValuesBefore, BytesBefore
<1> HIDE DEF cs, bs, N
<1>5. ASSUME NEW k \in 1 .. N + 1 PROVE ValuesBefore(m, k) \in Nat /\ BytesBefore(m, k) \in Nat
  <2>1. k - 1 \in 0 .. N
    BY <1>1
  <2> QED  BY <1>1, <1>2, <1>4, <2>1, UptoNat
<1>6. ASSUME NEW k \in 1 .. N
      PROVE  /\ ValuesBefore(m, k + 1) = ValuesBefore(m, k) + Count(m.format[k])
             /\ BytesBefore(m, k + 1) = BytesBefore(m, k) + Count(m.format[k]) * Width(m.format[k])
             /\ ValuesBefore(m, k + 1) <= Values(m) /\ BytesBefore(m, k + 1) <= Size(m)
  <2>1. k - 1 \in Nat /\ (k - 1) + 1 = k /\ (k + 1) - 1 = k /\ k \in 0 .. N /\ N \in 0 .. N /\ k <= N
        /\ (N + 1) - 1 = N
    BY <1>1
  <2>2. Upto(cs, k) = Upto(cs, k - 1) + cs[k] /\ Upto(bs, k) = Upto(bs, k - 1) + bs[k]
    BY <2>1, UptoIs
  <2>3. Upto(cs, k) <= Upto(cs, N) /\ Upto(bs, k) <= Upto(bs, N)
    BY <1>1, <1>2, <2>1, UptoGrows
  <2>4. /\ ValuesBefore(m, k + 1) = Upto(cs, k) /\ BytesBefore(m, k + 1) = Upto(bs, k)
        /\ Values(m) = Upto(cs, N) /\ Size(m) = Upto(bs, N)
    BY <1>4, <2>1 DEF Values, Size, N
  <2> QED  BY <1>3, <1>4, <2>2, <2>3, <2>4
<1> QED  BY <1>1, <1>5, <1>6 DEF N

-----------------------------------------------------------------------------
\* A sequence for each item, joined: one element for each value, or for each byte.
LEMMA ValuesJoined ==
  ASSUME NEW m, Agrees(m), NEW T, NEW ss \in Seq(Seq(T)), Len(ss) = Total(m),
         \A k \in 1 .. Total(m) : Len(ss[k]) = Count(m.format[k])
  PROVE  /\ FlattenSeq(ss) \in Seq(T) /\ Len(FlattenSeq(ss)) = Values(m)
         /\ \A k \in 1 .. Total(m) : \A n \in 1 .. Count(m.format[k]) :
              FlattenSeq(ss)[ValuesBefore(m, k) + n] = ss[k][n]
<1> DEFINE cs == [i \in DOMAIN m.format |-> Count(m.format[i])]
<1>1. Total(m) \in Nat /\ DOMAIN m.format = 1 .. Total(m)
  BY BeforeIs
<1>2. DOMAIN ss = 1 .. Total(m)
  BY <1>1
<1>3. Lengths(ss) = cs
  BY <1>1, <1>2 DEF Lengths
<1>4. \A k : ValuesBefore(m, k) = Upto(cs, k - 1)
  BY DEF ValuesBefore
<1> HIDE DEF cs
<1>5. /\ FlattenSeq(ss) \in Seq(T)
      /\ Len(FlattenSeq(ss)) = Upto(Lengths(ss), Len(ss))
      /\ \A k \in 1 .. Len(ss) : \A j \in 1 .. Len(ss[k]) :
           FlattenSeq(ss)[Upto(Lengths(ss), k - 1) + j] = ss[k][j]
  BY FlattenIs
<1>6. Values(m) = Upto(cs, Total(m))
  <2>1. (Total(m) + 1) - 1 = Total(m)
    BY <1>1
  <2> QED  BY <1>4, <2>1 DEF Values
<1> QED  BY <1>3, <1>4, <1>5, <1>6

\* The bytes of joined entries lie where BytesBefore says.
LEMMA BytesJoined ==
  ASSUME NEW m, Agrees(m), NEW T, NEW ss \in Seq(Seq(T)), Len(ss) = Total(m),
         \A k \in 1 .. Total(m) : Len(ss[k]) = Count(m.format[k]) * Width(m.format[k])
  PROVE  /\ FlattenSeq(ss) \in Seq(T) /\ Len(FlattenSeq(ss)) = Size(m)
         /\ \A k \in 1 .. Total(m) : \A b \in 1 .. Count(m.format[k]) * Width(m.format[k]) :
              FlattenSeq(ss)[BytesBefore(m, k) + b] = ss[k][b]
<1> DEFINE bs == [i \in DOMAIN m.format |-> Count(m.format[i]) * Width(m.format[i])]
<1>1. Total(m) \in Nat /\ DOMAIN m.format = 1 .. Total(m)
  BY BeforeIs
<1>2. DOMAIN ss = 1 .. Total(m)
  BY <1>1
<1>3. Lengths(ss) = bs
  BY <1>1, <1>2 DEF Lengths
<1>4. \A k : BytesBefore(m, k) = Upto(bs, k - 1)
  BY DEF BytesBefore
<1> HIDE DEF bs
<1>5. /\ FlattenSeq(ss) \in Seq(T)
      /\ Len(FlattenSeq(ss)) = Upto(Lengths(ss), Len(ss))
      /\ \A k \in 1 .. Len(ss) : \A j \in 1 .. Len(ss[k]) :
           FlattenSeq(ss)[Upto(Lengths(ss), k - 1) + j] = ss[k][j]
  BY FlattenIs
<1>6. Size(m) = Upto(bs, Total(m))
  <2>1. (Total(m) + 1) - 1 = Total(m)
    BY <1>1
  <2> QED  BY <1>4, <2>1 DEF Size
<1>7. ASSUME NEW k \in 1 .. Total(m), NEW b \in 1 .. Count(m.format[k]) * Width(m.format[k])
      PROVE  FlattenSeq(ss)[BytesBefore(m, k) + b] = ss[k][b]
  <2>1. k \in 1 .. Len(ss) /\ b \in 1 .. Len(ss[k])
    BY <1>7
  <2> QED  BY <1>3, <1>4, <1>5, <2>1
<1> QED  BY <1>3, <1>5, <1>6, <1>7

\* Every value is one of an item's.
LEMMA ValueOf ==
  ASSUME NEW m, Agrees(m), NEW v \in 1 .. Values(m)
  PROVE  \E k \in 1 .. Total(m) : \E n \in 1 .. Count(m.format[k]) : v = ValuesBefore(m, k) + n
<1> DEFINE cs == [i \in DOMAIN m.format |-> Count(m.format[i])]
           N == Total(m)
<1>1. N \in Nat /\ DOMAIN m.format = 1 .. N /\ Values(m) \in Nat
  <2>1. Total(m) \in Nat /\ DOMAIN m.format = 1 .. Total(m) /\ Total(m) + 1 \in 1 .. Total(m) + 1
    BY BeforeIs
  <2> QED  BY <2>1, BeforeIs DEF Values
<1>2. \A i \in 1 .. N : cs[i] \in Nat /\ cs[i] = Count(m.format[i])
  BY <1>1, ItemIs
<1>3. \A k : ValuesBefore(m, k) = Upto(cs, k - 1)
  BY DEF ValuesBefore
<1>4. Values(m) = Upto(cs, N)
  <2>1. (N + 1) - 1 = N
    BY <1>1
  <2> QED  BY <1>3, <2>1 DEF Values
<1> HIDE DEF cs, N
<1>5. PICK x \in Nat : x = v - 1 /\ x < Upto(cs, N)
  BY <1>1, <1>4
<1>6. PICK k \in 1 .. N : Upto(cs, k - 1) <= x /\ x < Upto(cs, k)
  BY <1>1, <1>2, <1>5, UptoCovers
<1>7. PICK y \in Nat : y = Upto(cs, k - 1)
  <2>1. k - 1 \in 0 .. N
    BY <1>1
  <2> QED  BY <1>1, <1>2, <2>1, UptoNat
<1>8. Upto(cs, k) = y + cs[k]
  <2>1. k - 1 \in Nat /\ (k - 1) + 1 = k
    BY <1>1
  <2>2. Upto(cs, (k - 1) + 1) = Upto(cs, k - 1) + cs[(k - 1) + 1]
    BY <2>1, UptoIs
  <2> QED  BY <1>7, <2>1, <2>2
<1>9. PICK c \in Nat : c = cs[k] /\ c = Count(m.format[k])
  BY <1>2
<1>10. v - y \in 1 .. c /\ v = y + (v - y)
  BY <1>1, <1>5, <1>6, <1>7, <1>8, <1>9
<1> QED  BY <1>3, <1>7, <1>9, <1>10 DEF N

\* The size of each value.
LEMMA SizesAre ==
  ASSUME NEW m, Agrees(m)
  PROVE  /\ Sizes(m) \in Seq(Nat) /\ Len(Sizes(m)) = Values(m)
         /\ \A k \in 1 .. Total(m) : \A n \in 1 .. Count(m.format[k]) :
              Sizes(m)[ValuesBefore(m, k) + n] = Width(m.format[k])
<1> DEFINE ss == [k \in DOMAIN m.format |-> [n \in 1 .. Count(m.format[k]) |-> Width(m.format[k])]]
<1>1. Total(m) \in Nat /\ DOMAIN m.format = 1 .. Total(m)
  BY BeforeIs
<1>2. ASSUME NEW k \in 1 .. Total(m)
      PROVE  /\ ss[k] \in Seq(Nat) /\ Len(ss[k]) = Count(m.format[k])
             /\ \A n \in 1 .. Count(m.format[k]) : ss[k][n] = Width(m.format[k])
  <2>1. PICK c \in Nat, w \in Nat : c = Count(m.format[k]) /\ w = Width(m.format[k])
    BY <1>1, ItemIs
  <2>2. ss[k] = [n \in 1 .. c |-> w]
    BY <1>1, <2>1
  <2>3. PICK f : f = [n \in 1 .. c |-> w]
    OBVIOUS
  <2>4. f \in Seq(Nat) /\ Len(f) = c /\ \A n \in 1 .. c : f[n] = w
    BY <2>3
  <2> QED  BY <2>1, <2>2, <2>3, <2>4
<1>3. ss \in Seq(Seq(Nat)) /\ Len(ss) = Total(m)
  BY <1>1, <1>2
<1>4. Sizes(m) = FlattenSeq(ss)
  BY DEF Sizes
<1> HIDE DEF ss
<1> QED  BY <1>2, <1>3, <1>4, ValuesJoined

-----------------------------------------------------------------------------
Fields(m) == Len(m.orders)

\* What a message class of the dialect promises about its fields.
LEMMA AgreesFacts ==
  ASSUME NEW m, Agrees(m)
  PROVE  /\ Fields(m) \in Nat /\ DOMAIN m.orders = 1 .. Fields(m) /\ DOMAIN m.packs = 1 .. Fields(m)
         /\ Len(m.packs) = Fields(m)
         /\ \A i \in 1 .. Fields(m) : /\ m.orders[i] \in 0 .. Fields(m) - 1
                                      /\ m.packs[i] \in 0 .. Fields(m) - 1
                                      /\ m.packs[m.orders[i] + 1] = i - 1
                                      /\ m.orders[m.packs[i] + 1] = i - 1
         /\ m.lengths \in Seq(Nat \ {0}) /\ Len(m.lengths) = Fields(m) /\ m.counts = m.lengths
         /\ \A i \in 1 .. Fields(m) : m.lengths[i] \in Nat \ {0}
         /\ Values(m) = Upto(m.lengths, Fields(m)) /\ Values(m) \in Nat
         /\ Size(m) \in 1 .. 255
<1> DEFINE F == Fields(m)
<1>1. /\ F \in Nat /\ m.orders \in Seq(0 .. F - 1) /\ m.packs \in Seq(0 .. F - 1) /\ Len(m.packs) = F
      /\ m.lengths \in Seq(Nat \ {0}) /\ Len(m.lengths) = F /\ m.counts = m.lengths
  BY DEF Agrees, Fields
<1>2. \A i \in 1 .. F : m.packs[m.orders[i] + 1] = i - 1 /\ m.orders[m.packs[i] + 1] = i - 1
  BY DEF Agrees, Fields
<1>3. Values(m) = Upto(m.lengths, F) /\ Size(m) \in 1 .. 255
  BY DEF Agrees, Fields, Values, Size, Total
<1>4. PICK S : S = 0 .. F - 1
  OBVIOUS
<1>5. PICK o \in Seq(S), q \in Seq(S) : o = m.orders /\ q = m.packs /\ Len(o) = F /\ Len(q) = F
  BY <1>1, <1>4 DEF Fields
<1>6. \A i \in 1 .. F : o[i] \in S /\ q[i] \in S
  BY <1>5, ElementIs
<1>7. DOMAIN o = 1 .. F /\ DOMAIN q = 1 .. F
  BY <1>5
<1>8. \A i \in 1 .. F : m.lengths[i] \in Nat \ {0}
  BY <1>1
<1>9. Values(m) \in Nat
  <2>1. Total(m) + 1 \in 1 .. Total(m) + 1
    BY BeforeIs
  <2> QED  BY <2>1, BeforeIs DEF Values
<1> HIDE DEF F
<1> QED  BY <1>1, <1>2, <1>3, <1>4, <1>5, <1>6, <1>7, <1>8, <1>9 DEF F

\* The fields that fit a class.
LEMMA FitsIs ==
  ASSUME NEW m, Agrees(m), NEW fields, Fits(m, fields)
  PROVE  /\ DOMAIN fields = 1 .. Fields(m) /\ Len(fields) = Fields(m) /\ fields \in Seq(Seq(Bytes))
         /\ \A i \in 1 .. Fields(m) : /\ fields[i] \in Seq(Bytes)
                                      /\ Len(fields[i]) = m.lengths[m.orders[i] + 1]
                                      /\ Len(fields[i]) \in Nat
<1>1. fields \in Seq(Seq(Bytes)) /\ Len(fields) = Fields(m)
  BY DEF Fits, Fields
<1>2. DOMAIN fields = 1 .. Fields(m)
  BY <1>1
<1>3. ASSUME NEW i \in 1 .. Fields(m)
      PROVE  /\ fields[i] \in Seq(Bytes) /\ Len(fields[i]) \in Nat
             /\ Len(fields[i]) = m.lengths[m.orders[i] + 1]
  <2>1. i \in DOMAIN fields /\ fields[i] \in Seq(Bytes)
    BY <1>1, <1>2, ElementIs
  <2>2. Len(fields[i]) = m.lengths[m.orders[i] + 1]
    BY <2>1 DEF Fits
  <2>3. Len(fields[i]) \in Nat
    BY <2>1
  <2> QED  BY <2>1, <2>2, <2>3
<1> QED  BY <1>1, <1>2, <1>3

\* The values in the order of the wire.
Wire(m, fields) == FlattenSeq([k \in DOMAIN m.packs |-> SubSeq(fields[m.packs[k] + 1], 1, m.counts[k])])

\* The values of a field are written to where its order says (mavlink.py:221-245).
LEMMA WireIs ==
  ASSUME NEW m, Agrees(m), NEW fields, Fits(m, fields)
  PROVE  /\ Wire(m, fields) \in Seq(Bytes) /\ Len(Wire(m, fields)) = Values(m)
         /\ \A i \in 1 .. Fields(m) : \A j \in 1 .. Len(fields[i]) :
              /\ Upto(m.lengths, m.orders[i]) + j \in 1 .. Values(m)
              /\ Wire(m, fields)[Upto(m.lengths, m.orders[i]) + j] = fields[i][j]
<1> DEFINE ss == [k \in DOMAIN m.packs |-> SubSeq(fields[m.packs[k] + 1], 1, m.counts[k])]
           F == Fields(m)
<1>1. ASSUME NEW k \in 1 .. F
      PROVE  /\ m.packs[k] + 1 \in 1 .. F /\ m.orders[m.packs[k] + 1] + 1 = k
             /\ ss[k] \in Seq(Bytes) /\ Len(ss[k]) = m.lengths[k]
             /\ \A j \in 1 .. m.lengths[k] : ss[k][j] = fields[m.packs[k] + 1][j]
  <2>1. PICK i \in 1 .. F : i = m.packs[k] + 1 /\ m.orders[i] = k - 1
    <3>1. m.packs[k] \in 0 .. F - 1 /\ m.orders[m.packs[k] + 1] = k - 1 /\ F \in Nat
      BY AgreesFacts
    <3>2. m.packs[k] + 1 \in 1 .. F
      BY <3>1
    <3> QED  BY <3>1, <3>2
  <2>2. m.orders[i] + 1 = k
    <3>1. k \in Nat
      BY AgreesFacts
    <3> QED  BY <2>1, <3>1
  <2>3. PICK f \in Seq(Bytes) : f = fields[i] /\ Len(f) = m.lengths[k] /\ Len(f) \in Nat
    <3>1. fields[i] \in Seq(Bytes) /\ Len(fields[i]) = m.lengths[m.orders[i] + 1] /\ Len(fields[i]) \in Nat
      BY <2>1, FitsIs
    <3>2. Len(fields[i]) = m.lengths[k]
      BY <2>2, <3>1
    <3> QED  BY <3>1, <3>2
  <2>4. ss[k] = SubSeq(f, 1, Len(f))
    BY <2>1, <2>3, AgreesFacts
  <2>5. SubSeq(f, 0 + 1, Len(f)) \in Seq(Bytes) /\ Len(SubSeq(f, 0 + 1, Len(f))) = Len(f) - 0
        /\ \A j \in 1 .. Len(f) - 0 : SubSeq(f, 0 + 1, Len(f))[j] = f[0 + j]
    <3>1. 0 <= Len(f) /\ Len(f) <= Len(f) /\ 0 \in Nat
      BY <2>3
    <3>2. PICK T : T = Bytes
      OBVIOUS
    <3>3. f \in Seq(T)
      BY <3>2
    <3> QED  BY <2>3, <3>1, <3>2, <3>3, SubSeqIs
  <2>6. 0 + 1 = 1 /\ Len(f) - 0 = Len(f) /\ \A j \in 1 .. Len(f) : 0 + j = j
    BY <2>3
  <2>7. SubSeq(f, 1, Len(f)) \in Seq(Bytes) /\ Len(SubSeq(f, 1, Len(f))) = Len(f)
        /\ \A j \in 1 .. Len(f) : SubSeq(f, 1, Len(f))[j] = f[j]
    BY <2>5, <2>6
  <2> HIDE DEF ss
  <2> QED  BY <2>1, <2>2, <2>3, <2>4, <2>7
<1>2. F \in Nat /\ DOMAIN m.packs = 1 .. F
  BY AgreesFacts
<1>3. ss \in Seq(Seq(Bytes)) /\ Len(ss) = F
  <2>1. \A k \in 1 .. F : ss[k] \in Seq(Bytes)
    BY <1>1
  <2>2. ss = [k \in 1 .. F |-> ss[k]]
    BY <1>2
  <2> HIDE DEF ss
  <2> QED  BY <1>2, <2>1, <2>2
<1>4. Wire(m, fields) = FlattenSeq(ss)
  BY DEF Wire
<1> HIDE DEF ss, F
<1>5. Lengths(ss) = m.lengths
  <2>1. PICK l \in Seq(Nat \ {0}) : l = m.lengths /\ Len(l) = F
    BY AgreesFacts DEF F
  <2>2. PICK e : e = Lengths(ss)
    OBVIOUS
  <2>3. e = [k \in 1 .. F |-> Len(ss[k])]
    BY <1>2, <1>3, <2>2 DEF Lengths
  <2>4. e = [k \in 1 .. F |-> l[k]]
    BY <1>1, <2>1, <2>3
  <2>5. l = [k \in 1 .. F |-> l[k]]
    BY <1>2, <2>1
  <2> QED  BY <2>1, <2>2, <2>4, <2>5
<1>6. /\ FlattenSeq(ss) \in Seq(Bytes)
      /\ Len(FlattenSeq(ss)) = Upto(Lengths(ss), Len(ss))
      /\ \A k \in 1 .. Len(ss) : \A j \in 1 .. Len(ss[k]) :
           FlattenSeq(ss)[Upto(Lengths(ss), k - 1) + j] = ss[k][j]
  <2>1. PICK T : T = Bytes
    OBVIOUS
  <2>2. ss \in Seq(Seq(T))
    BY <1>3, <2>1
  <2> QED  BY <2>1, <2>2, FlattenIs
<1>7. Len(Wire(m, fields)) = Values(m) /\ Wire(m, fields) \in Seq(Bytes)
  <2>1. Values(m) = Upto(m.lengths, F)
    BY AgreesFacts DEF F
  <2> QED  BY <1>3, <1>4, <1>5, <1>6, <2>1
<1>8. ASSUME NEW i \in 1 .. F, NEW j \in 1 .. Len(fields[i])
      PROVE  /\ Upto(m.lengths, m.orders[i]) + j \in 1 .. Values(m)
             /\ Wire(m, fields)[Upto(m.lengths, m.orders[i]) + j] = fields[i][j]
  <2>1. PICK k \in 1 .. F : k = m.orders[i] + 1 /\ m.packs[k] = i - 1
    <3>1. m.orders[i] \in 0 .. F - 1 /\ m.packs[m.orders[i] + 1] = i - 1
      BY AgreesFacts DEF F
    <3>2. m.orders[i] + 1 \in 1 .. F
      BY <1>2, <3>1
    <3> QED  BY <3>1, <3>2
  <2>2. m.packs[k] + 1 = i /\ k - 1 = m.orders[i]
    <3>1. m.orders[i] \in 0 .. F - 1
      BY AgreesFacts DEF F
    <3>2. k - 1 = m.orders[i]
      BY <1>2, <2>1, <3>1
    <3> QED  BY <1>2, <2>1, <3>2
  <2>3. Len(fields[i]) = m.lengths[k] /\ m.lengths[k] \in Nat
    <3>1. Len(fields[i]) = m.lengths[m.orders[i] + 1] /\ Len(fields[i]) \in Nat
      BY FitsIs DEF F
    <3> QED  BY <2>1, <3>1
  <2>4. ss[k][j] = fields[i][j] /\ j \in 1 .. Len(ss[k])
    BY <1>1, <2>2, <2>3
  <2>5. FlattenSeq(ss)[Upto(Lengths(ss), k - 1) + j] = ss[k][j]
    BY <1>3, <1>6, <2>4
  <2>6. Upto(m.lengths, k - 1) + j \in 1 .. Values(m)
    <3>1. \A x \in 1 .. F : m.lengths[x] \in Nat
      BY AgreesFacts DEF F
    <3>2. k - 1 \in 0 .. F /\ k \in 0 .. F /\ F \in 0 .. F /\ k <= F /\ k - 1 \in Nat /\ (k - 1) + 1 = k
      BY <1>2
    <3>3. PICK x \in Nat, y \in Nat, z \in Nat :
             x = Upto(m.lengths, k - 1) /\ y = Upto(m.lengths, k) /\ z = Upto(m.lengths, F)
      BY <1>2, <3>1, <3>2, UptoNat
    <3>4. y <= z
      BY <1>2, <3>1, <3>2, <3>3, UptoGrows
    <3>5. Upto(m.lengths, (k - 1) + 1) = Upto(m.lengths, k - 1) + m.lengths[(k - 1) + 1]
      BY <3>2, UptoIs
    <3>6. y = x + m.lengths[k]
      BY <3>2, <3>3, <3>5
    <3>7. x + j \in 1 .. z
      BY <2>3, <3>4, <3>6
    <3>8. Values(m) = z
      BY <3>3, AgreesFacts DEF F
    <3> QED  BY <3>3, <3>7, <3>8
  <2> QED  BY <1>4, <1>5, <2>2, <2>4, <2>5, <2>6
<1> QED  BY <1>7, <1>8 DEF F

-----------------------------------------------------------------------------
\* A function on 1 .. d is a sequence.
LEMMA SequenceIs ==
  ASSUME NEW T, NEW d \in Nat, NEW f, f = [b \in 1 .. d |-> f[b]], \A b \in 1 .. d : f[b] \in T
  PROVE  f \in Seq(T) /\ Len(f) = d
OBVIOUS

\* A place among the bytes of an item belongs to one of its values.
LEMMA PlaceOf ==
  ASSUME NEW w \in Nat \ {0}, NEW c \in Nat \ {0}, w \in {1, 2, 4, 8} \/ c = 1, NEW b \in 1 .. c * w
  PROVE  ((b - 1) \div w) + 1 \in 1 .. c /\ ((b - 1) % w) + 1 \in 1 .. w
<1>1. CASE c = 1
  <2>1. b - 1 \in Nat /\ b - 1 < w
    BY <1>1
  <2>2. (b - 1) \div w = 0 /\ (b - 1) % w = b - 1
    BY <2>1, DivSmall
  <2> QED  BY <1>1, <2>1, <2>2
<1>2. CASE w = 1
  BY <1>2
<1>3. CASE w = 2
  BY <1>3
<1>4. CASE w = 4
  BY <1>4
<1>5. CASE w = 8
  BY <1>5
<1> QED  BY <1>1, <1>2, <1>3, <1>4, <1>5

\* A byte of a value, NUL behind its end.
Byte(value, j) == IF j <= Len(value) THEN value[j] ELSE 0

\* A byte of a value, or the zero behind a string, is a byte.
LEMMA ByteIs == ASSUME NEW v \in Bytes, NEW j \in Nat \ {0} PROVE Byte(v, j) \in 0 .. 255
<1>1. v \in Seq(0 .. 255) /\ Len(v) \in Nat
  BY DEF Bytes
<1>2. CASE j <= Len(v)
  <2>1. j \in 1 .. Len(v)
    BY <1>1, <1>2
  <2>2. v[j] \in 0 .. 255
    BY <1>1, <2>1, ElementIs
  <2> QED  BY <1>2, <2>2 DEF Byte
<1>3. CASE ~(j <= Len(v))
  BY <1>3 DEF Byte
<1> QED  BY <1>2, <1>3

\* Where value n of item k stands among the values, and its byte j among the bytes.
Place(m, k, n) == ValuesBefore(m, k) + n
BytePlace(m, k, n, j) == BytesBefore(m, k) + ((n - 1) * Width(m.format[k]) + j)

\* Where a value and its bytes lie on the wire.
LEMMA PlacesAre ==
  ASSUME NEW m, Agrees(m), NEW k \in 1 .. Total(m), NEW n \in 1 .. Count(m.format[k])
  PROVE  /\ Place(m, k, n) \in 1 .. Values(m)
         /\ \A j \in 1 .. Width(m.format[k]) :
              /\ BytePlace(m, k, n, j) \in 1 .. Size(m)
              /\ (n - 1) * Width(m.format[k]) + j \in 1 .. Count(m.format[k]) * Width(m.format[k])
<1>1. PICK c \in Nat \ {0}, w \in Nat \ {0} : c = Count(m.format[k]) /\ w = Width(m.format[k])
  BY BeforeIs, ItemIs
<1>2. w \in {1, 2, 4, 8} \/ c = 1
  BY <1>1, BeforeIs, ItemIs
<1>3. k \in 1 .. Total(m) + 1 /\ k + 1 \in 1 .. Total(m) + 1 /\ Total(m) + 1 \in 1 .. Total(m) + 1
  BY BeforeIs
<1>4. PICK x \in Nat, y \in Nat, s \in Nat, z \in Nat :
        x = ValuesBefore(m, k) /\ y = BytesBefore(m, k) /\ s = Values(m) /\ z = Size(m)
  BY <1>3, BeforeIs DEF Values, Size
<1>5. x + c <= s
  <2>1. ValuesBefore(m, k + 1) = x + c /\ ValuesBefore(m, k + 1) <= s
    BY <1>1, <1>4, BeforeIs
  <2> QED  BY <2>1
<1>6. y + c * w <= z
  <2>1. BytesBefore(m, k + 1) = y + c * w /\ BytesBefore(m, k + 1) <= z
    BY <1>1, <1>4, BeforeIs
  <2> QED  BY <2>1
<1>7. Place(m, k, n) \in 1 .. s
  BY <1>1, <1>4, <1>5 DEF Place
<1>8. ASSUME NEW j \in 1 .. w
      PROVE  (n - 1) * w + j \in 1 .. c * w /\ y + ((n - 1) * w + j) \in 1 .. z
  <2>1. PICK b : b = (n - 1) * w + j
    OBVIOUS
  <2>2. b \in 1 .. c * w
    BY <1>1, <1>2, <2>1, PlaceIs
  <2>3. PICK d \in Nat : d = c * w
    BY <1>2, Product
  <2>4. y + b \in 1 .. z
    BY <1>6, <2>2, <2>3
  <2> QED  BY <2>1, <2>2, <2>4
<1> QED  BY <1>1, <1>4, <1>7, <1>8 DEF BytePlace

\* What pack writes for each value.
LEMMA PayloadIs ==
  ASSUME NEW m, Agrees(m), NEW fields, Fits(m, fields), NEW p, p = payload(m, fields)
  PROVE  /\ p \in Bytes /\ Len(p) = Size(m)
         /\ \A k \in 1 .. Total(m) : \A n \in 1 .. Count(m.format[k]) : \A j \in 1 .. Width(m.format[k]) :
              p[BytePlace(m, k, n, j)] = Byte(Wire(m, fields)[Place(m, k, n)], j)
<1> DEFINE values == Wire(m, fields)
           item(k) == LET width == Width(m.format[k])
                          before == ValuesBefore(m, k)
                          value(b) == values[before + ((b - 1) \div width) + 1]
                          place(b) == ((b - 1) % width) + 1
                      IN [b \in 1 .. Count(m.format[k]) * width |->
                            IF place(b) <= Len(value(b)) THEN value(b)[place(b)] ELSE 0]
           ss == [k \in DOMAIN m.format |-> item(k)]
<1>1. p = FlattenSeq(ss)
  BY DEF payload, Wire
<1>2. ASSUME NEW k \in 1 .. Total(m)
      PROVE  /\ ss[k] \in Bytes /\ Len(ss[k]) = Count(m.format[k]) * Width(m.format[k])
             /\ \A n \in 1 .. Count(m.format[k]) : \A j \in 1 .. Width(m.format[k]) :
                  ss[k][(n - 1) * Width(m.format[k]) + j] = Byte(values[Place(m, k, n)], j)
  <2>1. PICK c \in Nat \ {0}, w \in Nat \ {0} : c = Count(m.format[k]) /\ w = Width(m.format[k])
    BY BeforeIs, ItemIs
  <2>2. w \in {1, 2, 4, 8} \/ c = 1
    BY <2>1, BeforeIs, ItemIs
  <2>3. PICK x \in Nat : x = ValuesBefore(m, k)
    <3>1. k \in 1 .. Total(m) + 1
      BY BeforeIs
    <3> QED  BY <3>1, BeforeIs
  <2>4. PICK d \in Nat : d = c * w
    BY <2>2, Product
  <2> DEFINE at(b) == x + ((b - 1) \div w) + 1
  <2>5. ss[k] = [b \in 1 .. d |-> Byte(values[at(b)], ((b - 1) % w) + 1)]
    BY <2>1, <2>3, <2>4, BeforeIs DEF Byte
  <2>6. ASSUME NEW b \in 1 .. d PROVE Byte(values[at(b)], ((b - 1) % w) + 1) \in 0 .. 255
    <3>1. (b - 1) \div w + 1 \in 1 .. c /\ ((b - 1) % w) + 1 \in 1 .. w
      BY <2>2, <2>4, PlaceOf
    <3>2. PICK n \in 1 .. c : n = (b - 1) \div w + 1
      BY <3>1
    <3>3. PICK j \in 1 .. w : j = ((b - 1) % w) + 1
      BY <3>1
    <3>4. at(b) = x + n
      <4>1. PICK y \in Nat : y = (b - 1) \div w
        <5>1. PICK y : y = (b - 1) \div w
          OBVIOUS
        <5>2. y + 1 \in 1 .. c
          BY <3>1, <5>1
        <5>3. y \in Int
          BY <2>1, <5>1
        <5> QED  BY <5>1, <5>2, <5>3
      <4> QED  BY <3>2, <4>1
    <3>5. Place(m, k, n) = at(b)
      BY <2>1, <2>3, <3>4 DEF Place
    <3>6. at(b) \in 1 .. Values(m)
      BY <2>1, <3>5, PlacesAre
    <3>7. values[at(b)] \in Bytes
      BY <3>6, WireIs, ElementIs
    <3>8. Byte(values[at(b)], j) \in 0 .. 255
      BY <3>7, ByteIs
    <3> QED  BY <3>3, <3>8
  <2>7. ss[k] \in Bytes /\ Len(ss[k]) = d
    <3>1. PICK f : f = [b \in 1 .. d |-> Byte(values[at(b)], ((b - 1) % w) + 1)]
      OBVIOUS
    <3>2. \A b \in 1 .. d : f[b] \in 0 .. 255
      BY <2>6, <3>1
    <3>3. DOMAIN f = 1 .. d /\ f = [b \in 1 .. d |-> f[b]]
      BY <3>1
    <3>4. f \in Seq(0 .. 255) /\ Len(f) = d
      <4>1. PICK T : T = 0 .. 255
        OBVIOUS
      <4>2. \A b \in 1 .. d : f[b] \in T
        BY <3>2, <4>1
      <4>3. f \in Seq(T) /\ Len(f) = d
        BY <3>3, <4>2, SequenceIs
      <4> QED  BY <4>1, <4>3
    <3> QED  BY <2>5, <3>1, <3>4 DEF Bytes
  <2>8. ASSUME NEW n \in 1 .. c, NEW j \in 1 .. w
        PROVE  ss[k][(n - 1) * w + j] = Byte(values[Place(m, k, n)], j)
    <3>1. PICK b : b = (n - 1) * w + j
      OBVIOUS
    <3>2. b \in 1 .. d /\ (b - 1) \div w = n - 1 /\ (b - 1) % w = j - 1
      BY <2>2, <2>4, <3>1, PlaceIs
    <3>3. at(b) = x + n /\ ((b - 1) % w) + 1 = j
      BY <3>2
    <3>4. ss[k][b] = Byte(values[at(b)], ((b - 1) % w) + 1)
      BY <2>5, <3>2
    <3>5. Place(m, k, n) = x + n
      BY <2>3 DEF Place
    <3> QED  BY <3>1, <3>3, <3>4, <3>5
  <2> HIDE DEF ss, item
  <2> QED  BY <2>1, <2>4, <2>7, <2>8
<1>3. DOMAIN ss = 1 .. Total(m) /\ Total(m) \in Nat
  BY BeforeIs
<1>4. ss \in Seq(Bytes) /\ Len(ss) = Total(m)
  <2>1. ss = [k \in 1 .. Total(m) |-> ss[k]]
    BY <1>3
  <2> HIDE DEF ss, item
  <2> QED  BY <1>2, <1>3, <2>1
<1> HIDE DEF ss, item, values
<1>5. PICK T : T = 0 .. 255
  OBVIOUS
<1>6. Bytes = Seq(T)
  BY <1>5 DEF Bytes
<1>7. ss \in Seq(Seq(T)) /\ \A k \in 1 .. Total(m) : Len(ss[k]) = Count(m.format[k]) * Width(m.format[k])
  BY <1>2, <1>4, <1>6
<1>8. /\ FlattenSeq(ss) \in Seq(T) /\ Len(FlattenSeq(ss)) = Size(m)
      /\ \A k \in 1 .. Total(m) : \A b \in 1 .. Count(m.format[k]) * Width(m.format[k]) :
           FlattenSeq(ss)[BytesBefore(m, k) + b] = ss[k][b]
  BY <1>4, <1>7, BytesJoined
<1>9. ASSUME NEW k \in 1 .. Total(m), NEW n \in 1 .. Count(m.format[k]), NEW j \in 1 .. Width(m.format[k])
      PROVE  p[BytePlace(m, k, n, j)] = Byte(values[Place(m, k, n)], j)
  <2>1. PICK b : b = (n - 1) * Width(m.format[k]) + j
    OBVIOUS
  <2>2. b \in 1 .. Count(m.format[k]) * Width(m.format[k])
    BY <2>1, PlacesAre
  <2>3. p[BytesBefore(m, k) + b] = ss[k][b]
    BY <1>1, <1>8, <2>2
  <2>4. ss[k][b] = Byte(values[Place(m, k, n)], j)
    BY <1>2, <2>1
  <2>5. BytePlace(m, k, n, j) = BytesBefore(m, k) + b
    BY <2>1 DEF BytePlace
  <2> QED  BY <2>3, <2>4, <2>5
<1> QED  BY <1>1, <1>6, <1>8, <1>9 DEF values

-----------------------------------------------------------------------------
\* SubSeqIs for bytes.
LEMMA SubBytes ==
  ASSUME NEW s \in Bytes, NEW a \in Nat, NEW b \in Nat, a <= b, b <= Len(s)
  PROVE  /\ SubSeq(s, a + 1, b) \in Bytes /\ Len(SubSeq(s, a + 1, b)) = b - a
         /\ \A i \in 1 .. b - a : SubSeq(s, a + 1, b)[i] = s[a + i]
<1>1. PICK T : T = 0 .. 255
  OBVIOUS
<1>2. Bytes = Seq(T)
  BY <1>1 DEF Bytes
<1> QED  BY <1>2, SubSeqIs

\* The payload w is p with some of its trailing zeros left off.
Fills(w, m, p) == SubSeq(w \o Zeros(255), 1, Size(m)) = p

\* What unpack makes of a payload p.
LEMMA UnpackIs ==
  ASSUME NEW m, Agrees(m), NEW p \in Bytes, Len(p) = Size(m),
         NEW w, Fills(w, m, p), NEW t, t = unpack(m, w)
  PROVE  /\ t \in Seq(Bytes) /\ Len(t) = Values(m)
         /\ \A k \in 1 .. Total(m) : \A n \in 1 .. Count(m.format[k]) :
              /\ t[Place(m, k, n)] \in Bytes /\ Len(t[Place(m, k, n)]) = Width(m.format[k])
              /\ \A j \in 1 .. Width(m.format[k]) : t[Place(m, k, n)][j] = p[BytePlace(m, k, n, j)]
<1> DEFINE item(k) == LET width == Width(m.format[k])
                          before == BytesBefore(m, k)
                      IN [n \in 1 .. Count(m.format[k]) |->
                            SubSeq(p, before + (n - 1) * width + 1, before + n * width)]
           ss == [k \in DOMAIN m.format |-> item(k)]
<1>1. t = FlattenSeq(ss)
  BY DEF unpack, Size, Total, Fills
<1>2. ASSUME NEW k \in 1 .. Total(m)
      PROVE  /\ ss[k] \in Seq(Bytes) /\ Len(ss[k]) = Count(m.format[k])
             /\ \A n \in 1 .. Count(m.format[k]) :
                  /\ ss[k][n] \in Bytes /\ Len(ss[k][n]) = Width(m.format[k])
                  /\ \A j \in 1 .. Width(m.format[k]) : ss[k][n][j] = p[BytePlace(m, k, n, j)]
  <2>1. PICK c \in Nat \ {0}, w1 \in Nat \ {0} : c = Count(m.format[k]) /\ w1 = Width(m.format[k])
    BY BeforeIs, ItemIs
  <2>2. w1 \in {1, 2, 4, 8} \/ c = 1
    BY <2>1, BeforeIs, ItemIs
  <2>3. PICK y \in Nat, z \in Nat : y = BytesBefore(m, k) /\ z = Size(m)
    <3>1. k \in 1 .. Total(m) + 1
      BY BeforeIs
    <3> QED  BY <3>1, BeforeIs, AgreesFacts
  <2>4. ss[k] = [n \in 1 .. c |-> SubSeq(p, y + (n - 1) * w1 + 1, y + n * w1)]
    BY <2>1, <2>3, BeforeIs
  <2> HIDE DEF ss, item
  <2>5. ASSUME NEW n \in 1 .. c
        PROVE  /\ ss[k][n] \in Bytes /\ Len(ss[k][n]) = w1
               /\ \A j \in 1 .. w1 : ss[k][n][j] = p[BytePlace(m, k, n, j)]
    <3>1. PICK a \in Nat, b \in Nat : a = (n - 1) * w1 /\ b = n * w1 /\ b = a + w1
      BY <2>2, Product
    <3>2. y + b <= z
      <4>1. PICK d \in Nat : d = c * w1 /\ b <= d
        BY <2>2, <3>1, Product
      <4>2. y + d <= z
        <5>1. BytesBefore(m, k + 1) = y + d /\ BytesBefore(m, k + 1) <= z
          BY <2>1, <2>3, <4>1, BeforeIs
        <5> QED  BY <5>1
      <4> QED  BY <4>1, <4>2
    <3>3. ss[k][n] = SubSeq(p, (y + a) + 1, y + b)
      BY <2>4, <3>1
    <3>4. y + a \in Nat /\ y + b \in Nat /\ y + a <= y + b /\ y + b <= Len(p) /\ (y + b) - (y + a) = w1
      <4>1. b = a + w1
        BY <3>1
      <4>2. Len(p) = z
        BY <2>3
      <4> QED  BY <3>2, <4>1, <4>2
    <3>5. ss[k][n] \in Bytes /\ Len(ss[k][n]) = w1 /\ \A i \in 1 .. w1 : ss[k][n][i] = p[(y + a) + i]
      <4>1. PICK d \in Nat : d = y + a
        BY <3>4
      <4>2. PICK e \in Nat : e = y + b
        BY <3>4
      <4>3. d <= e /\ e <= Len(p) /\ e - d = w1
        BY <3>4, <4>1, <4>2
      <4>4. /\ SubSeq(p, d + 1, e) \in Bytes /\ Len(SubSeq(p, d + 1, e)) = e - d
            /\ \A i \in 1 .. e - d : SubSeq(p, d + 1, e)[i] = p[d + i]
        BY <4>3, SubBytes
      <4> QED  BY <3>3, <4>1, <4>2, <4>3, <4>4
    <3>6. ASSUME NEW j \in 1 .. w1 PROVE ss[k][n][j] = p[BytePlace(m, k, n, j)]
      <4>1. BytePlace(m, k, n, j) = y + (a + j)
        BY <2>1, <2>3, <3>1 DEF BytePlace
      <4>2. y + (a + j) = (y + a) + j
        BY <3>1
      <4> QED  BY <3>5, <4>1, <4>2
    <3> QED  BY <3>5, <3>6
  <2>6. ss[k] \in Seq(Bytes) /\ Len(ss[k]) = c
    <3>1. ss[k] = [n \in 1 .. c |-> ss[k][n]]
      BY <2>4
    <3>2. PICK T : T = Bytes
      OBVIOUS
    <3>3. \A n \in 1 .. c : ss[k][n] \in T
      BY <2>5, <3>2
    <3>4. ss[k] \in Seq(T) /\ Len(ss[k]) = c
      BY <3>1, <3>3, SequenceIs
    <3> QED  BY <3>2, <3>4
  <2> QED  BY <2>1, <2>5, <2>6
<1>3. DOMAIN ss = 1 .. Total(m) /\ Total(m) \in Nat
  BY BeforeIs
<1>4. ss \in Seq(Seq(Bytes)) /\ Len(ss) = Total(m)
  <2>1. ss = [k \in 1 .. Total(m) |-> ss[k]]
    BY <1>3
  <2> HIDE DEF ss, item
  <2> QED  BY <1>2, <1>3, <2>1
<1> HIDE DEF ss, item
<1>5. PICK T : T = Bytes
  OBVIOUS
<1>6. ss \in Seq(Seq(T)) /\ \A k \in 1 .. Total(m) : Len(ss[k]) = Count(m.format[k])
  BY <1>2, <1>4, <1>5
<1>7. /\ FlattenSeq(ss) \in Seq(T) /\ Len(FlattenSeq(ss)) = Values(m)
      /\ \A k \in 1 .. Total(m) : \A n \in 1 .. Count(m.format[k]) :
           FlattenSeq(ss)[ValuesBefore(m, k) + n] = ss[k][n]
  BY <1>4, <1>6, ValuesJoined
<1>8. ASSUME NEW k \in 1 .. Total(m), NEW n \in 1 .. Count(m.format[k])
      PROVE  t[Place(m, k, n)] = ss[k][n]
  BY <1>1, <1>7 DEF Place
<1>9. t \in Seq(Bytes) /\ Len(t) = Values(m)
  BY <1>1, <1>5, <1>7
<1> QED  BY <1>2, <1>8, <1>9, ZenonT(60)

\* Each value comes back, filled up with NULs to its size.
LEMMA ValueIs ==
  ASSUME NEW m, Agrees(m), NEW fields, Fits(m, fields),
         NEW w, Fills(w, m, payload(m, fields)), NEW t, t = unpack(m, w),
         NEW v \in 1 .. Values(m)
  PROVE  /\ t[v] \in Bytes /\ Len(t[v]) = Sizes(m)[v] /\ Sizes(m)[v] \in Nat
         /\ \A j \in 1 .. Sizes(m)[v] : t[v][j] = Byte(Wire(m, fields)[v], j)
<1>10. PICK k \in 1 .. Total(m) : \E n \in 1 .. Count(m.format[k]) : v = Place(m, k, n)
  BY ValueOf DEF Place
<1>1. PICK n \in 1 .. Count(m.format[k]) : v = Place(m, k, n)
  BY <1>10
<1>2. PICK p \in Bytes : p = payload(m, fields) /\ Len(p) = Size(m)
  BY PayloadIs
<1>3. /\ t[v] \in Bytes /\ Len(t[v]) = Width(m.format[k])
      /\ \A j \in 1 .. Width(m.format[k]) : t[v][j] = p[BytePlace(m, k, n, j)]
  <2>1. Fills(w, m, p)
    BY <1>2
  <2>2. /\ t[Place(m, k, n)] \in Bytes /\ Len(t[Place(m, k, n)]) = Width(m.format[k])
        /\ \A j \in 1 .. Width(m.format[k]) : t[Place(m, k, n)][j] = p[BytePlace(m, k, n, j)]
    BY <1>2, <2>1, UnpackIs
  <2> QED  BY <1>1, <2>2
<1>4. Sizes(m)[v] = Width(m.format[k])
  BY <1>1, SizesAre DEF Place
<1>5. ASSUME NEW j \in 1 .. Width(m.format[k]) PROVE t[v][j] = Byte(Wire(m, fields)[v], j)
  <2>1. p[BytePlace(m, k, n, j)] = Byte(Wire(m, fields)[Place(m, k, n)], j)
    BY <1>2, PayloadIs
  <2> QED  BY <1>1, <1>3, <2>1
<1>6. Width(m.format[k]) \in Nat
  BY BeforeIs, ItemIs
<1> QED  BY <1>3, <1>4, <1>5, <1>6

\* Every field finds its values again, wherever the wire has them.
SizeOf(m, i, n) == Sizes(m)[Upto(m.lengths, m.orders[i]) + n]

\* What was written to a field is read from it, byte by byte.
LEMMA OrderedIs ==
  ASSUME NEW m, Agrees(m), NEW fields, Fits(m, fields),
         NEW w, Fills(w, m, payload(m, fields)),
         NEW o, o = Ordered(m, unpack(m, w)), NEW i \in 1 .. Fields(m)
  PROVE  /\ DOMAIN o = 1 .. Fields(m)
         /\ o[i] \in Seq(Bytes) /\ Len(o[i]) = Len(fields[i])
         /\ \A n \in 1 .. Len(fields[i]) :
              /\ o[i][n] \in Bytes /\ Len(o[i][n]) = SizeOf(m, i, n)
              /\ \A j \in 1 .. SizeOf(m, i, n) : o[i][n][j] = Byte(fields[i][n], j)
<1>1. PICK t : t = unpack(m, w)
  OBVIOUS
<1>2. t \in Seq(Bytes) /\ Len(t) = Values(m) /\ Values(m) \in Nat
  <2>1. PICK p \in Bytes : p = payload(m, fields) /\ Len(p) = Size(m)
    BY PayloadIs
  <2>2. Values(m) \in Nat
    BY AgreesFacts
  <2> QED  BY <1>1, <2>1, <2>2, UnpackIs
<1>3. PICK l \in Nat \ {0} : l = Len(fields[i]) /\ l = m.lengths[m.orders[i] + 1]
  <2>1. Len(fields[i]) = m.lengths[m.orders[i] + 1] /\ Len(fields[i]) \in Nat
    BY FitsIs
  <2>2. m.orders[i] \in 0 .. Fields(m) - 1 /\ Fields(m) \in Nat
    BY AgreesFacts
  <2>3. m.orders[i] + 1 \in 1 .. Fields(m)
    BY <2>2
  <2>4. m.lengths[m.orders[i] + 1] \in Nat \ {0}
    BY <2>3, AgreesFacts
  <2> QED  BY <2>1, <2>4
<1>4. PICK tip \in Nat : tip = Upto(m.lengths, m.orders[i])
  <2>1. m.orders[i] \in 0 .. Fields(m) /\ Fields(m) \in Nat
    <3>1. m.orders[i] \in 0 .. Fields(m) - 1 /\ Fields(m) \in Nat
      BY AgreesFacts
    <3> QED  BY <3>1
  <2>2. \A x \in 1 .. Fields(m) : m.lengths[x] \in Nat
    BY AgreesFacts
  <2> QED  BY <2>1, <2>2, UptoNat
<1>5. \A n \in 1 .. l : tip + n \in 1 .. Values(m) /\ Wire(m, fields)[tip + n] = fields[i][n]
  <2>1. \A n \in 1 .. Len(fields[i]) :
           /\ Upto(m.lengths, m.orders[i]) + n \in 1 .. Values(m)
           /\ Wire(m, fields)[Upto(m.lengths, m.orders[i]) + n] = fields[i][n]
    BY WireIs
  <2> QED  BY <1>3, <1>4, <2>1
<1>6. tip + l <= Len(t)
  <2>1. l \in 1 .. l
    OBVIOUS
  <2>2. tip + l \in 1 .. Values(m)
    BY <1>5, <2>1
  <2> QED  BY <1>2, <2>2
<1>7. DOMAIN o = 1 .. Fields(m) /\ o[i] = SubSeq(t, tip + 1, tip + l)
  BY <1>1, <1>3, <1>4, AgreesFacts DEF Ordered
<1>8. o[i] \in Seq(Bytes) /\ Len(o[i]) = l /\ \A n \in 1 .. l : o[i][n] = t[tip + n]
  <2>1. tip + l \in Nat /\ tip <= tip + l /\ (tip + l) - tip = l
    OBVIOUS
  <2>2. PICK T : T = Bytes
    OBVIOUS
  <2>3. t \in Seq(T)
    BY <1>2, <2>2
  <2>4. /\ SubSeq(t, tip + 1, tip + l) \in Seq(T) /\ Len(SubSeq(t, tip + 1, tip + l)) = (tip + l) - tip
        /\ \A n \in 1 .. (tip + l) - tip : SubSeq(t, tip + 1, tip + l)[n] = t[tip + n]
    BY <1>6, <2>1, <2>3, SubSeqIs
  <2> QED  BY <1>7, <2>1, <2>2, <2>4
<1>9. ASSUME NEW n \in 1 .. l
      PROVE  /\ o[i][n] \in Bytes /\ Len(o[i][n]) = Sizes(m)[tip + n] /\ Sizes(m)[tip + n] \in Nat
             /\ \A j \in 1 .. Sizes(m)[tip + n] : o[i][n][j] = Byte(fields[i][n], j)
  <2>1. PICK v \in 1 .. Values(m) : v = tip + n
    BY <1>5
  <2>2. Wire(m, fields)[v] = fields[i][n] /\ o[i][n] = t[v]
    BY <1>5, <1>8, <2>1
  <2>3. /\ t[v] \in Bytes /\ Len(t[v]) = Sizes(m)[v] /\ Sizes(m)[v] \in Nat
        /\ \A j \in 1 .. Sizes(m)[v] : t[v][j] = Byte(Wire(m, fields)[v], j)
    BY <1>1, ValueIs
  <2> QED  BY <2>1, <2>2, <2>3, SMTT(60)
<1>10. ASSUME NEW n \in 1 .. l PROVE SizeOf(m, i, n) = Sizes(m)[tip + n]
  BY <1>4 DEF SizeOf
<1> QED  BY <1>3, <1>7, <1>8, <1>9, <1>10, ZenonT(60)

-----------------------------------------------------------------------------
\* What a payload is filled up with (mavlink.py:9843-9846).
LEMMA ZerosIs ==
  ASSUME NEW n \in Nat
  PROVE  Zeros(n) \in Bytes /\ Len(Zeros(n)) = n /\ \A i \in 1 .. n : Zeros(n)[i] = 0
<1>1. PICK z : z = [i \in 1 .. n |-> 0]
  OBVIOUS
<1>2. PICK T : T = 0 .. 255
  OBVIOUS
<1>3. z = [i \in 1 .. n |-> z[i]] /\ \A i \in 1 .. n : z[i] = 0
  BY <1>1
<1>4. \A i \in 1 .. n : z[i] \in T
  BY <1>2, <1>3
<1>5. z \in Seq(T) /\ Len(z) = n
  BY <1>3, <1>4, SequenceIs
<1> QED  BY <1>1, <1>2, <1>3, <1>5 DEF Zeros, Bytes

\* Two strings of the same bytes are the same.
LEMMA SameBytes ==
  ASSUME NEW a \in Bytes, NEW b \in Bytes, Len(a) = Len(b), \A i \in 1 .. Len(a) : a[i] = b[i]
  PROVE  a = b
<1>1. PICK T : T = 0 .. 255
  OBVIOUS
<1>2. a \in Seq(T) /\ b \in Seq(T)
  BY <1>1 DEF Bytes
<1> QED  BY <1>2, SameSequence

\* What two joined strings hold.
LEMMA JoinedBytes ==
  ASSUME NEW a \in Bytes, NEW b \in Bytes
  PROVE  /\ a \o b \in Bytes /\ Len(a \o b) = Len(a) + Len(b) /\ Len(a) \in Nat /\ Len(b) \in Nat
         /\ \A i \in 1 .. Len(a) : (a \o b)[i] = a[i]
         /\ \A i \in 1 .. Len(b) : (a \o b)[Len(a) + i] = b[i]
<1>1. PICK T : T = 0 .. 255
  OBVIOUS
<1>2. Bytes = Seq(T)
  BY <1>1 DEF Bytes
<1> QED  BY <1>2, ConcatIs

\* What is left off is zeros.
LEMMA StrippedIs ==
  ASSUME NEW p \in Bytes, Len(p) >= 1
  PROVE  \E n \in 1 .. Len(p) : /\ Stripped(p) = SubSeq(p, 1, n)
                                /\ \A j \in n + 1 .. Len(p) : p[j] = 0
<1>1. PICK l \in Nat : l = Len(p)
  BY JoinedBytes
<1> DEFINE T == {n \in Nat : n \in 1 .. l /\ \A j \in n + 1 .. l : p[j] = 0}
<1>2. T # {} /\ T \subseteq Nat
  <2>1. l \in T
    BY <1>1
  <2> QED  BY <2>1
<1>3. PICK n \in T : \A k \in T : n <= k
  BY <1>2, LeastOf
<1>4. n = 1 \/ p[n] # 0
  <2>1. SUFFICES ASSUME n # 1, p[n] = 0 PROVE FALSE
    OBVIOUS
  <2>2. n - 1 \in Nat /\ n - 1 \in 1 .. l /\ n - 1 \notin T
    BY <1>3, <2>1
  <2>3. \A j \in (n - 1) + 1 .. l : j = n \/ j \in n + 1 .. l
    OBVIOUS
  <2>4. \A j \in (n - 1) + 1 .. l : p[j] = 0
    BY <1>3, <2>1, <2>3
  <2> QED  BY <2>2, <2>4
<1>5. n \in 1 .. Len(p) /\ \A j \in n + 1 .. Len(p) : p[j] = 0
  BY <1>1, <1>3
<1> DEFINE c == CHOOSE k \in 1 .. Len(p) : (k = 1 \/ p[k] # 0) /\ \A j \in k + 1 .. Len(p) : p[j] = 0
<1>6. c \in 1 .. Len(p) /\ \A j \in c + 1 .. Len(p) : p[j] = 0
  BY <1>4, <1>5
<1>7. Stripped(p) = SubSeq(p, 1, c)
  BY DEF Stripped
<1> HIDE DEF c
<1> QED  BY <1>6, <1>7

\* A payload fills its place, with its trailing zeros or without.
LEMMA FillsIs ==
  ASSUME NEW m, NEW p \in Bytes, NEW l \in 1 .. 255, Len(p) = l, Size(m) = l,
         NEW w, w = p \/ w = Stripped(p)
  PROVE  Fills(w, m, p) /\ w \in Bytes /\ Len(w) \in 1 .. 255
<1>1. l \in Nat /\ l = Len(p) /\ l = Size(m)
  OBVIOUS
<1>2. PICK n \in 1 .. l : /\ w \in Bytes /\ Len(w) = n
                          /\ \A i \in 1 .. n : w[i] = p[i]
                          /\ \A j \in n + 1 .. l : p[j] = 0
  <2>1. CASE w = p
    <3>1. l \in 1 .. l /\ \A j \in l + 1 .. l : FALSE
      BY <1>1
    <3> QED  BY <1>1, <2>1, <3>1
  <2>2. CASE w = Stripped(p)
    <3>1. PICK n \in 1 .. l : w = SubSeq(p, 1, n) /\ \A j \in n + 1 .. l : p[j] = 0
      BY <1>1, <2>2, StrippedIs
    <3>2. /\ SubSeq(p, 0 + 1, n) \in Bytes /\ Len(SubSeq(p, 0 + 1, n)) = n - 0
          /\ \A i \in 1 .. n - 0 : SubSeq(p, 0 + 1, n)[i] = p[0 + i]
      <4>1. 0 \in Nat /\ n \in Nat /\ 0 <= n /\ n <= Len(p)
        BY <1>1
      <4> QED  BY <4>1, SubBytes
    <3>3. 0 + 1 = 1 /\ n - 0 = n /\ \A i \in 1 .. n : 0 + i = i
      OBVIOUS
    <3>4. SubSeq(p, 1, n) \in Bytes /\ Len(SubSeq(p, 1, n)) = n /\ \A i \in 1 .. n : SubSeq(p, 1, n)[i] = p[i]
      BY <3>2, <3>3
    <3> QED  BY <3>1, <3>4
  <2> QED  BY <2>1, <2>2
<1>3. PICK z : z = Zeros(255)
  OBVIOUS
<1>30. z \in Bytes /\ Len(z) = 255 /\ \A i \in 1 .. 255 : z[i] = 0
  <2>1. PICK k \in Nat : k = 255
    OBVIOUS
  <2>2. Zeros(k) \in Bytes /\ Len(Zeros(k)) = k /\ \A i \in 1 .. k : Zeros(k)[i] = 0
    BY ZerosIs
  <2>3. z = Zeros(k)
    BY <1>3, <2>1
  <2>4. z \in Bytes /\ Len(z) = k /\ \A i \in 1 .. k : z[i] = 0
    BY <2>2, <2>3
  <2> QED  BY <2>1, <2>4
<1>4. PICK a : a = w \o z
  OBVIOUS
<1>40. /\ a \in Bytes /\ Len(a) = n + 255
       /\ \A i \in 1 .. n : a[i] = w[i]
       /\ \A i \in 1 .. 255 : a[n + i] = z[i]
  <2>1. /\ w \o z \in Bytes /\ Len(w \o z) = Len(w) + Len(z)
        /\ \A i \in 1 .. Len(w) : (w \o z)[i] = w[i]
        /\ \A i \in 1 .. Len(z) : (w \o z)[Len(w) + i] = z[i]
    <3>1. w \in Bytes /\ z \in Bytes
      BY <1>2, <1>30
    <3> QED  BY <3>1, JoinedBytes, Zenon
  <2>2. /\ a \in Bytes /\ Len(a) = Len(w) + Len(z)
        /\ \A i \in 1 .. Len(w) : a[i] = w[i]
        /\ \A i \in 1 .. Len(z) : a[Len(w) + i] = z[i]
    BY <1>4, <2>1
  <2> QED  BY <1>2, <1>30, <2>2
<1>5. PICK s : s = SubSeq(a, 1, l)
  OBVIOUS
<1>50. s \in Bytes /\ Len(s) = l /\ \A i \in 1 .. l : s[i] = a[i]
  <2>1. /\ SubSeq(a, 0 + 1, l) \in Bytes /\ Len(SubSeq(a, 0 + 1, l)) = l - 0
        /\ \A i \in 1 .. l - 0 : SubSeq(a, 0 + 1, l)[i] = a[0 + i]
    <3>1. 0 \in Nat /\ l \in Nat /\ 0 <= l /\ l <= Len(a)
      BY <1>1, <1>2, <1>40
    <3> QED  BY <1>40, <3>1, SubBytes, ZenonT(60)
  <2>2. 0 + 1 = 1 /\ l - 0 = l /\ \A i \in 1 .. l : 0 + i = i
    OBVIOUS
  <2>3. SubSeq(a, 1, l) \in Bytes /\ Len(SubSeq(a, 1, l)) = l /\ \A i \in 1 .. l : SubSeq(a, 1, l)[i] = a[i]
    BY <2>1, <2>2
  <2> QED  BY <1>5, <2>3
<1>6. ASSUME NEW i \in 1 .. l PROVE s[i] = p[i]
  <2>1. CASE i <= n
    BY <1>2, <1>40, <1>50, <2>1
  <2>2. CASE ~(i <= n)
    <3>1. i \in n + 1 .. l /\ i - n \in 1 .. 255 /\ n + (i - n) = i
      BY <1>1, <2>2
    <3>0. PICK k \in 1 .. 255 : n + k = i
      BY <3>1
    <3>2. a[i] = z[k] /\ z[k] = 0
      <4>1. \A x \in 1 .. 255 : a[n + x] = z[x]
        BY <1>40
      <4>2. \A x \in 1 .. 255 : z[x] = 0
        BY <1>30
      <4>3. a[n + k] = z[k] /\ z[k] = 0
        BY <4>1, <4>2
      <4> QED  BY <3>0, <4>3
    <3> QED  BY <1>2, <1>50, <3>1, <3>2
  <2> QED  BY <2>1, <2>2
<1>7. s = p
  BY <1>1, <1>50, <1>6, SameBytes
<1>8. Fills(w, m, p)
  <2>1. SubSeq(w \o Zeros(255), 1, Size(m)) = s
    BY <1>1, <1>3, <1>4, <1>5
  <2> QED  BY <1>7, <2>1 DEF Fills
<1> QED  BY <1>1, <1>2, <1>8

-----------------------------------------------------------------------------
\* A text comes back without the NULs behind it.
LEMMA TextIs ==
  ASSUME NEW x \in Bytes, NEW f \in Bytes, Len(f) <= Len(x),
         \A j \in 1 .. Len(x) : x[j] = Byte(f, j),
         \A j \in 1 .. Len(f) : f[j] \notin {0, 255}
  PROVE  MAVString(x) = f /\ ~NotText(x)
<1>1. PICK a \in Nat, b \in Nat : a = Len(f) /\ b = Len(x) /\ a <= b
  BY JoinedBytes
<1>2. DOMAIN x = 1 .. b /\ DOMAIN f = 1 .. a
  BY <1>1 DEF Bytes
<1>3. \A j \in 1 .. b : (j <= a => x[j] = f[j]) /\ (~(j <= a) => x[j] = 0)
  BY <1>1 DEF Byte
<1>4. \A j \in 1 .. a : x[j] = f[j] /\ f[j] # 0 /\ f[j] # 255
  BY <1>1, <1>3
<1>5. ~NotText(x)
  <2>1. ASSUME NEW j \in 1 .. b PROVE x[j] # 255
    <3>1. CASE j <= a
      <4>1. j \in 1 .. a
        BY <1>1, <3>1
      <4> QED  BY <1>4, <4>1
    <3>2. CASE ~(j <= a)
      BY <1>3, <3>2
    <3> QED  BY <3>1, <3>2
  <2> QED  BY <1>2, <2>1 DEF NotText
<1>6. MAVString(x) = f
  <2>1. CASE a = b
    <3>1. ~(\E i \in DOMAIN x : x[i] = 0)
      BY <1>2, <1>4, <2>1
    <3>2. MAVString(x) = x
      BY <3>1 DEF MAVString
    <3>3. x = f
      BY <1>1, <1>4, <2>1, SameBytes
    <3> QED  BY <3>2, <3>3
  <2>2. CASE a # b
    <3>1. a + 1 \in 1 .. b /\ x[a + 1] = 0
      BY <1>1, <1>3, <2>2
    <3>2. \A i \in 1 .. b : x[i] = 0 => i > a
      <4>1. ASSUME NEW i \in 1 .. b, x[i] = 0 PROVE i > a
        <5>1. i \in 1 .. a => x[i] # 0
          BY <1>4
        <5> QED  BY <1>1, <4>1, <5>1
      <4> QED  BY <4>1
    <3> DEFINE c == CHOOSE i \in DOMAIN x : x[i] = 0 /\ \A j \in 1 .. i - 1 : x[j] # 0
    <3>3. \E i \in DOMAIN x : x[i] = 0 /\ \A j \in 1 .. i - 1 : x[j] # 0
      <4>1. \A j \in 1 .. (a + 1) - 1 : x[j] # 0
        BY <1>1, <1>4
      <4> QED  BY <1>2, <3>1, <4>1
    <3>4. c \in 1 .. b /\ x[c] = 0 /\ \A j \in 1 .. c - 1 : x[j] # 0
      BY <1>2, <3>3
    <3>5. MAVString(x) = SubSeq(x, 1, c - 1)
      BY <3>3 DEF MAVString
    <3> HIDE DEF c
    <3>6. c = a + 1
      <4>1. c > a
        BY <3>2, <3>4
      <4>2. ~(c > a + 1)
        <5>1. SUFFICES ASSUME c > a + 1 PROVE FALSE
          OBVIOUS
        <5>2. a + 1 \in 1 .. c - 1
          BY <1>1, <3>4, <5>1
        <5> QED  BY <3>1, <3>4, <5>2
      <4> QED  BY <1>1, <3>4, <4>1, <4>2
    <3>7. MAVString(x) = SubSeq(x, 1, a)
      BY <1>1, <3>5, <3>6
    <3>8. PICK s : s = SubSeq(x, 1, a)
      OBVIOUS
    <3>9. /\ SubSeq(x, 0 + 1, a) \in Bytes /\ Len(SubSeq(x, 0 + 1, a)) = a - 0
          /\ \A i \in 1 .. a - 0 : SubSeq(x, 0 + 1, a)[i] = x[0 + i]
      <4>1. 0 \in Nat /\ 0 <= a /\ a <= Len(x)
        BY <1>1
      <4> QED  BY <4>1, SubBytes
    <3>10. 0 + 1 = 1 /\ a - 0 = a /\ \A i \in 1 .. a : 0 + i = i
      OBVIOUS
    <3>11. SubSeq(x, 1, a) \in Bytes /\ Len(SubSeq(x, 1, a)) = a /\ \A i \in 1 .. a : SubSeq(x, 1, a)[i] = x[i]
      BY <3>9, <3>10
    <3>12. s \in Bytes /\ Len(s) = a /\ \A i \in 1 .. a : s[i] = x[i]
      BY <3>8, <3>11
    <3>13. s = f
      BY <1>1, <1>4, <3>12, SameBytes
    <3> QED  BY <3>7, <3>8, <3>13
  <2> QED  BY <2>1, <2>2
<1> QED  BY <1>5, <1>6

\* What was packed, as decode gives it back.
AsMessage(id, s, fields) ==
  [out |-> "message", messages |-> <<[id |-> id, seq |-> s, fields |-> fields]>>]

\* A sequence of one entry.
LEMMA SingleIs == ASSUME NEW T, NEW a \in Seq(T), Len(a) = 1 PROVE a = <<a[1]>>
OBVIOUS

\* A field is read as it was written, a string without the zeros behind it.
LEMMA FieldIs ==
  ASSUME NEW m, Agrees(m), NEW fields, Fits(m, fields), NEW w, Fills(w, m, payload(m, fields)),
         NEW o, o = Ordered(m, unpack(m, w)), NEW i \in 1 .. Fields(m)
  PROVE  /\ i - 1 \notin m.chars => o[i] = fields[i]
         /\ i - 1 \in m.chars => ~NotText(o[i][1]) /\ <<MAVString(o[i][1])>> = fields[i]
<1>1. /\ o[i] \in Seq(Bytes) /\ Len(o[i]) = Len(fields[i]) /\ fields[i] \in Seq(Bytes)
      /\ i \in DOMAIN fields
  BY OrderedIs, FitsIs
<1>2. PICK l \in Nat : l = Len(fields[i])
  BY FitsIs
<1>3. ASSUME NEW n \in 1 .. l
      PROVE  /\ o[i][n] \in Bytes /\ fields[i][n] \in Bytes
             /\ \A j \in 1 .. Len(o[i][n]) : o[i][n][j] = Byte(fields[i][n], j)
             /\ i - 1 \notin m.chars => Len(fields[i][n]) = Len(o[i][n])
             /\ i - 1 \in m.chars => /\ Len(fields[i][n]) <= Len(o[i][n])
                                     /\ \A b \in 1 .. Len(fields[i][n]) : fields[i][n][b] \notin {0, 255}
  <2>1. PICK size : size = SizeOf(m, i, n)
    OBVIOUS
  <2>2. /\ o[i][n] \in Bytes /\ Len(o[i][n]) = size
        /\ \A j \in 1 .. size : o[i][n][j] = Byte(fields[i][n], j)
    BY <1>2, <2>1, OrderedIs
  <2>3. n \in DOMAIN fields[i] /\ fields[i][n] \in Bytes
    BY <1>1, <1>2, ElementIs
  <2>4. IF i - 1 \in m.chars
        THEN /\ Len(fields[i][n]) <= size
             /\ \A b \in DOMAIN fields[i][n] : fields[i][n][b] \notin {0, 255}
        ELSE Len(fields[i][n]) = size
    BY <1>1, <2>1, <2>3 DEF Fits, SizeOf
  <2>5. DOMAIN fields[i][n] = 1 .. Len(fields[i][n])
    BY <2>3 DEF Bytes
  <2> QED  BY <2>2, <2>3, <2>4, <2>5
<1>4. ASSUME i - 1 \notin m.chars PROVE o[i] = fields[i]
  <2>1. ASSUME NEW n \in 1 .. l PROVE o[i][n] = fields[i][n]
    <3>1. PICK x \in Bytes, f \in Bytes : x = o[i][n] /\ f = fields[i][n]
      BY <1>3
    <3>2. Len(x) = Len(f) /\ \A j \in 1 .. Len(x) : x[j] = Byte(f, j)
      BY <1>3, <1>4, <3>1
    <3>3. Len(x) \in Nat
      BY JoinedBytes
    <3>4. \A j \in 1 .. Len(x) : x[j] = f[j]
      BY <3>2, <3>3 DEF Byte
    <3> QED  BY <3>1, <3>2, <3>4, SameBytes
  <2>2. PICK T : T = Bytes
    OBVIOUS
  <2>3. o[i] \in Seq(T) /\ fields[i] \in Seq(T)
    BY <1>1, <2>2
  <2> QED  BY <1>1, <1>2, <2>1, <2>3, SameSequence
<1>5. ASSUME i - 1 \in m.chars PROVE ~NotText(o[i][1]) /\ <<MAVString(o[i][1])>> = fields[i]
  <2>1. l = 1
    <3>0. \A c \in m.chars : m.lengths[m.orders[c + 1] + 1] = 1
      BY DEF Agrees
    <3>1. m.lengths[m.orders[(i - 1) + 1] + 1] = 1
      BY <1>5, <3>0
    <3>2. (i - 1) + 1 = i
      BY AgreesFacts
    <3> QED  BY <1>2, <3>1, <3>2, FitsIs
  <2>2. 1 \in 1 .. l
    BY <2>1
  <2>3. PICK x \in Bytes, f \in Bytes : x = o[i][1] /\ f = fields[i][1]
    BY <1>3, <2>2
  <2>4. /\ Len(f) <= Len(x) /\ \A j \in 1 .. Len(x) : x[j] = Byte(f, j)
        /\ \A b \in 1 .. Len(f) : f[b] \notin {0, 255}
    BY <1>3, <1>5, <2>2, <2>3
  <2>5. MAVString(x) = f /\ ~NotText(x)
    BY <2>4, TextIs
  <2>6. fields[i] = <<f>>
    <3>1. PICK T : T = Bytes
      OBVIOUS
    <3>2. fields[i] \in Seq(T) /\ Len(fields[i]) = 1
      BY <1>1, <1>2, <2>1, <3>1
    <3>3. fields[i] = <<fields[i][1]>>
      BY <3>2, SingleIs
    <3> QED  BY <2>3, <3>3
  <2> QED  BY <2>3, <2>5, <2>6
<1> QED  BY <1>4, <1>5

\* A payload is decoded to the message it was packed from.
LEMMA DecodedIs ==
  ASSUME NEW m, Agrees(m), NEW fields, Fits(m, fields), NEW w, Fills(w, m, payload(m, fields)), NEW s
  PROVE  Decoded(m, s, Ordered(m, unpack(m, w))) = AsMessage(m.id, s, fields)
<1>1. PICK o : o = Ordered(m, unpack(m, w))
  OBVIOUS
<1>2. DOMAIN o = 1 .. Fields(m)
  BY <1>1, AgreesFacts DEF Ordered
<1>3. ASSUME NEW i \in m.chars PROVE ~NotText(o[i + 1][1])
  <2>1. i \in 0 .. Fields(m) - 1 /\ Fields(m) \in Nat
    <3>1. m.chars \subseteq 0 .. Fields(m) - 1
      BY DEF Agrees, Fields
    <3> QED  BY <3>1, AgreesFacts
  <2>2. i + 1 \in 1 .. Fields(m) /\ (i + 1) - 1 = i
    BY <2>1
  <2> QED  BY <1>1, <2>2, FieldIs
<1>4. [i \in DOMAIN o |-> IF i - 1 \in m.chars THEN <<MAVString(o[i][1])>> ELSE o[i]] = fields
  <2>1. ASSUME NEW i \in 1 .. Fields(m)
        PROVE  (IF i - 1 \in m.chars THEN <<MAVString(o[i][1])>> ELSE o[i]) = fields[i]
    BY <1>1, FieldIs
  <2>2. fields = [i \in 1 .. Fields(m) |-> fields[i]]
    BY FitsIs
  <2> QED  BY <1>2, <2>1, <2>2
<1>5. Decoded(m, s, o) =
        [out |-> "message",
         messages |-> <<[id |-> m.id, seq |-> s,
                         fields |-> [i \in DOMAIN o |-> IF i - 1 \in m.chars THEN <<MAVString(o[i][1])>>
                                                        ELSE o[i]]]>>]
  BY <1>3 DEF Decoded
<1> QED  BY <1>1, <1>4, <1>5 DEF AsMessage

-----------------------------------------------------------------------------
\* Two more bytes behind a sequence.
LEMMA TwoMore ==
  ASSUME NEW T, NEW u \in Seq(T), NEW x \in T, NEW y \in T
  PROVE  /\ u \o <<x, y>> \in Seq(T) /\ Len(u \o <<x, y>>) = Len(u) + 2
         /\ \A i \in 1 .. Len(u) : (u \o <<x, y>>)[i] = u[i]
         /\ (u \o <<x, y>>)[Len(u) + 1] = x /\ (u \o <<x, y>>)[Len(u) + 2] = y
OBVIOUS

\* What the tail of a sequence holds.
LEMMA TailIs ==
  ASSUME NEW T, NEW u \in Seq(T), NEW e \in Nat, e = Len(u), e >= 1
  PROVE  Tail(u) \in Seq(T) /\ Len(Tail(u)) = e - 1 /\ \A i \in 1 .. e - 1 : Tail(u)[i] = u[1 + i]
OBVIOUS

\* A part from the second entry on is the tail of the part from the first.
LEMMA TailOf ==
  ASSUME NEW T, NEW u \in Seq(T), NEW b \in Seq(T), NEW e \in Nat, e = Len(u), e >= 1,
         e <= Len(b), \A i \in 1 .. e : b[i] = u[i]
  PROVE  SubSeq(b, 2, e) = Tail(u)
<1>1. /\ SubSeq(b, 1 + 1, e) \in Seq(T) /\ Len(SubSeq(b, 1 + 1, e)) = e - 1
      /\ \A i \in 1 .. e - 1 : SubSeq(b, 1 + 1, e)[i] = b[1 + i]
  <2>1. 1 \in Nat /\ 1 <= e
    OBVIOUS
  <2> QED  BY <2>1, SubSeqIs
<1>2. PICK s : s = SubSeq(b, 1 + 1, e)
  OBVIOUS
<1>3. s \in Seq(T) /\ Len(s) = e - 1 /\ \A i \in 1 .. e - 1 : s[i] = b[1 + i]
  BY <1>1, <1>2
<1>4. PICK t : t = Tail(u)
  OBVIOUS
<1>5. t \in Seq(T) /\ Len(t) = e - 1 /\ \A i \in 1 .. e - 1 : t[i] = u[1 + i]
  BY <1>4, TailIs
<1>6. ASSUME NEW i \in 1 .. e - 1 PROVE s[i] = t[i]
  <2>1. 1 + i \in 1 .. e
    OBVIOUS
  <2> QED  BY <1>3, <1>5, <2>1
<1>7. s = t
  BY <1>3, <1>5, <1>6, SameSequence
<1>8. SubSeq(b, 2, e) = SubSeq(b, 1 + 1, e)
  OBVIOUS
<1> QED  BY <1>2, <1>4, <1>7, <1>8

\* The entries of b from k + 1 to e are those of w, l of them.
Part(T, b, k, w, l, e) ==
  /\ w \in Seq(T) /\ b \in Seq(T) /\ k \in Nat /\ e \in Nat /\ l \in Nat
  /\ l = Len(w) /\ e = k + l /\ e <= Len(b)
  /\ \A i \in 1 .. l : b[k + i] = w[i]

\* A part of a sequence with the entries of w is w.
LEMMA PartOf ==
  ASSUME NEW T, NEW b, NEW k, NEW w, NEW l, NEW e, Part(T, b, k, w, l, e)
  PROVE  SubSeq(b, k + 1, e) = w
<1>0. /\ w \in Seq(T) /\ b \in Seq(T) /\ k \in Nat /\ e \in Nat /\ l \in Nat
      /\ l = Len(w) /\ e = k + l /\ e <= Len(b)
      /\ \A i \in 1 .. l : b[k + i] = w[i]
  BY DEF Part
<1>1. /\ SubSeq(b, k + 1, e) \in Seq(T) /\ Len(SubSeq(b, k + 1, e)) = e - k
      /\ \A i \in 1 .. e - k : SubSeq(b, k + 1, e)[i] = b[k + i]
  <2>1. k <= e
    BY <1>0
  <2> QED  BY <1>0, <2>1, SubSeqIs
<1>2. PICK s : s = SubSeq(b, k + 1, e)
  OBVIOUS
<1>3. s \in Seq(T) /\ Len(s) = e - k /\ \A i \in 1 .. e - k : s[i] = b[k + i]
  BY <1>1, <1>2
<1>4. e - k = l
  BY <1>0
<1>5. \A i \in 1 .. l : s[i] = w[i]
  BY <1>0, <1>3, <1>4
<1>6. s = w
  BY <1>0, <1>3, <1>4, <1>5, SameSequence
<1> QED  BY <1>2, <1>6

\* A header h, a payload w and two more bytes behind one another.
Complete(h, w, x, y) == (h \o w) \o <<x, y>>
Checksum(m, h, w) == x25crc(Tail(h \o w) \o <<m.crc>>)

Joining(T, b, h, w, x, y, k, l, e) ==
  /\ h \in Seq(T) /\ w \in Seq(T) /\ x \in T /\ y \in T
  /\ k \in Nat /\ k = Len(h) /\ k >= 1 /\ l \in Nat /\ l = Len(w) /\ e \in Nat /\ e = k + l
  /\ b = Complete(h, w, x, y)

Joined(b, h, w, x, y, k, e) ==
  /\ Len(b) = e + 2 /\ b[e + 1] = x /\ b[e + 2] = y
  /\ \A i \in 1 .. k : b[i] = h[i]
  /\ SubSeq(b, 2, e) = Tail(h \o w)
  /\ SubSeq(b, k + 1, e) = w

\* The parts of a complete frame are what it was put together from.
LEMMA JoinIs ==
  ASSUME NEW T, NEW b, NEW h, NEW w, NEW x, NEW y, NEW k, NEW l, NEW e,
         Joining(T, b, h, w, x, y, k, l, e)
  PROVE  Joined(b, h, w, x, y, k, e)
<1>0. /\ h \in Seq(T) /\ w \in Seq(T) /\ x \in T /\ y \in T
      /\ k \in Nat /\ k = Len(h) /\ k >= 1 /\ l \in Nat /\ l = Len(w) /\ e \in Nat /\ e = k + l
  BY DEF Joining
<1>1. /\ h \o w \in Seq(T) /\ Len(h \o w) = Len(h) + Len(w)
      /\ \A i \in 1 .. Len(h) : (h \o w)[i] = h[i]
      /\ \A i \in 1 .. Len(w) : (h \o w)[Len(h) + i] = w[i]
  BY <1>0, ConcatIs
<1>2. PICK u : u = h \o w
  OBVIOUS
<1>3. /\ u \in Seq(T) /\ Len(u) = Len(h) + Len(w)
      /\ \A i \in 1 .. Len(h) : u[i] = h[i]
      /\ \A i \in 1 .. Len(w) : u[Len(h) + i] = w[i]
  BY <1>1, <1>2
<1>4. /\ u \in Seq(T) /\ e = Len(u) /\ \A i \in 1 .. k : u[i] = h[i]
      /\ \A i \in 1 .. l : u[k + i] = w[i]
  BY <1>0, <1>3
<1>5. b = u \o <<x, y>>
  BY <1>2 DEF Joining, Complete
<1>6. /\ b \in Seq(T) /\ Len(b) = e + 2 /\ \A i \in 1 .. e : b[i] = u[i]
      /\ b[e + 1] = x /\ b[e + 2] = y
  <2>1. /\ u \o <<x, y>> \in Seq(T) /\ Len(u \o <<x, y>>) = Len(u) + 2
        /\ \A i \in 1 .. Len(u) : (u \o <<x, y>>)[i] = u[i]
        /\ (u \o <<x, y>>)[Len(u) + 1] = x /\ (u \o <<x, y>>)[Len(u) + 2] = y
    BY <1>0, <1>4, TwoMore
  <2>2. /\ b \in Seq(T) /\ Len(b) = Len(u) + 2
        /\ \A i \in 1 .. Len(u) : b[i] = u[i]
        /\ b[Len(u) + 1] = x /\ b[Len(u) + 2] = y
    BY <1>5, <2>1
  <2> QED  BY <1>4, <2>2
<1>7. e >= 1 /\ e <= Len(b)
  BY <1>0, <1>6
<1>8. SubSeq(b, 2, e) = Tail(u)
  BY <1>0, <1>4, <1>6, <1>7, TailOf
<1>9. ASSUME NEW i \in 1 .. l PROVE b[k + i] = w[i]
  <2>1. k + i \in 1 .. e
    BY <1>0
  <2> QED  BY <1>4, <1>6, <2>1
<1>10. SubSeq(b, k + 1, e) = w
  <2>1. Part(T, b, k, w, l, e)
    BY <1>0, <1>6, <1>7, <1>9 DEF Part
  <2> QED  BY <2>1, PartOf, Zenon
<1>11. ASSUME NEW i \in 1 .. k PROVE b[i] = h[i]
  <2>1. i \in 1 .. e
    BY <1>0
  <2> QED  BY <1>4, <1>6, <2>1
<1>12. SubSeq(b, 2, e) = Tail(h \o w)
  BY <1>2, <1>8
<1> QED  BY <1>6, <1>10, <1>11, <1>12 DEF Joined

\* The checksum is the one that was sent, and the payload is.
Checked(m, h, w, x, y) ==
  m.crc = m.crc_extra /\ x = Checksum(m, h, w) % 256 /\ y = Checksum(m, h, w) \div 256
Read(m, s, b, w, k, e) == DecodedAs(m, s, b, k + 1, e) = Decoded(m, s, Ordered(m, unpack(m, w)))

\* A frame with the checksum of its class is accepted (mavlink.py:9799-9896).
LEMMA CheckIs ==
  ASSUME NEW m, NEW s, NEW T, NEW b, NEW h, NEW w, NEW x, NEW y,
         NEW k, NEW l, NEW e, Joining(T, b, h, w, x, y, k, l, e), Checked(m, h, w, x, y)
  PROVE  Read(m, s, b, w, k, e)
<1>0. PICK c : m.crc = m.crc_extra /\ c = Checksum(m, h, w) /\ x = c % 256 /\ y = c \div 256
  BY DEF Checked
<1>1. /\ b[e + 1] = x /\ b[e + 2] = y
      /\ SubSeq(b, 2, e) = Tail(h \o w) /\ SubSeq(b, k + 1, e) = w
  <2>1. Joined(b, h, w, x, y, k, e)
    BY JoinIs, Zenon
  <2> QED  BY <2>1 DEF Joined
<1>2. x25crc(SubSeq(b, 2, e) \o <<m.crc_extra>>) = c
  BY <1>0, <1>1 DEF Checksum
<1>3. <<b[e + 1], b[e + 2]>> = <<c % 256, c \div 256>>
  BY <1>0, <1>1
<1>4. DecodedAs(m, s, b, k + 1, e) =
        IF <<b[e + 1], b[e + 2]>> # <<c % 256, c \div 256>> THEN MAVError
        ELSE Decoded(m, s, Ordered(m, unpack(m, SubSeq(b, k + 1, e))))
  BY <1>2 DEF DecodedAs
<1>5. DecodedAs(m, s, b, k + 1, e) = Decoded(m, s, Ordered(m, unpack(m, SubSeq(b, k + 1, e))))
  BY <1>3, <1>4
<1> QED  BY <1>1, <1>5 DEF Read

\* The number of a message in three bytes.
LEMMA NumberIs ==
  ASSUME NEW n \in Nat, n < 65536
  PROVE  (n % 256) + 256 * ((n \div 256) % 256) + 65536 * 0 = n
OBVIOUS

\* Sequences over a larger set.
LEMMA SeqMore == ASSUME NEW S, NEW T, S \subseteq T PROVE Seq(S) \subseteq Seq(T)
OBVIOUS

\* A frame as pack makes it is a frame, and decode reads what is in it.
LEMMA FrameIs ==
  ASSUME NEW m, Agrees(m), Known(m.id), Class(m.id) = m,
         NEW w \in Bytes, NEW l \in 1 .. 255, Len(w) = l, NEW sq,
         NEW v, v = 2 \/ (v = 1 /\ m.id < 256), NEW b, b = pack(m, v, sq, w)
  PROVE  IsFrame(b) /\ Received(b) = Decoded(m, sq, Ordered(m, unpack(m, w)))
<1>1. PICK id \in Nat : id = m.id /\ id < 65536
  BY DEF Agrees
<1>2. m.crc = m.crc_extra
  BY DEF Agrees
<1>3. PICK h : h = header(m, v, l, sq)
  OBVIOUS
<1>4. PICK c : c = Checksum(m, h, w)
  OBVIOUS
<1>5. b = Complete(h, w, c % 256, c \div 256)
  BY <1>3, <1>4 DEF pack, Complete, Checksum
<1>6. PICK x, y : x = c % 256 /\ y = c \div 256
  OBVIOUS
<1>7. PICK T : T = (0 .. 255) \cup {253, 254, x, y, sq, id}
  OBVIOUS
<1>8. w \in Seq(T) /\ x \in T /\ y \in T /\ sq \in T /\ l \in T /\ id \in T /\ 0 .. 255 \subseteq T
      /\ 253 \in T /\ 254 \in T
  <2>1. 0 .. 255 \subseteq T
    BY <1>7
  <2>2. Seq(0 .. 255) \subseteq Seq(T)
    <3>1. PICK S : S = 0 .. 255
      OBVIOUS
    <3>2. S \subseteq T
      BY <2>1, <3>1
    <3>3. Seq(S) \subseteq Seq(T)
      BY <3>2, SeqMore
    <3> QED  BY <3>1, <3>3
  <2>3. w \in Seq(T)
    BY <2>2 DEF Bytes
  <2>4. l \in 0 .. 255
    OBVIOUS
  <2> QED  BY <1>7, <2>1, <2>3, <2>4
<1>9. l \in Nat /\ l >= 1 /\ l = Len(w)
  OBVIOUS
<1>10. b = Complete(h, w, x, y)
  BY <1>5, <1>6
<1>11. CASE v = 2
  <2>1. PICK i, j : i = id % 256 /\ j = (id \div 256) % 256
    OBVIOUS
  <2>2. h = <<253, l, 0, 0, sq, 1, 1, i, j, 0>>
    BY <1>1, <1>3, <1>11, <2>1 DEF header
  <2>3. i \in T /\ j \in T /\ 0 \in T /\ 1 \in T
    <3>1. i \in 0 .. 255
      BY <2>1
    <3>2. j \in 0 .. 255
      <4>1. PICK a \in Nat : a = id \div 256
        OBVIOUS
      <4>2. a % 256 \in 0 .. 255
        OBVIOUS
      <4> QED  BY <2>1, <4>1, <4>2
    <3>3. 0 \in 0 .. 255 /\ 1 \in 0 .. 255
      OBVIOUS
    <3> QED  BY <1>8, <3>1, <3>2, <3>3
  <2>4. /\ h \in Seq(T) /\ Len(h) = 10 /\ h[1] = 253 /\ h[2] = l /\ h[3] = 0
        /\ h[5] = sq /\ h[8] = i /\ h[9] = j /\ h[10] = 0
    BY <1>8, <2>2, <2>3
  <2>5. /\ Len(b) = 10 + l + 2 /\ \A n \in 1 .. 10 : b[n] = h[n]
    <3>1. PICK e, k : e = 10 + l /\ k = 10
      OBVIOUS
    <3>2. Joining(T, b, h, w, x, y, k, l, e)
      BY <1>8, <1>9, <1>10, <2>4, <3>1 DEF Joining
    <3>3. Joined(b, h, w, x, y, k, e)
      BY <3>2, JoinIs, Zenon
    <3>4. Len(b) = e + 2 /\ \A n \in 1 .. k : b[n] = h[n]
      BY <3>3 DEF Joined
    <3> QED  BY <3>1, <3>4
  <2>6. b[1] = 253 /\ b[2] = l /\ b[3] = 0 /\ b[5] = sq /\ b[8] = i /\ b[9] = j /\ b[10] = 0
    BY <2>4, <2>5
  <2>7. IsFrame(b)
    <3>1. [NewParser EXCEPT !.buf = b].buf = b
      BY DEF NewParser
    <3>2. Expected([NewParser EXCEPT !.buf = b], 10) = l + 10 + 2
      <4>1. ~(Len(b) < 3) /\ ~(b[3] % 2 = 1)
        BY <1>9, <2>5, <2>6
      <4> QED  BY <1>9, <2>6, <3>1, <4>1 DEF Expected
    <3> QED  BY <1>9, <2>5, <2>6, <3>2 DEF IsFrame
  <2>8. DecodedAs(m, sq, b, 11, 10 + l) = Decoded(m, sq, Ordered(m, unpack(m, w)))
    <3>1. PICK e, k : e = 10 + l /\ k = 10
      OBVIOUS
    <3>2. Joining(T, b, h, w, x, y, k, l, e)
      BY <1>8, <1>9, <1>10, <2>4, <3>1 DEF Joining
    <3>3. Checked(m, h, w, x, y)
      BY <1>2, <1>4, <1>6 DEF Checked
    <3>5. Read(m, sq, b, w, k, e)
      BY <3>2, <3>3, CheckIs, Zenon
    <3>4. k + 1 = 11
      BY <3>1
    <3> QED  BY <3>1, <3>4, <3>5 DEF Read
  <2>9. decode(b) = DecodedAs(m, sq, b, 11, 10 + l)
    <3>1. ~(b[1] = 254) /\ ~(b[3] % 2 = 1)
      BY <2>6
    <3>2. b[8] + 256 * b[9] + 65536 * b[10] = m.id
      <4>1. (id % 256) + 256 * ((id \div 256) % 256) + 65536 * 0 = id
        BY <1>1, NumberIs
      <4> QED  BY <1>1, <2>1, <2>6, <4>1
    <3>3. Len(b) - (2 + 0) = 10 + l /\ b[2] = (10 + l) - 10 /\ 10 + 1 = 11
      BY <1>9, <2>5, <2>6
    <3> QED  BY <2>6, <3>1, <3>2, <3>3 DEF decode
  <2>10. Received(b) = decode(b)
    <3>1. b[3] \div 2 = 0
      BY <2>6
    <3> QED  BY <3>1 DEF Received
  <2> QED  BY <2>7, <2>8, <2>9, <2>10
<1>12. CASE v = 1 /\ m.id < 256
  <2>2. h = <<254, l, sq, 1, 1, id>>
    BY <1>1, <1>3, <1>12 DEF header
  <2>3. 1 \in T
    BY <1>8
  <2>4. /\ h \in Seq(T) /\ Len(h) = 6 /\ h[1] = 254 /\ h[2] = l /\ h[3] = sq /\ h[6] = id
    BY <1>8, <2>2, <2>3
  <2>5. /\ Len(b) = 6 + l + 2 /\ \A n \in 1 .. 6 : b[n] = h[n]
    <3>1. PICK e, k : e = 6 + l /\ k = 6
      OBVIOUS
    <3>2. Joining(T, b, h, w, x, y, k, l, e)
      BY <1>8, <1>9, <1>10, <2>4, <3>1 DEF Joining
    <3>3. Joined(b, h, w, x, y, k, e)
      BY <3>2, JoinIs, Zenon
    <3>4. Len(b) = e + 2 /\ \A n \in 1 .. k : b[n] = h[n]
      BY <3>3 DEF Joined
    <3> QED  BY <3>1, <3>4
  <2>6. b[1] = 254 /\ b[2] = l /\ b[3] = sq /\ b[6] = id
    BY <2>4, <2>5
  <2>7. IsFrame(b)
    <3>1. [NewParser EXCEPT !.buf = b].buf = b
      BY DEF NewParser
    <3>2. Expected([NewParser EXCEPT !.buf = b], 6) = l + 6 + 2
      <4>1. ~(Len(b) < 3) /\ ~(b[1] = 253)
        BY <1>9, <2>5, <2>6
      <4> QED  BY <1>9, <2>6, <3>1, <4>1 DEF Expected
    <3> QED  BY <1>9, <2>5, <2>6, <3>2 DEF IsFrame
  <2>8. DecodedAs(m, sq, b, 7, 6 + l) = Decoded(m, sq, Ordered(m, unpack(m, w)))
    <3>1. PICK e, k : e = 6 + l /\ k = 6
      OBVIOUS
    <3>2. Joining(T, b, h, w, x, y, k, l, e)
      BY <1>8, <1>9, <1>10, <2>4, <3>1 DEF Joining
    <3>3. Checked(m, h, w, x, y)
      BY <1>2, <1>4, <1>6 DEF Checked
    <3>5. Read(m, sq, b, w, k, e)
      BY <3>2, <3>3, CheckIs, Zenon
    <3>4. k + 1 = 7
      BY <3>1
    <3> QED  BY <3>1, <3>4, <3>5 DEF Read
  <2>9. decode(b) = DecodedAs(m, sq, b, 7, 6 + l)
    <3>1. b[1] = 254 /\ b[6] = m.id
      BY <1>1, <2>6
    <3>3. Len(b) - (2 + 0) = 6 + l /\ b[2] = (6 + l) - 6 /\ 6 + 1 = 7
      BY <1>9, <2>5, <2>6
    <3> QED  BY <2>6, <3>1, <3>3 DEF decode
  <2>10. Received(b) = decode(b)
    BY <2>6 DEF Received
  <2> QED  BY <2>7, <2>8, <2>9, <2>10
<1> QED  BY <1>11, <1>12

\* The class of an identifier (mavlink_map).
LEMMA ClassIs ==
  ASSUME NEW id, Known(id)
  PROVE  Class(id) \in mavlink_map /\ Agrees(Class(id)) /\ Class(id).id = id
BY DialectAssumption DEF Known, Class

\* What pack writes is what decode reads (mavlink.py:221-245, 9838-9972): for every class of the
\* dialect, all values its fields have room for, every sequence number and both versions of the
\* protocol, also where the trailing zeros are left off.
THEOREM RoundTrip ==
  \A g, b : /\ g = [id |-> g.id, seq |-> g.seq, fields |-> g.fields]
            /\ Known(g.id) /\ Fits(Class(g.id), g.fields) /\ Packs(g, b)
            => IsFrame(b) /\ Received(b) = [out |-> "message", messages |-> <<g>>]
<1> SUFFICES ASSUME NEW g, NEW b, g = [id |-> g.id, seq |-> g.seq, fields |-> g.fields],
                    Known(g.id), Fits(Class(g.id), g.fields), Packs(g, b)
             PROVE  IsFrame(b) /\ Received(b) = [out |-> "message", messages |-> <<g>>]
  OBVIOUS
<1>1. PICK m : m = Class(g.id)
  OBVIOUS
<1>2. m.id = g.id /\ Agrees(m) /\ Known(m.id) /\ Class(m.id) = m /\ Fits(m, g.fields)
  BY <1>1, ClassIs
<1>3. PICK p \in Bytes : p = payload(m, g.fields) /\ Len(p) = Size(m)
  BY <1>2, PayloadIs
<1>4. PICK l \in 1 .. 255 : l = Size(m)
  BY <1>2, AgreesFacts
<1>5. PICK w, v : /\ w = p \/ w = Stripped(p)
                  /\ v = 2 \/ (v = 1 /\ m.id < 256)
                  /\ b = pack(m, v, g.seq, w)
  BY <1>1, <1>2, <1>3 DEF Packs
<1>6. Fills(w, m, p) /\ w \in Bytes /\ Len(w) \in 1 .. 255
  BY <1>3, <1>4, <1>5, FillsIs, ZenonT(60)
<1>7. IsFrame(b) /\ Received(b) = Decoded(m, g.seq, Ordered(m, unpack(m, w)))
  <2>1. PICK n \in 1 .. 255 : n = Len(w)
    BY <1>6
  <2> QED  BY <1>2, <1>5, <1>6, <2>1, FrameIs, ZenonT(60)
<1>8. Decoded(m, g.seq, Ordered(m, unpack(m, w))) = AsMessage(m.id, g.seq, g.fields)
  BY <1>2, <1>3, <1>6, DecodedIs
<1>9. AsMessage(m.id, g.seq, g.fields) = [out |-> "message", messages |-> <<g>>]
  BY <1>2 DEF AsMessage
<1> QED  BY <1>7, <1>8, <1>9

\* Every message of the line.
LEMMA SentFrame ==
  ASSUME LineInv, NEW k \in DOMAIN line, line[k].messages # <<>>
  PROVE  /\ IsFrame(line[k].bytes)
         /\ Received(line[k].bytes) = [out |-> "message", messages |-> line[k].messages]
<1>1. line \in Lines
  BY DEF LineInv
<1>2. PICK g : /\ line[k].messages = <<g>> /\ g = [id |-> g.id, seq |-> g.seq, fields |-> g.fields]
               /\ Known(g.id) /\ Fits(Class(g.id), g.fields) /\ Packs(g, line[k].bytes)
  BY <1>1, LineAssumption
<1> QED  BY <1>2, RoundTrip

-----------------------------------------------------------------------------
(***************************************************************************)
(* What is handed over was sent. This holds on a line of frames and noise: *)
(* each segment is a packed message, a frame that decode refuses, or bytes *)
(* without a marker among them. (A frame whose length byte is damaged may  *)
(* hide the beginning of another, and a part of it may look like a frame:  *)
(* there only its checksum tells.)                                         *)
(***************************************************************************)
Noise(seg) == /\ seg.messages = <<>>
              /\ \A j \in 1 .. Len(seg.bytes) : seg.bytes[j] \notin {253, 254}
Refused(seg) == IsFrame(seg.bytes) /\ Received(seg.bytes).messages = <<>>
FramedLine == \A s \in DOMAIN line : \/ line[s].messages # <<>>
                                     \/ Refused(line[s])
                                     \/ Noise(line[s])

Framed(seg) == IsFrame(seg.bytes) /\ Received(seg.bytes).messages = seg.messages

\* A segment of a framed line is a frame that is answered for or noise.
LEMMA FramedIs ==
  ASSUME LineInv, FramedLine, NEW s \in DOMAIN line
  PROVE  Framed(line[s]) \/ Noise(line[s])
<1>1. CASE line[s].messages # <<>>
  <2>1. IsFrame(line[s].bytes)
    BY <1>1, SentFrame
  <2>2. PICK r : r = Received(line[s].bytes)
    OBVIOUS
  <2>3. r = [out |-> "message", messages |-> line[s].messages]
    BY <1>1, <2>2, SentFrame
  <2>4. r.messages = line[s].messages
    BY <2>3
  <2> QED  BY <2>1, <2>2, <2>4 DEF Framed
<1>2. CASE line[s].messages = <<>> /\ Refused(line[s])
  BY <1>2 DEF Refused, Framed
<1> QED  BY <1>1, <1>2 DEF FramedLine

\* The parser is between two segments, or in noise.
CutPoint(c) == \A s \in DOMAIN line : Start(s) < c /\ c < Start(s + 1) => Noise(line[s])

\* The messages ms are those of some segments between two places, in the order of the line.
Messages == {line[s].messages[1] : s \in DOMAIN line}
Places(at, ms, from, to) ==
  /\ at \in [1 .. Len(ms) -> DOMAIN line]
  /\ \A i, j \in 1 .. Len(ms) : i < j => at[i] < at[j]
  /\ \A i \in 1 .. Len(ms) : line[at[i]].messages = <<ms[i]>>
  /\ \A i \in 1 .. Len(ms) : from <= Start(at[i]) /\ Start(at[i] + 1) <= to
Gets(ms, from, to) == ms \in Seq(Messages) /\ \E at : Places(at, ms, from, to)

\* Nothing is taken from nowhere.
LEMMA GetsNone == ASSUME NEW from, NEW to PROVE Gets(<<>>, from, to)
<1> DEFINE at == [i \in 1 .. 0 |-> 0]
<1>1. Len(<<>>) = 0 /\ \A i \in 1 .. 0 : FALSE
  OBVIOUS
<1>2. at \in [1 .. 0 -> DOMAIN line]
  BY <1>1
<1> HIDE DEF at
<1>3. Places(at, <<>>, from, to)
  BY <1>1, <1>2 DEF Places
<1> QED  BY <1>3 DEF Gets

\* One message is taken from its segment.
LEMMA GetsOne ==
  ASSUME LineInv, NEW s \in DOMAIN line, NEW m, line[s].messages = <<m>>
  PROVE  Gets(<<m>>, Start(s), Start(s + 1))
<1> DEFINE at == [i \in 1 .. 1 |-> s]
           ms == <<m>>
<1>1. m \in Messages /\ ms \in Seq(Messages) /\ Len(ms) = 1 /\ ms[1] = m
  <2>1. line[s].messages[1] = m
    OBVIOUS
  <2>2. m \in Messages
    BY <2>1 DEF Messages
  <2> QED  BY <2>2
<1>2. \A i \in 1 .. 1 : at[i] = s /\ i = 1
  OBVIOUS
<1>3. at \in [1 .. 1 -> DOMAIN line]
  OBVIOUS
<1>4. Start(s) <= Start(s) /\ Start(s + 1) <= Start(s + 1)
  <2>1. s \in 1 .. Len(line) + 1 /\ s + 1 \in 1 .. Len(line) + 1
    BY LineIs
  <2>2. Start(s) \in Nat /\ Start(s + 1) \in Nat
    BY <2>1, LineIs
  <2> QED  BY <2>2
<1> HIDE DEF at, ms
<1>5. Places(at, ms, Start(s), Start(s + 1))
  BY <1>1, <1>2, <1>3, <1>4 DEF Places
<1>6. Gets(ms, Start(s), Start(s + 1))
  BY <1>1, <1>5 DEF Gets
<1> QED  BY <1>6 DEF ms

\* A segment has a beginning and an end behind it.
LEMMA SegmentIs ==
  ASSUME LineInv, NEW s \in DOMAIN line
  PROVE  s \in Nat /\ Start(s) \in Nat /\ Start(s + 1) \in Nat /\ Start(s) < Start(s + 1)
<1>1. s \in 1 .. Len(line) + 1 /\ s + 1 \in 1 .. Len(line) + 1 /\ s \in Nat
  BY LineIs
<1>2. Start(s) \in Nat /\ Start(s + 1) \in Nat
  BY <1>1, LineIs
<1>3. Start(s + 1) = Start(s) + Len(line[s].bytes) /\ Len(line[s].bytes) \in Nat \ {0}
  BY LineIs
<1> QED  BY <1>1, <1>2, <1>3

\* What is taken from a stretch is taken from a longer one.
LEMMA GetsWider ==
  ASSUME LineInv, NEW ms, NEW from \in Nat, NEW to \in Nat, Gets(ms, from, to),
         NEW less \in Nat, NEW more \in Nat, less <= from, to <= more
  PROVE  Gets(ms, less, more)
<1>1. PICK at : Places(at, ms, from, to)
  BY DEF Gets
<1>2. ASSUME NEW i \in 1 .. Len(ms) PROVE less <= Start(at[i]) /\ Start(at[i] + 1) <= more
  <2>1. at[i] \in DOMAIN line /\ from <= Start(at[i]) /\ Start(at[i] + 1) <= to
    BY <1>1 DEF Places
  <2>2. Start(at[i]) \in Nat /\ Start(at[i] + 1) \in Nat
    BY <2>1, SegmentIs
  <2> QED  BY <2>1, <2>2
<1>3. Places(at, ms, less, more)
  BY <1>1, <1>2 DEF Places
<1> QED  BY <1>3 DEF Gets

\* What is taken from two stretches, one behind the other.
LEMMA GetsBoth ==
  ASSUME LineInv, NEW a, NEW b, NEW from \in Nat, NEW mid \in Nat, NEW to \in Nat,
         from <= mid, mid <= to, Gets(a, from, mid), Gets(b, mid, to)
  PROVE  Gets(a \o b, from, to)
<1>1. PICK f : Places(f, a, from, mid)
  BY DEF Gets
<1>2. PICK g : Places(g, b, mid, to)
  BY DEF Gets
<1>3. a \in Seq(Messages) /\ b \in Seq(Messages) /\ Len(a) \in Nat /\ Len(b) \in Nat
  BY DEF Gets
<1> DEFINE ms == a \o b
           at == [i \in 1 .. Len(ms) |-> IF i <= Len(a) THEN f[i] ELSE g[i - Len(a)]]
<1>4. /\ ms \in Seq(Messages) /\ Len(ms) = Len(a) + Len(b)
      /\ \A i \in 1 .. Len(a) : ms[i] = a[i]
      /\ \A i \in 1 .. Len(b) : ms[Len(a) + i] = b[i]
  BY <1>3, ConcatIs
<1> HIDE DEF ms
<1>5. ASSUME NEW i \in 1 .. Len(ms)
      PROVE  \/ i \in 1 .. Len(a) /\ at[i] = f[i] /\ ms[i] = a[i]
             \/ /\ i - Len(a) \in 1 .. Len(b) /\ at[i] = g[i - Len(a)] /\ ms[i] = b[i - Len(a)]
                /\ ~(i <= Len(a))
  <2>1. CASE i <= Len(a)
    BY <1>3, <1>4, <2>1
  <2>2. CASE ~(i <= Len(a))
    <3>1. i - Len(a) \in 1 .. Len(b) /\ Len(a) + (i - Len(a)) = i
      BY <1>3, <1>4, <2>2
    <3>2. ms[Len(a) + (i - Len(a))] = b[i - Len(a)]
      BY <1>4, <3>1
    <3> QED  BY <2>2, <3>1, <3>2
  <2> QED  BY <2>1, <2>2
<1>6. at \in [1 .. Len(ms) -> DOMAIN line]
  <2>1. ASSUME NEW i \in 1 .. Len(ms) PROVE at[i] \in DOMAIN line
    <3> HIDE DEF at
    <3> QED  BY <1>1, <1>2, <1>5 DEF Places
  <2> QED  BY <2>1
<1> HIDE DEF at
<1>7. ASSUME NEW i \in 1 .. Len(ms)
      PROVE  line[at[i]].messages = <<ms[i]>> /\ from <= Start(at[i]) /\ Start(at[i] + 1) <= to
  <2>0. Start(at[i]) \in Nat /\ Start(at[i] + 1) \in Nat
    BY <1>6, SegmentIs
  <2>1. CASE i \in 1 .. Len(a) /\ at[i] = f[i] /\ ms[i] = a[i]
    <3>1. line[f[i]].messages = <<a[i]>> /\ from <= Start(f[i]) /\ Start(f[i] + 1) <= mid
      BY <1>1, <2>1 DEF Places
    <3> QED  BY <2>0, <2>1, <3>1
  <2>2. CASE i - Len(a) \in 1 .. Len(b) /\ at[i] = g[i - Len(a)] /\ ms[i] = b[i - Len(a)]
    <3>1. PICK k \in 1 .. Len(b) : k = i - Len(a)
      BY <2>2
    <3>2. line[g[k]].messages = <<b[k]>> /\ mid <= Start(g[k]) /\ Start(g[k] + 1) <= to
      BY <1>2 DEF Places
    <3> QED  BY <2>0, <2>2, <3>1, <3>2
  <2> QED  BY <1>5, <2>1, <2>2
<1>8. ASSUME NEW i \in 1 .. Len(ms), NEW j \in 1 .. Len(ms), i < j PROVE at[i] < at[j]
  <2>1. CASE j <= Len(a)
    <3>1. i \in 1 .. Len(a) /\ j \in 1 .. Len(a) /\ at[i] = f[i] /\ at[j] = f[j]
      BY <1>3, <1>5, <1>8, <2>1
    <3>2. f[i] < f[j]
      BY <1>1, <1>8, <3>1 DEF Places
    <3> QED  BY <3>1, <3>2
  <2>2. CASE ~(i <= Len(a))
    <3>1. ~(j <= Len(a))
      BY <1>3, <1>8, <2>2
    <3>2. /\ i - Len(a) \in 1 .. Len(b) /\ j - Len(a) \in 1 .. Len(b)
          /\ at[i] = g[i - Len(a)] /\ at[j] = g[j - Len(a)]
      BY <1>3, <1>5, <2>2, <3>1
    <3>3. i - Len(a) < j - Len(a)
      BY <1>3, <1>8
    <3>4. g[i - Len(a)] < g[j - Len(a)]
      BY <1>2, <3>2, <3>3 DEF Places
    <3> QED  BY <3>2, <3>4
  <2>3. CASE i <= Len(a) /\ ~(j <= Len(a))
    <3>1. /\ i \in 1 .. Len(a) /\ at[i] = f[i]
          /\ j - Len(a) \in 1 .. Len(b) /\ at[j] = g[j - Len(a)]
      BY <1>3, <1>5, <2>3
    <3>2. Start(at[i] + 1) <= mid
      BY <1>1, <3>1 DEF Places
    <3>3. mid <= Start(at[j])
      BY <1>2, <3>1 DEF Places
    <3>4. PICK x \in DOMAIN line, y \in DOMAIN line : x = at[i] /\ y = at[j]
      BY <1>6
    <3>5. /\ x \in 1 .. Len(line) + 1 /\ y \in 1 .. Len(line) + 1 /\ x \in Nat /\ y \in Nat
          /\ Start(x) \in Nat /\ Start(x + 1) \in Nat /\ Start(y) \in Nat /\ Start(x) < Start(x + 1)
      BY LineIs, SegmentIs
    <3>6. Start(x) < Start(y)
      BY <3>2, <3>3, <3>4, <3>5
    <3>7. y <= x => Start(y) <= Start(x)
      BY <3>5, LineIs
    <3> QED  BY <3>4, <3>5, <3>6, <3>7
  <2> QED  BY <2>1, <2>2, <2>3, <1>3
<1>9. Places(at, ms, from, to)
  BY <1>6, <1>7, <1>8 DEF Places
<1>10. Gets(ms, from, to)
  BY <1>4, <1>9 DEF Gets
<1> QED  BY <1>10 DEF ms

-----------------------------------------------------------------------------
\* A segment begins at a cut.
LEMMA StartIsCut == ASSUME LineInv, NEW b \in 1 .. Len(line) + 1 PROVE CutPoint(Start(b))
<1> SUFFICES ASSUME NEW s \in DOMAIN line, Start(s) < Start(b), Start(b) < Start(s + 1)
             PROVE  FALSE
  BY DEF CutPoint
<1>1. /\ b \in Nat /\ s \in Nat /\ s \in 1 .. Len(line) + 1 /\ s + 1 \in 1 .. Len(line) + 1
      /\ Start(b) \in Nat /\ Start(s) \in Nat /\ Start(s + 1) \in Nat
  BY LineIs
<1>2. b <= s \/ s + 1 <= b
  BY <1>1
<1>3. CASE b <= s
  <2>1. Start(b) <= Start(s)
    BY <1>1, <1>3, LineIs
  <2> QED  BY <1>1, <2>1
<1>4. CASE s + 1 <= b
  <2>1. Start(s + 1) <= Start(b)
    BY <1>1, <1>4, LineIs
  <2> QED  BY <1>1, <2>1
<1> QED  BY <1>2, <1>3, <1>4

\* Ready at q: the parser keeps the stream up to q, from a place between two segments or in noise.
Ready(p, q) == At(p, q) /\ CutPoint(Rest(p, q))

\* One step gives the message of one segment, or none.
LEMMA ReadyStep ==
  ASSUME LineInv, FramedLine, NEW p, NEW q, Ready(p, q), NEW t, t = parse_char(p)
  PROVE  /\ Ready(t.p, q) /\ Rest(p, q) <= Rest(t.p, q)
         /\ Gets(t.r.messages, Rest(p, q), Rest(t.p, q))
         /\ t.r.out # "message" => t.r.messages = <<>>
<1>1. At(p, q) /\ CutPoint(Rest(p, q)) /\ At(t.p, q) /\ Rest(p, q) <= Rest(t.p, q)
  BY StepAt DEF Ready
<1>2. /\ p.buf \in Seq(0 .. 255) /\ Len(p.buf) \in Nat /\ q \in Nat /\ Rest(p, q) \in Nat
      /\ Rest(t.p, q) \in Nat /\ q <= Len(stream)
  BY <1>1, AtFacts DEF At
<1>3. CASE t.p.buf = p.buf /\ t.r = Nothing
  <2>1. Rest(t.p, q) = Rest(p, q)
    BY <1>3 DEF Rest
  <2> QED  BY <1>1, <1>3, <2>1, GetsNone, OutcomeIs DEF Ready
<1>4. CASE p.buf = <<>>
  BY <1>1, <1>3, <1>4, EmptyStep
<1>5. CASE p.buf # <<>>
  <2>1. Rest(p, q) < Len(stream) /\ Len(stream) \in Nat
    <3>1. Len(p.buf) > 0
      BY <1>2, <1>5
    <3>2. Len(stream) \in Nat
      BY LineIs DEF Bytes
    <3> QED  BY <1>2, <3>1, <3>2 DEF Rest
  <2>2. PICK s \in DOMAIN line :
          /\ Start(s) <= Rest(p, q) /\ Rest(p, q) < Start(s + 1)
          /\ \A u \in DOMAIN line : Start(u) <= Rest(p, q) /\ Rest(p, q) < Start(u + 1) => u = s
    BY <1>2, <2>1, InSegment
  <2>3. s \in Nat /\ Start(s) \in Nat /\ Start(s + 1) \in Nat /\ Start(s) < Start(s + 1)
    BY SegmentIs
  <2>4. s + 1 \in 1 .. Len(line) + 1
    BY LineIs
  <2>5. CASE Start(s) = Rest(p, q) /\ Framed(line[s])
    <3>1. IsFrame(line[s].bytes) /\ Received(line[s].bytes).messages = line[s].messages
      BY <2>5 DEF Framed
    <3>2. CASE Len(p.buf) >= Len(line[s].bytes)
      <4>1. Rest(t.p, q) = Start(s + 1) /\ t.r = Received(line[s].bytes)
        BY <1>1, <2>5, <3>1, <3>2, HeadFrame
      <4>2. CutPoint(Rest(t.p, q))
        BY <2>4, <4>1, StartIsCut
      <4>3. CASE t.r.messages = <<>>
        BY <1>1, <4>2, <4>3, GetsNone DEF Ready
      <4>4. CASE t.r.messages # <<>>
        <5>1. PICK m : t.r = [out |-> "message", messages |-> <<m>>]
          BY <4>1, <4>4, ReceivedIs, OutcomeIs
        <5>2. line[s].messages = <<m>> /\ t.r.messages = <<m>> /\ t.r.out = "message"
          BY <3>1, <4>1, <5>1
        <5>3. Gets(t.r.messages, Rest(p, q), Rest(t.p, q))
          BY <2>5, <4>1, <5>2, GetsOne
        <5> QED  BY <1>1, <4>2, <5>2, <5>3 DEF Ready
      <4> QED  BY <4>3, <4>4
    <3>3. CASE ~(Len(p.buf) >= Len(line[s].bytes))
      <4>1. t.p.buf = p.buf /\ t.r = Nothing
        BY <1>1, <2>5, <3>1, <3>3, HeadFrame
      <4> QED  BY <1>3, <4>1
    <3> QED  BY <3>2, <3>3
  <2>6. CASE Noise(line[s])
    <3> DEFINE j == Rest(p, q) + 1 - Start(s)
    <3>1. Start(s + 1) = Start(s) + Len(line[s].bytes) /\ Len(line[s].bytes) \in Nat
      BY LineIs
    <3>2. j \in 1 .. Len(line[s].bytes) /\ Start(s) + j = Rest(p, q) + 1
      BY <1>2, <2>2, <2>3, <3>1, SMTT(60)
    <3>3. stream[Start(s) + j] = line[s].bytes[j] /\ line[s].bytes[j] \notin {253, 254}
      BY <2>6, <3>2, LineIs DEF Noise
    <3>4. 1 \in 1 .. Len(p.buf)
      BY <1>2, <1>5
    <3>5. p.buf[1] = stream[Rest(p, q) + 1]
      BY <1>1, <3>4 DEF At
    <3>6. BadPrefix(p.buf)
      BY <1>5, <3>2, <3>3, <3>5 DEF BadPrefix
    <3>7. Rest(t.p, q) = Rest(p, q) + 1 /\ t.r \in {Nothing, MAVError}
      BY <1>1, <3>6, PrefixStep
    <3>8. CutPoint(Rest(t.p, q))
      <4> SUFFICES ASSUME NEW u \in DOMAIN line, Start(u) < Rest(t.p, q), Rest(t.p, q) < Start(u + 1)
                   PROVE  Noise(line[u])
        BY DEF CutPoint
      <4>1. Start(u) \in Nat /\ Start(u + 1) \in Nat
        BY SegmentIs
      <4>2. Start(u) <= Rest(p, q) /\ Rest(p, q) < Start(u + 1)
        BY <1>2, <3>7, <4>1
      <4>3. u = s
        BY <2>2, <4>2
      <4> QED  BY <2>6, <4>3
    <3>9. t.r.messages = <<>>
      BY <3>7, OutcomeIs
    <3> QED  BY <1>1, <3>8, <3>9, GetsNone DEF Ready
  <2>7. Noise(line[s]) \/ (Start(s) = Rest(p, q) /\ Framed(line[s]))
    BY <1>1, <1>2, <2>2, <2>3, FramedIs DEF CutPoint
  <2> QED  BY <2>5, <2>6, <2>7
<1> QED  BY <1>4, <1>5

\* What one round of the loop keeps.
Loop(s, c, q) == /\ Ready(s.p, q) /\ c <= Rest(s.p, q)
                 /\ Gets(s.r.messages, c, Rest(s.p, q))

\* One more round of the loop adds its message to the list, or raises (mavlink.py:9786-9797).
LEMMA AnotherIs ==
  ASSUME NEW s, NEW t, t = parse_char(s.p)
  PROVE  /\ Another(s).p = t.p
         /\ \/ t.r.out = "none" /\ Another(s).r = [out |-> "none", messages |-> s.r.messages]
            \/ /\ t.r.out = "message"
               /\ Another(s).r = [out |-> "message", messages |-> s.r.messages \o t.r.messages]
            \/ t.r.out \notin {"none", "message"} /\ Another(s).r = t.r
BY DEF Another

\* A round of the loop keeps what it found so far and goes on behind it.
LEMMA LoopStep ==
  ASSUME LineInv, FramedLine, NEW s, NEW c \in Nat, NEW q, Loop(s, c, q)
  PROVE  Loop(Once(s), c, q)
<1>1. CASE s.r.out # "message"
  BY <1>1 DEF Once
<1>2. CASE s.r.out = "message"
  <2>1. PICK t : t = parse_char(s.p)
    OBVIOUS
  <2>2. Ready(s.p, q) /\ c <= Rest(s.p, q) /\ Gets(s.r.messages, c, Rest(s.p, q))
    BY DEF Loop
  <2>3. /\ Ready(t.p, q) /\ Rest(s.p, q) <= Rest(t.p, q)
        /\ Gets(t.r.messages, Rest(s.p, q), Rest(t.p, q))
        /\ t.r.out # "message" => t.r.messages = <<>>
    BY <2>1, <2>2, ReadyStep
  <2>4. Rest(s.p, q) \in Nat /\ Rest(t.p, q) \in Nat
    BY <2>2, <2>3, AtFacts DEF Ready
  <2>5. c <= Rest(t.p, q)
    BY <2>2, <2>3, <2>4
  <2>6. Once(s) = Another(s)
    BY <1>2 DEF Once
  <2>7. PICK o : o = Another(s)
    OBVIOUS
  <2>8. o.p = t.p
    BY <2>1, <2>7, AnotherIs
  <2>9. Gets(s.r.messages, c, Rest(t.p, q))
    <3>1. Rest(s.p, q) <= Rest(t.p, q) /\ c <= c
      BY <2>3
    <3> QED  BY <2>2, <2>4, <3>1, GetsWider
  <2>10. Gets(o.r.messages, c, Rest(t.p, q))
    <3>1. CASE t.r.out = "none" /\ o.r = [out |-> "none", messages |-> s.r.messages]
      BY <2>9, <3>1
    <3>2. CASE o.r = [out |-> "message", messages |-> s.r.messages \o t.r.messages]
      <4>1. Gets(s.r.messages \o t.r.messages, c, Rest(t.p, q))
        BY <2>2, <2>3, <2>4, GetsBoth
      <4> QED  BY <3>2, <4>1
    <3>3. CASE t.r.out # "message" /\ o.r = t.r
      BY <2>3, <3>3, GetsNone
    <3> QED  BY <2>1, <2>7, <3>1, <3>2, <3>3, AnotherIs
  <2> QED  BY <2>3, <2>5, <2>6, <2>7, <2>8, <2>10 DEF Loop
<1> QED  BY <1>1, <1>2

\* All that a chunk gives was sent between what was left over before it and what is left over now.
LEMMA BufferGets ==
  ASSUME LineInv, FramedLine, NEW p, NEW data, NEW q, Ready(Fed(p, data), q),
         NEW t, t = parse_buffer(p, data)
  PROVE  Loop(t, Rest(Fed(p, data), q), q)
<1>1. PICK f : f = Fed(p, data)
  OBVIOUS
<1>2. At(f, q) /\ Rest(f, q) \in Nat /\ Len(f.buf) \in Nat
  BY <1>1, AtFacts DEF Ready
<1>3. PICK taken : /\ taken[0] = parse_char(f)
                   /\ \A n \in Nat : taken[n + 1] = Once(taken[n])
                   /\ t = taken[Len(f.buf) \div 8 + 1]
  BY <1>1, LoopIs
<1>4. PICK c \in Nat : c = Rest(f, q)
  BY <1>2
<1> DEFINE T == {n \in Nat : ~Loop(taken[n], c, q)}
<1>5. Loop(taken[0], c, q)
  <2>1. PICK u : u = parse_char(f)
    OBVIOUS
  <2>2. Ready(u.p, q) /\ Rest(f, q) <= Rest(u.p, q) /\ Gets(u.r.messages, Rest(f, q), Rest(u.p, q))
    BY <1>1, <2>1, ReadyStep
  <2> QED  BY <1>3, <1>4, <2>1, <2>2 DEF Loop
<1>6. ASSUME T # {} PROVE FALSE
  <2>1. PICK m \in T : \A k \in T : m <= k
    BY <1>6, LeastOf
  <2>2. m # 0
    BY <1>5
  <2>3. m - 1 \in Nat /\ (m - 1) + 1 = m /\ m - 1 \notin T
    BY <2>1, <2>2
  <2>4. Loop(taken[m - 1], c, q)
    BY <2>3
  <2>5. taken[m] = Once(taken[m - 1])
    BY <1>3, <2>3
  <2> QED  BY <2>4, <2>5, LoopStep
<1>7. Len(f.buf) \div 8 + 1 \in Nat
  <2>1. PICK l \in Nat : l = Len(f.buf)
    BY <1>2
  <2>2. l \div 8 + 1 \in Nat
    OBVIOUS
  <2> QED  BY <2>1, <2>2
<1>8. Loop(taken[Len(f.buf) \div 8 + 1], c, q)
  BY <1>6, <1>7
<1> QED  BY <1>1, <1>3, <1>4, <1>8

-----------------------------------------------------------------------------
\* The parser keeps what came up to pos, on any line.
LinkInv == LineInv /\ pos <= Len(stream) /\ At(parser, pos)

\* A read hands on the next bytes of the stream.
LEMMA ChunkIs ==
  ASSUME LinkInv, NEW n \in Reads, pos < Len(stream)
  PROVE  /\ Chunk(n) \in Seq(0 .. 255) /\ Len(Chunk(n)) \in Nat \ {0}
         /\ pos + Len(Chunk(n)) <= Len(stream)
         /\ \A i \in 1 .. Len(Chunk(n)) : Chunk(n)[i] = stream[pos + i]
<1>1. /\ stream \in Seq(0 .. 255) /\ Len(stream) \in Nat /\ pos \in Nat
      /\ n \in Nat \ {0}
  BY LineIs, AtFacts, LineAssumption DEF LinkInv, Bytes
<1>2. PICK m : m = IF pos + n <= Len(stream) THEN pos + n ELSE Len(stream)
  OBVIOUS
<1>3. m \in Nat /\ pos < m /\ m <= Len(stream)
  BY <1>1, <1>2
<1>4. PICK c : c = SubSeq(stream, pos + 1, m)
  OBVIOUS
<1>5. /\ SubSeq(stream, pos + 1, m) \in Seq(0 .. 255) /\ Len(SubSeq(stream, pos + 1, m)) = m - pos
      /\ \A i \in 1 .. m - pos : SubSeq(stream, pos + 1, m)[i] = stream[pos + i]
  <2>1. pos <= m
    BY <1>1, <1>3
  <2>2. PICK T : T = 0 .. 255
    OBVIOUS
  <2>3. stream \in Seq(T) /\ pos \in Nat /\ m \in Nat /\ m <= Len(stream)
    BY <1>1, <1>3, <2>2
  <2>4. /\ SubSeq(stream, pos + 1, m) \in Seq(T) /\ Len(SubSeq(stream, pos + 1, m)) = m - pos
        /\ \A i \in 1 .. m - pos : SubSeq(stream, pos + 1, m)[i] = stream[pos + i]
    BY <2>1, <2>3, SubSeqIs
  <2> QED  BY <2>2, <2>4
<1>6. c \in Seq(0 .. 255) /\ Len(c) = m - pos /\ \A i \in 1 .. m - pos : c[i] = stream[pos + i]
  BY <1>4, <1>5, Zenon
<1>7. Chunk(n) = c
  BY <1>2, <1>4 DEF Chunk
<1>8. Len(c) \in Nat \ {0} /\ pos + Len(c) <= Len(stream)
  BY <1>1, <1>3, <1>6
<1> QED  BY <1>6, <1>7, <1>8

\* A chunk goes behind what was left over.
LEMMA FedIs ==
  ASSUME LinkInv, NEW n \in Reads, pos < Len(stream), NEW f, f = Fed(parser, Chunk(n)),
         NEW q, q = pos + Len(Chunk(n))
  PROVE  /\ At(f, q) /\ Rest(f, q) = Rest(parser, pos)
         /\ q \in Nat /\ q <= Len(stream) /\ pos < q
<1>1. PICK c \in Seq(0 .. 255) :
        /\ c = Chunk(n) /\ Len(c) \in Nat \ {0} /\ q = pos + Len(c) /\ q <= Len(stream)
        /\ \A i \in 1 .. Len(c) : c[i] = stream[pos + i]
  BY ChunkIs
<1>2. At(parser, pos)
  BY DEF LinkInv
<1>3. PICK b \in Seq(0 .. 255) : b = parser.buf
  BY <1>2, AtFacts
<1>4. /\ Len(b) \in Nat /\ pos \in Nat /\ Len(b) <= pos /\ Rest(parser, pos) = pos - Len(b)
      /\ parser \in Parser /\ parser.expected_length >= 8
  BY <1>2, <1>3, AtFacts DEF Rest
<1>5. \A i \in 1 .. Len(b) : b[i] = stream[pos - Len(b) + i]
  BY <1>2, <1>3, <1>4 DEF At
<1>6. /\ b \o c \in Seq(0 .. 255) /\ Len(b \o c) = Len(b) + Len(c)
      /\ \A i \in 1 .. Len(b) : (b \o c)[i] = b[i]
      /\ \A i \in 1 .. Len(c) : (b \o c)[Len(b) + i] = c[i]
  <2>1. PICK T : T = 0 .. 255
    OBVIOUS
  <2>2. b \in Seq(T) /\ c \in Seq(T)
    BY <2>1
  <2>3. /\ b \o c \in Seq(T) /\ Len(b \o c) = Len(b) + Len(c)
        /\ \A i \in 1 .. Len(b) : (b \o c)[i] = b[i]
        /\ \A i \in 1 .. Len(c) : (b \o c)[Len(b) + i] = c[i]
    BY <2>2, ConcatIs
  <2> QED  BY <2>1, <2>3
<1>7. PICK d : d = b \o c
  OBVIOUS
<1>8. f \in Parser /\ f.buf = d /\ f.expected_length = parser.expected_length
  <2>1. f = [parser EXCEPT !.buf = d]
    BY <1>1, <1>3, <1>7 DEF Fed
  <2>2. d \in Bytes
    BY <1>6, <1>7 DEF Bytes
  <2> QED  BY <1>4, <2>1, <2>2 DEF Parser
<1>9. q - Len(d) = pos - Len(b) /\ Len(d) \in Nat /\ Len(d) <= q /\ q \in Nat /\ pos < q
  BY <1>1, <1>4, <1>6, <1>7
<1>10. ASSUME NEW i \in 1 .. Len(d) PROVE d[i] = stream[pos - Len(b) + i]
  <2>1. CASE i <= Len(b)
    <3>1. i \in 1 .. Len(b)
      BY <1>4, <2>1
    <3> QED  BY <1>5, <1>6, <1>7, <3>1
  <2>2. CASE ~(i <= Len(b))
    <3>1. PICK k \in 1 .. Len(c) : i = Len(b) + k
      <4>1. Len(d) = Len(b) + Len(c)
        BY <1>6, <1>7
      <4>2. i - Len(b) \in 1 .. Len(c) /\ i = Len(b) + (i - Len(b))
        BY <1>1, <1>4, <2>2, <4>1
      <4> QED  BY <4>2
    <3>2. d[i] = c[k] /\ c[k] = stream[pos + k]
      BY <1>1, <1>6, <1>7, <3>1
    <3>3. pos + k = pos - Len(b) + i
      BY <1>4, <3>1
    <3> QED  BY <3>2, <3>3
  <2> QED  BY <2>1, <2>2
<1> QED  BY <1>1, <1>4, <1>8, <1>9, <1>10 DEF At, Rest

\* A new connection goes on at the beginning of a segment.
LEMMA ReconnectIs ==
  ASSUME LinkInv, Reconnect
  PROVE  /\ \E b \in 1 .. Len(line) + 1 : pos' = Start(b)
         /\ pos' \in Nat /\ pos <= pos' /\ pos' <= Len(stream)
<1>1. pos \in Nat /\ pos <= Len(stream)
  BY AtFacts DEF LinkInv
<1>2. /\ \A s \in 1 .. Len(line) + 1 : Start(s) \in Nat
      /\ Start(Len(line) + 1) = Len(stream) /\ Len(line) \in Nat
      /\ \A s, t \in 1 .. Len(line) + 1 : s <= t => Start(s) <= Start(t)
  BY LineIs DEF LinkInv
<1> DEFINE T == {b \in Starts : b >= pos}
<1>3. T # {} /\ T \subseteq Nat
  <2>1. Len(line) + 1 \in 1 .. Len(line) + 1
    BY <1>2
  <2>2. Start(Len(line) + 1) \in Starts /\ Starts \subseteq Nat
    BY <1>2, <2>1 DEF Starts
  <2> QED  BY <1>1, <1>2, <2>2
<1>4. PICK m \in T : \A y \in T : m <= y
  BY <1>3, LeastOf
<1>5. m \in Starts /\ m >= pos /\ \A c \in Starts : c >= pos => m <= c
  BY <1>4
<1>6. pos' = CHOOSE b \in Starts : b >= pos /\ \A c \in Starts : c >= pos => b <= c
  BY DEF Reconnect
<1>7. pos' \in Starts /\ pos' >= pos
  BY <1>5, <1>6
<1>8. PICK b \in 1 .. Len(line) + 1 : pos' = Start(b)
  BY <1>7 DEF Starts
<1>9. Start(b) <= Start(Len(line) + 1) /\ Start(b) \in Nat
  <2>1. Len(line) + 1 \in 1 .. Len(line) + 1 /\ b <= Len(line) + 1
    BY <1>2
  <2> QED  BY <1>2, <2>1
<1> QED  BY <1>1, <1>2, <1>7, <1>8, <1>9

-----------------------------------------------------------------------------
\* The inductive invariant of the connection: initially.
LEMMA LinkInvInit == Init => LinkInv
<1> SUFFICES ASSUME Init PROVE LinkInv
  OBVIOUS
<1>1. LineInv /\ pos = 0 /\ parser = NewParser
  BY DEF Init, LineInv, Segments
<1>2. Len(stream) \in Nat
  BY <1>1, LineIs DEF Bytes
<1>3. 0 <= Len(stream) /\ At(NewParser, 0)
  BY <1>2, NewParserAt
<1> QED  BY <1>1, <1>3 DEF LinkInv

\* The line stays while the server does not change.
LEMMA LineKept == ASSUME LineInv, UNCHANGED server PROVE LineInv'
BY DEF LineInv, Segments, server

\* Where the parser stands, in the next state.
LEMMA AtKept ==
  ASSUME UNCHANGED server, At(parser', pos') PROVE At(parser, pos)'
BY DEF At, Rest, server

\* After a read the parser stands behind it.
LEMMA ParsedAt ==
  ASSUME LinkInv, NEW n \in Reads, dataReceived(n)
  PROVE  /\ At(parser', pos') /\ pos' <= Len(stream)
         /\ parser' = parse_buffer(parser, Chunk(n)).p
         /\ m_list' = parse_buffer(parser, Chunk(n)).r.messages
<1>1. /\ pos' = pos + Len(Chunk(n)) /\ pos < Len(stream)
      /\ parser' = parse_buffer(parser, Chunk(n)).p
      /\ m_list' = parse_buffer(parser, Chunk(n)).r.messages
  BY DEF dataReceived
<1>2. PICK f : f = Fed(parser, Chunk(n))
  OBVIOUS
<1>3. PICK q : q = pos'
  OBVIOUS
<1>4. At(f, q) /\ q <= Len(stream) /\ Len(f.buf) \in Nat
  <2>1. At(f, q) /\ q <= Len(stream)
    BY <1>1, <1>2, <1>3, FedIs
  <2> QED  BY <2>1, AtFacts
<1>5. PICK taken : /\ taken[0] = parse_char(f)
                   /\ \A k \in Nat : taken[k + 1] = Once(taken[k])
                   /\ parse_buffer(parser, Chunk(n)) = taken[Len(f.buf) \div 8 + 1]
  BY <1>2, LoopIs
<1> DEFINE T == {k \in Nat : ~At(taken[k].p, q)}
<1>6. At(taken[0].p, q)
  BY <1>4, <1>5, StepAt
<1>7. ASSUME T # {} PROVE FALSE
  <2>1. PICK m \in T : \A k \in T : m <= k
    BY <1>7, LeastOf
  <2>2. m # 0
    BY <1>6
  <2>3. m - 1 \in Nat /\ (m - 1) + 1 = m /\ m - 1 \notin T
    BY <2>1, <2>2
  <2>4. At(taken[m - 1].p, q)
    BY <2>3
  <2>5. taken[m] = Once(taken[m - 1])
    BY <1>5, <2>3
  <2>6. PICK s : s = taken[m - 1]
    OBVIOUS
  <2>7. At(Once(s).p, q)
    <3>1. CASE s.r.out = "message"
      <4>1. Once(s).p = parse_char(s.p).p
        BY <3>1, AnotherIs DEF Once
      <4> QED  BY <2>4, <2>6, <4>1, StepAt
    <3>2. CASE s.r.out # "message"
      BY <2>4, <2>6, <3>2 DEF Once
    <3> QED  BY <3>1, <3>2
  <2> QED  BY <2>5, <2>6, <2>7
<1>8. Len(f.buf) \div 8 + 1 \in Nat
  <2>1. PICK l \in Nat : l = Len(f.buf)
    BY <1>4
  <2>2. l \div 8 + 1 \in Nat
    OBVIOUS
  <2> QED  BY <2>1, <2>2
<1>9. At(taken[Len(f.buf) \div 8 + 1].p, q)
  BY <1>7, <1>8
<1> QED  BY <1>1, <1>3, <1>4, <1>5, <1>9

\* The inductive invariant of the connection: every step.
LEMMA LinkInvStep == LinkInv /\ [Next]_vars => LinkInv'
<1> SUFFICES ASSUME LinkInv, [Next]_vars PROVE LinkInv'
  OBVIOUS
<1>1. UNCHANGED server
  BY DEF Next, vars, dataReceived, messageReceived, connectionLost, Reconnect
<1>2. LineInv'
  BY <1>1, LineKept DEF LinkInv
<1>3. CASE UNCHANGED <<parser, pos>>
  BY <1>1, <1>2, <1>3 DEF LinkInv, At, Rest, server
<1>4. ASSUME NEW n \in Reads, dataReceived(n) PROVE LinkInv'
  <2>1. At(parser', pos') /\ pos' <= Len(stream)
    BY <1>4, ParsedAt
  <2>2. At(parser, pos)'
    BY <1>1, <2>1, AtKept
  <2> QED  BY <1>1, <1>2, <2>1, <2>2 DEF LinkInv, server
<1>5. CASE Reconnect
  <2>1. pos' \in Nat /\ pos' <= Len(stream)
    BY <1>5, ReconnectIs
  <2>2. parser' = NewParser
    BY <1>5 DEF Reconnect, buildProtocol
  <2>3. At(parser', pos')
    BY <2>1, <2>2, NewParserAt
  <2>4. At(parser, pos)'
    BY <1>1, <2>3, AtKept
  <2> QED  BY <1>1, <1>2, <2>1, <2>4 DEF LinkInv, server
<1>6. CASE messageReceived \/ connectionLost \/ UNCHANGED vars
  BY <1>3, <1>6 DEF messageReceived, connectionLost, vars
<1> QED  BY <1>4, <1>5, <1>6 DEF Next

\* The inductive invariant of the connection: always.
LEMMA LinkInvariant == Spec => []LinkInv
BY LinkInvInit, LinkInvStep, PTL DEF Spec
-----------------------------------------------------------------------------
SentInv == /\ FramedLine
           /\ CutPoint(Rest(parser, pos))
           /\ handed \in Seq(Messages) /\ m_list \in Seq(Messages)
           /\ Gets(handed \o m_list, 0, Rest(parser, pos))

\* The inductive invariant of what is handed over: initially.
LEMMA SentInvInit == Init /\ FramedLine => SentInv
<1> SUFFICES ASSUME Init, FramedLine PROVE SentInv
  OBVIOUS
<1>1. LinkInv /\ pos = 0 /\ parser = NewParser /\ handed = <<>> /\ m_list = <<>>
  BY LinkInvInit DEF Init
<1>2. LineInv /\ Len(stream) \in Nat
  BY <1>1, LineIs DEF LinkInv, Bytes
<1>3. Rest(parser, pos) = 0 /\ Start(1) = 0 /\ 1 \in 1 .. Len(line) + 1
  BY <1>1, <1>2, NewParserAt, LineIs
<1>4. CutPoint(Rest(parser, pos))
  BY <1>2, <1>3, StartIsCut
<1>5. <<>> \o <<>> = <<>> /\ <<>> \in Seq(Messages)
  OBVIOUS
<1> QED  BY <1>1, <1>4, <1>5, GetsNone DEF SentInv

\* It holds when what was handed over and what is pending was taken from before a cut.
LEMMA SentKept ==
  ASSUME UNCHANGED server, FramedLine, NEW c, c = Rest(parser', pos'), CutPoint(c),
         handed' \in Seq(Messages), m_list' \in Seq(Messages),
         NEW ms, ms = handed' \o m_list', Gets(ms, 0, c)
  PROVE  SentInv'
<1>1. line' = line /\ Rest(parser, pos)' = c
  BY DEF server, Rest
<1>2. FramedLine'
  BY <1>1 DEF FramedLine, Refused, Noise
<1>3. CutPoint(Rest(parser, pos))'
  BY <1>1 DEF CutPoint, Noise, Start
<1>4. Messages' = Messages
  BY <1>1 DEF Messages
<1>5. Gets(handed \o m_list, 0, Rest(parser, pos))'
  <2>1. \E at : Places(at, ms, 0, c)
    BY DEF Gets
  <2>2. PICK at : Places(at, ms, 0, c)
    BY <2>1
  <2>3. Places(at, handed \o m_list, 0, Rest(parser, pos))'
    BY <1>1, <2>2 DEF Places, Start
  <2>4. ms \in Seq(Messages)
    BY DEF Gets
  <2> QED  BY <1>4, <2>3, <2>4 DEF Gets
<1> QED  BY <1>2, <1>3, <1>4, <1>5 DEF SentInv

\* The inductive invariant of what is handed over: every step.
LEMMA SentInvStep == LinkInv /\ SentInv /\ [Next]_vars => SentInv'
<1> SUFFICES ASSUME LinkInv, SentInv, [Next]_vars PROVE SentInv'
  OBVIOUS
<1>1. UNCHANGED server
  BY DEF Next, vars, dataReceived, messageReceived, connectionLost, Reconnect
<1>2. LineInv /\ FramedLine /\ At(parser, pos)
  BY DEF LinkInv, SentInv
<1>3. PICK c \in Nat : c = Rest(parser, pos)
  BY <1>2, AtFacts
<1>4. /\ CutPoint(c) /\ handed \in Seq(Messages) /\ m_list \in Seq(Messages)
      /\ Gets(handed \o m_list, 0, c)
  BY <1>3 DEF SentInv
<1>5. CASE UNCHANGED <<parser, pos, handed, m_list>>
  <2>1. c = Rest(parser', pos')
    BY <1>3, <1>5
  <2> QED  BY <1>1, <1>2, <1>4, <1>5, <2>1, SentKept
<1>6. CASE connectionLost \/ UNCHANGED vars
  BY <1>5, <1>6 DEF connectionLost, vars
<1>7. CASE messageReceived
  <2>1. /\ m_list # <<>> /\ m_list' = Tail(m_list) /\ handed' = Append(handed, Head(m_list))
        /\ parser' = parser /\ pos' = pos
    BY <1>7 DEF messageReceived
  <2>2. PICK S : S = Messages
    OBVIOUS
  <2>3. handed \in Seq(S) /\ m_list \in Seq(S)
    BY <1>4, <2>2
  <2>4. handed' \in Seq(S) /\ m_list' \in Seq(S)
    BY <2>1, <2>3
  <2>5. handed' \o m_list' = handed \o m_list
    <3>1. PICK a \in Seq(S), b \in Seq(S) : a = handed /\ b = m_list
      BY <2>3
    <3>2. b # <<>> => Append(a, Head(b)) \o Tail(b) = a \o b
      OBVIOUS
    <3> QED  BY <2>1, <3>1, <3>2
  <2>6. c = Rest(parser', pos')
    BY <1>3, <2>1
  <2> QED  BY <1>1, <1>2, <1>4, <2>2, <2>4, <2>5, <2>6, SentKept
<1>8. CASE Reconnect
  <2>1. PICK b \in 1 .. Len(line) + 1 : pos' = Start(b)
    BY <1>8, ReconnectIs
  <2>2. pos' \in Nat /\ pos <= pos' /\ pos' <= Len(stream) /\ parser' = NewParser
        /\ handed' = handed /\ m_list' = m_list
    BY <1>8, ReconnectIs DEF Reconnect, buildProtocol
  <2>3. PICK d \in Nat : d = pos'
    BY <2>2
  <2>4. d = Rest(parser', pos')
    BY <2>2, <2>3, NewParserAt
  <2>5. CutPoint(d)
    BY <1>2, <2>1, <2>3, StartIsCut
  <2>6. c <= d
    <3>1. pos \in Nat /\ Len(parser.buf) \in Nat
      BY <1>2, AtFacts
    <3> QED  BY <1>3, <2>2, <2>3, <3>1 DEF Rest
  <2>7. Gets(handed \o m_list, 0, d)
    <3>1. 0 \in Nat /\ 0 <= 0
      OBVIOUS
    <3> QED  BY <1>2, <1>4, <2>6, <3>1, GetsWider
  <2> QED  BY <1>1, <1>2, <1>4, <2>2, <2>4, <2>5, <2>7, SentKept
<1>9. ASSUME NEW n \in Reads, dataReceived(n) PROVE SentInv'
  <2>1. /\ pos' = pos + Len(Chunk(n)) /\ pos < Len(stream) /\ m_list = <<>> /\ handed' = handed
        /\ parser' = parse_buffer(parser, Chunk(n)).p
        /\ m_list' = parse_buffer(parser, Chunk(n)).r.messages
    BY <1>9 DEF dataReceived
  <2>2. PICK f : f = Fed(parser, Chunk(n))
    OBVIOUS
  <2>3. PICK q : q = pos'
    OBVIOUS
  <2>4. At(f, q) /\ Rest(f, q) = c
    BY <1>3, <2>1, <2>2, <2>3, FedIs
  <2>5. Ready(f, q)
    BY <1>4, <2>4 DEF Ready
  <2>6. PICK t : t = parse_buffer(parser, Chunk(n))
    OBVIOUS
  <2>7. Loop(t, c, q)
    BY <1>2, <2>2, <2>4, <2>5, <2>6, BufferGets
  <2>8. PICK d \in Nat : d = Rest(t.p, q) /\ c <= d
    BY <2>7, AtFacts DEF Loop, Ready
  <2>9. Gets(t.r.messages, c, d) /\ CutPoint(d)
    BY <2>7, <2>8 DEF Loop, Ready
  <2>10. Gets(handed, 0, c)
    <3>1. handed \o m_list = handed
      BY <1>4, <2>1
    <3> QED  BY <1>4, <3>1
  <2>11. Gets(handed \o t.r.messages, 0, d)
    <3>1. 0 \in Nat /\ 0 <= c
      OBVIOUS
    <3> QED  BY <1>2, <2>8, <2>9, <2>10, <3>1, GetsBoth
  <2>12. t.r.messages \in Seq(Messages)
    BY <2>9 DEF Gets
  <2>13. d = Rest(parser', pos')
    BY <2>1, <2>3, <2>6, <2>8
  <2> QED  BY <1>1, <1>2, <1>4, <2>1, <2>6, <2>9, <2>11, <2>12, <2>13, SentKept
<1> QED  BY <1>6, <1>7, <1>8, <1>9 DEF Next

\* On a line of whole frames and noise, however it is cut and whenever it breaks, what is handed
\* to the controller was sent, in the order it was sent in (mavlink.py:9709-9797,
\* mavlink_protocol.py:47-56).
THEOREM HandedAsSent == Spec /\ FramedLine => []AsSent
<1>1. SentInv => AsSent
  <2> SUFFICES ASSUME SentInv PROVE AsSent
    OBVIOUS
  <2>1. PICK taken : taken = handed \o m_list
    OBVIOUS
  <2>2. taken \in Seq(Messages) /\ \E at : Places(at, taken, 0, Rest(parser, pos))
    BY <2>1 DEF SentInv, Gets
  <2>3. PICK at : Places(at, taken, 0, Rest(parser, pos))
    BY <2>2
  <2>4. DOMAIN taken = 1 .. Len(taken)
    BY <2>2
  <2>5. /\ at \in [DOMAIN taken -> DOMAIN line]
        /\ \A i, j \in DOMAIN taken : i < j => at[i] < at[j]
        /\ \A i \in DOMAIN taken : line[at[i]].messages = <<taken[i]>>
    BY <2>3, <2>4 DEF Places
  <2> QED  BY <2>1, <2>5 DEF AsSent
<1> QED  BY <1>1, LinkInvariant, SentInvInit, SentInvStep, PTL DEF Spec

-----------------------------------------------------------------------------
(***************************************************************************)
(* Nothing whole is left behind. On good frames each round of the loop     *)
(* takes the next one, and as none has less than 8 bytes the rounds are    *)
(* enough.                                                                 *)
(***************************************************************************)
LEMMA NoneLeft == ASSUME NEW T, NEW a \in Seq(T), Len(a) = 0 PROVE a = <<>>
OBVIOUS

\* A sum of ones.
LEMMA UptoOnes ==
  ASSUME NEW s, NEW N \in Nat, \A i \in 1 .. N : s[i] = 1, NEW n \in 0 .. N
  PROVE  Upto(s, n) = n
<1> DEFINE T == {m \in Nat : m <= N /\ Upto(s, m) # m}
<1>1. ASSUME T # {} PROVE FALSE
  <2>1. PICK m \in T : \A l \in T : m <= l
    BY <1>1, LeastOf
  <2>2. m # 0
    BY UptoIs
  <2>3. m \in 1 .. N /\ m - 1 \in Nat /\ m - 1 \notin T /\ (m - 1) + 1 = m
    BY <2>1, <2>2
  <2>4. Upto(s, m - 1) = m - 1 /\ s[m] = 1
    BY <2>3
  <2>5. Upto(s, m) = Upto(s, m - 1) + s[m]
    BY <2>3, UptoIs
  <2> QED  BY <2>3, <2>4, <2>5
<1> QED  BY <1>1

\* Joining sequences of one element.
LEMMA FlattenOnes ==
  ASSUME NEW T, NEW ms \in Seq(T), NEW ss \in Seq(Seq(T)), Len(ss) = Len(ms),
         \A i \in 1 .. Len(ms) : Len(ss[i]) = 1 /\ ss[i][1] = ms[i]
  PROVE  FlattenSeq(ss) = ms
<1>1. Len(ms) \in Nat
  OBVIOUS
<1>2. \A i \in 1 .. Len(ms) : Lengths(ss)[i] = 1
  <2>1. \A i \in 1 .. Len(ss) : Lengths(ss)[i] = Len(ss[i])
    BY LengthsAre, Zenon
  <2> QED  BY <2>1
<1>3. /\ FlattenSeq(ss) \in Seq(T)
      /\ Len(FlattenSeq(ss)) = Upto(Lengths(ss), Len(ss))
      /\ \A k \in 1 .. Len(ss) : \A j \in 1 .. Len(ss[k]) :
           FlattenSeq(ss)[Upto(Lengths(ss), k - 1) + j] = ss[k][j]
  BY FlattenIs
<1>4. \A n \in 0 .. Len(ms) : Upto(Lengths(ss), n) = n
  BY <1>1, <1>2, UptoOnes
<1>5. Len(FlattenSeq(ss)) = Len(ms)
  BY <1>1, <1>3, <1>4
<1>6. ASSUME NEW i \in 1 .. Len(ms) PROVE FlattenSeq(ss)[i] = ms[i]
  <2>1. i - 1 \in 0 .. Len(ms) /\ (i - 1) + 1 = i /\ 1 \in 1 .. Len(ss[i]) /\ i \in 1 .. Len(ss)
    BY <1>1
  <2>2. FlattenSeq(ss)[Upto(Lengths(ss), i - 1) + 1] = ss[i][1]
    BY <1>3, <2>1
  <2>3. Upto(Lengths(ss), i - 1) = i - 1
    BY <1>4, <2>1
  <2> QED  BY <2>1, <2>2, <2>3
<1> QED  BY <1>3, <1>5, <1>6, SameSequence

\* Every segment from the s-th on that has begun before q is a good frame.
GoodFrom(s, q) == \A k \in s .. Len(line) : Start(k) < q => line[k].messages # <<>>

\* The k-th segment is there as a whole; the step t takes it.
Whole(k, q) == k <= Len(line) /\ Start(k + 1) <= q
Takes(t, k, q) ==
  /\ Rest(t.p, q) = Start(k + 1) /\ Start(k + 1) >= Start(k) + 8
  /\ \E m : line[k].messages = <<m>> /\ t.r = [out |-> "message", messages |-> <<m>>]

\* From the beginning of a good frame on, parse_char takes that frame or waits for its end.
LEMMA GoodStep ==
  ASSUME LineInv, NEW s \in DOMAIN line, NEW p, NEW q, At(p, q), GoodFrom(s, q),
         NEW k \in s .. Len(line) + 1, Rest(p, q) = Start(k), NEW t, t = parse_char(p)
  PROVE  /\ At(t.p, q)
         /\ Whole(k, q) => Takes(t, k, q)
         /\ ~Whole(k, q) => Rest(t.p, q) = Start(k) /\ t.r = Nothing
<1>1. PICK b \in Seq(0 .. 255) : b = p.buf
  BY AtFacts
<1>2. PICK x \in Nat : x = Len(b)
  OBVIOUS
<1>3. s \in Nat /\ Len(line) \in Nat /\ Start(Len(line) + 1) = Len(stream) /\ DOMAIN line = 1 .. Len(line)
  BY LineIs
<1>4. k \in Nat /\ k \in 1 .. Len(line) + 1
  BY <1>3
<1>5. PICK y \in Nat : y = Start(k)
  BY <1>4, LineIs
<1>6. q \in Nat /\ q <= Len(stream) /\ y = q - x
  <2>1. q \in Nat /\ q <= Len(stream)
    BY DEF At
  <2> QED  BY <1>1, <1>2, <1>5, <2>1 DEF Rest
<1>7. At(t.p, q)
  BY StepAt
<1>8. CASE k <= Len(line) /\ Start(k) < q
  <2>1. k \in s .. Len(line) /\ k \in DOMAIN line
    BY <1>3, <1>4, <1>8
  <2>2. line[k].messages # <<>>
    BY <1>8, <2>1 DEF GoodFrom
  <2>3. IsFrame(line[k].bytes) /\ Received(line[k].bytes) = [out |-> "message", messages |-> line[k].messages]
    BY <2>1, <2>2, SentFrame
  <2>4. PICK z \in Nat : z = Len(line[k].bytes)
    BY <2>1, LineIs
  <2>5. Start(k + 1) = y + z
    BY <1>5, <2>1, <2>4, LineIs
  <2>6. /\ z >= 8
        /\ x >= z => Rest(t.p, q) = Start(k + 1) /\ t.r = Received(line[k].bytes)
        /\ ~(x >= z) => t.p.buf = p.buf /\ t.r = Nothing
    BY <1>1, <1>2, <2>1, <2>3, <2>4, HeadFrame
  <2>7. Whole(k, q) <=> x >= z
    BY <1>6, <1>8, <2>5 DEF Whole
  <2>8. ASSUME Whole(k, q) PROVE Takes(t, k, q)
    <3>1. Rest(t.p, q) = Start(k + 1) /\ t.r = Received(line[k].bytes)
      BY <2>6, <2>7, <2>8
    <3>2. t.r.out = "message" /\ t.r.messages = line[k].messages
      BY <2>3, <3>1
    <3>3. PICK m : t.r = [out |-> "message", messages |-> <<m>>]
      BY <3>1, <3>2, ReceivedIs, OutcomeIs
    <3>4. line[k].messages = <<m>>
      <4>1. t.r.messages = <<m>>
        BY <3>3
      <4> QED  BY <3>2, <4>1
    <3>5. Start(k + 1) >= Start(k) + 8
      BY <1>5, <2>5, <2>6
    <3> QED  BY <3>1, <3>3, <3>4, <3>5 DEF Takes
  <2>9. ASSUME ~Whole(k, q) PROVE Rest(t.p, q) = Start(k) /\ t.r = Nothing
    BY <2>6, <2>7, <2>9 DEF Rest
  <2> QED  BY <1>7, <2>8, <2>9
<1>9. CASE ~(k <= Len(line) /\ Start(k) < q)
  <2>1. y = q
    <3>1. CASE k <= Len(line)
      BY <1>5, <1>6, <1>9, <3>1
    <3>2. CASE ~(k <= Len(line))
      <4>1. k = Len(line) + 1
        BY <1>3, <1>4, <3>2
      <4>2. Start(k) = Len(stream)
        BY <1>3, <4>1
      <4>3. PICK n : n = Len(stream)
        OBVIOUS
      <4>4. y = n /\ q <= n
        BY <1>5, <1>6, <4>2, <4>3
      <4> QED  BY <1>6, <4>4
    <3> QED  BY <3>1, <3>2
  <2>2. p.buf = <<>>
    <3>1. x = 0
      BY <1>6, <2>1
    <3>2. b = <<>>
      BY <1>2, <3>1, NoneLeft
    <3> QED  BY <1>1, <3>2
  <2>3. t.p.buf = p.buf /\ t.r = Nothing
    BY <2>2, EmptyStep
  <2>4. ~Whole(k, q)
    <3>1. ASSUME k <= Len(line) PROVE ~(Start(k + 1) <= q)
      <4>1. k \in DOMAIN line
        BY <1>3, <1>4, <3>1
      <4>2. Start(k) < Start(k + 1) /\ Start(k + 1) \in Nat
        BY <4>1, SegmentIs
      <4> QED  BY <1>5, <2>1, <4>2
    <3> QED  BY <3>1 DEF Whole
  <2>5. Rest(t.p, q) = Start(k)
    BY <2>3 DEF Rest
  <2> QED  BY <1>7, <2>3, <2>4, <2>5
<1> QED  BY <1>8, <1>9

\* The messages ms are those of the segments from the s-th to before the k-th.
From(ms, s, k) == /\ ms \in Seq(Messages) /\ Len(ms) = k - s
                  /\ \A i \in 1 .. Len(ms) : line[s + i - 1].messages = <<ms[i]>>

\* The messages of one more segment.
LEMMA FromMore ==
  ASSUME LineInv, NEW s \in DOMAIN line, NEW k \in s .. Len(line), NEW ms, From(ms, s, k),
         NEW m, line[k].messages = <<m>>
  PROVE  From(ms \o <<m>>, s, k + 1)
<1>1. s \in Nat /\ Len(line) \in Nat /\ k \in Nat /\ k \in DOMAIN line
  BY LineIs
<1>2. ms \in Seq(Messages) /\ Len(ms) = k - s /\ Len(ms) \in Nat
  BY DEF From
<1>3. <<m>> \in Seq(Messages) /\ Len(<<m>>) = 1 /\ <<m>>[1] = m
  <2>1. line[k].messages[1] = m
    OBVIOUS
  <2>2. m \in Messages
    BY <1>1, <2>1 DEF Messages
  <2> QED  BY <2>2
<1>4. PICK b : b = <<m>>
  OBVIOUS
<1> DEFINE l == ms \o b
<1>5. /\ l \in Seq(Messages) /\ Len(l) = Len(ms) + 1
      /\ \A i \in 1 .. Len(ms) : l[i] = ms[i]
      /\ l[Len(ms) + 1] = m
  <2>1. b \in Seq(Messages) /\ Len(b) = 1 /\ b[1] = m /\ 1 \in 1 .. Len(b)
    BY <1>3, <1>4
  <2>2. /\ ms \o b \in Seq(Messages) /\ Len(ms \o b) = Len(ms) + Len(b)
        /\ \A i \in 1 .. Len(ms) : (ms \o b)[i] = ms[i]
        /\ \A i \in 1 .. Len(b) : (ms \o b)[Len(ms) + i] = b[i]
    <3>1. ms \in Seq(Messages) /\ b \in Seq(Messages)
      BY <1>2, <2>1
    <3> QED  BY <3>1, ConcatIs
  <2> QED  BY <2>1, <2>2
<1> HIDE DEF l
<1>6. ASSUME NEW i \in 1 .. Len(l) PROVE line[s + i - 1].messages = <<l[i]>>
  <2>1. CASE i = Len(ms) + 1
    <3>1. s + i - 1 = k
      BY <1>1, <1>2, <2>1
    <3> QED  BY <1>5, <2>1, <3>1
  <2>2. CASE i # Len(ms) + 1
    <3>1. i \in 1 .. Len(ms)
      BY <1>2, <1>5, <2>2
    <3> QED  BY <1>5, <3>1 DEF From
  <2> QED  BY <2>1, <2>2
<1>7. Len(l) = (k + 1) - s
  BY <1>1, <1>2, <1>5
<1>8. From(l, s, k + 1)
  BY <1>5, <1>6, <1>7 DEF From
<1> QED  BY <1>4, <1>8 DEF l

\* After round n, either n + 1 frames are taken or all that are whole.
Caught(t, s, k, q) == /\ At(t.p, q) /\ k \in s .. Len(line) + 1 /\ Rest(t.p, q) = Start(k)
                      /\ From(t.r.messages, s, k) /\ Start(k) >= Start(s) + 8 * (k - s)
Round(t, s, q, n) ==
  \E k : /\ Caught(t, s, k, q)
         /\ \/ t.r.out = "message" /\ k = s + n + 1
            \/ t.r.out = "none" /\ ~Whole(k, q)

\* The messages of no segment.
LEMMA FromNone == ASSUME NEW s \in Nat PROVE From(<<>>, s, s)
<1>1. <<>> \in Seq(Messages) /\ Len(<<>>) = 0 /\ \A i \in 1 .. 0 : FALSE
  OBVIOUS
<1> QED  BY <1>1 DEF From

\* The first round of the loop.
LEMMA FirstRound ==
  ASSUME LineInv, NEW s \in DOMAIN line, NEW p, NEW q, At(p, q), GoodFrom(s, q),
         Rest(p, q) = Start(s), NEW t, t = parse_char(p)
  PROVE  Round(t, s, q, 0)
<1>1. s \in Nat /\ Len(line) \in Nat /\ s \in s .. Len(line) + 1 /\ s + 1 \in s .. Len(line) + 1
      /\ Start(s) \in Nat /\ Start(s + 1) \in Nat
  BY LineIs, SegmentIs
<1>2. CASE Whole(s, q)
  <2>0. At(t.p, q) /\ Takes(t, s, q)
    BY <1>1, <1>2, GoodStep
  <2>1. /\ At(t.p, q) /\ Rest(t.p, q) = Start(s + 1) /\ Start(s + 1) >= Start(s) + 8
        /\ \E m : line[s].messages = <<m>> /\ t.r = [out |-> "message", messages |-> <<m>>]
    BY <2>0 DEF Takes
  <2>2. PICK m : line[s].messages = <<m>> /\ t.r = [out |-> "message", messages |-> <<m>>]
    BY <2>1
  <2>3. From(<<>> \o <<m>>, s, s + 1)
    <3>1. s \in s .. Len(line)
      BY <1>1, <1>2 DEF Whole
    <3> QED  BY <1>1, <2>2, <3>1, FromNone, FromMore
  <2>4. From(t.r.messages, s, s + 1) /\ t.r.out = "message"
    <3>1. <<>> \o <<m>> = <<m>>
      OBVIOUS
    <3> QED  BY <2>2, <2>3, <3>1
  <2>5. Caught(t, s, s + 1, q) /\ s + 1 = s + 0 + 1
    BY <1>1, <2>1, <2>4 DEF Caught
  <2> QED  BY <2>4, <2>5 DEF Round
<1>3. CASE ~Whole(s, q)
  <2>1. At(t.p, q) /\ Rest(t.p, q) = Start(s) /\ t.r = Nothing
    BY <1>1, <1>3, GoodStep
  <2>2. From(t.r.messages, s, s) /\ t.r.out = "none"
    BY <1>1, <2>1, FromNone, OutcomeIs
  <2>3. Caught(t, s, s, q)
    BY <1>1, <2>1, <2>2 DEF Caught
  <2> QED  BY <1>3, <2>2, <2>3 DEF Round
<1> QED  BY <1>2, <1>3

\* Each further round of the loop.
LEMMA NextRound ==
  ASSUME LineInv, NEW s \in DOMAIN line, NEW q, GoodFrom(s, q), NEW n \in Nat, NEW t, Round(t, s, q, n)
  PROVE  Round(Once(t), s, q, n + 1)
<1>1. PICK k : /\ Caught(t, s, k, q)
               /\ \/ t.r.out = "message" /\ k = s + n + 1
                  \/ t.r.out = "none" /\ ~Whole(k, q)
  BY DEF Round
<1>2. CASE t.r.out # "message"
  BY <1>1, <1>2 DEF Once, Round
<1>3. CASE t.r.out = "message"
  <2>1. s \in Nat /\ Len(line) \in Nat /\ k = s + n + 1 /\ k \in Nat
    BY <1>1, <1>3, LineIs
  <2>2. /\ At(t.p, q) /\ k \in s .. Len(line) + 1 /\ Rest(t.p, q) = Start(k)
        /\ From(t.r.messages, s, k) /\ Start(k) >= Start(s) + 8 * (k - s)
    BY <1>1 DEF Caught
  <2>3. PICK u : u = parse_char(t.p)
    OBVIOUS
  <2>4. PICK o : o = Once(t)
    OBVIOUS
  <2>5. o = Another(t)
    BY <1>3, <2>4 DEF Once
  <2>6. o.p = u.p
    BY <2>3, <2>5, AnotherIs
  <2>7. CASE Whole(k, q)
    <3>0. At(u.p, q) /\ Takes(u, k, q)
      BY <2>2, <2>3, <2>7, GoodStep
    <3>1. /\ At(u.p, q) /\ Rest(u.p, q) = Start(k + 1) /\ Start(k + 1) >= Start(k) + 8
          /\ \E m : line[k].messages = <<m>> /\ u.r = [out |-> "message", messages |-> <<m>>]
      BY <3>0 DEF Takes
    <3>2. PICK m : line[k].messages = <<m>> /\ u.r = [out |-> "message", messages |-> <<m>>]
      BY <3>1
    <3>3. u.r.out = "message" /\ u.r.messages = <<m>>
      BY <3>2
    <3>4. o.r = [out |-> "message", messages |-> t.r.messages \o u.r.messages]
      BY <2>3, <2>5, <3>3, AnotherIs
    <3>5. o.r.out = "message" /\ o.r.messages = t.r.messages \o <<m>>
      BY <3>3, <3>4
    <3>6. k \in s .. Len(line) /\ k + 1 \in s .. Len(line) + 1 /\ k \in DOMAIN line
      BY <2>1, <2>2, <2>7, LineIs, SMTT(60) DEF Whole
    <3>7. From(o.r.messages, s, k + 1)
      BY <2>2, <3>2, <3>5, <3>6, FromMore
    <3>8. Start(k + 1) >= Start(s) + 8 * ((k + 1) - s)
      <4>1. PICK x \in Nat, y \in Nat, z \in Nat : x = Start(s) /\ y = Start(k) /\ z = Start(k + 1)
        BY <3>6, SegmentIs
      <4>2. y >= x + 8 * (k - s) /\ z >= y + 8
        BY <2>2, <3>1, <4>1
      <4>3. PICK d \in Nat : d = k - s
        BY <2>1
      <4>5. z >= x + 8 * (d + 1)
        BY <4>2, <4>3
      <4>6. (k + 1) - s = d + 1
        BY <2>1, <4>3
      <4> QED  BY <4>1, <4>5, <4>6
    <3>9. Caught(o, s, k + 1, q)
      BY <2>6, <3>1, <3>6, <3>7, <3>8 DEF Caught
    <3>10. k + 1 = s + (n + 1) + 1
      BY <2>1
    <3> QED  BY <2>4, <3>5, <3>9, <3>10 DEF Round
  <2>8. CASE ~Whole(k, q)
    <3>1. At(u.p, q) /\ Rest(u.p, q) = Start(k) /\ u.r = Nothing
      BY <2>2, <2>3, <2>8, GoodStep
    <3>11. u.r.out = "none"
      BY <3>1, OutcomeIs
    <3>2. o.r = [out |-> "none", messages |-> t.r.messages]
      BY <2>3, <2>5, <3>11, AnotherIs
    <3>3. o.r.out = "none" /\ o.r.messages = t.r.messages
      BY <3>2
    <3>4. Caught(o, s, k, q)
      BY <2>2, <2>6, <3>1, <3>3 DEF Caught
    <3> QED  BY <2>4, <2>8, <3>3, <3>4 DEF Round
  <2> QED  BY <2>7, <2>8
<1> QED  BY <1>2, <1>3

-----------------------------------------------------------------------------
\* A whole frame has at least eight bytes.
LEMMA DivIs == ASSUME NEW x \in Nat PROVE x \div 8 \in Nat /\ 8 * (x \div 8 + 1) > x
OBVIOUS

\* The rounds of the loop are enough.
LEMMA AllCaught ==
  ASSUME LineInv, NEW s \in DOMAIN line, NEW f, NEW q, At(f, q), GoodFrom(s, q), Rest(f, q) = Start(s),
         NEW taken, taken[0] = parse_char(f), \A n \in Nat : taken[n + 1] = Once(taken[n]),
         NEW t, t = taken[Len(f.buf) \div 8 + 1]
  PROVE  \E k : Caught(t, s, k, q) /\ ~Whole(k, q)
<1> DEFINE T == {n \in Nat : ~Round(taken[n], s, q, n)}
<1>1. Round(taken[0], s, q, 0)
  BY FirstRound
<1>2. ASSUME T # {} PROVE FALSE
  <2>1. PICK m \in T : \A l \in T : m <= l
    BY <1>2, LeastOf
  <2>2. m # 0
    BY <1>1
  <2>3. m - 1 \in Nat /\ (m - 1) + 1 = m /\ m - 1 \notin T
    BY <2>1, <2>2
  <2>4. Round(taken[m - 1], s, q, m - 1)
    BY <2>3
  <2>5. taken[m] = Once(taken[m - 1])
    BY <2>3
  <2>6. Round(Once(taken[m - 1]), s, q, (m - 1) + 1)
    BY <2>3, <2>4, NextRound
  <2> QED  BY <2>3, <2>5, <2>6
<1>3. PICK x \in Nat : x = Len(f.buf)
  BY AtFacts
<1>4. PICK N \in Nat : N = x \div 8 + 1 /\ 8 * N > x
  BY DivIs
<1>5. 8 * N > x
  BY <1>4
<1>6. Round(t, s, q, N)
  BY <1>2, <1>3, <1>4
<1>7. PICK k : /\ Caught(t, s, k, q)
               /\ \/ t.r.out = "message" /\ k = s + N + 1
                  \/ t.r.out = "none" /\ ~Whole(k, q)
  BY <1>6 DEF Round
<1>8. k # s + N + 1
  <2>1. SUFFICES ASSUME k = s + N + 1 PROVE FALSE
    OBVIOUS
  <2>2. /\ Rest(t.p, q) = Start(k) /\ Start(k) >= Start(s) + 8 * (k - s) /\ s \in Nat
        /\ At(t.p, q)
    BY <1>7, SegmentIs DEF Caught
  <2>3. PICK y \in Nat, z \in Nat : y = Start(s) /\ z = Start(k)
    BY <2>2, SegmentIs, AtFacts
  <2>4. q \in Nat /\ y = q - x
    BY <1>3, <2>3 DEF At, Rest
  <2>5. z <= q
    <3>1. PICK w \in Nat : w = Len(t.p.buf)
      BY <2>2, AtFacts
    <3>2. z = q - w
      BY <2>2, <2>3, <3>1 DEF Rest
    <3>3. PICK r \in Nat : r = q
      BY <2>4
    <3>4. z = r - w
      BY <3>2, <3>3
    <3>5. z <= r
      BY <3>4
    <3> QED  BY <3>3, <3>5
  <2>6. k - s = N + 1
    BY <2>1, <2>2
  <2>7. z >= y + 8 * (N + 1)
    BY <2>2, <2>3, <2>6
  <2> QED  BY <1>5, <2>4, <2>5, <2>7
<1> QED  BY <1>7, <1>8

\* How many frames are whole.
LEMMA WholeAre ==
  ASSUME LineInv, NEW s \in DOMAIN line, NEW q \in Nat, NEW k \in s .. Len(line) + 1,
         Start(k) <= q, ~Whole(k, q)
  PROVE  Cardinality({j \in s .. Len(line) : Start(j + 1) <= q}) = k - s
<1> DEFINE whole == {j \in s .. Len(line) : Start(j + 1) <= q}
<1>1. /\ s \in Nat /\ Len(line) \in Nat /\ DOMAIN line = 1 .. Len(line) /\ s >= 1
      /\ \A i \in 1 .. Len(line) + 1 : Start(i) \in Nat
      /\ \A i, j \in 1 .. Len(line) + 1 : i <= j => Start(i) <= Start(j)
  BY LineIs
<1>2. k \in Nat /\ k \in 1 .. Len(line) + 1 /\ s <= k /\ k <= Len(line) + 1
  BY <1>1
<1>3. ASSUME NEW j \in s .. Len(line) PROVE Start(j + 1) <= q <=> j <= k - 1
  <2>1. j + 1 \in 1 .. Len(line) + 1 /\ j \in Nat
    BY <1>1
  <2>2. Start(j + 1) \in Nat /\ Start(k) \in Nat
    BY <1>1, <1>2, <2>1
  <2>3. CASE j <= k - 1
    <3>1. Start(j + 1) <= Start(k)
      BY <1>1, <1>2, <2>1, <2>3
    <3> QED  BY <2>2, <2>3, <3>1
  <2>4. CASE ~(j <= k - 1)
    <3>1. k <= Len(line) /\ k + 1 \in 1 .. Len(line) + 1 /\ k + 1 <= j + 1
      BY <1>1, <1>2, <2>1, <2>4
    <3>2. Start(k + 1) <= Start(j + 1) /\ Start(k + 1) \in Nat
      BY <1>1, <2>1, <3>1
    <3>3. ~(Start(k + 1) <= q)
      BY <3>1 DEF Whole
    <3> QED  BY <2>2, <2>4, <3>2, <3>3
  <2> QED  BY <2>3, <2>4
<1>4. whole = s .. (k - 1)
  <2>1. ASSUME NEW j PROVE j \in whole <=> j \in s .. (k - 1)
    <3>1. j \in s .. (k - 1) => j \in s .. Len(line) /\ j <= k - 1
      BY <1>1, <1>2
    <3>2. j \in s .. Len(line) /\ j <= k - 1 => j \in s .. (k - 1)
      BY <1>1, <1>2
    <3> QED  BY <1>3, <3>1, <3>2
  <2> QED  BY <2>1
<1>5. Cardinality(s .. (k - 1)) = IF s > k - 1 THEN 0 ELSE (k - 1) - s + 1
  <2>1. s \in Int /\ k - 1 \in Int
    BY <1>1, <1>2
  <2> QED  BY <2>1, FS_Interval
<1>6. Cardinality(s .. (k - 1)) = k - s
  BY <1>1, <1>2, <1>5
<1> QED  BY <1>4, <1>6

\* What a good chunk gives.
LEMMA ChunkCaught ==
  ASSUME LinkInv, NEW n \in Reads, dataReceived(n), NEW s \in DOMAIN line,
         Start(s) = pos - Len(parser.buf), GoodFrom(s, pos')
  PROVE  m_list' = FlattenSeq([k \in 1 .. Cardinality({j \in s .. Len(line) : Start(j + 1) <= pos'})
                                 |-> line[s + k - 1].messages])
<1>1. /\ pos' = pos + Len(Chunk(n)) /\ pos < Len(stream)
      /\ m_list' = parse_buffer(parser, Chunk(n)).r.messages
  BY DEF dataReceived
<1>2. PICK f : f = Fed(parser, Chunk(n))
  OBVIOUS
<1>3. PICK q : q = pos'
  OBVIOUS
<1>4. At(f, q) /\ Rest(f, q) = Start(s) /\ q \in Nat
  <2>1. At(f, q) /\ Rest(f, q) = Rest(parser, pos) /\ q \in Nat
    BY <1>1, <1>2, <1>3, FedIs
  <2> QED  BY <2>1 DEF Rest
<1>5. PICK taken : /\ taken[0] = parse_char(f)
                   /\ \A k \in Nat : taken[k + 1] = Once(taken[k])
                   /\ parse_buffer(parser, Chunk(n)) = taken[Len(f.buf) \div 8 + 1]
  BY <1>2, LoopIs
<1>6. LineInv /\ GoodFrom(s, q)
  BY <1>3 DEF LinkInv
<1>7. PICK t : t = taken[Len(f.buf) \div 8 + 1]
  OBVIOUS
<1>8. PICK k : Caught(t, s, k, q) /\ ~Whole(k, q)
  BY <1>4, <1>5, <1>6, <1>7, AllCaught
<1>9. PICK ms : ms = t.r.messages
  OBVIOUS
<1>10. /\ At(t.p, q) /\ k \in s .. Len(line) + 1 /\ Rest(t.p, q) = Start(k) /\ From(ms, s, k)
  BY <1>8, <1>9 DEF Caught
<1>11. s \in Nat /\ Len(line) \in Nat /\ DOMAIN line = 1 .. Len(line) /\ k \in Nat /\ s <= k /\ s >= 1
       /\ Start(k) \in Nat
  <2>1. s \in Nat /\ Len(line) \in Nat /\ DOMAIN line = 1 .. Len(line)
    BY <1>6, LineIs
  <2>2. k \in 1 .. Len(line) + 1 /\ k \in Nat /\ s <= k /\ s >= 1
    BY <1>10, <2>1
  <2> QED  BY <1>6, <2>1, <2>2, LineIs
<1>12. Start(k) <= q
  <2>1. PICK w \in Nat : w = Len(t.p.buf)
    BY <1>10, AtFacts
  <2>2. PICK z \in Nat : z = Start(k)
    BY <1>11
  <2>3. z = q - w
    BY <1>10, <2>1, <2>2 DEF Rest
  <2> QED  BY <1>4, <2>1, <2>2, <2>3
<1> DEFINE whole == {j \in s .. Len(line) : Start(j + 1) <= q}
           ss == [j \in 1 .. Cardinality(whole) |-> line[s + j - 1].messages]
<1>13. PICK d \in Nat : d = k - s /\ Cardinality(whole) = d
  BY <1>4, <1>6, <1>8, <1>10, <1>11, <1>12, WholeAre
<1> HIDE DEF whole
<1>14. ms \in Seq(Messages) /\ Len(ms) = d /\ \A i \in 1 .. d : line[s + i - 1].messages = <<ms[i]>>
  BY <1>10, <1>13 DEF From
<1>15. ss \in Seq(Seq(Messages)) /\ Len(ss) = d
  <2>1. ASSUME NEW i \in 1 .. d PROVE line[s + i - 1].messages \in Seq(Messages)
    <3>1. ms[i] \in Messages
      BY <1>14, ElementIs
    <3>2. <<ms[i]>> \in Seq(Messages)
      BY <3>1
    <3> QED  BY <1>14, <3>2
  <2> QED  BY <1>13, <2>1
<1>16. ASSUME NEW i \in 1 .. d PROVE Len(ss[i]) = 1 /\ ss[i][1] = ms[i]
  <2>1. ss[i] = line[s + i - 1].messages
    BY <1>13
  <2>2. PICK x : x = ms[i]
    OBVIOUS
  <2>3. ss[i] = <<x>>
    BY <1>14, <2>1, <2>2
  <2>4. Len(<<x>>) = 1 /\ <<x>>[1] = x
    OBVIOUS
  <2> QED  BY <2>2, <2>3, <2>4
<1> HIDE DEF ss
<1>17. FlattenSeq(ss) = ms
  BY <1>14, <1>15, <1>16, FlattenOnes
<1>18. m_list' = ms
  BY <1>1, <1>5, <1>7, <1>9
<1>19. m_list' = FlattenSeq(ss)
  BY <1>17, <1>18
<1> QED  BY <1>3, <1>19 DEF ss, whole

\* For all lines and cuts: a chunk of good frames, from the beginning of one on, leaves no whole
\* frame behind (mavlink.py:9786-9797, mavlink_protocol.py:47-56).
THEOREM NoneLeftBehind == Spec => CatchesUp
<1> DEFINE Caught1 ==
      \A s \in DOMAIN line :
         /\ connected /\ pos' # pos /\ Start(s) = pos - Len(parser.buf)
         /\ \A k \in s .. Len(line) : Start(k) < pos' => line[k].messages # <<>>
         => LET whole == {k \in s .. Len(line) : Start(k + 1) <= pos'}
            IN m_list' = FlattenSeq([k \in 1 .. Cardinality(whole) |-> line[s + k - 1].messages])
<1>1. LinkInv /\ [Next]_vars => [Caught1]_vars
  <2> SUFFICES ASSUME LinkInv, Next, NEW s \in DOMAIN line,
                      connected, pos' # pos, Start(s) = pos - Len(parser.buf),
                      \A k \in s .. Len(line) : Start(k) < pos' => line[k].messages # <<>>
               PROVE  m_list' = FlattenSeq(
                        [k \in 1 .. Cardinality({j \in s .. Len(line) : Start(j + 1) <= pos'})
                           |-> line[s + k - 1].messages])
    BY DEF Caught1
  <2>1. PICK n \in Reads : dataReceived(n)
    BY DEF Next, messageReceived, connectionLost, Reconnect
  <2>2. GoodFrom(s, pos')
    BY DEF GoodFrom
  <2> QED  BY <2>1, <2>2, ChunkCaught
<1>2. Spec => []LinkInv
  BY LinkInvariant
<1>3. Spec => [][Next]_vars
  BY DEF Spec
<1>4. CatchesUp <=> [][Caught1]_vars
  BY DEF CatchesUp
<1> HIDE DEF Caught1
<1> QED  BY <1>1, <1>2, <1>3, <1>4, PTL

-----------------------------------------------------------------------------
(***************************************************************************)
(* The controller: the hysteresis never adds up and never trembles, for    *)
(* all values of all channels and any number of messages.                  *)
(***************************************************************************)
\* Where a stick points is an angle, 16-bit values that no stick has included.
LEMMA StraightType ==
  ASSUME NEW chan \in G!Channel, NEW chan8 \in G!Channel
  PROVE  G!Straight(chan, chan8) \in G!Angle
<1>1. chan \in Int
  BY SMTT(60) DEF G!Channel
<1>2. \A a \in Int : -500 <= a /\ a <= 500 => a \in G!Angle
  BY SMTT(30) DEF G!Angle
<1>3. G!Pointed(chan) \in Int /\ -500 <= G!Pointed(chan) /\ G!Pointed(chan) <= 500
  BY <1>1, SMTT(30) DEF G!Pointed
<1>4. 0 \in G!Angle
  BY DEF G!Angle
<1>5. G!Pointed(chan) \in G!Angle
  BY <1>2, <1>3
<1> QED  BY <1>4, <1>5 DEF G!Straight

\* What is followed is an angle within one degree of the new one; it is the old
\* angle or more than one degree from it.
LEMMA FollowedFacts ==
  ASSUME NEW old \in G!Angle \cup {G!NoAngle}, NEW new \in G!Angle
  PROVE  /\ G!Followed(old, new) \in G!Angle
         /\ ~G!Apart(G!Followed(old, new), new)
         /\ \/ G!Followed(old, new) = old \/ old = G!NoAngle
            \/ G!Apart(G!Followed(old, new), old)
BY DEF G!Followed, G!Apart, G!Angle, G!NoAngle

\* The inductive invariant: the command sent last says what is remembered.
GimbalInv == /\ G!TypeOK
             /\ G!WithinOneDegree
             /\ command.sent => /\ command.pitch = pitch /\ command.yaw = yaw
                                /\ pitch \in G!Angle /\ yaw \in G!Angle

\* The inductive invariant of the controller: initially.
LEMMA GimbalInit == G!Init => GimbalInv
BY DEF G!Init, GimbalInv, G!TypeOK, G!WithinOneDegree, G!Angle, G!NoAngle

\* The inductive invariant of the controller: every step.
LEMMA GimbalStep == GimbalInv /\ [G!Next]_(G!vars) => GimbalInv'
<1> SUFFICES ASSUME GimbalInv, [G!Next]_(G!vars) PROVE GimbalInv'
  OBVIOUS
<1> USE DEF GimbalInv
<1>1. CASE G!connectionMade
  BY <1>1 DEF G!connectionMade, G!TypeOK, G!WithinOneDegree, G!Angle, G!NoAngle
<1>2. ASSUME NEW chan6 \in G!Channel, NEW chan7 \in G!Channel, NEW chan8 \in G!Channel,
             G!messageReceived(chan6, chan7, chan8)
      PROVE  GimbalInv'
  <2> DEFINE p == G!Straight(chan6, chan8)
             y == G!Straight(chan7, chan8)
  <2>1. p \in G!Angle /\ y \in G!Angle
    BY StraightType
  <2>2. /\ pitch \in G!Angle \cup {G!NoAngle} /\ yaw \in G!Angle \cup {G!NoAngle}
        /\ seq \in 0 .. 255
    BY DEF G!TypeOK
  <2>3. /\ pitch' \in G!Angle /\ ~G!Apart(pitch', p)
        /\ yaw' \in G!Angle /\ ~G!Apart(yaw', y)
    BY <1>2, <2>1, <2>2, FollowedFacts DEF G!messageReceived
  <2>4. /\ command' = [sent |-> TRUE, seq |-> seq, pitch |-> pitch', yaw |-> yaw']
        /\ wanted' = [pitch |-> p, yaw |-> y] /\ seq' \in 0 .. 255
    BY <1>2, <2>2 DEF G!messageReceived
  <2>5. G!TypeOK'
    BY <2>1, <2>2, <2>3, <2>4 DEF G!TypeOK
  <2>6. G!WithinOneDegree'
    BY <2>3, <2>4 DEF G!WithinOneDegree
  <2> QED  BY <2>3, <2>4, <2>5, <2>6
<1>3. CASE UNCHANGED G!vars
  BY <1>3 DEF G!vars, G!TypeOK, G!WithinOneDegree
<1> QED  BY <1>1, <1>2, <1>3 DEF G!Next

\* The inductive invariant of the controller: always.
LEMMA GimbalInvariant == G!Spec => []GimbalInv
BY GimbalInit, GimbalStep, PTL DEF G!Spec

\* storm32_controller.py:54-81: angles stay within 90 degrees, the number within a byte.
THEOREM GimbalTypes == G!Spec => []G!TypeOK
<1>1. GimbalInv => G!TypeOK
  BY DEF GimbalInv
<1> QED  BY <1>1, GimbalInvariant, PTL

\* storm32_controller.py:59-76: the controller, given any channels, stands within one degree of
\* where the sticks pointed last.
THEOREM NeverAdrift == G!Spec => []WithinOneDegree
<1>1. GimbalInv => WithinOneDegree
  BY DEF GimbalInv, WithinOneDegree
<1> QED  BY <1>1, GimbalInvariant, PTL

\* storm32_controller.py:69-74: an angle that is commanded anew is more than one degree
\* from the one before.
THEOREM NeverTrembles == G!Spec => G!NoTremble
<1>1. GimbalInv /\ [G!Next]_(G!vars) =>
        [command.sent /\ command'.sent =>
           /\ command'.pitch = command.pitch \/ G!Apart(command'.pitch, command.pitch)
           /\ command'.yaw = command.yaw \/ G!Apart(command'.yaw, command.yaw)]_(G!vars)
  <2> SUFFICES ASSUME GimbalInv, G!Next, command.sent, command'.sent
               PROVE  /\ command'.pitch = command.pitch \/ G!Apart(command'.pitch, command.pitch)
                      /\ command'.yaw = command.yaw \/ G!Apart(command'.yaw, command.yaw)
    OBVIOUS
  <2>1. ~G!connectionMade
    BY DEF G!connectionMade
  <2>2. PICK chan6 \in G!Channel, chan7 \in G!Channel, chan8 \in G!Channel :
          G!messageReceived(chan6, chan7, chan8)
    BY <2>1 DEF G!Next
  <2>3. /\ command.pitch = pitch /\ command.yaw = yaw
        /\ pitch \in G!Angle /\ yaw \in G!Angle /\ pitch # G!NoAngle /\ yaw # G!NoAngle
    BY DEF GimbalInv, G!Angle, G!NoAngle
  <2>4. command'.pitch = pitch' /\ command'.yaw = yaw'
    BY <2>2 DEF G!messageReceived
  <2>5. pitch' = pitch \/ G!Apart(pitch', pitch)
    BY <2>2, <2>3, StraightType, FollowedFacts DEF G!messageReceived
  <2>6. yaw' = yaw \/ G!Apart(yaw', yaw)
    BY <2>2, <2>3, StraightType, FollowedFacts DEF G!messageReceived
  <2> QED  BY <2>3, <2>4, <2>5, <2>6
<1> QED  BY <1>1, GimbalInvariant, PTL DEF G!Spec, G!NoTremble

-----------------------------------------------------------------------------
(***************************************************************************)
(* The link is a connection of the controller: whatever is on the line,    *)
(* the channels of a message that gets through are 16-bit numbers.         *)
(***************************************************************************)
Pair(b) == b \in Bytes /\ Len(b) = 2
Sound(g) == g.id = RC_CHANNELS_ID => \A k \in {8, 9, 10} : Pair(g.fields[k][1])
AllSound(ms) == \E S : ms \in Seq(S) /\ \A g \in S : Sound(g)

\* No messages are sound.
LEMMA NoneSound == AllSound(<<>>)
<1>1. PICK S : S = {}
  OBVIOUS
<1>2. <<>> \in Seq(S) /\ \A g \in S : Sound(g)
  BY <1>1
<1> QED  BY <1>2 DEF AllSound

\* One sound message.
LEMMA OneSound == ASSUME NEW g, Sound(g) PROVE AllSound(<<g>>)
<1>1. PICK S : S = {g}
  OBVIOUS
<1>2. <<g>> \in Seq(S) /\ \A x \in S : Sound(x)
  BY <1>1
<1> QED  BY <1>2 DEF AllSound

\* Sound messages behind sound ones.
LEMMA MoreSound == ASSUME NEW a, NEW b, AllSound(a), AllSound(b) PROVE AllSound(a \o b)
<1>1. PICK S : a \in Seq(S) /\ \A g \in S : Sound(g)
  BY DEF AllSound
<1>2. PICK R : b \in Seq(R) /\ \A g \in R : Sound(g)
  BY DEF AllSound
<1>3. PICK T : T = S \cup R
  OBVIOUS
<1>4. \A g \in T : Sound(g)
  BY <1>1, <1>2, <1>3
<1>5. a \in Seq(T) /\ b \in Seq(T)
  <2>1. S \subseteq T /\ R \subseteq T
    BY <1>3
  <2> QED  BY <1>1, <1>2, <2>1, SeqMore
<1>6. a \o b \in Seq(T)
  BY <1>5, ConcatIs
<1> QED  BY <1>4, <1>6 DEF AllSound

\* What is left of sound messages.
LEMMA RestSound ==
  ASSUME NEW ms, AllSound(ms), ms # <<>>
  PROVE  Sound(Head(ms)) /\ AllSound(Tail(ms))
<1>1. PICK S : ms \in Seq(S) /\ \A g \in S : Sound(g)
  BY DEF AllSound
<1>2. Head(ms) \in S /\ Tail(ms) \in Seq(S)
  BY <1>1
<1> QED  BY <1>1, <1>2 DEF AllSound

\* Any payload is a full one with some zeros left off.
LEMMA AnyFills ==
  ASSUME NEW m, Agrees(m), NEW w \in Bytes
  PROVE  \E p \in Bytes : Len(p) = Size(m) /\ Fills(w, m, p)
<1>1. PICK z : z = Zeros(255)
  OBVIOUS
<1>2. PICK n \in Nat : n = 255
  OBVIOUS
<1>3. z \in Bytes /\ Len(z) = n
  BY <1>1, <1>2, ZerosIs, ZenonT(60)
<1>4. PICK a : a = w \o z
  OBVIOUS
<1>5. a \in Bytes /\ Len(a) = Len(w) + n /\ Len(w) \in Nat
  <2>1. w \o z \in Bytes /\ Len(w \o z) = Len(w) + Len(z) /\ Len(w) \in Nat
    BY <1>3, JoinedBytes
  <2> QED  BY <1>3, <1>4, <2>1
<1>6. PICK l \in Nat : l = Size(m) /\ l <= n
  <2>1. Size(m) \in 1 .. 255
    BY AgreesFacts
  <2> QED  BY <1>2, <2>1
<1>7. PICK p : p = SubSeq(a, 1, l)
  OBVIOUS
<1>8. p \in Bytes /\ Len(p) = l
  <2>1. 0 \in Nat /\ 0 <= l /\ l <= Len(a)
    BY <1>5, <1>6
  <2>2. SubSeq(a, 0 + 1, l) \in Bytes /\ Len(SubSeq(a, 0 + 1, l)) = l - 0
    BY <1>5, <2>1, SubBytes
  <2>3. 0 + 1 = 1 /\ l - 0 = l
    OBVIOUS
  <2> QED  BY <1>7, <2>2, <2>3
<1>9. Fills(w, m, p)
  BY <1>1, <1>4, <1>6, <1>7 DEF Fills
<1> QED  BY <1>6, <1>8, <1>9

\* RC_CHANNELS has one value in each field, the channels are those behind the first.
RC == RC_CHANNELS
\* The class of RC_CHANNELS in the dialect: channels 6 to 8 are unsigned shorts (mavlink.py).
LEMMA ChannelsAre ==
  /\ RC \in mavlink_map /\ Agrees(RC) /\ RC.chars = {}
  /\ \A k \in {8, 9, 10} : RC.orders[k] = k - 2
  /\ \A i \in 1 .. 21 : RC.lengths[i] = 1
  /\ DOMAIN RC.orders = 1 .. 21
  /\ Total(RC) = 3 /\ RC.format[1] = <<1, "I">> /\ RC.format[2] = <<18, "H">>
<1>1. RC \in mavlink_map
  BY DEF RC, mavlink_map
<1>2. Agrees(RC)
  BY <1>1, DialectAssumption
<1>3. PICK f, o, p : /\ f = <<<<1,"I">>, <<18,"H">>, <<2,"B">>>>
                     /\ o = <<0,19,1,2,3,4,5,6,7,8,9,10,11,12,13,14,15,16,17,18,20>>
                     /\ p = <<0,2,3,4,5,6,7,8,9,10,11,12,13,14,15,16,17,18,19,1,20>>
  OBVIOUS
<1>4. RC = Message(65, f, o, 118, 118, p)
  BY <1>3 DEF RC, RC_CHANNELS
<1>5. RC.format = f /\ RC.orders = o /\ RC.lengths = Ones(o) /\ RC.chars = {}
  BY <1>4 DEF Message, Arrays
<1>6. Len(o) = 21 /\ DOMAIN o = 1 .. 21 /\ o[8] = 6 /\ o[9] = 7 /\ o[10] = 8
  BY <1>3
<1>7. \A i \in 1 .. 21 : Ones(o)[i] = 1
  BY <1>6 DEF Ones
<1>8. Len(f) = 3 /\ f[1] = <<1, "I">> /\ f[2] = <<18, "H">>
  BY <1>3
<1>9. \A k \in {8, 9, 10} : RC.orders[k] = k - 2
  BY <1>5, <1>6
<1>10. \A i \in 1 .. 21 : RC.lengths[i] = 1
  BY <1>5, <1>7
<1> QED  BY <1>1, <1>2, <1>5, <1>6, <1>8, <1>9, <1>10 DEF Total

\* Channels 6 to 8 of any payload are two bytes each.
LEMMA ChannelIs ==
  ASSUME NEW w \in Bytes, NEW k \in {8, 9, 10}
  PROVE  Pair(Ordered(RC, unpack(RC, w))[k][1])
<1>1. PICK t : t = unpack(RC, w)
  OBVIOUS
<1>2. PICK p \in Bytes : Len(p) = Size(RC) /\ Fills(w, RC, p)
  BY ChannelsAre, AnyFills
<1>3. /\ t \in Seq(Bytes) /\ Len(t) = Values(RC)
      /\ \A i \in 1 .. Total(RC) : \A n \in 1 .. Count(RC.format[i]) :
           t[Place(RC, i, n)] \in Bytes /\ Len(t[Place(RC, i, n)]) = Width(RC.format[i])
  <2>1. Agrees(RC) /\ p \in Bytes /\ Len(p) = Size(RC) /\ Fills(w, RC, p)
    BY <1>2, ChannelsAre
  <2>2. PICK m : m = RC
    OBVIOUS
  <2>3. /\ t \in Seq(Bytes) /\ Len(t) = Values(m)
        /\ \A i \in 1 .. Total(m) : \A n \in 1 .. Count(m.format[i]) :
             /\ t[Place(m, i, n)] \in Bytes /\ Len(t[Place(m, i, n)]) = Width(m.format[i])
             /\ \A j \in 1 .. Width(m.format[i]) : t[Place(m, i, n)][j] = p[BytePlace(m, i, n, j)]
    BY <1>1, <2>1, <2>2, UnpackIs
  <2> QED  BY <2>2, <2>3
<1>4. PICK v \in Nat : v = k - 2 /\ v \in 6 .. 8
  OBVIOUS
<1>5. Upto(RC.lengths, v) = v
  <2>1. PICK N \in Nat : N = 21
    OBVIOUS
  <2>2. (\A i \in 1 .. N : RC.lengths[i] = 1) /\ v \in 0 .. N
    BY <1>4, <2>1, ChannelsAre
  <2> QED  BY <2>2, UptoOnes
<1>6. RC.lengths[v + 1] = 1 /\ RC.orders[k] = v
  <2>1. v + 1 \in 1 .. 21
    BY <1>4
  <2> QED  BY <1>4, <2>1, ChannelsAre
<1>7. ValuesBefore(RC, 2) = 1
  <2>1. 1 \in 1 .. Total(RC)
    BY ChannelsAre
  <2>2. ValuesBefore(RC, 1 + 1) = ValuesBefore(RC, 1) + Count(RC.format[1])
    BY <2>1, BeforeIs, ChannelsAre
  <2>3. Count(RC.format[1]) = 1
    BY ChannelsAre DEF Count
  <2>4. ValuesBefore(RC, 1) = 0
    BY UptoIs DEF ValuesBefore
  <2> QED  BY <2>2, <2>3, <2>4
<1>8. Count(RC.format[2]) = 18 /\ Width(RC.format[2]) = 2
  BY ChannelsAre DEF Count, Width, CodeSize
<1>9. t[v + 1] \in Bytes /\ Len(t[v + 1]) = 2
  <2>1. v \in 1 .. Count(RC.format[2]) /\ 2 \in 1 .. Total(RC)
    BY <1>4, <1>8, ChannelsAre
  <2>2. Place(RC, 2, v) = v + 1
    BY <1>4, <1>7 DEF Place
  <2>3. t[Place(RC, 2, v)] \in Bytes /\ Len(t[Place(RC, 2, v)]) = Width(RC.format[2])
    BY <1>3, <2>1
  <2> QED  BY <1>8, <2>2, <2>3
<1>10. Ordered(RC, t)[k] = SubSeq(t, v + 1, v + 1)
  <2>1. k \in DOMAIN RC.orders
    BY ChannelsAre
  <2>2. Ordered(RC, t)[k] = SubSeq(t, Upto(RC.lengths, RC.orders[k]) + 1,
                                   Upto(RC.lengths, RC.orders[k]) + RC.lengths[RC.orders[k] + 1])
    BY <2>1 DEF Ordered
  <2> QED  BY <1>5, <1>6, <2>2
<1>11. SubSeq(t, v + 1, v + 1)[1] = t[v + 1]
  <2>1. PICK T : T = Bytes
    OBVIOUS
  <2>2. t \in Seq(T) /\ v + 1 \in Nat
    BY <1>3, <2>1
  <2>3. v <= v + 1 /\ v + 1 <= Len(t) /\ (v + 1) - v = 1 /\ 1 \in 1 .. 1
    <3>1. Place(RC, 2, 18) = 19 /\ Values(RC) >= 19
      <4>1. 2 \in 1 .. Total(RC)
        BY ChannelsAre
      <4>2. ValuesBefore(RC, 2 + 1) = ValuesBefore(RC, 2) + Count(RC.format[2])
            /\ ValuesBefore(RC, 2 + 1) <= Values(RC)
        BY <4>1, BeforeIs, ChannelsAre
      <4> QED  BY <1>7, <1>8, <4>2 DEF Place
    <3> QED  BY <1>3, <1>4, <3>1
  <2>4. \A i \in 1 .. (v + 1) - v : SubSeq(t, v + 1, v + 1)[i] = t[v + i]
    BY <2>2, <2>3, SubSeqIs
  <2> QED  BY <2>3, <2>4
<1> QED  BY <1>1, <1>9, <1>10, <1>11 DEF Pair

-----------------------------------------------------------------------------
\* Whatever is decoded is sound.
LEMMA DecodedSound ==
  ASSUME NEW id, Known(id), NEW s, NEW w \in Bytes
  PROVE  AllSound(Decoded(Class(id), s, Ordered(Class(id), unpack(Class(id), w))).messages)
<1>1. PICK m : m = Class(id)
  OBVIOUS
<1>2. m \in mavlink_map /\ Agrees(m) /\ m.id = id
  BY <1>1, ClassIs
<1>3. PICK o : o = Ordered(m, unpack(m, w))
  OBVIOUS
<1>4. PICK r : r = Decoded(m, s, o)
  OBVIOUS
<1>5. CASE r = UnicodeDecodeError
  BY <1>1, <1>3, <1>4, <1>5, NoneSound, OutcomeIs
<1>6. CASE r # UnicodeDecodeError
  <2>1. PICK f : f = [i \in DOMAIN o |-> IF i - 1 \in m.chars THEN <<MAVString(o[i][1])>> ELSE o[i]]
    OBVIOUS
  <2>2. PICK g : g = [id |-> m.id, seq |-> s, fields |-> f]
    OBVIOUS
  <2>3. r = [out |-> "message", messages |-> <<g>>]
    BY <1>4, <1>6, <2>1, <2>2 DEF Decoded
  <2>4. ASSUME g.id = RC_CHANNELS_ID, NEW k \in {8, 9, 10} PROVE Pair(g.fields[k][1])
    <3>1. m = RC
      <4>1. m.id = RC.id
        BY <2>2, <2>4 DEF RC_CHANNELS_ID, RC
      <4> QED  BY <1>2, <4>1, ChannelsAre, DialectAssumption
    <3>2. k \in DOMAIN o /\ DOMAIN o = 1 .. 21
      <4>1. DOMAIN o = DOMAIN RC.orders
        BY <1>3, <3>1 DEF Ordered
      <4> QED  BY <4>1, ChannelsAre
    <3>3. f[k] = o[k]
      BY <2>1, <3>1, <3>2, ChannelsAre
    <3>4. Pair(o[k][1])
      BY <1>3, <3>1, ChannelIs
    <3> QED  BY <2>2, <3>3, <3>4
  <2>5. Sound(g)
    BY <2>4 DEF Sound
  <2>6. AllSound(<<g>>)
    BY <2>5, OneSound
  <2>7. r.messages = <<g>>
    BY <2>3
  <2> QED  BY <1>1, <1>3, <1>4, <2>6, <2>7
<1> QED  BY <1>5, <1>6

\* The payload of a frame is bytes, as its length byte agrees with the frame's.
LEMMA ReceivedSound ==
  ASSUME NEW b \in Bytes, Len(b) >= 8
  PROVE  AllSound(Received(b).messages)
<1>1. CASE Received(b) = MAVError
  BY <1>1, NoneSound, OutcomeIs
<1>2. CASE Received(b) # MAVError /\ decode(b) = MAVError
  BY <1>2 DEF Received
<1>3. CASE Received(b) # MAVError /\ decode(b) # MAVError
  <2>1. PICK l \in Nat : l = Len(b)
    BY JoinedBytes
  <2>2. PICK c \in Nat : c = b[2]
    <3>1. PICK S : S = 0 .. 255
      OBVIOUS
    <3>2. b \in Seq(S) /\ 2 \in 1 .. Len(b)
      BY <2>1, <3>1 DEF Bytes
    <3>3. b[2] \in S
      BY <3>2, ElementIs
    <3>4. \A i \in S : i \in Nat
      BY <3>1
    <3> QED  BY <3>3, <3>4
  <2>3. PICK h, id, s, x : /\ h = IF b[1] = 254 THEN 6 ELSE 10
                           /\ id = IF b[1] = 254 THEN b[6] ELSE b[8] + 256 * b[9] + 65536 * b[10]
                           /\ s = IF b[1] = 254 THEN b[3] ELSE b[5]
                           /\ x = IF ~(b[1] = 254) /\ b[3] % 2 = 1 THEN 13 ELSE 0
    OBVIOUS
  <2>4. PICK end : end = Len(b) - (2 + x)
    OBVIOUS
  <2>5. decode(b) = IF b[2] # end - h \/ ~Known(id) THEN MAVError
                    ELSE DecodedAs(Class(id), s, b, h + 1, end)
    BY <2>3, <2>4 DEF decode
  <2>6. /\ b[2] = end - h /\ Known(id)
        /\ decode(b) = DecodedAs(Class(id), s, b, h + 1, end)
    BY <1>3, <2>5
  <2>7. Received(b) = decode(b)
    BY <1>3 DEF Received
  <2>8. PICK w : w = SubSeq(b, h + 1, end)
    OBVIOUS
  <2>9. w \in Bytes
    <3>1. h \in Nat /\ end \in Int /\ end <= l
      BY <2>1, <2>3, <2>4
    <3>2. end = h + c
      BY <2>2, <2>6, <3>1
    <3>3. PICK e \in Nat : e = end /\ h <= e
      BY <3>1, <3>2
    <3>4. SubSeq(b, h + 1, e) \in Bytes
      BY <2>1, <3>1, <3>3, SubBytes
    <3> QED  BY <2>8, <3>3, <3>4
  <2>10. DecodedAs(Class(id), s, b, h + 1, end)
           \in {MAVError, Decoded(Class(id), s, Ordered(Class(id), unpack(Class(id), w)))}
    BY <2>8 DEF DecodedAs
  <2>11. AllSound(Decoded(Class(id), s, Ordered(Class(id), unpack(Class(id), w))).messages)
    BY <2>6, <2>9, DecodedSound
  <2> QED  BY <1>3, <2>6, <2>7, <2>10, <2>11
<1> QED  BY <1>1, <1>2, <1>3

\* Whatever parse_char returns is sound.
LEMMA StepSound ==
  ASSUME NEW p, NEW q, At(p, q)
  PROVE  AllSound(parse_char(p).r.messages)
<1>1. CASE BadPrefix(p.buf)
  <2>1. parse_char(p).r \in {Nothing, MAVError}
    BY <1>1, PrefixStep
  <2>2. parse_char(p).r.messages = <<>>
    BY <2>1, OutcomeIs
  <2> QED  BY <2>2, NoneSound
<1>2. CASE ~BadPrefix(p.buf)
  <2>1. PICK e : e = Expected(p, IF p.buf # <<>> /\ p.buf[1] = 253 THEN 10 ELSE 6)
    OBVIOUS
  <2>2. /\ IF e >= (IF p.buf # <<>> /\ p.buf[1] = 253 THEN 12 ELSE 8) /\ Len(p.buf) >= e
           THEN parse_char(p).r = Received(SubSeq(p.buf, 1, e))
           ELSE parse_char(p).r = Nothing
        /\ e \in Nat /\ e >= 8
    BY <1>2, <2>1, FrameStep
  <2>3. CASE Len(p.buf) >= e /\ parse_char(p).r = Received(SubSeq(p.buf, 1, e))
    <3>1. PICK a \in Bytes : a = p.buf
      BY AtFacts DEF Bytes
    <3>2. PICK b : b = SubSeq(a, 1, e)
      OBVIOUS
    <3>3. b \in Bytes /\ Len(b) = e
      <4>1. 0 \in Nat /\ 0 <= e /\ e <= Len(a) /\ Len(a) \in Nat
        BY <2>2, <2>3, <3>1, JoinedBytes
      <4>2. SubSeq(a, 0 + 1, e) \in Bytes /\ Len(SubSeq(a, 0 + 1, e)) = e - 0
        BY <2>2, <4>1, SubBytes
      <4>3. 0 + 1 = 1 /\ e - 0 = e
        BY <2>2
      <4> QED  BY <3>2, <4>2, <4>3
    <3>4. AllSound(Received(b).messages)
      BY <2>2, <3>3, ReceivedSound
    <3> QED  BY <2>3, <3>1, <3>2, <3>4
  <2>4. CASE parse_char(p).r = Nothing
    BY <2>4, NoneSound, OutcomeIs
  <2> QED  BY <2>2, <2>3, <2>4
<1> QED  BY <1>1, <1>2

\* What parse_buffer returns of a chunk.
LEMMA ParsedSound ==
  ASSUME LinkInv, NEW n \in Reads, dataReceived(n)
  PROVE  AllSound(m_list')
<1>1. pos' = pos + Len(Chunk(n)) /\ pos < Len(stream) /\ m_list' = parse_buffer(parser, Chunk(n)).r.messages
  BY DEF dataReceived
<1>2. PICK f : f = Fed(parser, Chunk(n))
  OBVIOUS
<1>3. PICK q : q = pos'
  OBVIOUS
<1>4. At(f, q) /\ Len(f.buf) \in Nat
  <2>1. At(f, q)
    BY <1>1, <1>2, <1>3, FedIs
  <2> QED  BY <2>1, AtFacts
<1>5. PICK taken : /\ taken[0] = parse_char(f)
                   /\ \A k \in Nat : taken[k + 1] = Once(taken[k])
                   /\ parse_buffer(parser, Chunk(n)) = taken[Len(f.buf) \div 8 + 1]
  BY <1>2, LoopIs
<1> DEFINE Good(s) == At(s.p, q) /\ AllSound(s.r.messages)
           T == {k \in Nat : ~Good(taken[k])}
<1>6. Good(taken[0])
  BY <1>4, <1>5, StepAt, StepSound
<1>7. ASSUME T # {} PROVE FALSE
  <2>1. PICK m \in T : \A k \in T : m <= k
    BY <1>7, LeastOf
  <2>2. m # 0
    BY <1>6
  <2>3. m - 1 \in Nat /\ (m - 1) + 1 = m /\ m - 1 \notin T
    BY <2>1, <2>2
  <2>4. PICK s : s = taken[m - 1]
    OBVIOUS
  <2>5. Good(s)
    BY <2>3, <2>4
  <2>6. taken[m] = Once(s)
    BY <1>5, <2>3, <2>4
  <2>7. Good(Once(s))
    <3>1. CASE s.r.out = "message"
      <4>1. PICK t : t = parse_char(s.p)
        OBVIOUS
      <4>2. At(t.p, q) /\ AllSound(t.r.messages)
        BY <2>5, <4>1, StepAt, StepSound
      <4>3. Once(s) = Another(s)
        BY <3>1 DEF Once
      <4>4. Another(s).p = t.p /\ Another(s).r.messages \in {s.r.messages, s.r.messages \o t.r.messages, t.r.messages}
        <5>1. CASE t.r.out = "none"
          <6>1. PICK r : r = Another(s).r
            OBVIOUS
          <6>2. Another(s).p = t.p /\ r = [out |-> "none", messages |-> s.r.messages]
            BY <4>1, <5>1, <6>1, AnotherIs
          <6>3. r.messages = s.r.messages
            BY <6>2
          <6> QED  BY <6>1, <6>2, <6>3
        <5>2. CASE t.r.out = "message"
          <6>1. PICK r : r = Another(s).r
            OBVIOUS
          <6>2. /\ Another(s).p = t.p
                /\ r = [out |-> "message", messages |-> s.r.messages \o t.r.messages]
            BY <4>1, <5>2, <6>1, AnotherIs
          <6>3. r.messages = s.r.messages \o t.r.messages
            BY <6>2
          <6> QED  BY <6>1, <6>2, <6>3
        <5>3. CASE t.r.out \notin {"none", "message"}
          BY <4>1, <5>3, AnotherIs
        <5> QED  BY <5>1, <5>2, <5>3
      <4>5. AllSound(s.r.messages \o t.r.messages)
        BY <2>5, <4>2, MoreSound
      <4> QED  BY <2>5, <4>2, <4>3, <4>4, <4>5
    <3>2. CASE s.r.out # "message"
      BY <2>5, <3>2 DEF Once
    <3> QED  BY <3>1, <3>2
  <2> QED  BY <2>1, <2>6, <2>7
<1>8. Len(f.buf) \div 8 + 1 \in Nat
  <2>1. PICK l \in Nat : l = Len(f.buf)
    BY <1>4
  <2>2. l \div 8 + 1 \in Nat
    OBVIOUS
  <2> QED  BY <2>1, <2>2
<1>9. Good(taken[Len(f.buf) \div 8 + 1])
  BY <1>7, <1>8
<1> QED  BY <1>1, <1>5, <1>9
-----------------------------------------------------------------------------
SoundInv == LinkInv /\ AllSound(m_list)

\* The inductive invariant of the channels handed over: initially.
LEMMA SoundInvInit == Init => SoundInv
BY LinkInvInit, NoneSound DEF Init, SoundInv

\* The inductive invariant of the channels handed over: every step.
LEMMA SoundInvStep == SoundInv /\ [Next]_vars => SoundInv'
<1> SUFFICES ASSUME SoundInv, [Next]_vars PROVE SoundInv'
  OBVIOUS
<1>1. LinkInv /\ AllSound(m_list) /\ LinkInv'
  BY LinkInvStep DEF SoundInv
<1>2. ASSUME NEW n \in Reads, dataReceived(n) PROVE AllSound(m_list')
  BY <1>1, <1>2, ParsedSound
<1>3. ASSUME messageReceived PROVE AllSound(m_list')
  BY <1>1, <1>3, RestSound DEF messageReceived
<1>4. ASSUME connectionLost \/ Reconnect \/ UNCHANGED vars PROVE AllSound(m_list')
  BY <1>1, <1>4 DEF connectionLost, Reconnect, vars
<1>5. AllSound(m_list')
  BY <1>2, <1>3, <1>4 DEF Next
<1>6. AllSound(m_list)'
  BY <1>5 DEF AllSound, Sound, Pair
<1> QED  BY <1>1, <1>6 DEF SoundInv

\* A number of 16 bits is a channel.
LEMMA ChannelType ==
  ASSUME NEW x \in Nat, NEW y \in Nat, x <= 255, y <= 255
  PROVE  x + 256 * y \in G!Channel
<1>1. PICK k \in Nat : k = 255
  OBVIOUS
<1>2. G!Channel = 0 .. (k + 256 * k)
  BY <1>1, SMTT(60) DEF G!Channel
<1>3. x <= k /\ y <= k
  BY <1>1
<1>4. PICK n \in Nat, t \in Nat : n = x + 256 * y /\ t = k + 256 * k
  OBVIOUS
<1>5. n <= t
  BY <1>3, <1>4
<1>6. n \in 0 .. t
  BY <1>4, <1>5
<1> QED  BY <1>2, <1>4, <1>6, Zenon

\* Two bytes are a channel.
LEMMA NumberType == ASSUME NEW b, Pair(b) PROVE Number(b) \in G!Channel
<1>1. PICK S : S = 0 .. 255
  OBVIOUS
<1>2. b \in Seq(S) /\ 1 \in 1 .. Len(b) /\ 2 \in 1 .. Len(b)
  BY <1>1 DEF Pair, Bytes
<1>3. b[1] \in S /\ b[2] \in S
  BY <1>2, ElementIs
<1>30. \A i \in S : i \in Nat /\ i <= 255
  BY <1>1
<1>4. PICK x \in Nat, y \in Nat : x = b[1] /\ y = b[2] /\ x <= 255 /\ y <= 255
  BY <1>3, <1>30
<1>5. x + 256 * y \in G!Channel
  BY <1>4, ChannelType, Zenon
<1>6. Number(b) = x + 256 * y
  BY <1>4 DEF Number
<1> QED  BY <1>5, <1>6

\* A step of the connection is one of the controller or none.
LEMMA LinkStep == SoundInv /\ [Next]_vars => [G!Next]_(G!vars)
<1> SUFFICES ASSUME SoundInv, [Next]_vars PROVE [G!Next]_(G!vars)
  OBVIOUS
<1>1. CASE UNCHANGED gimbal
  BY <1>1 DEF gimbal, G!vars
<1>2. CASE messageReceived
  <2>1. PICK message : message = Head(m_list)
    OBVIOUS
  <2>2. Sound(message)
    BY <1>2, <2>1, RestSound DEF messageReceived, SoundInv
  <2>3. CASE message.id = RC_CHANNELS_ID
    <3>1. PICK c6, c7, c8 : /\ c6 = Number(message.fields[2 + 6][1])
                            /\ c7 = Number(message.fields[2 + 7][1])
                            /\ c8 = Number(message.fields[2 + 8][1])
      OBVIOUS
    <3>2. c6 \in G!Channel /\ c7 \in G!Channel /\ c8 \in G!Channel
      <4>1. 2 + 6 = 8 /\ 2 + 7 = 9 /\ 2 + 8 = 10
        OBVIOUS
      <4>2. /\ Pair(message.fields[8][1]) /\ Pair(message.fields[9][1])
            /\ Pair(message.fields[10][1])
        BY <2>2, <2>3 DEF Sound
      <4> QED  BY <3>1, <4>1, <4>2, NumberType
    <3>3. G!messageReceived(c6, c7, c8)
      BY <1>2, <2>1, <2>3, <3>1 DEF messageReceived
    <3> QED  BY <3>2, <3>3 DEF G!Next
  <2>4. CASE message.id # RC_CHANNELS_ID
    BY <1>2, <2>1, <2>4, <1>1 DEF messageReceived
  <2> QED  BY <2>3, <2>4
<1>3. CASE Reconnect
  BY <1>3 DEF Reconnect, G!Next
<1>4. CASE (\E n \in Reads : dataReceived(n)) \/ connectionLost \/ UNCHANGED vars
  BY <1>1, <1>4 DEF dataReceived, connectionLost, vars
<1> QED  BY <1>2, <1>3, <1>4 DEF Next

\* The connection implements the controller: whatever bytes are on the line and however they are
\* cut, each of its steps is one of ST32Protocol with three 16-bit channels, or none.
THEOREM LinkDrivesGimbal == Spec => G!Spec
<1>1. Init => G!Init
  BY DEF Init
<1> QED  BY <1>1, SoundInvInit, SoundInvStep, LinkStep, PTL DEF Spec, G!Spec

\* storm32_controller.py:59-76: with a real parser in front of it, on any line, the camera stands
\* within one degree of where the sticks pointed last.
THEOREM LinkNeverAdrift == Spec => []WithinOneDegree
BY LinkDrivesGimbal, NeverAdrift, PTL
=============================================================================
