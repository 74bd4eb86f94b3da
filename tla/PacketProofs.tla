----------------------------- MODULE PacketProofs -----------------------------
(***************************************************************************)
(* Proofs about the bytes of packets in modules Checksum and Injection:    *)
(* what in_cksum accepts, for bytes of any even base, any payloads that do *)
(* not overflow its accumulator, any flags, and any byte that is flipped.  *)
(*                                                                         *)
(* The sum of the words is a recursive function.  That it changes with a   *)
(* byte as its word does (ByteChanged) is proved by induction over a set   *)
(* of numbers, AllUpTo.  Then a sealed packet is accepted (SealAccepted),  *)
(* one with a byte complemented is not (FlipRefused), and a packet built   *)
(* or patched in place still has its number and its payload (Built), which *)
(* is what a process knows of the packet it keeps (SlotInv).               *)
(***************************************************************************)
EXTENDS InjectionProofs, WellFoundedInduction

-----------------------------------------------------------------------------
(* Induction *)

\* A set of numbers with 0 and the successor of each of its members is Nat.
\* The theorems of NaturalsInduction take a predicate; a set is as good.
LEMMA AllNumbers ==
  ASSUME NEW S \in SUBSET Nat, 0 \in S, \A n \in S : n + 1 \in S
  PROVE  \A n \in Nat : n \in S
<1> SUFFICES ASSUME Nat \ S # {} PROVE FALSE
  OBVIOUS
<1> DEFINE R == OpToRel(<, Nat)
<1>1. \A x, y \in Nat : x < y => <<x, y>> \in R
  BY DEF OpToRel
<1>2. IsWellFoundedOn(R, Nat)
  BY NatLessThanWellFounded
<1> HIDE DEF R
<1>3. PICK x \in Nat \ S : \A y \in Nat \ S : ~(<<y, x>> \in R)
  BY <1>2, WFMin
<1>4. x # 0 /\ x - 1 \in Nat /\ x - 1 < x /\ (x - 1) + 1 = x
  OBVIOUS
<1>5. x - 1 \in S
  BY <1>1, <1>3, <1>4
<1>6. QED
  BY <1>3, <1>4, <1>5

\* The same up to m.
LEMMA AllUpTo ==
  ASSUME NEW m \in Nat, NEW S, 0 \in S, \A n \in 0..(m - 1) : n \in S => n + 1 \in S
  PROVE  \A n \in 0..m : n \in S
<1> DEFINE T == {n \in Nat : n <= m => n \in S}
<1>1. 0 \in T /\ \A n \in T : n + 1 \in T
  OBVIOUS
<1>2. T \in SUBSET Nat
  OBVIOUS
<1> HIDE DEF T
<1>3. \A n \in Nat : n \in T
  BY <1>1, <1>2, AllNumbers
<1>4. QED
  BY <1>3 DEF T

-----------------------------------------------------------------------------
(* The sum of the words *)

Words(p) == (Len(p) + 1) \div 2

\* g has the sums of the first words of p.
SumsUp(g, n, p) == g = [i \in 0..n |-> IF i = 0 THEN 0 ELSE g[i - 1] + WordAt(p, i)]

LEMMA SumsExist ==
  ASSUME NEW p, NEW n \in Nat
  PROVE  \E g : SumsUp(g, n, p)
<1> DEFINE S == {m \in Nat : \E g : SumsUp(g, m, p)}
<1>1. 0 \in S
  <2> DEFINE g == [i \in 0..0 |-> 0]
  <2>1. g = [i \in 0..0 |-> IF i = 0 THEN 0 ELSE g[i - 1] + WordAt(p, i)]
    OBVIOUS
  <2>2. QED
    BY <2>1 DEF SumsUp
<1>2. ASSUME NEW m \in S PROVE m + 1 \in S
  <2>1. PICK g : SumsUp(g, m, p)
    OBVIOUS
  <2> DEFINE h == [i \in 0..(m + 1) |-> IF i <= m THEN g[i] ELSE g[m] + WordAt(p, i)]
  <2>2. /\ \A i \in 0..m : g[i] = IF i = 0 THEN 0 ELSE g[i - 1] + WordAt(p, i)
    BY <2>1 DEF SumsUp
  <2>3. ASSUME NEW i \in 0..(m + 1)
        PROVE  h[i] = IF i = 0 THEN 0 ELSE h[i - 1] + WordAt(p, i)
    <3>1. CASE i <= m
      BY <2>2, <3>1
    <3>2. CASE i = m + 1
      BY <3>2
    <3>3. QED
      BY <3>1, <3>2
  <2>4. h = [i \in 0..(m + 1) |-> h[i]]
    OBVIOUS
  <2> HIDE DEF h
  <2>5. h = [i \in 0..(m + 1) |-> IF i = 0 THEN 0 ELSE h[i - 1] + WordAt(p, i)]
    BY <2>3, <2>4
  <2>6. SumsUp(h, m + 1, p)
    BY <2>5 DEF SumsUp
  <2>7. QED
    BY <2>6
<1>3. S \in SUBSET Nat
  OBVIOUS
<1> HIDE DEF S
<1>4. n \in S
  BY <1>1, <1>2, <1>3, AllNumbers
<1>5. QED
  BY <1>4 DEF S

LEMMA WordSumIs ==
  ASSUME NEW p \in Seq(Bytes)
  PROVE  Words(p) \in Nat /\ \E g : SumsUp(g, Words(p), p) /\ WordSum(p) = g[Words(p)]
<1> DEFINE g == CHOOSE g : SumsUp(g, Words(p), p)
<1>1. Words(p) \in Nat
  BY LenProperties DEF Words
<1>2. SumsUp(g, Words(p), p)
  BY <1>1, SumsExist
<1>3. WordSum(p) = g[Words(p)]
  BY DEF WordSum, SumsUp, Words
<1>4. QED
  BY <1>1, <1>2, <1>3

LEMMA HalvesOf ==
  ASSUME NEW n \in Nat
  PROVE  /\ n \div 2 \in Nat
         /\ n = 2 * (n \div 2) \/ n = 2 * (n \div 2) + 1
OBVIOUS

LEMMA WordBounds ==
  ASSUME NEW p \in Seq(Bytes), NEW i \in 1..Words(p)
  PROVE  WordAt(p, i) \in 0..(Word - 1)
<1> DEFINE l == Len(p)
<1>1. l \in Nat /\ Words(p) \in Nat /\ (l + 1 = 2 * Words(p) \/ l = 2 * Words(p))
  <2>1. l \in Nat
    BY LenProperties
  <2>2. l + 1 \in Nat
    BY <2>1
  <2>3. QED
    BY <2>1, <2>2, HalvesOf DEF Words
<1>2. 2 * i - 1 \in 1..l /\ (2 * i <= l => 2 * i \in 1..l)
  BY <1>1
<1>3. \A j \in 1..l : p[j] \in Bytes
  BY ElementOfSeq
<1> DEFINE low == p[2 * i - 1]
           high == IF 2 * i <= l THEN p[2 * i] ELSE 0
<1>4. low \in 0..(ByteBase - 1) /\ high \in 0..(ByteBase - 1)
  BY <1>2, <1>3, Bases DEF Bytes
<1>5. WordAt(p, i) = low + ByteBase * high
  BY Bases DEF WordAt
<1> HIDE DEF low, high
<1>6. ByteBase * high >= 0 /\ ByteBase * high <= ByteBase * (ByteBase - 1) /\ ByteBase * high \in Int
  <2>1. \A x \in Int, y \in Int, n \in Nat : x <= y => n * x <= n * y
    OBVIOUS
  <2>2. high \in Int /\ 0 <= high /\ high <= ByteBase - 1 /\ ByteBase \in Nat /\ ByteBase - 1 \in Int
    BY <1>4, Bases
  <2>3. QED
    BY <2>1, <2>2
<1>7. ByteBase * (ByteBase - 1) = Word - ByteBase
  BY Bases DEF Word
<1>8. QED
  BY <1>4, <1>5, <1>6, <1>7, Bases

\* The accumulator of in_cksum does not overflow two words.
LEMMA SumBounds ==
  ASSUME NEW p \in Seq(Bytes), Len(p) <= 2 * Word
  PROVE  WordSum(p) \in Nat /\ WordSum(p) \div Word < Word
<1> DEFINE n == Words(p)
           m == Word - 1
<1>1. PICK g : SumsUp(g, n, p) /\ WordSum(p) = g[n]
  BY WordSumIs
<1>2. n \in Nat /\ m \in Nat /\ Word \in Nat /\ Word > 0
  BY WordSumIs, Bases
<1>3. \A i \in 0..n : g[i] = IF i = 0 THEN 0 ELSE g[i - 1] + WordAt(p, i)
  BY <1>1 DEF SumsUp
<1>4. \A i \in 1..n : WordAt(p, i) \in 0..m
  BY WordBounds
<1> HIDE DEF n, m
<1> DEFINE S == {k \in 0..n : g[k] \in Nat /\ g[k] <= k * m}
<1>5. 0 \in S
  BY <1>2, <1>3
<1>6. ASSUME NEW i \in 0..(n - 1), i \in S PROVE i + 1 \in S
  <2>1. i + 1 \in 1..n /\ i + 1 # 0 /\ (i + 1) - 1 = i /\ i \in Nat
    BY <1>2
  <2>2. g[i + 1] = g[i] + WordAt(p, i + 1) /\ WordAt(p, i + 1) \in 0..m
    BY <1>3, <1>4, <2>1
  <2>3. (i + 1) * m = i * m + m
    BY <1>2
  <2>4. i * m \in Nat
    BY <1>2
  <2> DEFINE x == i * m
  <2>5. g[i] \in Nat /\ g[i] <= x
    BY <1>6
  <2> HIDE DEF x
  <2>6. g[i + 1] \in Nat /\ g[i + 1] <= x + m
    BY <1>2, <2>2, <2>4, <2>5 DEF x
  <2>7. g[i + 1] \in Nat /\ g[i + 1] <= (i + 1) * m
    BY <2>3, <2>6 DEF x
  <2>8. i + 1 \in 0..n
    BY <1>2
  <2>9. QED
    BY <2>7, <2>8
<1> HIDE DEF S
<1>7. \A i \in 0..n : i \in S
  <2>1. \A i \in 0..(n - 1) : i \in S => i + 1 \in S
    BY <1>6
  <2>2. QED
    BY <1>2, <1>5, <2>1, AllUpTo
<1>8. WordSum(p) \in Nat /\ WordSum(p) <= n * m
  BY <1>1, <1>2, <1>7 DEF S
<1>9. n <= Word
  <2>1. Len(p) \in Nat
    BY LenProperties
  <2>2. Len(p) + 1 = 2 * n \/ Len(p) = 2 * n
    BY <2>1, HalvesOf DEF Words, n
  <2>3. QED
    BY <1>2, <2>1, <2>2
<1>10. WordSum(p) <= Word * m /\ Word * m = Word * Word - Word /\ Word * m \in Nat
  <2>1. n * m <= Word * m
    BY <1>2, <1>9
  <2>2. Word * m = Word * Word - Word
    BY <1>2 DEF m
  <2>3. QED
    BY <1>2, <1>8, <2>1, <2>2
<1> DEFINE q == WordSum(p) \div Word
<1>11. q \in Nat /\ WordSum(p) >= Word * q
  BY <1>2, <1>8, Division
<1> HIDE DEF q
<1>12. CASE q >= Word
  <2>1. Word * q >= Word * Word
    BY <1>2, <1>11, <1>12
  <2>2. Word * Word \in Nat /\ Word * q \in Nat
    BY <1>2, <1>11
  <2>3. QED
    BY <1>2, <1>8, <1>10, <1>11, <2>1, <2>2
<1>13. QED
  BY <1>2, <1>8, <1>11, <1>12 DEF q

\* Two packets that differ in one word.
LEMMA OneWordChanged ==
  ASSUME NEW p \in Seq(Bytes), NEW q \in Seq(Bytes), Len(q) = Len(p), NEW w \in 1..Words(p),
         \A i \in 1..Words(p) : i # w => WordAt(q, i) = WordAt(p, i)
  PROVE  WordSum(q) = WordSum(p) + (WordAt(q, w) - WordAt(p, w))
<1> DEFINE n == Words(p)
           d == WordAt(q, w) - WordAt(p, w)
<1>1. n \in Nat /\ Words(q) = n
  BY WordSumIs DEF Words
<1>2. PICK g : SumsUp(g, n, p) /\ WordSum(p) = g[n]
  BY WordSumIs
<1>3. PICK h : SumsUp(h, n, q) /\ WordSum(q) = h[n]
  BY <1>1, WordSumIs
<1>4. /\ \A i \in 0..n : g[i] = IF i = 0 THEN 0 ELSE g[i - 1] + WordAt(p, i)
      /\ \A i \in 0..n : h[i] = IF i = 0 THEN 0 ELSE h[i - 1] + WordAt(q, i)
  BY <1>2, <1>3 DEF SumsUp
<1>5. \A i \in 1..n : WordAt(p, i) \in Int /\ WordAt(q, i) \in Int
  <2>1. \A i \in 1..n : WordAt(p, i) \in 0..(Word - 1) /\ WordAt(q, i) \in 0..(Word - 1)
    BY <1>1, WordBounds
  <2>2. QED
    BY <2>1, Bases
<1>6. \A i \in 1..n : WordAt(q, i) = WordAt(p, i) + (IF i = w THEN d ELSE 0)
  BY <1>5
<1>7. d \in Int /\ w \in 1..n
  BY <1>5
<1> HIDE DEF n, d
<1> DEFINE S == {k \in 0..n : g[k] \in Int /\ h[k] = g[k] + (IF w <= k THEN d ELSE 0)}
<1>8. 0 \in S
  BY <1>1, <1>4, <1>7
<1>9. ASSUME NEW i \in 0..(n - 1), i \in S PROVE i + 1 \in S
  <2>1. i + 1 \in 1..n /\ i + 1 # 0 /\ (i + 1) - 1 = i /\ i \in Nat
    BY <1>1
  <2>2. g[i + 1] = g[i] + WordAt(p, i + 1) /\ h[i + 1] = h[i] + WordAt(q, i + 1)
    BY <1>4, <2>1
  <2>3. /\ g[i] \in Int /\ h[i] = g[i] + (IF w <= i THEN d ELSE 0)
        /\ WordAt(p, i + 1) \in Int
        /\ WordAt(q, i + 1) = WordAt(p, i + 1) + (IF i + 1 = w THEN d ELSE 0)
    BY <1>5, <1>6, <1>9, <2>1
  <2>4. g[i + 1] \in Int /\ h[i + 1] = g[i + 1] + (IF w <= i + 1 THEN d ELSE 0)
    BY <1>7, <2>1, <2>2, <2>3
  <2>5. QED
    BY <1>1, <2>1, <2>4
<1> HIDE DEF S
<1>10. \A i \in 0..n : i \in S
  <2>1. \A i \in 0..(n - 1) : i \in S => i + 1 \in S
    BY <1>9
  <2>2. QED
    BY <1>1, <1>8, <2>1, AllUpTo
<1>11. QED
  BY <1>1, <1>2, <1>3, <1>7, <1>10 DEF S, d

LEMMA BaseIsEven ==
  /\ \E half \in Nat : ByteBase = 2 * half
  /\ SeqLen \in Nat /\ FlagAt \in Nat /\ FlagAt = SeqLen + 3
  /\ \E half \in Nat \ {0} : SeqLen = 2 * half
  /\ SeqLen \in {2, 4}
BY SmallBytes DEF FlagAt

\* What a byte counts for in the sum: an odd place is the low byte of a word.
PlaceOf(i) == IF i % 2 = 1 THEN 1 ELSE ByteBase

LEMMA ByteChanged ==
  ASSUME NEW p \in Seq(Bytes), NEW i \in 1..Len(p), NEW b \in Bytes
  PROVE  /\ [p EXCEPT ![i] = b] \in Seq(Bytes) /\ Len([p EXCEPT ![i] = b]) = Len(p)
         /\ WordSum([p EXCEPT ![i] = b]) = WordSum(p) + PlaceOf(i) * (b - p[i])
<1> DEFINE q == [p EXCEPT ![i] = b]
           l == Len(p)
           w == (i + 1) \div 2
<1>1. l \in Nat /\ p \in [1..l -> Bytes]
  BY LenProperties
<1>2. q \in [1..l -> Bytes] /\ \A j \in 1..l : q[j] = IF j = i THEN b ELSE p[j]
  BY <1>1
<1> HIDE DEF q
<1>3. q \in Seq(Bytes) /\ Len(q) = l
  BY <1>1, <1>2
<1>4. w \in Nat /\ (i + 1 = 2 * w \/ i = 2 * w)
  <2>1. i + 1 \in Nat
    OBVIOUS
  <2>2. QED
    BY <2>1, HalvesOf
<1>5. Words(p) \in Nat /\ (l + 1 = 2 * Words(p) \/ l = 2 * Words(p)) /\ Words(q) = Words(p)
  <2>1. l + 1 \in Nat
    BY <1>1
  <2> DEFINE h == (l + 1) \div 2
  <2>2. h \in Nat /\ (l + 1 = 2 * h \/ l + 1 = 2 * h + 1)
    BY <2>1, HalvesOf
  <2>3. Words(p) = h /\ Words(q) = h
    BY <1>3 DEF Words
  <2> HIDE DEF h, l
  <2>4. l = 2 * h \/ l + 1 = 2 * h
    BY <1>1, <2>2
  <2>5. QED
    BY <2>2, <2>3, <2>4
<1> DEFINE n == Words(p)
<1> HIDE DEF w, n, l
<1>6. w \in 1..n
  BY <1>1, <1>4, <1>5 DEF n, l
<1>7. ASSUME NEW k \in 1..n, k # w PROVE WordAt(q, k) = WordAt(p, k)
  <2>1. 2 * k - 1 # i /\ 2 * k # i
    BY <1>4, <1>6, <1>7
  <2>2. 2 * k - 1 \in 1..l /\ (2 * k <= l => 2 * k \in 1..l)
    BY <1>1, <1>5 DEF n
  <2>3. q[2 * k - 1] = p[2 * k - 1] /\ (2 * k <= l => q[2 * k] = p[2 * k])
    BY <1>2, <2>1, <2>2
  <2>4. QED
    BY <1>3, <2>3 DEF WordAt, l
<1>8. WordSum(q) = WordSum(p) + (WordAt(q, w) - WordAt(p, w))
  BY <1>3, <1>6, <1>7, OneWordChanged DEF n, l
<1>9. ByteBase \in Nat /\ b \in Int /\ \A j \in 1..l : p[j] \in Int
  BY <1>1, Bases DEF Bytes
<1>10. CASE i + 1 = 2 * w
  <2>1. PlaceOf(i) = 1
    <3>1. i = 2 * (w - 1) + 1 /\ w - 1 \in Nat /\ i \in Nat
      BY <1>4, <1>6, <1>10
    <3>2. i % 2 = 1
      BY <3>1
    <3>3. QED
      BY <3>2 DEF PlaceOf
  <2>2. 2 * w - 1 = i /\ 2 * w # i /\ 2 * w \in Nat /\ 1 <= 2 * w
    BY <1>4, <1>6, <1>10
  <2> DEFINE x == IF 2 * w <= l THEN ByteBase * p[2 * w] ELSE 0
  <2>3. WordAt(p, w) = p[i] + x
    BY <2>2 DEF WordAt, l
  <2>4. WordAt(q, w) = b + x
    BY <1>1, <1>2, <1>3, <2>2 DEF WordAt, l
  <2>5. x \in Int
    BY <1>1, <1>9, <2>2
  <2> HIDE DEF x
  <2>6. WordAt(q, w) - WordAt(p, w) = PlaceOf(i) * (b - p[i])
    BY <1>9, <2>1, <2>3, <2>4, <2>5 DEF l
  <2>7. QED
    BY <1>3, <1>8, <2>6 DEF q, l
<1>11. CASE i = 2 * w
  <2>1. PlaceOf(i) = ByteBase
    <3>1. i % 2 = 0
      BY <1>4, <1>6, <1>11
    <3>2. QED
      BY <3>1 DEF PlaceOf
  <2>2. 2 * w - 1 \in 1..l /\ 2 * w - 1 # i /\ 2 * w <= l
    BY <1>1, <1>4, <1>6, <1>11 DEF l
  <2> DEFINE y == p[2 * w - 1]
  <2>3. WordAt(p, w) = y + ByteBase * p[i]
    BY <1>11, <2>2 DEF WordAt, l
  <2>4. WordAt(q, w) = y + ByteBase * b
    BY <1>1, <1>2, <1>3, <1>11, <2>2 DEF WordAt, l
  <2>5. y \in Int /\ p[i] \in Int
    BY <1>9, <2>2 DEF l
  <2> HIDE DEF y
  <2>6. ByteBase * (b - p[i]) = ByteBase * b - ByteBase * p[i] /\ ByteBase * b \in Int /\ ByteBase * p[i] \in Int
    BY <1>9, <2>5
  <2>7. WordAt(q, w) - WordAt(p, w) = PlaceOf(i) * (b - p[i])
    BY <2>1, <2>3, <2>4, <2>5, <2>6
  <2>8. QED
    BY <1>3, <1>8, <2>7 DEF q, l
<1>12. QED
  BY <1>4, <1>10, <1>11

\* What in_cksum stores makes the sum of the words all ones.
LEMMA Complements ==
  ASSUME NEW s \in Nat, s \div Word < Word
  PROVE  /\ Folded(s) \in 0..(Word - 1)
         /\ Folded(s + (Word - 1 - Folded(s))) = Word - 1
<1> DEFINE q == s \div Word
           r == s % Word
           once == q + r
           t == s + (Word - 1 - Folded(s))
<1>1. q \in 0..(Word - 1) /\ r \in 0..(Word - 1) /\ s = Word * q + r
  BY Division, Bases
<1>2. Folded(s) = (once + (once \div Word)) % Word
  BY DEF Folded
<1>3. Word * q \in Int /\ Word * (q + 1) = Word * q + Word /\ Word \in Nat /\ Word >= 4
  BY <1>1, Bases
<1> HIDE DEF q, r
\* The sum t, where it falls into a and b.
<1>4. ASSUME NEW a \in Nat, NEW b \in 0..(Word - 1), t = Word * a + b, t \in Nat,
             (a + b = Word - 1) \/ (a = Word - 1 /\ b = Word - 1)
      PROVE  Folded(t) = Word - 1
  <2>1. t \div Word = a /\ t % Word = b
    BY <1>3, <1>4, DivisionUnique
  <2> HIDE DEF t
  <2>2. Folded(t) = ((a + b) + ((a + b) \div Word)) % Word
    BY <2>1 DEF Folded
  <2>3. CASE a + b = Word - 1
    <3>1. (a + b) \div Word = 0
      <4>1. a + b = Word * 0 + (a + b) /\ a + b \in 0..(Word - 1) /\ a + b \in Nat
        BY <2>3, <1>3
      <4>2. QED
        BY <4>1, <1>3, DivisionUnique
    <3>2. (Word - 1) % Word = Word - 1
      BY <1>3
    <3>3. QED
      BY <2>2, <2>3, <3>1, <3>2, <1>3
  <2>4. CASE a = Word - 1 /\ b = Word - 1
    <3>1. a + b = Word * 1 + (Word - 2) /\ Word - 2 \in 0..(Word - 1) /\ a + b \in Nat
      BY <2>4, <1>3
    <3>2. (a + b) \div Word = 1
      BY <3>1, <1>3, DivisionUnique
    <3>3. (a + b) + 1 = Word * 1 + (Word - 1) /\ Word - 1 \in 0..(Word - 1) /\ (a + b) + 1 \in Nat
      BY <2>4, <1>3
    <3>4. ((a + b) + 1) % Word = Word - 1
      BY <3>3, <1>3, DivisionUnique
    <3>5. QED
      BY <2>2, <3>2, <3>4
  <2>5. QED
    BY <1>4, <2>3, <2>4
<1>5. CASE once < Word
  <2>1. once = Word * 0 + once /\ once \in 0..(Word - 1) /\ once \in Nat
    BY <1>1, <1>5, <1>3
  <2>2. once \div Word = 0 /\ once % Word = once
    BY <2>1, <1>3, DivisionUnique
  <2>3. Folded(s) = once
    BY <1>2, <2>1, <2>2
  <2>4. t = Word * q + (Word - 1 - q) /\ Word - 1 - q \in 0..(Word - 1) /\ t \in Nat /\ q \in Nat
    BY <1>1, <1>3, <2>1, <2>3
  <2> HIDE DEF t
  <2>5. Folded(t) = Word - 1
    <3>1. q + (Word - 1 - q) = Word - 1
      BY <1>1, <1>3
    <3>2. QED
      BY <1>4, <2>4, <3>1
  <2>6. QED
    BY <2>1, <2>3, <2>5 DEF t
<1>6. CASE once >= Word
  <2>1. once = Word * 1 + (once - Word) /\ once - Word \in 0..(Word - 2) /\ once \in Nat
    BY <1>1, <1>3, <1>6
  <2>2. once \div Word = 1
    BY <2>1, <1>3, DivisionUnique
  <2>3. once + 1 = Word * 1 + (once + 1 - Word) /\ once + 1 - Word \in 0..(Word - 1) /\ once + 1 \in Nat
    BY <2>1, <1>3
  <2>4. Folded(s) = once + 1 - Word
    BY <1>2, <2>2, <2>3, <1>3, DivisionUnique
  <2>5. t = Word * q + (2 * Word - 2 - q) /\ t \in Nat /\ q \in Nat
    BY <1>1, <1>3, <2>3, <2>4
  <2> HIDE DEF t
  <2>6. CASE q <= Word - 2
    <3>1. t = Word * (q + 1) + (Word - 2 - q) /\ Word - 2 - q \in 0..(Word - 1)
          /\ q + 1 \in Nat /\ (q + 1) + (Word - 2 - q) = Word - 1
      BY <1>1, <1>3, <2>5, <2>6
    <3>2. QED
      BY <1>4, <2>3, <2>4, <2>5, <3>1 DEF t
  <2>7. CASE q = Word - 1
    <3>1. t = Word * q + (Word - 1) /\ Word - 1 \in 0..(Word - 1)
      BY <1>1, <1>3, <2>5, <2>7
    <3>2. QED
      BY <1>4, <2>3, <2>4, <2>5, <2>7, <3>1 DEF t
  <2>8. QED
    BY <1>1, <1>3, <2>6, <2>7
<1>7. QED
  BY <1>1, <1>3, <1>5, <1>6

LEMMA ChecksumPlaces ==
  ASSUME NEW p \in Seq(Bytes), FlagAt <= Len(p)
  PROVE  /\ SeqLen + 1 \in 1..Len(p) /\ SeqLen + 2 \in 1..Len(p) /\ FlagAt \in 1..Len(p)
         /\ PlaceOf(SeqLen + 1) = 1 /\ PlaceOf(SeqLen + 2) = ByteBase
         /\ SeqLen + 1 # SeqLen + 2 /\ FlagAt \notin {SeqLen + 1, SeqLen + 2}
<1>1. Len(p) \in Nat /\ SeqLen \in Nat /\ FlagAt = SeqLen + 3
  BY LenProperties, BaseIsEven
<1>2. CASE SeqLen = 2
  BY <1>1, <1>2 DEF PlaceOf
<1>3. CASE SeqLen = 4
  BY <1>1, <1>3 DEF PlaceOf
<1>4. QED
  BY <1>2, <1>3, BaseIsEven

\* The checksum is summed up as one word of the packet.
LEMMA ChecksumSet ==
  ASSUME NEW p \in Seq(Bytes), FlagAt <= Len(p), Len(p) <= 2 * Word, NEW c \in 0..(Word - 1)
  PROVE  /\ SetChecksum(p, c) \in Seq(Bytes) /\ Len(SetChecksum(p, c)) = Len(p)
         /\ \A i \in 1..Len(p) : i \notin {SeqLen + 1, SeqLen + 2} => SetChecksum(p, c)[i] = p[i]
         /\ WordSum(SetChecksum(p, c)) = WordSum(p) + (c - (p[SeqLen + 1] + ByteBase * p[SeqLen + 2]))
<1> DEFINE l == Len(p)
           i == SeqLen + 1
           j == SeqLen + 2
           low == c % ByteBase
           high == c \div ByteBase
           q == [p EXCEPT ![i] = low]
           r == [q EXCEPT ![j] = high]
<1>1. i \in 1..l /\ j \in 1..l /\ i # j /\ PlaceOf(i) = 1 /\ PlaceOf(j) = ByteBase
  BY ChecksumPlaces
<1>2. low \in Bytes /\ high \in Bytes /\ c = low + ByteBase * high
  <2>1. c \in Nat /\ ByteBase \in Nat /\ ByteBase > 0 /\ c < ByteBase * ByteBase
    BY Bases DEF Word
  <2>2. low \in 0..(ByteBase - 1) /\ high \in Nat /\ c = ByteBase * high + low
    BY <2>1, Division
  <2> HIDE DEF low, high
  <2>3. high < ByteBase
    <3>1. SUFFICES ASSUME high >= ByteBase PROVE FALSE
      BY <2>1, <2>2
    <3>2. ByteBase * high >= ByteBase * ByteBase /\ ByteBase * high \in Nat /\ ByteBase * ByteBase \in Nat
      BY <2>1, <2>2, <3>1
    <3>3. QED
      BY <2>1, <2>2, <3>2
  <2>4. ByteBase * high \in Nat
    BY <2>1, <2>2
  <2>5. QED
    BY <2>1, <2>2, <2>3, <2>4 DEF Bytes
<1> HIDE DEF i, j, low, high
<1>3. q \in Seq(Bytes) /\ Len(q) = l /\ WordSum(q) = WordSum(p) + PlaceOf(i) * (low - p[i])
  BY <1>1, <1>2, ByteChanged
<1>4. l \in Nat /\ p \in [1..l -> Bytes]
  BY LenProperties
<1>5. \A k \in 1..l : q[k] = IF k = i THEN low ELSE p[k]
  BY <1>4
<1> HIDE DEF l, q
<1>6. r \in Seq(Bytes) /\ Len(r) = l /\ WordSum(r) = WordSum(q) + PlaceOf(j) * (high - q[j])
  BY <1>1, <1>2, <1>3, ByteChanged
<1>7. \A k \in 1..l : r[k] = IF k = j THEN high ELSE q[k]
  BY <1>3
<1>8. SetChecksum(p, c) = r
  BY DEF SetChecksum, r, q, i, j, low, high
<1>9. WordSum(p) \in Int
  BY SumBounds
<1>10. p[i] \in Int /\ p[j] \in Int /\ low \in Int /\ high \in Int /\ ByteBase \in Nat
  <2>1. p[i] \in Bytes /\ p[j] \in Bytes
    BY <1>1, <1>4
  <2>2. QED
    BY <1>2, <2>1, Bases DEF Bytes
<1> HIDE DEF r
<1>11. WordSum(r) = (WordSum(p) + (low - p[i])) + ByteBase * (high - p[j])
  <2>1. WordSum(q) = WordSum(p) + (low - p[i])
    BY <1>1, <1>3, <1>10
  <2>2. q[j] = p[j]
    BY <1>1, <1>5
  <2>3. QED
    BY <1>1, <1>6, <2>1, <2>2
<1>12. ByteBase * (high - p[j]) = ByteBase * high - ByteBase * p[j]
       /\ ByteBase * high \in Int /\ ByteBase * p[j] \in Int
  BY <1>10
<1> DEFINE x == ByteBase * high
           y == ByteBase * p[j]
           z == ByteBase * (high - p[j])
<1>13. z = x - y /\ x \in Int /\ y \in Int /\ c = low + x /\ WordSum(r) = (WordSum(p) + (low - p[i])) + z
  BY <1>2, <1>11, <1>12
<1> HIDE DEF x, y, z
<1>14. WordSum(r) = WordSum(p) + (c - (p[i] + y))
  BY <1>9, <1>10, <1>13
<1>15. \A k \in 1..l : k \notin {i, j} => r[k] = p[k]
  BY <1>5, <1>7
<1>16. QED
  BY <1>6, <1>8, <1>14, <1>15 DEF i, j, l, y

LEMMA AcceptedSum ==
  ASSUME NEW p \in Seq(Bytes), Len(p) <= 2 * Word
  PROVE  Accepted(p) <=> Folded(WordSum(p)) = Word - 1
<1>1. Folded(WordSum(p)) \in Int /\ Word \in Nat
  BY SumBounds, Complements, Bases
<1>2. QED
  BY <1>1 DEF Accepted, InCksum

\* createPDU(), timeout_on_ack() and send_srej() leave a packet that every
\* receiver accepts.
LEMMA SealAccepted ==
  ASSUME NEW p \in Seq(Bytes), FlagAt <= Len(p), Len(p) <= 2 * Word
  PROVE  /\ Seal(p) \in Seq(Bytes) /\ Len(Seal(p)) = Len(p)
         /\ \A i \in 1..Len(p) : i \notin {SeqLen + 1, SeqLen + 2} => Seal(p)[i] = p[i]
         /\ Accepted(Seal(p))
<1> DEFINE z == SetChecksum(p, 0)
           s == WordSum(z)
           c == InCksum(z)
           d == p[SeqLen + 1] + ByteBase * p[SeqLen + 2]
<1>1. 0 \in 0..(Word - 1)
  BY Bases
<1>2. z \in Seq(Bytes) /\ Len(z) = Len(p) /\ s = WordSum(p) + (0 - d)
  BY <1>1, ChecksumSet
<1>3. s \in Nat /\ s \div Word < Word
  BY <1>2, SumBounds
<1>4. Folded(s) \in 0..(Word - 1) /\ Folded(s + (Word - 1 - Folded(s))) = Word - 1
  BY <1>3, Complements
<1>5. c = Word - 1 - Folded(s)
  BY DEF InCksum
<1>6. c \in 0..(Word - 1)
  BY <1>4, <1>5, Bases
<1> HIDE DEF z, s, c, d
<1>7. Seal(p) = SetChecksum(p, c)
  BY DEF Seal, c, z
<1>8. /\ Seal(p) \in Seq(Bytes) /\ Len(Seal(p)) = Len(p)
      /\ \A i \in 1..Len(p) : i \notin {SeqLen + 1, SeqLen + 2} => Seal(p)[i] = p[i]
      /\ WordSum(Seal(p)) = WordSum(p) + (c - d)
  BY <1>6, <1>7, ChecksumSet DEF d
<1>9. WordSum(Seal(p)) = s + c
  <2>1. WordSum(p) \in Int /\ d \in Int
    <3>1. \A i \in 1..Len(p) : p[i] \in Bytes
      BY ElementOfSeq
    <3>2. p[SeqLen + 1] \in Int /\ p[SeqLen + 2] \in Int /\ ByteBase \in Int
      <4>1. p[SeqLen + 1] \in Bytes /\ p[SeqLen + 2] \in Bytes
        BY <3>1, ChecksumPlaces
      <4>2. QED
        BY <4>1, Bases DEF Bytes
    <3>3. QED
      BY <3>2, SumBounds DEF d
  <2>2. QED
    BY <1>2, <1>6, <1>8, <2>1
<1>10. Folded(WordSum(Seal(p))) = Word - 1
  BY <1>4, <1>5, <1>9
<1>11. QED
  BY <1>8, <1>10, AcceptedSum

\* One byte complemented is noticed wherever it is.
LEMMA FlipRefused ==
  ASSUME NEW p \in Seq(Bytes), Len(p) <= 2 * Word, Accepted(p), NEW i \in 1..Len(p)
  PROVE  /\ FlipByte(p, i) \in Seq(Bytes) /\ FlipByte(p, i) # p /\ ~Accepted(FlipByte(p, i))
<1> DEFINE b == p[i]
           q == FlipByte(p, i)
<1>1. p \in [1..Len(p) -> Bytes] /\ Len(p) \in Nat
  BY LenProperties
<1>2. b \in Bytes /\ q = [p EXCEPT ![i] = Complement(b)]
  BY <1>1 DEF FlipByte
<1>3. Complement(b) \in Bytes
  BY <1>2, Bases DEF Complement, Bytes
<1>4. Complement(b) # b
  <2>1. PICK half \in Nat : ByteBase = 2 * half
    BY BaseIsEven
  <2>2. b \in Int /\ Complement(b) = 2 * half - 1 - b
    BY <1>2, <2>1, Bases DEF Complement, Bytes
  <2> HIDE DEF b
  <2>3. QED
    BY <2>1, <2>2
<1>5. q[i] = Complement(b)
  BY <1>1, <1>2
<1> HIDE DEF b, q
<1>6. q \in Seq(Bytes) /\ Len(q) = Len(p) /\ WordSum(q) = WordSum(p) + PlaceOf(i) * (Complement(b) - b)
  BY <1>2, <1>3, ByteChanged DEF b
<1>7. PlaceOf(i) \in {1, ByteBase}
  BY DEF PlaceOf
<1>8. /\ WordSum(p) \in Nat /\ WordSum(p) \div Word < Word /\ WordSum(q) \in Nat /\ WordSum(q) \div Word < Word
  BY <1>6, SumBounds
<1>9. Folded(WordSum(p)) = Word - 1
  BY AcceptedSum
<1>10. Folded(WordSum(q)) # Word - 1
  BY <1>2, <1>6, <1>7, <1>8, <1>9, FlipNoticed
<1>11. ~Accepted(q)
  BY <1>6, <1>10, AcceptedSum
<1>12. q # p
  BY <1>4, <1>5 DEF b
<1>13. QED
  BY <1>6, <1>11, <1>12 DEF q

-----------------------------------------------------------------------------
(* The packets *)

LEMMA SameBytes ==
  ASSUME NEW S, NEW T, NEW s \in Seq(S), NEW t \in Seq(T), Len(s) = Len(t),
         \A i \in 1..Len(s) : s[i] = t[i]
  PROVE  s = t
<1>1. s \in [1..Len(s) -> S] /\ t \in [1..Len(t) -> T] /\ Len(s) \in Nat
  BY LenProperties
<1>2. QED
  BY <1>1

\* htonl() yields bytes.
LEMMA NetworkBytes ==
  ASSUME NEW n \in Nat
  PROVE  NetworkOrder(n) \in Seq(Bytes) /\ Len(NetworkOrder(n)) = SeqLen
<1>1. ByteBase \in Nat /\ ByteBase > 0 /\ Word \in Nat /\ Word > 0
  BY Bases
<1>2. ByteBase * Word \in Nat /\ ByteBase * Word > 0
  BY <1>1
<1>3. \A k \in 1..4 : Weights[k] \in Nat /\ Weights[k] > 0
  <2> SUFFICES ASSUME NEW k \in 1..4 PROVE Weights[k] \in Nat /\ Weights[k] > 0
    OBVIOUS
  <2>1. k = 1 \/ k = 2 \/ k = 3 \/ k = 4
    OBVIOUS
  <2>2. Weights[1] = 1 /\ Weights[2] = ByteBase /\ Weights[3] = Word /\ Weights[4] = ByteBase * Word
    BY DEF Weights
  <2>3. QED
    BY <1>1, <1>2, <2>1, <2>2
<1>4. ASSUME NEW i \in 1..SeqLen
      PROVE  (n \div Weights[SeqLen - i + 1]) % ByteBase \in Bytes
  <2> DEFINE w == Weights[SeqLen - i + 1]
  <2>1. SeqLen - i + 1 \in 1..4
    BY BaseIsEven
  <2>2. w \in Nat /\ w > 0
    BY <1>3, <2>1
  <2> HIDE DEF w
  <2> DEFINE q == n \div w
  <2>3. q \in Nat
    BY <2>2, Division
  <2> HIDE DEF q
  <2>4. q % ByteBase \in 0..(ByteBase - 1)
    BY <1>1, <2>3, Division
  <2>5. QED
    BY <2>4 DEF Bytes, q, w
<1>5. NetworkOrder(n) \in [1..SeqLen -> Bytes]
  BY <1>4 DEF NetworkOrder
<1>6. SeqLen \in Nat
  BY BaseIsEven
<1>7. QED
  BY <1>5, <1>6

\* A packet with the sequence number and the payload it was built from.
Built(bytes, seq, payload) ==
  /\ bytes \in Seq(Bytes) /\ Len(bytes) = FlagAt + Len(payload)
  /\ SeqOf(bytes) = NetworkOrder(seq) /\ PayloadOf(bytes) = payload
  /\ Accepted(bytes)

LEMMA PayloadSizes ==
  ASSUME NEW payload \in Payloads
  PROVE  payload \in Seq(Bytes) /\ Len(payload) \in Nat /\ FlagAt + Len(payload) <= 2 * Word
BY InjectionAssumption, LenProperties

\* Only the bytes of the header between number and payload differ.
LEMMA SealedIsBuilt ==
  ASSUME NEW seq \in SeqNums, NEW payload \in Payloads,
         NEW p \in Seq(Bytes), Len(p) = FlagAt + Len(payload),
         SeqOf(p) = NetworkOrder(seq), PayloadOf(p) = payload
  PROVE  Built(Seal(p), seq, payload)
<1> DEFINE q == Seal(p)
           l == Len(p)
<1>1. SeqLen \in Nat /\ FlagAt = SeqLen + 3 /\ FlagAt \in Nat /\ Len(payload) \in Nat /\ l \in Nat
  BY BaseIsEven, PayloadSizes, LenProperties
<1>2. FlagAt <= Len(p) /\ Len(p) <= 2 * Word
  BY <1>1, PayloadSizes
<1>3. /\ q \in Seq(Bytes) /\ Len(q) = l /\ Accepted(q)
      /\ \A i \in 1..l : i \notin {SeqLen + 1, SeqLen + 2} => q[i] = p[i]
  BY <1>2, SealAccepted
<1>4. \A i \in 1..l : p[i] \in Bytes /\ q[i] \in Bytes
  BY <1>3, ElementOfSeq
<1> HIDE DEF q
<1>5. SeqOf(q) = SeqOf(p)
  <2>1. \A i \in 1..SeqLen : i \in 1..l /\ i \notin {SeqLen + 1, SeqLen + 2} /\ p[i] \in Bytes /\ q[i] \in Bytes
    BY <1>1, <1>4
  <2>2. /\ SeqOf(p) \in Seq(Bytes) /\ Len(SeqOf(p)) = SeqLen
        /\ \A i \in 1..SeqLen : SeqOf(p)[i] = p[i]
    BY <1>1, <2>1, SubSeqProperties DEF SeqOf
  <2>3. /\ SeqOf(q) \in Seq(Bytes) /\ Len(SeqOf(q)) = SeqLen
        /\ \A i \in 1..SeqLen : SeqOf(q)[i] = q[i]
    BY <1>1, <2>1, SubSeqProperties DEF SeqOf
  <2>4. \A i \in 1..SeqLen : SeqOf(q)[i] = SeqOf(p)[i]
    BY <1>3, <2>1, <2>2, <2>3
  <2>5. QED
    BY <2>2, <2>3, <2>4, SameBytes
<1>6. PayloadOf(q) = PayloadOf(p)
  <2> DEFINE n == Len(payload)
  <2>1. \A i \in (FlagAt + 1)..l :
          i \in 1..l /\ i \notin {SeqLen + 1, SeqLen + 2} /\ p[i] \in Bytes /\ q[i] \in Bytes
    BY <1>1, <1>4
  <2>2. l - (FlagAt + 1) + 1 = n /\ (n = 0 \/ FlagAt + 1 <= l) /\ (n = 0 => ~(FlagAt + 1 <= l))
    BY <1>1
  <2>3. PayloadOf(p) = SubSeq(p, FlagAt + 1, l) /\ PayloadOf(q) = SubSeq(q, FlagAt + 1, l)
    BY <1>3 DEF PayloadOf
  <2>4. FlagAt + 1 \in Int /\ l \in Int
    BY <1>1
  <2> HIDE DEF n, l
  <2>5. /\ PayloadOf(p) \in Seq(Bytes) /\ Len(PayloadOf(p)) = n
        /\ \A i \in 1..n : PayloadOf(p)[i] = p[FlagAt + 1 + i - 1]
    BY <2>1, <2>2, <2>3, <2>4, SubSeqProperties
  <2>6. /\ PayloadOf(q) \in Seq(Bytes) /\ Len(PayloadOf(q)) = n
        /\ \A i \in 1..n : PayloadOf(q)[i] = q[FlagAt + 1 + i - 1]
    BY <2>1, <2>2, <2>3, <2>4, SubSeqProperties
  <2>7. \A i \in 1..n : PayloadOf(q)[i] = PayloadOf(p)[i]
    <3> SUFFICES ASSUME NEW i \in 1..n PROVE PayloadOf(q)[i] = PayloadOf(p)[i]
      OBVIOUS
    <3> DEFINE k == FlagAt + 1 + i - 1
    <3>1. k \in (FlagAt + 1)..l
      BY <1>1, <2>2, <2>4
    <3> HIDE DEF k
    <3>2. q[k] = p[k]
      BY <1>3, <2>1, <3>1
    <3>3. QED
      BY <2>5, <2>6, <3>2 DEF k
  <2>8. QED
    BY <2>5, <2>6, <2>7, SameBytes
<1>7. QED
  BY <1>3, <1>5, <1>6 DEF Built, q

LEMMA CreatedIsBuilt ==
  ASSUME NEW seq \in SeqNums, NEW payload \in Payloads, NEW flag \in Flags
  PROVE  Built(CreatePDU(seq, flag, payload), seq, payload)
<1> DEFINE n == NetworkOrder(seq)
           h == <<0, 0, flag>>
           m == n \o h
           p == m \o payload
<1>1. seq \in Nat /\ flag \in Bytes /\ 0 \in Bytes
  BY InjectionAssumption, Bases DEF Bytes
<1>2. n \in Seq(Bytes) /\ Len(n) = SeqLen
  BY <1>1, NetworkBytes
<1>3. h \in Seq(Bytes) /\ Len(h) = 3
  BY <1>1
<1>4. SeqLen \in Nat /\ FlagAt = SeqLen + 3 /\ SeqLen >= 2
  BY BaseIsEven
<1> HIDE DEF n, h
<1>5. /\ m \in Seq(Bytes) /\ Len(m) = FlagAt
      /\ \A i \in 1..SeqLen : m[i] = n[i]
  <2>1. /\ m \in Seq(Bytes) /\ Len(m) = Len(n) + Len(h)
        /\ \A i \in 1..(Len(n) + Len(h)) : m[i] = IF i <= Len(n) THEN n[i] ELSE h[i - Len(n)]
    BY <1>2, <1>3, ConcatProperties
  <2> HIDE DEF m
  <2>2. QED
    BY <1>2, <1>3, <1>4, <2>1
<1>6. payload \in Seq(Bytes) /\ Len(payload) \in Nat
  BY PayloadSizes
<1> HIDE DEF m
<1>7. /\ p \in Seq(Bytes) /\ Len(p) = FlagAt + Len(payload)
      /\ \A i \in 1..(FlagAt + Len(payload)) :
           p[i] = IF i <= FlagAt THEN m[i] ELSE payload[i - FlagAt]
  BY <1>5, <1>6, ConcatProperties
<1> HIDE DEF p
<1>8. SeqOf(p) = n
  <2>1. \A i \in 1..SeqLen : p[i] = n[i] /\ p[i] \in Bytes
    <3>1. \A i \in 1..SeqLen : i \in 1..(FlagAt + Len(payload)) /\ i <= FlagAt
      BY <1>4, <1>6
    <3>2. \A i \in 1..SeqLen : n[i] \in Bytes
      BY <1>2, ElementOfSeq
    <3>3. QED
      BY <1>5, <1>7, <3>1, <3>2
  <2>2. /\ SeqOf(p) \in Seq(Bytes) /\ Len(SeqOf(p)) = SeqLen
        /\ \A i \in 1..SeqLen : SeqOf(p)[i] = p[i]
    BY <1>4, <2>1, SubSeqProperties DEF SeqOf
  <2>3. QED
    BY <1>2, <2>1, <2>2, SameBytes
<1>9. PayloadOf(p) = payload
  <2> DEFINE l == Len(p)
             k == Len(payload)
  <2>1. l = FlagAt + k /\ l \in Nat /\ k \in Nat /\ FlagAt \in Nat
    BY <1>4, <1>6, <1>7
  <2>2. \A i \in 1..l : p[i] \in Bytes
    BY <1>7, ElementOfSeq
  <2>3. l - (FlagAt + 1) + 1 = k /\ (k # 0 => FlagAt + 1 <= l) /\ (k = 0 => ~(FlagAt + 1 <= l))
    BY <2>1
  <2>4. \A i \in (FlagAt + 1)..l : p[i] \in Bytes
    BY <2>1, <2>2
  <2> HIDE DEF l, k
  <2>5. PayloadOf(p) = SubSeq(p, FlagAt + 1, l)
    BY DEF PayloadOf, l
  <2>6. /\ PayloadOf(p) \in Seq(Bytes) /\ Len(PayloadOf(p)) = k
        /\ \A i \in 1..k : PayloadOf(p)[i] = p[FlagAt + 1 + i - 1]
    BY <2>1, <2>3, <2>4, <2>5, SubSeqProperties
  <2>7. \A i \in 1..k : PayloadOf(p)[i] = payload[i]
    <3> SUFFICES ASSUME NEW i \in 1..k PROVE PayloadOf(p)[i] = payload[i]
      OBVIOUS
    <3> DEFINE j == FlagAt + 1 + i - 1
    <3>1. j \in 1..(FlagAt + k) /\ ~(j <= FlagAt) /\ j - FlagAt = i
      BY <2>1
    <3> HIDE DEF j
    <3>2. p[j] = payload[i]
      BY <1>7, <3>1 DEF k
    <3>3. QED
      BY <2>6, <3>2 DEF j
  <2>8. QED
    BY <1>6, <2>6, <2>7, SameBytes DEF k
<1>10. CreatePDU(seq, flag, payload) = Seal(p)
  BY DEF CreatePDU, p, m, n, h
<1>11. QED
  BY <1>7, <1>8, <1>9, <1>10, SealedIsBuilt DEF n

\* timeout_on_ack() and send_srej() patch a stored packet.
LEMMA ReflaggedIsBuilt ==
  ASSUME NEW seq \in SeqNums, NEW payload \in Payloads, NEW flag \in Flags,
         NEW p, Built(p, seq, payload)
  PROVE  Built(Reflagged(p, flag), seq, payload)
<1> DEFINE q == [p EXCEPT ![FlagAt] = flag]
           l == Len(p)
<1>1. p \in Seq(Bytes) /\ l = FlagAt + Len(payload) /\ SeqOf(p) = NetworkOrder(seq) /\ PayloadOf(p) = payload
  BY DEF Built
<1>2. SeqLen \in Nat /\ FlagAt = SeqLen + 3 /\ FlagAt \in Nat /\ Len(payload) \in Nat /\ flag \in Bytes
  BY BaseIsEven, PayloadSizes, InjectionAssumption
<1>3. p \in [1..l -> Bytes] /\ l \in Nat
  BY <1>1, LenProperties
<1>4. q \in [1..l -> Bytes] /\ \A i \in 1..l : q[i] = IF i = FlagAt THEN flag ELSE p[i]
  BY <1>2, <1>3
<1> HIDE DEF q
<1>5. q \in Seq(Bytes) /\ Len(q) = l
  BY <1>3, <1>4
<1> HIDE DEF l
<1>6. SeqOf(q) = SeqOf(p)
  <2>1. \A i \in 1..SeqLen : i \in 1..l /\ i # FlagAt
    BY <1>1, <1>2, <1>3
  <2>2. \A i \in 1..SeqLen : q[i] = p[i] /\ q[i] \in Bytes /\ p[i] \in Bytes
    BY <1>3, <1>4, <2>1
  <2>3. /\ SeqOf(p) \in Seq(Bytes) /\ Len(SeqOf(p)) = SeqLen
        /\ \A i \in 1..SeqLen : SeqOf(p)[i] = p[i]
    BY <1>2, <2>2, SubSeqProperties DEF SeqOf
  <2>4. /\ SeqOf(q) \in Seq(Bytes) /\ Len(SeqOf(q)) = SeqLen
        /\ \A i \in 1..SeqLen : SeqOf(q)[i] = q[i]
    BY <1>2, <2>2, SubSeqProperties DEF SeqOf
  <2>5. \A i \in 1..SeqLen : SeqOf(q)[i] = SeqOf(p)[i]
    BY <2>2, <2>3, <2>4
  <2>6. QED
    BY <2>3, <2>4, <2>5, SameBytes
<1>7. PayloadOf(q) = PayloadOf(p)
  <2>1. \A i \in (FlagAt + 1)..l : i \in 1..l /\ i # FlagAt
    BY <1>2, <1>3
  <2>2. \A i \in (FlagAt + 1)..l : q[i] = p[i] /\ q[i] \in Bytes /\ p[i] \in Bytes
    BY <1>3, <1>4, <2>1
  <2> DEFINE n == l - (FlagAt + 1) + 1
             k == IF FlagAt + 1 <= l THEN n ELSE 0
  <2>3. PayloadOf(p) = SubSeq(p, FlagAt + 1, l) /\ PayloadOf(q) = SubSeq(q, FlagAt + 1, l)
    BY <1>5 DEF PayloadOf, l
  <2>4. FlagAt + 1 \in Int /\ l \in Int
    BY <1>2, <1>3
  <2>5. /\ PayloadOf(p) \in Seq(Bytes) /\ Len(PayloadOf(p)) = k
        /\ \A i \in 1..n : PayloadOf(p)[i] = p[FlagAt + 1 + i - 1]
    BY <2>2, <2>3, <2>4, SubSeqProperties
  <2>6. /\ PayloadOf(q) \in Seq(Bytes) /\ Len(PayloadOf(q)) = k
        /\ \A i \in 1..n : PayloadOf(q)[i] = q[FlagAt + 1 + i - 1]
    BY <2>2, <2>3, <2>4, SubSeqProperties
  <2>7. \A i \in 1..n : FlagAt + 1 + i - 1 \in (FlagAt + 1)..l
    BY <2>4, <1>2
  <2>8. \A i \in 1..k : i \in 1..n
    BY <2>4
  <2>9. \A i \in 1..k : PayloadOf(q)[i] = PayloadOf(p)[i]
    BY <2>2, <2>5, <2>6, <2>7, <2>8
  <2>10. QED
    BY <2>5, <2>6, <2>9, SameBytes
<1>8. Reflagged(p, flag) = Seal(q)
  BY DEF Reflagged, q
<1>9. QED
  BY <1>1, <1>5, <1>6, <1>7, <1>8, SealedIsBuilt DEF l

-----------------------------------------------------------------------------
(* The processes *)

\* What a process keeps to send again is a packet as it was built.
SlotInv(p) ==
  p.slot # NoPacket =>
    p.seq \in SeqNums /\ p.payload \in Payloads /\ Built(p.slot, p.seq, p.payload)

PacketInv ==
  /\ InjectionTypeOK
  /\ \A i \in DOMAIN procs : SlotInv(procs[i])
  /\ AcceptedIsOriginal

LEMMA EventLists ==
  ASSUME NEW S, NEW condition, NEW event \in S
  PROVE  When(condition, event) \in Seq(S)
BY DEF When

LEMMA SettingsTyped ==
  ASSUME env \in Environment
  PROVE  /\ \A time \in Nat : Override(env.seed, time) \in Int
         /\ \A rate \in 0..MaxDraw : Override(env.rate, rate) \in 0..MaxDraw
         /\ Rates \subseteq 0..MaxDraw /\ MaxDraw \in Nat
<1>1. env.seed \in Seeds \cup {Unset} /\ env.rate \in Rates \cup {Unset}
  BY DEF Environment
<1>2. Seeds \subseteq Int /\ Rates \subseteq 0..MaxDraw /\ MaxDraw \in Nat
  BY InjectionAssumption
<1>3. ASSUME NEW time \in Nat PROVE Override(env.seed, time) \in Int
  <2>1. time \in Int
    OBVIOUS
  <2>2. CASE env.seed = Unset
    BY <2>1, <2>2 DEF Override
  <2>3. CASE env.seed # Unset
    <3>1. env.seed \in Int
      BY <1>1, <1>2, <2>3
    <3>2. QED
      BY <2>3, <3>1 DEF Override
  <2>4. QED
    BY <2>2, <2>3
<1>4. \A rate \in 0..MaxDraw : Override(env.rate, rate) \in 0..MaxDraw
  BY <1>1, <1>2 DEF Override
<1>5. QED
  BY <1>2, <1>3, <1>4

LEMMA LoadedTyped ==
  ASSUME NEW phase \in {"LISTENING", "STARTED"}, NEW argument \in Rates, NEW time \in Nat,
         env \in Environment
  PROVE  Loaded(phase, argument, time) \in Process /\ SlotInv(Loaded(phase, argument, time))
<1> DEFINE always == When(Listed(env.drop) # {}, "drop")
           first == When(AsksForRandom(env.drop), "drop")
           second == When(AsksForRandom(env.flip), "flip")
           random == first \o second
           seed == Override(env.seed, time)
           rate == Override(env.rate, 0)
<1>1. seed \in Int /\ rate \in 0..MaxDraw /\ argument \in 0..MaxDraw
  BY SettingsTyped
<1>2. always \in Seq({"drop", "info"})
  BY EventLists
<1>3. first \in Seq({"drop", "flip"}) /\ second \in Seq({"drop", "flip"})
  BY EventLists
<1> HIDE DEF always, first, second, seed, rate
<1>4. random \in Seq({"drop", "flip"})
  BY <1>3
<1> HIDE DEF random
<1>5. NoPacket \in Seq(Bytes) /\ 0 \in 0..MaxSends /\ RANDOM_SEED \in Nat
  BY InjectionAssumption DEF NoPacket, RANDOM_SEED
<1>6. Loaded(phase, argument, time) =
        [phase |-> phase, forked |-> FALSE, seed |-> seed, nextSeed |-> RANDOM_SEED, rate |-> rate,
         always |-> always, random |-> random,
         msgNo |-> 0, slot |-> NoPacket, argument |-> argument,
         seq |-> 0, payload |-> NoPacket, lost |-> {}, flipped |-> {}, zeroDraw |-> FALSE]
  BY DEF Loaded, always, random, first, second, seed, rate, NoPacket
<1>7. Loaded(phase, argument, time) \in Process
  BY <1>1, <1>2, <1>4, <1>5, <1>6 DEF Process
<1>8. Loaded(phase, argument, time).slot = NoPacket
  BY <1>6
<1>9. QED
  BY <1>7, <1>8 DEF SlotInv

LEMMA InitialisedTyped ==
  ASSUME NEW p \in Process, SlotInv(p), NEW time \in Nat, env \in Environment
  PROVE  Initialised(p, time) \in Process /\ SlotInv(Initialised(p, time))
<1> DEFINE always == Append(p.always, "info")
           first == When(env.drop = Unset, "drop")
           second == When(env.flip = Unset, "flip")
           added == first \o second
           random == p.random \o added
           seed == Override(env.seed, time)
           rate == Override(env.rate, p.argument)
           q == Initialised(p, time)
<1>1. seed \in Int /\ rate \in 0..MaxDraw
  BY SettingsTyped DEF Process
<1>2. always \in Seq({"drop", "info"})
  BY DEF Process
<1>3. first \in Seq({"drop", "flip"}) /\ second \in Seq({"drop", "flip"})
  BY EventLists
<1> HIDE DEF always, first, second, seed, rate
<1>4. added \in Seq({"drop", "flip"}) /\ p.random \in Seq({"drop", "flip"})
  BY <1>3 DEF Process
<1>5. ProgramEvents = added
  BY DEF ProgramEvents, first, second
<1> HIDE DEF added
<1>6. random \in Seq({"drop", "flip"})
  BY <1>4
<1> HIDE DEF random
<1>7. q = [p EXCEPT !.phase = "RUNNING", !.always = always, !.rate = rate, !.random = random,
                    !.seed = seed, !.nextSeed = time]
  BY <1>5 DEF Initialised, always, random, seed, rate, Process
<1> HIDE DEF q
<1>8. q \in Process
  BY <1>1, <1>2, <1>6, <1>7 DEF Process
<1>9. q.slot = p.slot /\ q.seq = p.seq /\ q.payload = p.payload
  BY <1>7 DEF Process
<1>10. QED
  BY <1>8, <1>9 DEF SlotInv, q

LEMMA SentTyped ==
  ASSUME NEW p \in Process, p.msgNo < MaxSends,
         NEW seq \in SeqNums, NEW payload \in Payloads, NEW bytes, Built(bytes, seq, payload),
         NEW out, NEW draw, NEW event
  PROVE  /\ Sent(p, bytes, out, seq, payload, draw, event) \in Process
         /\ SlotInv(Sent(p, bytes, out, seq, payload, draw, event))
<1> DEFINE lost == IF Drops(p, event) THEN p.lost \cup {p.msgNo + 1} ELSE p.lost
           flipped == IF event = "flip" THEN p.flipped \cup {p.msgNo + 1} ELSE p.flipped
           zero == p.zeroDraw \/ draw = 0
           q == Sent(p, bytes, out, seq, payload, draw, event)
<1>1. p.msgNo + 1 \in 0..MaxSends /\ p.msgNo + 1 \in 1..MaxSends
  <2>1. p.msgNo \in 0..MaxSends
    BY DEF Process
  <2>2. MaxSends \in Nat
    BY InjectionAssumption
  <2>3. QED
    BY <2>1, <2>2
<1>2. lost \in SUBSET (1..MaxSends) /\ flipped \in SUBSET (1..MaxSends)
  BY <1>1 DEF Process
<1>3. zero \in BOOLEAN
  BY DEF Process
<1>4. bytes \in Seq(Bytes)
  BY DEF Built
<1>5. q = [p EXCEPT !.msgNo = p.msgNo + 1, !.slot = bytes, !.seq = seq, !.payload = payload,
                    !.lost = lost, !.flipped = flipped, !.zeroDraw = zero]
  BY DEF Sent, Kept, Process
<1> HIDE DEF q, lost, flipped, zero
<1>6. q \in Process
  BY <1>1, <1>2, <1>3, <1>4, <1>5 DEF Process
<1>7. q.slot = bytes /\ q.seq = seq /\ q.payload = payload
  BY <1>5 DEF Process
<1>8. QED
  BY <1>6, <1>7 DEF SlotInv, q

\* A step that replaces one process.
LEMMA TypedBecome ==
  ASSUME procs \in Seq(Process), procs # << >>, \A j \in DOMAIN procs : SlotInv(procs[j]),
         NEW i \in DOMAIN procs, NEW q \in Process, SlotInv(q),
         procs' = [procs EXCEPT ![i] = q]
  PROVE  /\ procs' \in Seq(Process) /\ procs' # << >>
         /\ (\A j \in DOMAIN procs : SlotInv(procs[j]))'
<1>1. /\ procs' \in Seq(Process \cup {q}) /\ Len(procs') = Len(procs) /\ DOMAIN procs' = DOMAIN procs
      /\ \A j \in DOMAIN procs : procs'[j] = IF j = i THEN q ELSE procs[j]
  BY Replaced
<1>2. Process \cup {q} = Process
  OBVIOUS
<1>3. \A j \in DOMAIN procs : SlotInv(procs'[j])
  BY <1>1
<1>4. procs' # << >>
  BY <1>1
<1>5. QED
  BY <1>1, <1>2, <1>3, <1>4 DEF SlotInv

\* A step that adds one.
LEMMA TypedGrow ==
  ASSUME procs \in Seq(Process), \A j \in DOMAIN procs : SlotInv(procs[j]),
         NEW q \in Process, SlotInv(q),
         procs' = Append(procs, q)
  PROVE  /\ procs' \in Seq(Process) /\ procs' # << >>
         /\ (\A j \in DOMAIN procs : SlotInv(procs[j]))'
<1>1. /\ procs' \in Seq(Process \cup {q}) /\ Len(procs') = Len(procs) + 1
      /\ \A j \in DOMAIN procs' : (j \in DOMAIN procs /\ procs'[j] = procs[j]) \/ procs'[j] = q
  BY Appended
<1>2. Process \cup {q} = Process
  OBVIOUS
<1>3. \A j \in DOMAIN procs' : SlotInv(procs'[j])
  BY <1>1
<1>4. procs' # << >>
  BY <1>1, LenProperties
<1>5. QED
  BY <1>1, <1>2, <1>3, <1>4 DEF SlotInv

LEMMA Times ==
  ASSUME clock \in StartSecond..(StartSecond + MaxSeconds)
  PROVE  /\ clock \in Nat /\ StartSecond \in Nat /\ MaxSeconds \in Nat
         /\ TimePasses => clock' \in StartSecond..(StartSecond + MaxSeconds) /\ clock' \in Nat
<1>1. StartSecond \in Nat /\ MaxSeconds \in Nat
  BY InjectionAssumption
<1>2. QED
  BY <1>1 DEF TimePasses

LEMMA WireKept == ASSUME AcceptedIsOriginal, wire' = wire PROVE AcceptedIsOriginal'
BY DEF AcceptedIsOriginal

LEMMA PacketInit == Init => PacketInv
<1> SUFFICES ASSUME Init PROVE PacketInv
  OBVIOUS
<1>1. env \in Environment /\ clock = StartSecond /\ wire = NoDatagram
  BY DEF Init
<1>2. clock \in StartSecond..(StartSecond + MaxSeconds) /\ clock \in Nat
  <2>1. StartSecond \in Nat /\ MaxSeconds \in Nat
    BY InjectionAssumption
  <2>2. QED
    BY <1>1, <2>1
<1>3. PICK rate \in Rates : procs = <<Loaded("LISTENING", rate, clock)>>
  BY DEF Init
<1> DEFINE q == Loaded("LISTENING", rate, clock)
<1>4. q \in Process /\ SlotInv(q)
  BY <1>1, <1>2, LoadedTyped
<1>5. procs = <<q>>
  BY <1>3
<1> HIDE DEF q
<1>6. procs \in Seq(Process) /\ procs # << >> /\ \A i \in DOMAIN procs : procs[i] = q
  BY <1>4, <1>5
<1>7. wire \in [bytes : Seq(Bytes), seq : SeqNums \cup {0}, payload : Payloads \cup {NoPacket}, intact : BOOLEAN]
  BY <1>1 DEF NoDatagram, NoPacket
<1>8. InjectionTypeOK
  BY <1>1, <1>2, <1>6, <1>7 DEF InjectionTypeOK
<1>9. AcceptedIsOriginal
  BY <1>1 DEF AcceptedIsOriginal
<1>10. QED
  BY <1>4, <1>6, <1>8, <1>9 DEF PacketInv

LEMMA PacketRunsRcopy == PacketInv /\ RunsRcopy => PacketInv'
<1> SUFFICES ASSUME PacketInv, RunsRcopy PROVE PacketInv'
  OBVIOUS
<1>1. PICK rate \in Rates : procs' = Append(procs, Loaded("STARTED", rate, clock'))
  BY DEF RunsRcopy
<1>2. env' = env /\ wire' = wire /\ TimePasses
  BY DEF RunsRcopy
<1>3. InjectionTypeOK /\ \A j \in DOMAIN procs : SlotInv(procs[j])
  BY DEF PacketInv
<1>4. clock' \in StartSecond..(StartSecond + MaxSeconds) /\ clock' \in Nat
  BY <1>2, <1>3, Times DEF InjectionTypeOK
<1> DEFINE q == Loaded("STARTED", rate, clock')
<1>5. q \in Process /\ SlotInv(q)
  BY <1>3, <1>4, LoadedTyped DEF InjectionTypeOK
<1> HIDE DEF q
<1>6. procs' = Append(procs, q) /\ procs \in Seq(Process)
  BY <1>1, <1>3 DEF q, InjectionTypeOK
<1>7. procs' \in Seq(Process) /\ procs' # << >> /\ (\A j \in DOMAIN procs : SlotInv(procs[j]))'
  BY <1>3, <1>5, <1>6, TypedGrow
<1>8. InjectionTypeOK'
  BY <1>2, <1>3, <1>4, <1>7 DEF InjectionTypeOK
<1>9. QED
  BY <1>2, <1>7, <1>8, WireKept DEF PacketInv

\* fork(): the child has what its parent has in its window.
LEMMA PacketFork == PacketInv /\ Fork => PacketInv'
<1> SUFFICES ASSUME PacketInv, Fork PROVE PacketInv'
  OBVIOUS
<1> DEFINE server == procs[1]
           parent == [server EXCEPT !.nextSeed = @ + 1]
           seed == Override(env.seed, server.nextSeed)
           child == [parent EXCEPT !.phase = "STARTED", !.forked = TRUE, !.seed = seed]
           between == [procs EXCEPT ![1] = parent]
<1>1. procs' = Append(between, child) /\ env' = env /\ clock' = clock /\ wire' = wire
  BY DEF Fork
<1>2. InjectionTypeOK /\ \A j \in DOMAIN procs : SlotInv(procs[j])
  BY DEF PacketInv
<1>3. procs \in Seq(Process) /\ procs # << >> /\ 1 \in DOMAIN procs
  BY <1>2, LenProperties DEF InjectionTypeOK
<1>4. server \in Process /\ SlotInv(server)
  BY <1>2, <1>3, ElementOfSeq
<1> HIDE DEF server
<1>5. server.nextSeed \in Nat /\ server.nextSeed + 1 \in Nat
  BY <1>4 DEF Process
<1>6. parent \in Process
  <2> DEFINE next == server.nextSeed + 1
  <2>1. parent = [server EXCEPT !.nextSeed = next] /\ next \in Nat
    BY <1>5
  <2> HIDE DEF next, parent
  <2>2. QED
    BY <1>4, <2>1 DEF Process
<1>7. seed \in Int
  BY <1>2, <1>5, SettingsTyped DEF InjectionTypeOK
<1>8. parent.slot = server.slot /\ parent.seq = server.seq /\ parent.payload = server.payload
  BY <1>4 DEF Process
<1> HIDE DEF parent, seed
<1>9. child \in Process
  BY <1>6, <1>7 DEF Process
<1>10. child.slot = server.slot /\ child.seq = server.seq /\ child.payload = server.payload
  BY <1>6, <1>8 DEF Process
<1>11. SlotInv(parent) /\ SlotInv(child)
  BY <1>4, <1>8, <1>10 DEF SlotInv
<1> HIDE DEF child
<1>12. /\ between \in Seq(Process \cup {parent}) /\ DOMAIN between = DOMAIN procs
       /\ \A j \in DOMAIN procs : between[j] = IF j = 1 THEN parent ELSE procs[j]
  BY <1>3, Replaced
<1>13. Process \cup {parent} = Process /\ Process \cup {child} = Process
  BY <1>6, <1>9
<1> HIDE DEF between
<1>14. between \in Seq(Process) /\ \A j \in DOMAIN between : SlotInv(between[j])
  BY <1>2, <1>11, <1>12, <1>13
<1>15. /\ procs' \in Seq(Process \cup {child}) /\ Len(procs') = Len(between) + 1
       /\ \A j \in DOMAIN procs' : (j \in DOMAIN between /\ procs'[j] = between[j]) \/ procs'[j] = child
  BY <1>1, <1>14, Appended
<1>16. procs' \in Seq(Process) /\ procs' # << >>
  BY <1>13, <1>14, <1>15, LenProperties
<1>17. (\A j \in DOMAIN procs : SlotInv(procs[j]))'
  BY <1>11, <1>14, <1>15 DEF SlotInv
<1>18. InjectionTypeOK'
  BY <1>1, <1>2, <1>16 DEF InjectionTypeOK
<1>19. QED
  BY <1>1, <1>17, <1>18, WireKept DEF PacketInv

LEMMA PacketSendErrInit ==
  ASSUME PacketInv, NEW p \in DOMAIN procs, SendErrInit(p)
  PROVE  PacketInv'
<1> DEFINE q == Initialised(procs[p], clock')
<1>1. procs' = [procs EXCEPT ![p] = q] /\ env' = env /\ wire' = wire /\ TimePasses
  BY DEF SendErrInit, Becomes
<1>2. InjectionTypeOK /\ \A j \in DOMAIN procs : SlotInv(procs[j])
  BY DEF PacketInv
<1>3. clock' \in StartSecond..(StartSecond + MaxSeconds) /\ clock' \in Nat
  BY <1>1, <1>2, Times DEF InjectionTypeOK
<1>4. procs \in Seq(Process) /\ procs # << >> /\ env \in Environment
  BY <1>2 DEF InjectionTypeOK
<1>5. procs[p] \in Process /\ SlotInv(procs[p])
  BY <1>2, <1>4, ElementOfSeq
<1>6. q \in Process /\ SlotInv(q)
  BY <1>3, <1>4, <1>5, InitialisedTyped
<1> HIDE DEF q
<1>7. procs' \in Seq(Process) /\ procs' # << >> /\ (\A j \in DOMAIN procs : SlotInv(procs[j]))'
  BY <1>1, <1>2, <1>4, <1>6, TypedBecome
<1>8. InjectionTypeOK'
  BY <1>1, <1>2, <1>3, <1>7 DEF InjectionTypeOK
<1>9. QED
  BY <1>1, <1>7, <1>8, WireKept DEF PacketInv

\* What is on the wire is the packet, or the packet with one byte flipped.
LEMMA PacketSendtoErr ==
  ASSUME PacketInv, NEW p \in DOMAIN procs, MaySend(p),
         NEW seq \in SeqNums, NEW payload \in Payloads, NEW bytes, Built(bytes, seq, payload),
         SendtoErr(p, bytes, seq, payload), UNCHANGED <<env, clock>>
  PROVE  PacketInv'
<1>1. InjectionTypeOK /\ \A j \in DOMAIN procs : SlotInv(procs[j])
  BY DEF PacketInv
<1>2. procs \in Seq(Process) /\ procs # << >>
  BY <1>1 DEF InjectionTypeOK
<1>3. procs[p] \in Process /\ procs[p].msgNo < MaxSends
  BY <1>2, ElementOfSeq DEF MaySend
<1>4. PICK draw \in 0..MaxDraw : \E event \in EventsFor(procs[p], draw) :
        \E out \in IF event = "flip" THEN {FlipByte(bytes, i) : i \in DOMAIN bytes} ELSE {bytes} :
          /\ wire' = IF Drops(procs[p], event) THEN NoDatagram
                     ELSE [bytes |-> out, seq |-> seq, payload |-> payload, intact |-> out = bytes]
          /\ procs' = [procs EXCEPT ![p] = Sent(procs[p], bytes, out, seq, payload, draw, event)]
  BY DEF SendtoErr, Becomes, Sent
<1>5. PICK event \in EventsFor(procs[p], draw) :
        \E out \in IF event = "flip" THEN {FlipByte(bytes, i) : i \in DOMAIN bytes} ELSE {bytes} :
          /\ wire' = IF Drops(procs[p], event) THEN NoDatagram
                     ELSE [bytes |-> out, seq |-> seq, payload |-> payload, intact |-> out = bytes]
          /\ procs' = [procs EXCEPT ![p] = Sent(procs[p], bytes, out, seq, payload, draw, event)]
  BY <1>4
<1>6. PICK out \in IF event = "flip" THEN {FlipByte(bytes, i) : i \in DOMAIN bytes} ELSE {bytes} :
          /\ wire' = IF Drops(procs[p], event) THEN NoDatagram
                     ELSE [bytes |-> out, seq |-> seq, payload |-> payload, intact |-> out = bytes]
          /\ procs' = [procs EXCEPT ![p] = Sent(procs[p], bytes, out, seq, payload, draw, event)]
  BY <1>5
<1> DEFINE q == Sent(procs[p], bytes, out, seq, payload, draw, event)
<1>7. q \in Process /\ SlotInv(q)
  BY <1>3, SentTyped
<1> HIDE DEF q
<1>8. procs' = [procs EXCEPT ![p] = q]
  BY <1>6 DEF q
<1>9. procs' \in Seq(Process) /\ procs' # << >> /\ (\A j \in DOMAIN procs : SlotInv(procs[j]))'
  BY <1>1, <1>2, <1>7, <1>8, TypedBecome
<1>10. bytes \in Seq(Bytes) /\ Len(bytes) <= 2 * Word /\ Accepted(bytes)
  BY PayloadSizes DEF Built
<1>11. out \in Seq(Bytes) /\ (Accepted(out) <=> out = bytes)
  <2>1. CASE out = bytes
    BY <1>10, <2>1
  <2>2. CASE out # bytes
    <3>1. PICK i \in DOMAIN bytes : out = FlipByte(bytes, i)
      BY <1>6, <2>2
    <3>2. i \in 1..Len(bytes)
      BY <1>10, <3>1, LenProperties
    <3>3. QED
      BY <1>10, <2>2, <3>1, <3>2, FlipRefused
  <2>3. QED
    BY <2>1, <2>2
<1>12. CASE wire' = NoDatagram
  <2>1. InjectionTypeOK'
    BY <1>1, <1>9, <1>12 DEF InjectionTypeOK, NoDatagram, NoPacket
  <2>2. AcceptedIsOriginal'
    BY <1>12 DEF AcceptedIsOriginal
  <2>3. QED
    BY <1>9, <2>1, <2>2 DEF PacketInv
<1>13. CASE wire' = [bytes |-> out, seq |-> seq, payload |-> payload, intact |-> out = bytes]
  <2>1. wire'.bytes = out /\ wire'.seq = seq /\ wire'.payload = payload /\ wire'.intact = (out = bytes)
    BY <1>13
  <2>2. wire' \in [bytes : Seq(Bytes), seq : SeqNums \cup {0}, payload : Payloads \cup {NoPacket},
                   intact : BOOLEAN]
    BY <1>11, <1>13
  <2>3. InjectionTypeOK'
    BY <1>1, <1>9, <2>2 DEF InjectionTypeOK
  <2>4. AcceptedIsOriginal'
    BY <1>11, <2>1 DEF AcceptedIsOriginal, Built
  <2>5. QED
    BY <1>9, <2>3, <2>4 DEF PacketInv
<1>14. QED
  BY <1>6, <1>12, <1>13

LEMMA PacketSends ==
  ASSUME PacketInv, NEW p \in DOMAIN procs, SendNew(p) \/ SendAgain(p)
  PROVE  PacketInv'
<1>1. CASE SendNew(p)
  <2>1. MaySend(p) /\ UNCHANGED <<env, clock>>
    BY <1>1 DEF SendNew
  <2>2. PICK seq \in SeqNums, payload \in Payloads, flag \in Flags :
          SendtoErr(p, CreatePDU(seq, flag, payload), seq, payload)
    BY <1>1 DEF SendNew
  <2>3. QED
    BY <2>1, <2>2, CreatedIsBuilt, PacketSendtoErr
<1>2. CASE SendAgain(p)
  <2> DEFINE seq == procs[p].seq
             payload == procs[p].payload
             slot == procs[p].slot
  <2>1. MaySend(p) /\ slot # NoPacket /\ UNCHANGED <<env, clock>>
    BY <1>2 DEF SendAgain
  <2>2. PICK flag \in Flags : SendtoErr(p, Reflagged(slot, flag), seq, payload)
    BY <1>2 DEF SendAgain
  <2>3. seq \in SeqNums /\ payload \in Payloads /\ Built(slot, seq, payload)
    BY <2>1 DEF PacketInv, SlotInv
  <2> HIDE DEF seq, payload, slot
  <2>4. Built(Reflagged(slot, flag), seq, payload)
    BY <2>3, ReflaggedIsBuilt
  <2>5. QED
    BY <2>1, <2>2, <2>3, <2>4, PacketSendtoErr
<1>3. QED
  BY <1>1, <1>2

LEMMA PacketStutter == PacketInv /\ UNCHANGED vars => PacketInv'
BY DEF PacketInv, InjectionTypeOK, AcceptedIsOriginal, SlotInv, vars

LEMMA PacketNext == PacketInv /\ [Next]_vars => PacketInv'
BY PacketRunsRcopy, PacketFork, PacketSendErrInit, PacketSends, PacketStutter DEF Next, AllSent

LEMMA PacketHolds == Spec => []PacketInv
BY PacketInit, PacketNext, PTL DEF Spec

\* Whatever the environment, the processes keep to their types: what they
\* store is made of bytes, and no counter leaves its range (sendto_Err,
\* SettingsManager).
THEOREM InjectionTypes == Spec => []InjectionTypeOK
<1>1. PacketInv => InjectionTypeOK
  BY DEF PacketInv
<1>2. QED
  BY <1>1, PacketHolds, PTL

\* in_cksum accepts exactly the packets no byte of which was flipped, first
\* sent or patched and sent again, and they carry the number and the payload
\* they were built from (createPDU, timeout_on_ack, send_srej, errorFlipBits).
THEOREM AcceptedOriginal == Spec => []AcceptedIsOriginal
<1>1. PacketInv => AcceptedIsOriginal
  BY DEF PacketInv
<1>2. QED
  BY <1>1, PacketHolds, PTL
=============================================================================
