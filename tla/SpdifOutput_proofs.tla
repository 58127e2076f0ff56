-------------------------- MODULE SpdifOutput_proofs --------------------------
(***************************************************************************)
(* Proofs about SpdifOutput, for both builds and any number of blocks, and *)
(* about the coding of its blocks, for every word, place and stream.       *)
(* SlotOwnership together with TypeOK is the inductive invariant; that no  *)
(* torn block is emitted and that both outputs follow one program of       *)
(* blocks are consequences.  The coding needs none: what the receiver gets *)
(* of a subframe is computed from the ones counted along the line.         *)
(***************************************************************************)
EXTENDS SpdifSignal, Sequences, FiniteSetTheorems, WellFoundedInduction,
        TLAPS

-------------------------------------------------------------------------------
(* The coding.  Ones on the line, and the level they leave it at.          *)

\* Induction over the numbers in a set.
LEMMA SetInduction ==
  ASSUME NEW S, 0 \in S, \A n \in Nat : n \in S => n + 1 \in S
  PROVE  \A n \in Nat : n \in S
<1> SUFFICES ASSUME Nat \ S # {} PROVE FALSE
  OBVIOUS
<1>1. PICK T, R : T = Nat \ S /\ R = OpToRel(<, Nat)
  OBVIOUS
<1>2. IsWellFoundedOn(R, Nat)
  BY <1>1, NatLessThanWellFounded
<1>3. PICK n \in T : \A m \in T : ~(<<m, n>> \in R)
  BY <1>1, <1>2, WFMin
<1>4. \A m \in Nat : m < n => <<m, n>> \in R
  BY <1>1 DEF OpToRel
<1>5. n \in Nat /\ n - 1 \in Nat /\ n - 1 < n /\ (n - 1) + 1 = n
  <2>1. n \in Nat /\ n \notin S /\ n # 0
    BY <1>1
  <2> QED
    BY <2>1
<1>6. n - 1 \notin T
  BY <1>3, <1>4, <1>5
<1> QED
  BY <1>1, <1>5, <1>6

\* The number of ones of f from place a up to place n.
Ones(f, a, n) == Cardinality({u \in a .. n : f[u] = 1})

\* One place more.
LEMMA OnesStep ==
  ASSUME NEW f, NEW a \in Nat, NEW n \in Int, a - 1 <= n, f[n + 1] \in {0, 1}
  PROVE  /\ Ones(f, a, a - 1) = 0 /\ Ones(f, a, n) \in Nat
         /\ Ones(f, a, n + 1) = Ones(f, a, n) + f[n + 1]
<1> DEFINE Set(m) == {u \in a .. m : f[u] = 1}
<1>1. \A m \in Int : IsFiniteSet(Set(m))
  <2>1. ASSUME NEW m \in Int PROVE IsFiniteSet(Set(m))
    <3>1. IsFiniteSet(a .. m)
      BY FS_Interval
    <3>2. Set(m) \subseteq a .. m
      OBVIOUS
    <3> QED
      BY <3>1, <3>2, FS_Subset
  <2> QED
    BY <2>1
<1>2. Cardinality(Set(a - 1)) = 0
  <2>1. Set(a - 1) = {}
    OBVIOUS
  <2> HIDE DEF Set
  <2> QED
    BY <2>1, FS_EmptySet
<1>3. Cardinality(Set(n)) \in Nat
  BY <1>1, FS_CardinalityType
<1>4. Cardinality(Set(n + 1)) = Cardinality(Set(n)) + f[n + 1]
  <2>1. CASE f[n + 1] = 1
    <3>1. Set(n + 1) = Set(n) \cup {n + 1} /\ n + 1 \notin Set(n)
      BY <2>1
    <3>2. IsFiniteSet(Set(n))
      BY <1>1
    <3> HIDE DEF Set
    <3>3. PICK x, S : x = n + 1 /\ S = Set(n)
      OBVIOUS
    <3>4. Cardinality(S \cup {x}) = Cardinality(S) + 1
      BY <3>1, <3>2, <3>3, FS_AddElement
    <3> QED
      BY <2>1, <3>1, <3>3, <3>4
  <2>2. CASE f[n + 1] = 0
    <3>1. Set(n + 1) = Set(n)
      BY <2>2
    <3> HIDE DEF Set
    <3> QED
      BY <1>3, <2>2, <3>1
  <2> QED
    BY <2>1, <2>2
<1> QED
  BY <1>2, <1>3, <1>4 DEF Ones

\* Eight places more.
LEMMA OnesOfEight ==
  ASSUME NEW f, NEW a \in Nat, NEW n \in Int, a - 1 <= n,
         \A u \in n + 1 .. n + 8 : f[u] \in {0, 1}
  PROVE  Ones(f, a, n + 8) = Ones(f, a, n) + f[n + 1] + f[n + 2] + f[n + 3] + f[n + 4]
                                           + f[n + 5] + f[n + 6] + f[n + 7] + f[n + 8]
<1>1. \A k \in 0 .. 7 : /\ n + k \in Int /\ a - 1 <= n + k /\ (n + k) + 1 = n + (k + 1)
                        /\ n + (k + 1) \in n + 1 .. n + 8
  OBVIOUS
<1>2. ASSUME NEW k \in 0 .. 7
      PROVE  /\ Ones(f, a, n + k) \in Nat /\ f[n + (k + 1)] \in {0, 1}
             /\ Ones(f, a, n + (k + 1)) = Ones(f, a, n + k) + f[n + (k + 1)]
  <2>1. PICK m \in Int : m = n + k
    BY <1>1
  <2>2. a - 1 <= m /\ m + 1 = n + (k + 1) /\ f[m + 1] \in {0, 1}
    BY <1>1, <2>1
  <2>3. Ones(f, a, m) \in Nat /\ Ones(f, a, m + 1) = Ones(f, a, m) + f[m + 1]
    BY <2>2, OnesStep
  <2> QED
    BY <2>1, <2>2, <2>3
<1>3. n + 0 = n
  OBVIOUS
<1>4. /\ Ones(f, a, n) \in Nat /\ Ones(f, a, n + 1) = Ones(f, a, n) + f[n + 1] /\ f[n + 1] \in {0, 1}
  BY <1>2, <1>3
<1>5. /\ Ones(f, a, n + 2) = Ones(f, a, n + 1) + f[n + 2] /\ f[n + 2] \in {0, 1}
  BY <1>2
<1>6. /\ Ones(f, a, n + 3) = Ones(f, a, n + 2) + f[n + 3] /\ f[n + 3] \in {0, 1}
  BY <1>2
<1>7. /\ Ones(f, a, n + 4) = Ones(f, a, n + 3) + f[n + 4] /\ f[n + 4] \in {0, 1}
  BY <1>2
<1>8. /\ Ones(f, a, n + 5) = Ones(f, a, n + 4) + f[n + 5] /\ f[n + 5] \in {0, 1}
  BY <1>2
<1>9. /\ Ones(f, a, n + 6) = Ones(f, a, n + 5) + f[n + 6] /\ f[n + 6] \in {0, 1}
  BY <1>2
<1>10. /\ Ones(f, a, n + 7) = Ones(f, a, n + 6) + f[n + 7] /\ f[n + 7] \in {0, 1}
  BY <1>2
<1>11. /\ Ones(f, a, n + 8) = Ones(f, a, n + 7) + f[n + 8] /\ f[n + 8] \in {0, 1}
  BY <1>2
<1> QED
  BY <1>4, <1>5, <1>6, <1>7, <1>8, <1>9, <1>10, <1>11

\* The same, from the first place on.
LEMMA OnesFromZero ==
  ASSUME NEW f, NEW n \in Int, -1 <= n, f[n + 1] \in {0, 1}
  PROVE  /\ Ones(f, 0, -1) = 0 /\ Ones(f, 0, n) \in Nat
         /\ Ones(f, 0, n + 1) = Ones(f, 0, n) + f[n + 1]
<1>1. PICK a \in Nat : a = 0
  OBVIOUS
<1>2. a - 1 = -1 /\ a - 1 <= n
  BY <1>1
<1>3. Ones(f, a, -1) = 0 /\ Ones(f, a, n) \in Nat /\ Ones(f, a, n + 1) = Ones(f, a, n) + f[n + 1]
  BY <1>2, OnesStep
<1> QED
  BY <1>1, <1>3

\* The number of ones is a number.
LEMMA OnesAreCounted ==
  ASSUME NEW f, NEW n \in Int, -1 <= n
  PROVE  Ones(f, 0, n) \in Nat
<1>1. IsFiniteSet(0 .. n)
  BY FS_Interval
<1>2. {u \in 0 .. n : f[u] = 1} \subseteq 0 .. n
  OBVIOUS
<1> QED
  BY <1>1, <1>2, FS_Subset, FS_CardinalityType DEF Ones

\* The level of the line after one half-cell more.
LEMMA LevelStep ==
  ASSUME NEW line, \A u \in 0 .. 63 : line[u] \in {0, 1}, NEW t \in 0 .. 62
  PROVE  /\ Level(line, 0, t) \in {0, 1} /\ Level(line, 0, 0) = line[0]
         /\ Level(line, 0, t + 1) = (Level(line, 0, t) + line[t + 1]) % 2
<1>1. \A n : Level(line, 0, n) = (0 + Ones(line, 0, n)) % 2
  BY DEF Level, Ones
<1>2. /\ t \in Int /\ -1 <= t /\ line[t + 1] \in {0, 1} /\ line[0] \in {0, 1}
      /\ -1 \in Int
  OBVIOUS
<1>3. Ones(line, 0, t) \in Nat /\ Ones(line, 0, t + 1) = Ones(line, 0, t) + line[t + 1]
  BY <1>2, OnesFromZero
<1>4. Ones(line, 0, 0) = line[0]
  <2>1. PICK m \in Int : m = -1
    OBVIOUS
  <2>2. m + 1 = 0 /\ -1 <= m
    BY <2>1
  <2>3. Ones(line, 0, m) = 0 /\ Ones(line, 0, m + 1) = Ones(line, 0, m) + line[m + 1]
    BY <1>2, <2>1, <2>2, OnesFromZero
  <2> QED
    BY <1>2, <2>2, <2>3
<1>5. PICK b \in Nat, c \in {0, 1} : b = Ones(line, 0, t) /\ c = line[t + 1]
  BY <1>2, <1>3
<1>6. (0 + (b + c)) % 2 = (((0 + b) % 2) + c) % 2 /\ (0 + b) % 2 \in {0, 1}
  OBVIOUS
<1>7. (0 + line[0]) % 2 = line[0]
  BY <1>2
<1> QED
  BY <1>1, <1>3, <1>4, <1>5, <1>6, <1>7

\* The receiver reads a one where the middle of a cell has a change.
LEMMA DecodedCell ==
  ASSUME NEW line, \A u \in 0 .. 63 : line[u] \in {0, 1}, NEW slot \in 4 .. 31
  PROVE  Decoded(line)[slot] = line[2 * slot + 1]
<1>1. PICK t \in 0 .. 62 : t = 2 * slot
  OBVIOUS
<1>2. PICK low, high : low = Level(line, 0, t) /\ high = Level(line, 0, t + 1)
  OBVIOUS
<1>3. t \in 0 .. 63 /\ t + 1 \in 0 .. 63
  OBVIOUS
<1>4. Decoded(line)[slot] = IF low # high THEN 1 ELSE 0
  BY <1>1, <1>2, <1>3 DEF Decoded
<1>5. low \in {0, 1} /\ high = (low + line[t + 1]) % 2 /\ line[t + 1] \in {0, 1}
  BY <1>2, <1>3, LevelStep
<1> QED
  BY <1>1, <1>4, <1>5

-------------------------------------------------------------------------------
(* The payload of a subframe has even parity.                              *)

Streams == PcmStreams \cup NonPcmStreams
AnyWord == [Bits32 -> {0, 1}]
AllFrames == 0 .. SPDIF_BLOCK_FRAMES - 1
Channels == {0, 1}

\* The sum of the bits of a word, the way the foldings pair them.
Sum1(w, i) == w[i] + w[i + 16]
Sum2(w, i) == Sum1(w, i) + Sum1(w, i + 8)
Sum3(w, i) == Sum2(w, i) + Sum2(w, i + 4)
Sum4(w, i) == Sum3(w, i) + Sum3(w, i + 2)
Sum5(w) == Sum4(w, 0) + Sum4(w, 1)

\* One folding, where the bits are the parities of two sums.
LEMMA Fold1 ==
  ASSUME NEW w, NEW n \in 1 .. 16, NEW i \in 0 .. n - 1, NEW a \in Nat, NEW b \in Nat,
         w[i] = a % 2, w[i + n] = b % 2
  PROVE  Fold(w, n)[i] = (a + b) % 2
<1>1. i \in Bits32 /\ i + n <= 31
  BY DEF Bits32
<1>2. ShiftRight(w, n)[i] = w[i + n]
  BY <1>1 DEF ShiftRight
<1>3. Fold(w, n)[i] = (w[i] + w[i + n]) % 2
  BY <1>1, <1>2 DEF Fold, Xor
<1>4. ((a % 2) + (b % 2)) % 2 = (a + b) % 2
  OBVIOUS
<1> QED
  BY <1>3, <1>4

\* The five foldings leave the parity of the sum of all bits in bit 0.
LEMMA ParityIsSum ==
  ASSUME NEW w \in AnyWord
  PROVE  Parity(w) = Sum5(w) % 2 /\ Sum5(w) \in Nat
<1>0. \A i \in 0 .. 31 : w[i] \in {0, 1} /\ w[i] \in Nat /\ w[i] = w[i] % 2
  <2>1. \A x \in {0, 1} : x \in Nat /\ x = x % 2
    OBVIOUS
  <2> QED
    BY <2>1 DEF AnyWord, Bits32
<1>1. PICK f1, f2, f3, f4 : /\ f1 = Fold(w, 16) /\ f2 = Fold(f1, 8) /\ f3 = Fold(f2, 4)
                            /\ f4 = Fold(f3, 2)
  OBVIOUS
<1>2. ASSUME NEW i \in 0 .. 15 PROVE f1[i] = Sum1(w, i) % 2 /\ Sum1(w, i) \in Nat
  <2>1. i \in 0 .. 31 /\ i + 16 \in 0 .. 31 /\ 16 \in 1 .. 16 /\ i \in 0 .. 16 - 1
    OBVIOUS
  <2>2. PICK a \in Nat, b \in Nat : a = w[i] /\ b = w[i + 16]
    BY <1>0, <2>1
  <2>3. w[i] = a % 2 /\ w[i + 16] = b % 2
    BY <1>0, <2>1, <2>2
  <2>4. Fold(w, 16)[i] = (a + b) % 2
    BY <2>1, <2>3, Fold1
  <2>5. Sum1(w, i) = a + b
    BY <2>2 DEF Sum1
  <2> QED
    BY <1>1, <2>4, <2>5
<1>3. ASSUME NEW i \in 0 .. 7 PROVE f2[i] = Sum2(w, i) % 2 /\ Sum2(w, i) \in Nat
  <2>1. /\ i \in 0 .. 15 /\ i + 8 \in 0 .. 15 /\ 8 \in 1 .. 16
        /\ i \in 0 .. 8 - 1
    OBVIOUS
  <2>2. PICK a \in Nat, b \in Nat : a = Sum1(w, i) /\ b = Sum1(w, i + 8)
    BY <1>2, <2>1
  <2>3. f1[i] = a % 2 /\ f1[i + 8] = b % 2
    BY <1>2, <2>1, <2>2
  <2>4. Fold(f1, 8)[i] = (a + b) % 2
    BY <2>1, <2>3, Fold1
  <2>5. Sum2(w, i) = a + b
    BY <2>2 DEF Sum2
  <2> QED
    BY <1>1, <2>4, <2>5
<1>4. ASSUME NEW i \in 0 .. 3 PROVE f3[i] = Sum3(w, i) % 2 /\ Sum3(w, i) \in Nat
  <2>1. /\ i \in 0 .. 7 /\ i + 4 \in 0 .. 7 /\ 4 \in 1 .. 16
        /\ i \in 0 .. 4 - 1
    OBVIOUS
  <2>2. PICK a \in Nat, b \in Nat : a = Sum2(w, i) /\ b = Sum2(w, i + 4)
    BY <1>3, <2>1
  <2>3. f2[i] = a % 2 /\ f2[i + 4] = b % 2
    BY <1>3, <2>1, <2>2
  <2>4. Fold(f2, 4)[i] = (a + b) % 2
    BY <2>1, <2>3, Fold1
  <2>5. Sum3(w, i) = a + b
    BY <2>2 DEF Sum3
  <2> QED
    BY <1>1, <2>4, <2>5
<1>5. ASSUME NEW i \in 0 .. 1 PROVE f4[i] = Sum4(w, i) % 2 /\ Sum4(w, i) \in Nat
  <2>1. /\ i \in 0 .. 3 /\ i + 2 \in 0 .. 3 /\ 2 \in 1 .. 16
        /\ i \in 0 .. 2 - 1
    OBVIOUS
  <2>2. PICK a \in Nat, b \in Nat : a = Sum3(w, i) /\ b = Sum3(w, i + 2)
    BY <1>4, <2>1
  <2>3. f3[i] = a % 2 /\ f3[i + 2] = b % 2
    BY <1>4, <2>1, <2>2
  <2>4. Fold(f3, 2)[i] = (a + b) % 2
    BY <2>1, <2>3, Fold1
  <2>5. Sum4(w, i) = a + b
    BY <2>2 DEF Sum4
  <2> QED
    BY <1>1, <2>4, <2>5
<1>6. Fold(f4, 1)[0] = Sum5(w) % 2 /\ Sum5(w) \in Nat
  <2>1. 0 \in 0 .. 1 /\ 1 \in 0 .. 1 /\ 1 \in 1 .. 16 /\ 0 \in 0 .. 1 - 1 /\ 0 + 1 = 1
    OBVIOUS
  <2>2. PICK a \in Nat, b \in Nat : a = Sum4(w, 0) /\ b = Sum4(w, 1)
    BY <1>5, <2>1
  <2>3. f4[0] = a % 2 /\ f4[0 + 1] = b % 2
    BY <1>5, <2>1, <2>2
  <2>4. Fold(f4, 1)[0] = (a + b) % 2
    BY <2>1, <2>3, Fold1
  <2> QED
    BY <2>2, <2>4 DEF Sum5
<1> QED
  BY <1>1, <1>6 DEF Parity

\* The ones of the next eight places.
LEMMA EightMore ==
  ASSUME NEW f, NEW n \in Int, -1 <= n, \A u \in n + 1 .. n + 8 : f[u] \in {0, 1}
  PROVE  Ones(f, 0, n + 8) = Ones(f, 0, n) + Ones(f, n + 1, n + 8)
<1>1. PICK a \in Nat, b \in Nat : a = 0 /\ b = n + 1
  OBVIOUS
<1>2. a - 1 <= n /\ b - 1 = n /\ b - 1 <= n
  BY <1>1
<1>3. PICK sum : sum = f[n + 1] + f[n + 2] + f[n + 3] + f[n + 4]
                       + f[n + 5] + f[n + 6] + f[n + 7] + f[n + 8]
  OBVIOUS
<1>4. /\ f[n + 1] \in {0, 1} /\ f[n + 2] \in {0, 1} /\ f[n + 3] \in {0, 1} /\ f[n + 4] \in {0, 1}
      /\ f[n + 5] \in {0, 1} /\ f[n + 6] \in {0, 1} /\ f[n + 7] \in {0, 1} /\ f[n + 8] \in {0, 1}
  OBVIOUS
<1>5. sum \in Nat
  BY <1>3, <1>4
<1>6. Ones(f, b, n) = 0 /\ Ones(f, a, n) \in Nat
  BY <1>2, <1>4, OnesStep
<1>7. Ones(f, a, n + 8) = Ones(f, a, n) + sum /\ Ones(f, b, n + 8) = Ones(f, b, n) + sum
  <2>1. Ones(f, a, n + 8) = Ones(f, a, n) + f[n + 1] + f[n + 2] + f[n + 3] + f[n + 4]
                                          + f[n + 5] + f[n + 6] + f[n + 7] + f[n + 8]
    BY <1>2, OnesOfEight
  <2>2. Ones(f, b, n + 8) = Ones(f, b, n) + f[n + 1] + f[n + 2] + f[n + 3] + f[n + 4]
                                          + f[n + 5] + f[n + 6] + f[n + 7] + f[n + 8]
    BY <1>2, OnesOfEight
  <2> QED
    BY <1>3, <1>4, <1>6, <2>1, <2>2
<1>8. Ones(f, b, n + 8) = sum
  BY <1>5, <1>6, <1>7
<1> QED
  BY <1>1, <1>7, <1>8

\* The ones in the first k places of each byte of a word.
InBytes(w, k) ==
  Ones(w, 0, k - 1) + Ones(w, 8, k + 7) + Ones(w, 16, k + 15) + Ones(w, 24, k + 23)

\* One place more of each byte.
LEMMA NextColumn ==
  ASSUME NEW w \in AnyWord, NEW k \in 0 .. 7
  PROVE  /\ InBytes(w, 0) = 0 /\ InBytes(w, k) \in Nat /\ Sum2(w, k) \in Nat
         /\ InBytes(w, k + 1) = InBytes(w, k) + Sum2(w, k)
<1>1. ASSUME NEW a \in {0, 8, 16, 24}
      PROVE  /\ Ones(w, a, a - 1) = 0 /\ Ones(w, a, k + (a - 1)) \in Nat /\ w[k + a] \in {0, 1}
             /\ Ones(w, a, (k + 1) + (a - 1)) = Ones(w, a, k + (a - 1)) + w[k + a]
  <2>1. PICK n \in Int : n = k + (a - 1)
    OBVIOUS
  <2>2. a \in Nat /\ a - 1 <= n /\ n + 1 = k + a /\ n + 1 = (k + 1) + (a - 1) /\ k + a \in Bits32
    BY <2>1 DEF Bits32
  <2>3. w[n + 1] \in {0, 1}
    BY <2>2 DEF AnyWord
  <2> QED
    BY <2>1, <2>2, <2>3, OnesStep
<1>2. /\ Ones(w, 0, k - 1) \in Nat /\ w[k] \in {0, 1} /\ Ones(w, 0, -1) = 0
      /\ Ones(w, 0, (k + 1) - 1) = Ones(w, 0, k - 1) + w[k]
  <2>1. PICK a \in {0, 8, 16, 24} : a = 0
    OBVIOUS
  <2>2. k + (a - 1) = k - 1 /\ (k + 1) + (a - 1) = (k + 1) - 1 /\ k + a = k /\ a - 1 = -1
    BY <2>1
  <2> QED
    BY <1>1, <2>1, <2>2
<1>3. /\ Ones(w, 8, k + 7) \in Nat /\ w[k + 8] \in {0, 1} /\ Ones(w, 8, 7) = 0
      /\ Ones(w, 8, (k + 1) + 7) = Ones(w, 8, k + 7) + w[k + 8]
  BY <1>1
<1>4. /\ Ones(w, 16, k + 15) \in Nat /\ w[k + 16] \in {0, 1} /\ Ones(w, 16, 15) = 0
      /\ Ones(w, 16, (k + 1) + 15) = Ones(w, 16, k + 15) + w[k + 16]
  BY <1>1
<1>5. /\ Ones(w, 24, k + 23) \in Nat /\ w[k + 24] \in {0, 1} /\ Ones(w, 24, 23) = 0
      /\ Ones(w, 24, (k + 1) + 23) = Ones(w, 24, k + 23) + w[k + 24]
  BY <1>1
<1>6. Sum2(w, k) = (w[k] + w[k + 16]) + (w[k + 8] + w[k + 24])
  <2>1. (k + 8) + 16 = k + 24
    OBVIOUS
  <2> QED
    BY <2>1 DEF Sum1, Sum2
<1>7. InBytes(w, 0) = 0
  <2>1. 0 - 1 = -1 /\ 0 + 7 = 7 /\ 0 + 15 = 15 /\ 0 + 23 = 23
    OBVIOUS
  <2> QED
    BY <1>2, <1>3, <1>4, <1>5, <2>1 DEF InBytes
<1>8. InBytes(w, k) \in Nat /\ Sum2(w, k) \in Nat
  BY <1>2, <1>3, <1>4, <1>5, <1>6 DEF InBytes
<1>9. InBytes(w, k + 1) = InBytes(w, k) + Sum2(w, k)
  <2>1. PICK a \in Nat, b \in Nat, c \in Nat, d \in Nat :
          /\ a = Ones(w, 0, k - 1) /\ b = Ones(w, 8, k + 7)
          /\ c = Ones(w, 16, k + 15) /\ d = Ones(w, 24, k + 23)
    BY <1>2, <1>3, <1>4, <1>5
  <2>2. PICK p \in Nat, q \in Nat, r \in Nat, t \in Nat :
          p = w[k] /\ q = w[k + 8] /\ r = w[k + 16] /\ t = w[k + 24]
    BY <1>2, <1>3, <1>4, <1>5
  <2>3. InBytes(w, k) = a + b + c + d
    BY <2>1 DEF InBytes
  <2>4. InBytes(w, k + 1) = (a + p) + (b + q) + (c + r) + (d + t)
    BY <1>2, <1>3, <1>4, <1>5, <2>1, <2>2 DEF InBytes
  <2>5. Sum2(w, k) = (p + r) + (q + t)
    BY <1>6, <2>2
  <2> QED
    BY <2>3, <2>4, <2>5
<1> QED
  BY <1>7, <1>8, <1>9

\* The sum is the number of ones, so that the word has even parity when it is even.
LEMMA SumIsOnes ==
  ASSUME NEW w \in AnyWord
  PROVE  Sum5(w) = Ones(w, 0, 31)
<1>1. \A i \in 0 .. 31 : w[i] \in {0, 1}
  BY DEF AnyWord, Bits32
<1>2. Sum5(w) = InBytes(w, 8)
  <2>1. \A k \in 0 .. 7 : Sum2(w, k) \in Nat /\ InBytes(w, k) \in Nat
    BY NextColumn
  <2>2. InBytes(w, 0) = 0 /\ InBytes(w, 1) = InBytes(w, 0) + Sum2(w, 0)
    BY NextColumn
  <2>3. InBytes(w, 2) = InBytes(w, 1) + Sum2(w, 1) /\ InBytes(w, 3) = InBytes(w, 2) + Sum2(w, 2)
    BY NextColumn
  <2>4. InBytes(w, 4) = InBytes(w, 3) + Sum2(w, 3) /\ InBytes(w, 5) = InBytes(w, 4) + Sum2(w, 4)
    BY NextColumn
  <2>5. InBytes(w, 6) = InBytes(w, 5) + Sum2(w, 5) /\ InBytes(w, 7) = InBytes(w, 6) + Sum2(w, 6)
    BY NextColumn
  <2>6. InBytes(w, 8) = InBytes(w, 7) + Sum2(w, 7)
    BY NextColumn
  <2>7. Sum5(w) = ((Sum2(w, 0) + Sum2(w, 4)) + (Sum2(w, 2) + Sum2(w, 6)))
                  + ((Sum2(w, 1) + Sum2(w, 5)) + (Sum2(w, 3) + Sum2(w, 7)))
    BY DEF Sum3, Sum4, Sum5
  <2> QED
    BY <2>1, <2>2, <2>3, <2>4, <2>5, <2>6, <2>7
<1>3. Ones(w, 0, 31) = InBytes(w, 8)
  <2>1. Ones(w, 0, 15) = Ones(w, 0, 7) + Ones(w, 8, 15)
    BY <1>1, EightMore
  <2>2. Ones(w, 0, 23) = Ones(w, 0, 15) + Ones(w, 16, 23)
    BY <1>1, EightMore
  <2>3. Ones(w, 0, 31) = Ones(w, 0, 23) + Ones(w, 24, 31)
    BY <1>1, EightMore
  <2>4. InBytes(w, 8) = Ones(w, 0, 7) + Ones(w, 8, 15) + Ones(w, 16, 23) + Ones(w, 24, 31)
    BY DEF InBytes
  <2> QED
    BY <2>1, <2>2, <2>3, <2>4
<1> QED
  BY <1>2, <1>3

\* The depths and rates of the streams.
LEMMA StreamFields ==
  ASSUME NEW stream \in Streams
  PROVE  /\ stream.bit_depth \in {16, 24, 32}
         /\ stream.rate \in {44100, 48000, 88200, 96000, 192000}
<1>1. CASE stream \in PcmStreams
  BY <1>1 DEF PcmStreams
<1>2. CASE stream \in NonPcmStreams
  BY <1>2 DEF NonPcmStreams
<1> QED
  BY <1>1, <1>2 DEF Streams

\* The payload: the sample left-justified in slots 4 to 27, V, U, C and even parity.
LEMMA Payloads ==
  ASSUME NEW stream \in Streams, NEW sample \in AnyWord, NEW c \in {0, 1}
  PROVE  LET payload == Payload(stream, sample, c)
             From == stream.bit_depth - 24
         IN  /\ payload \in AnyWord
             /\ \A i \in 0 .. 3 : payload[i] = 0
             /\ \A i \in 0 .. 23 : payload[4 + i] = IF From + i < 0 THEN 0 ELSE sample[From + i]
             /\ payload[28] = IF stream.non_pcm THEN 1 ELSE 0
             /\ payload[29] = 0 /\ payload[30] = c
             /\ Ones(payload, 0, 31) % 2 = 0
<1> DEFINE aligned == Aligned(stream, sample)
           body == [i \in Bits32 |-> CASE i \in 4 .. 27 -> aligned[i - 4]
                                       [] i = 28 -> IF stream.non_pcm THEN 1 ELSE 0
                                       [] i = 30 -> c
                                       [] OTHER -> 0]
           payload == Payload(stream, sample, c)
<1>1. stream.bit_depth \in {16, 24, 32}
  BY StreamFields
<1>2. ASSUME NEW i \in 0 .. 23
      PROVE  /\ aligned[i] = IF stream.bit_depth - 24 + i < 0 THEN 0
                             ELSE sample[stream.bit_depth - 24 + i]
             /\ aligned[i] \in {0, 1}
  <2>1. CASE stream.bit_depth = 16
    <3>1. aligned = ShiftLeft(sample, 8)
      BY <2>1 DEF Aligned
    <3> HIDE DEF aligned
    <3>2. aligned[i] = IF i < 8 THEN 0 ELSE sample[i - 8]
      BY <3>1 DEF ShiftLeft, Bits32
    <3>3. ~(i < 8) => i - 8 \in 0 .. 31
      OBVIOUS
    <3> QED
      BY <2>1, <3>2, <3>3 DEF AnyWord, Bits32
  <2>2. CASE stream.bit_depth = 24
    <3>1. aligned = sample
      BY <2>2 DEF Aligned
    <3> HIDE DEF aligned
    <3> QED
      BY <2>2, <3>1 DEF AnyWord, Bits32
  <2>3. CASE stream.bit_depth = 32
    <3>1. aligned = ShiftRight(sample, 8)
      BY <2>3 DEF Aligned
    <3> HIDE DEF aligned
    <3>2. aligned[i] = sample[i + 8]
      BY <3>1 DEF ShiftRight, Bits32
    <3>3. i + 8 \in 0 .. 31
      OBVIOUS
    <3> QED
      BY <2>3, <3>2, <3>3 DEF AnyWord, Bits32
  <2> QED
    BY <1>1, <2>1, <2>2, <2>3
<1> HIDE DEF aligned
<1>3. /\ \A i \in 0 .. 3 : body[i] = 0
      /\ \A i \in 0 .. 23 : body[4 + i] = aligned[i]
      /\ body[28] = IF stream.non_pcm THEN 1 ELSE 0
      /\ body[29] = 0 /\ body[30] = c /\ body[31] = 0
  BY DEF Bits32
<1>4. body \in AnyWord
  <2>1. ASSUME NEW i \in Bits32 PROVE body[i] \in {0, 1}
    <3>1. i \in 0 .. 3 \/ i \in 4 .. 27 \/ i \in {28, 29, 30, 31}
      BY DEF Bits32
    <3>2. CASE i \in 4 .. 27
      <4>1. PICK k \in 0 .. 23 : i = 4 + k
        BY <3>2
      <4> QED
        BY <1>2, <1>3, <4>1
    <3> HIDE DEF body
    <3>3. CASE i \in 0 .. 3
      BY <1>3, <3>3
    <3>4. CASE i \in {28, 29, 30, 31}
      BY <1>3, <3>4
    <3> QED
      BY <3>1, <3>2, <3>3, <3>4
  <2>2. body = [i \in Bits32 |-> body[i]]
    OBVIOUS
  <2> HIDE DEF body
  <2> QED
    BY <2>1, <2>2 DEF AnyWord
<1>5. payload = [body EXCEPT ![31] = Parity(body)]
  BY DEF Payload, aligned
<1> HIDE DEF body, payload
<1>6. PICK p \in {0, 1} : p = Parity(body)
  BY <1>4, ParityIsSum
<1>7. /\ payload \in AnyWord /\ payload[31] = p
      /\ \A i \in 0 .. 30 : payload[i] = body[i]
  BY <1>4, <1>5, <1>6 DEF AnyWord, Bits32
<1>8. \A i \in 0 .. 3 : payload[i] = 0 /\ body[i] = 0
  BY <1>3, <1>7
<1>9. Sum5(payload) = Sum5(body) + p
  <2>1. \A i \in 0 .. 31 : body[i] \in Nat
    BY <1>4 DEF AnyWord, Bits32
  <2>2. \A i \in 0 .. 30 : payload[i] = body[i]
    BY <1>7
  <2> QED
    BY <1>3, <1>6, <1>7, <2>1, <2>2 DEF Sum1, Sum2, Sum3, Sum4, Sum5
<1>10. Sum5(payload) % 2 = 0
  BY <1>4, <1>6, <1>9, ParityIsSum
<1>11. Ones(payload, 0, 31) % 2 = 0
  BY <1>7, <1>8, <1>10, SumIsOnes
<1>12. \A i \in 0 .. 23 : payload[4 + i] = aligned[i]
  BY <1>3, <1>7
<1> QED
  BY <1>2, <1>3, <1>7, <1>8, <1>11, <1>12 DEF payload

-------------------------------------------------------------------------------
(* The words spdif_encode_block emits, cell by cell.                       *)

\* Where the bits of the payload lie on the line: the middle of each cell.
LEMMA Cells ==
  ASSUME NEW frame, NEW channel, NEW payload \in AnyWord, NEW line,
         line = [t \in 0 .. 63 |-> Words(frame, channel, payload)[t \div 32][t % 32]]
  PROVE  /\ \A t \in 0 .. 7 : line[t] = BitOf(Preamble(frame, channel), t)
         /\ \A slot \in 4 .. 31 : line[2 * slot] = 1 /\ line[2 * slot + 1] = payload[slot]
<1> DEFINE words == Words(frame, channel, payload)
<1>1. /\ \A i \in Bits32 : words[0][i] = CASE i < 8       -> BitOf(Preamble(frame, channel), i)
                                            [] i \in 8 .. 23 -> bmc(Field(payload, 4, 8))[i - 8]
                                            [] OTHER       -> bmc(Field(payload, 12, 4))[i - 24]
      /\ \A i \in Bits32 : words[1][i] = IF i < 16 THEN bmc(Field(payload, 16, 8))[i]
                                         ELSE bmc(Field(payload, 24, 8))[i - 16]
  BY DEF Words
<1>2. \A t \in 0 .. 63 : line[t] = words[t \div 32][t % 32]
  OBVIOUS
<1> HIDE DEF words
<1>3. ASSUME NEW from \in {4, 12, 16, 24}, NEW count \in {4, 8}, from + count <= 32,
             NEW k \in 0 .. count - 1
      PROVE  /\ bmc(Field(payload, from, count))[2 * k] = 1
             /\ bmc(Field(payload, from, count))[2 * k + 1] = payload[from + k]
  <2>1. /\ 2 * k \in 0 .. 15 /\ 2 * k + 1 \in 0 .. 15 /\ (2 * k) % 2 = 0 /\ (2 * k + 1) % 2 = 1
        /\ (2 * k + 1) \div 2 = k /\ k \in 0 .. 7 /\ k < count
    OBVIOUS
  <2>2. Field(payload, from, count)[k] = payload[from + k]
    BY <2>1 DEF Field
  <2> QED
    BY <2>1, <2>2 DEF bmc
<1>4. ASSUME NEW t \in 0 .. 7 PROVE line[t] = BitOf(Preamble(frame, channel), t)
  <2>1. t \in 0 .. 63 /\ t \div 32 = 0 /\ t % 32 = t /\ t \in Bits32 /\ t < 8
    BY DEF Bits32
  <2>2. words[0][t] = BitOf(Preamble(frame, channel), t)
    BY <1>1, <2>1
  <2> QED
    BY <1>2, <2>1, <2>2
<1>5. ASSUME NEW slot \in 4 .. 31
      PROVE  line[2 * slot] = 1 /\ line[2 * slot + 1] = payload[slot]
  <2>1. PICK t \in 0 .. 62 : t = 2 * slot
    OBVIOUS
  <2>2. line[t] = words[t \div 32][t % 32] /\ line[t + 1] = words[(t + 1) \div 32][(t + 1) % 32]
    BY <1>2
  <2>3. CASE slot \in 4 .. 11
    <3>1. PICK k \in 0 .. 7 : slot = 4 + k
      BY <2>3
    <3>2. /\ t = 8 + 2 * k /\ t \div 32 = 0 /\ t % 32 = t /\ (t + 1) \div 32 = 0 /\ (t + 1) % 32 = t + 1
          /\ t \in 8 .. 23 /\ t + 1 \in 8 .. 23 /\ t - 8 = 2 * k /\ (t + 1) - 8 = 2 * k + 1
      BY <2>1, <3>1
    <3>3. words[0][t] = bmc(Field(payload, 4, 8))[2 * k]
      BY <1>1, <3>2 DEF Bits32
    <3>4. words[0][t + 1] = bmc(Field(payload, 4, 8))[2 * k + 1]
      BY <1>1, <3>2 DEF Bits32
    <3> QED
      BY <1>3, <2>1, <2>2, <3>1, <3>2, <3>3, <3>4
  <2>4. CASE slot \in 12 .. 15
    <3>1. PICK k \in 0 .. 3 : slot = 12 + k
      BY <2>4
    <3>2. /\ t = 24 + 2 * k /\ t \div 32 = 0 /\ t % 32 = t /\ (t + 1) \div 32 = 0 /\ (t + 1) % 32 = t + 1
          /\ t \in 24 .. 31 /\ t + 1 \in 24 .. 31 /\ t - 24 = 2 * k /\ (t + 1) - 24 = 2 * k + 1
      BY <2>1, <3>1
    <3>3. words[0][t] = bmc(Field(payload, 12, 4))[2 * k]
      BY <1>1, <3>2 DEF Bits32
    <3>4. words[0][t + 1] = bmc(Field(payload, 12, 4))[2 * k + 1]
      BY <1>1, <3>2 DEF Bits32
    <3> QED
      BY <1>3, <2>1, <2>2, <3>1, <3>2, <3>3, <3>4
  <2>5. CASE slot \in 16 .. 23
    <3>1. PICK k \in 0 .. 7 : slot = 16 + k
      BY <2>5
    <3>2. /\ t = 32 + 2 * k /\ t \div 32 = 1 /\ t % 32 = 2 * k
          /\ (t + 1) \div 32 = 1 /\ (t + 1) % 32 = 2 * k + 1
          /\ 2 * k \in 0 .. 15 /\ 2 * k + 1 \in 0 .. 15
      BY <2>1, <3>1
    <3>3. words[1][2 * k] = bmc(Field(payload, 16, 8))[2 * k]
      BY <1>1, <3>2 DEF Bits32
    <3>4. words[1][2 * k + 1] = bmc(Field(payload, 16, 8))[2 * k + 1]
      BY <1>1, <3>2 DEF Bits32
    <3> QED
      BY <1>3, <2>1, <2>2, <3>1, <3>2, <3>3, <3>4
  <2>6. CASE slot \in 24 .. 31
    <3>1. PICK k \in 0 .. 7 : slot = 24 + k
      BY <2>6
    <3>2. /\ t = 48 + 2 * k /\ t \div 32 = 1 /\ t % 32 = 16 + 2 * k
          /\ (t + 1) \div 32 = 1 /\ (t + 1) % 32 = 16 + (2 * k + 1)
          /\ 2 * k \in 0 .. 15 /\ 2 * k + 1 \in 0 .. 15
      BY <2>1, <3>1
    <3>3. words[1][16 + 2 * k] = bmc(Field(payload, 24, 8))[2 * k]
      BY <1>1, <3>2 DEF Bits32
    <3>4. words[1][16 + (2 * k + 1)] = bmc(Field(payload, 24, 8))[2 * k + 1]
      BY <1>1, <3>2 DEF Bits32
    <3> QED
      BY <1>3, <2>1, <2>2, <3>1, <3>2, <3>3, <3>4
  <2> QED
    BY <2>3, <2>4, <2>5, <2>6
<1> QED
  BY <1>4, <1>5

\* The preambles, one change of level after another.
LEMMA PreambleBits ==
  /\ \A t \in 0 .. 7 : BitOf(57, t) = IF t \in {0, 3, 4, 5} THEN 1 ELSE 0
  /\ \A t \in 0 .. 7 : BitOf(105, t) = IF t \in {0, 3, 5, 6} THEN 1 ELSE 0
  /\ \A t \in 0 .. 7 : BitOf(201, t) = IF t \in {0, 3, 6, 7} THEN 1 ELSE 0
<1>1. /\ 2^0 = 1 /\ 2^1 = 2 /\ 2^2 = 4 /\ 2^3 = 8 /\ 2^4 = 16 /\ 2^5 = 32 /\ 2^6 = 64 /\ 2^7 = 128
  OBVIOUS
<1> QED
  BY <1>1 DEF BitOf

-------------------------------------------------------------------------------
(* What a receiver gets of a subframe.                                     *)

\* The eight low bits of a number.
LEMMA LowBits ==
  \A n \in Nat : /\ BitOf(n, 0) = n % 2 /\ BitOf(n, 1) = (n \div 2) % 2
                 /\ BitOf(n, 2) = (n \div 4) % 2 /\ BitOf(n, 3) = (n \div 8) % 2
                 /\ BitOf(n, 4) = (n \div 16) % 2 /\ BitOf(n, 5) = (n \div 32) % 2
                 /\ BitOf(n, 6) = (n \div 64) % 2 /\ BitOf(n, 7) = (n \div 128) % 2
<1>1. /\ 2^0 = 1 /\ 2^1 = 2 /\ 2^2 = 4 /\ 2^3 = 8 /\ 2^4 = 16 /\ 2^5 = 32 /\ 2^6 = 64 /\ 2^7 = 128
  OBVIOUS
<1>2. \A n \in Nat : n \div 1 = n
  OBVIOUS
<1> QED
  BY <1>1, <1>2 DEF BitOf

\* The bits of the values a status byte takes.
LEMMA ByteBits ==
  \A i \in 0 .. 7 : /\ BitOf(0, i) = 0
                    /\ BitOf(4, i) = IF i = 2 THEN 1 ELSE 0
                    /\ BitOf(6, i) = IF i \in {1, 2} THEN 1 ELSE 0
                    /\ BitOf(2, i) = IF i = 1 THEN 1 ELSE 0
                    /\ BitOf(11, i) = IF i \in {0, 1, 3} THEN 1 ELSE 0
                    /\ BitOf(8, i) = IF i = 3 THEN 1 ELSE 0
                    /\ BitOf(10, i) = IF i \in {1, 3} THEN 1 ELSE 0
                    /\ BitOf(14, i) = IF i \in {1, 2, 3} THEN 1 ELSE 0
<1>1. \A i \in 0 .. 7 : BitOf(0, i) = 0
  BY LowBits
<1>2. \A i \in 0 .. 7 : BitOf(4, i) = IF i = 2 THEN 1 ELSE 0
  BY LowBits
<1>3. \A i \in 0 .. 7 : BitOf(6, i) = IF i \in {1, 2} THEN 1 ELSE 0
  BY LowBits
<1>4. \A i \in 0 .. 7 : BitOf(2, i) = IF i = 1 THEN 1 ELSE 0
  BY LowBits
<1>5. \A i \in 0 .. 7 : BitOf(11, i) = IF i \in {0, 1, 3} THEN 1 ELSE 0
  BY LowBits
<1>6. \A i \in 0 .. 7 : BitOf(8, i) = IF i = 3 THEN 1 ELSE 0
  BY LowBits
<1>7. \A i \in 0 .. 7 : BitOf(10, i) = IF i \in {1, 3} THEN 1 ELSE 0
  BY LowBits
<1>8. \A i \in 0 .. 7 : BitOf(14, i) = IF i \in {1, 2, 3} THEN 1 ELSE 0
  BY LowBits
<1> QED
  BY <1>1, <1>2, <1>3, <1>4, <1>5, <1>6, <1>7, <1>8

\* The status bit of every frame of a block.
LEMMA StatusBits ==
  ASSUME NEW stream \in Streams, NEW frame \in AllFrames
  PROVE  /\ StatusBit(stream, frame) \in {0, 1}
         /\ StatusBit(stream, 0) = 0 /\ StatusBit(stream, 2) = 1
         /\ StatusBit(stream, 1) = IF stream.non_pcm THEN 1 ELSE 0
         /\ \A i \in 0 .. 3 :
              /\ StatusBit(stream, 24 + i) = BitOf(frequency_code(stream.rate), i)
              /\ StatusBit(stream, 32 + i) = IF stream.bit_depth = 16 THEN IF i = 1 THEN 1 ELSE 0
                                             ELSE IF i = 2 THEN 0 ELSE 1
         /\ frame \notin {0, 1, 2} \cup 24 .. 27 \cup 32 .. 35 => StatusBit(stream, frame) = 0
<1>1. PICK kind \in {4, 6}, code \in {0, 2, 8, 10, 14}, length \in {2, 11} :
        /\ kind = IF stream.non_pcm THEN 6 ELSE 4
        /\ code = frequency_code(stream.rate)
        /\ length = IF stream.bit_depth = 16 THEN 2 ELSE 11
  BY StreamFields DEF frequency_code
<1>2. PICK status : status = Status(stream)
  OBVIOUS
<1>3. \A byte \in 0 .. 23 : status[byte] = CASE byte = 0 -> kind
                                             [] byte = 3 -> code
                                             [] byte = 4 -> length
                                             [] OTHER -> 0
  BY <1>1, <1>2 DEF Status
<1>4. ASSUME NEW byte \in 0 .. 23, NEW i \in 0 .. 7
      PROVE  StatusBit(stream, 8 * byte + i) = BitOf(status[byte], i)
  <2>1. (8 * byte + i) \div 8 = byte /\ (8 * byte + i) % 8 = i
    OBVIOUS
  <2> QED
    BY <1>2, <2>1 DEF StatusBit
<1>5. ASSUME NEW i \in 0 .. 7
      PROVE  /\ BitOf(0, i) = 0
             /\ BitOf(4, i) = IF i = 2 THEN 1 ELSE 0
             /\ BitOf(6, i) = IF i \in {1, 2} THEN 1 ELSE 0
             /\ BitOf(2, i) = IF i = 1 THEN 1 ELSE 0
             /\ BitOf(11, i) = IF i \in {0, 1, 3} THEN 1 ELSE 0
             /\ BitOf(8, i) = IF i = 3 THEN 1 ELSE 0
             /\ BitOf(10, i) = IF i \in {1, 3} THEN 1 ELSE 0
             /\ BitOf(14, i) = IF i \in {1, 2, 3} THEN 1 ELSE 0
  BY ByteBits
<1>6. status[0] = kind /\ status[3] = code /\ status[4] = length
      /\ \A byte \in 0 .. 23 : byte \notin {0, 3, 4} => status[byte] = 0
  BY <1>3
<1>7. ASSUME NEW byte \in 0 .. 23, NEW i \in 0 .. 7
      PROVE  /\ StatusBit(stream, 8 * byte + i) \in {0, 1}
             /\ byte \notin {0, 3, 4} => StatusBit(stream, 8 * byte + i) = 0
             /\ byte = 0 => StatusBit(stream, i) = IF i = 2 \/ (i = 1 /\ kind = 6) THEN 1 ELSE 0
             /\ byte \in {3, 4} /\ i > 3 => StatusBit(stream, 8 * byte + i) = 0
             /\ byte = 4 => StatusBit(stream, 32 + i) = BitOf(length, i)
             /\ byte = 3 => StatusBit(stream, 24 + i) = BitOf(code, i)
  <2>1. CASE byte = 0
    <3>1. 8 * byte + i = i
      BY <2>1
    <3> QED
      BY <1>4, <1>5, <1>6, <2>1, <3>1
  <2>2. CASE byte = 3
    <3>1. 8 * byte + i = 24 + i
      BY <2>2
    <3> QED
      BY <1>4, <1>5, <1>6, <2>2, <3>1
  <2>3. CASE byte = 4
    <3>1. 8 * byte + i = 32 + i
      BY <2>3
    <3> QED
      BY <1>4, <1>5, <1>6, <2>3, <3>1
  <2>4. CASE byte \notin {0, 3, 4}
    BY <1>4, <1>5, <1>6, <2>4
  <2> QED
    BY <2>1, <2>2, <2>3, <2>4
<1>8. PICK byte \in 0 .. 23, i \in 0 .. 7 : frame = 8 * byte + i
  <2>1. frame \div 8 \in 0 .. 23 /\ frame % 8 \in 0 .. 7 /\ frame = 8 * (frame \div 8) + (frame % 8)
    BY DEF AllFrames, SPDIF_BLOCK_FRAMES
  <2> QED
    BY <2>1
<1>9. StatusBit(stream, frame) \in {0, 1}
  BY <1>7, <1>8
<1>10. /\ StatusBit(stream, 0) = 0 /\ StatusBit(stream, 2) = 1
       /\ StatusBit(stream, 1) = IF stream.non_pcm THEN 1 ELSE 0
  BY <1>1, <1>7
<1>11. ASSUME NEW k \in 0 .. 3
       PROVE  /\ StatusBit(stream, 24 + k) = BitOf(frequency_code(stream.rate), k)
              /\ StatusBit(stream, 32 + k) = IF stream.bit_depth = 16 THEN IF k = 1 THEN 1 ELSE 0
                                             ELSE IF k = 2 THEN 0 ELSE 1
  <2>1. StatusBit(stream, 24 + k) = BitOf(code, k) /\ StatusBit(stream, 32 + k) = BitOf(length, k)
    BY <1>7
  <2>2. BitOf(length, k) = IF length = 2 THEN IF k = 1 THEN 1 ELSE 0
                           ELSE IF k = 2 THEN 0 ELSE 1
    BY <1>5
  <2> QED
    BY <1>1, <2>1, <2>2
<1>12. ASSUME frame \notin {0, 1, 2} \cup 24 .. 27 \cup 32 .. 35
       PROVE  StatusBit(stream, frame) = 0
  <2>1. CASE byte = 0
    <3>1. frame = i /\ i # 1 /\ i # 2
      BY <1>8, <1>12, <2>1
    <3> QED
      BY <1>7, <2>1, <3>1
  <2>2. CASE byte \in {3, 4}
    <3>1. i > 3
      BY <1>8, <1>12, <2>2
    <3> QED
      BY <1>7, <1>8, <2>2, <3>1
  <2>3. CASE byte \notin {0, 3, 4}
    BY <1>7, <1>8, <2>3
  <2> QED
    BY <2>1, <2>2, <2>3
<1> QED
  BY <1>9, <1>10, <1>11, <1>12

\* What a subframe puts on the line, and what the receiver reads from it.
LEMMA Lines ==
  ASSUME NEW stream \in Streams, NEW frame \in AllFrames, NEW channel \in Channels,
         NEW sample \in AnyWord, NEW line, line = Subframe(stream, frame, channel, sample),
         NEW payload, payload = Payload(stream, sample, StatusBit(stream, frame))
  PROVE  /\ payload \in AnyWord /\ \A t \in 0 .. 63 : line[t] \in {0, 1}
         /\ \A t \in 0 .. 7 : line[t] = BitOf(Preamble(frame, channel), t)
         /\ \A slot \in 4 .. 31 : line[2 * slot] = 1 /\ line[2 * slot + 1] = payload[slot]
         /\ Decoded(line) \in [4 .. 31 -> {0, 1}]
         /\ \A slot \in 4 .. 31 : Decoded(line)[slot] = payload[slot]
<1>1. payload \in AnyWord
  BY StatusBits, Payloads
<1>2. line = [t \in 0 .. 63 |-> Words(frame, channel, payload)[t \div 32][t % 32]]
  BY DEF Subframe
<1>3. /\ \A t \in 0 .. 7 : line[t] = BitOf(Preamble(frame, channel), t)
      /\ \A slot \in 4 .. 31 : line[2 * slot] = 1 /\ line[2 * slot + 1] = payload[slot]
  BY <1>1, <1>2, Cells
<1>4. Preamble(frame, channel) \in {57, 105, 201}
  BY DEF Preamble
<1>5. ASSUME NEW t \in 0 .. 63 PROVE line[t] \in {0, 1}
  <2>1. CASE t \in 0 .. 7
    BY <1>3, <1>4, <2>1, PreambleBits
  <2>2. CASE t \in 8 .. 63
    <3>1. PICK slot \in 4 .. 31 : t = 2 * slot \/ t = 2 * slot + 1
      <4>1. t \div 2 \in 4 .. 31 /\ (t = 2 * (t \div 2) \/ t = 2 * (t \div 2) + 1)
        BY <2>2
      <4> QED
        BY <4>1
    <3> QED
      BY <1>1, <1>3, <3>1 DEF AnyWord, Bits32
  <2> QED
    BY <2>1, <2>2
<1>6. \A slot \in 4 .. 31 : Decoded(line)[slot] = payload[slot] /\ payload[slot] \in {0, 1}
  BY <1>1, <1>3, <1>5, DecodedCell DEF AnyWord, Bits32
<1>7. Decoded(line) \in [4 .. 31 -> {0, 1}]
  BY DEF Decoded
<1> QED
  BY <1>1, <1>3, <1>5, <1>6, <1>7

\* Whatever word the program plays, at every place of a block and on both channels, the
\* receiver gets the bits of the sample back, left-justified in 24 bits, with V, U, C and
\* even parity (spdif_encode_block).
THEOREM EverySampleArrives ==
  \A stream \in Streams, frame \in AllFrames, channel \in Channels, sample \in AnyWord :
    /\ SampleArrives(stream, frame, channel, sample)
    /\ Decoded(Subframe(stream, frame, channel, sample))[30] = StatusBit(stream, frame)
<1> SUFFICES ASSUME NEW stream \in Streams, NEW frame \in AllFrames, NEW channel \in Channels,
                    NEW sample \in AnyWord
             PROVE  /\ SampleArrives(stream, frame, channel, sample)
                    /\ Decoded(Subframe(stream, frame, channel, sample))[30]
                       = StatusBit(stream, frame)
  OBVIOUS
<1>1. PICK line, payload : /\ line = Subframe(stream, frame, channel, sample)
                           /\ payload = Payload(stream, sample, StatusBit(stream, frame))
  OBVIOUS
<1>2. /\ payload \in AnyWord
      /\ \A slot \in 4 .. 31 : Decoded(line)[slot] = payload[slot]
  BY <1>1, Lines
<1>3. StatusBit(stream, frame) \in {0, 1}
  BY StatusBits
<1>4. /\ \A i \in 0 .. 3 : payload[i] = 0
      /\ \A i \in 0 .. 23 : payload[4 + i] = IF stream.bit_depth - 24 + i < 0 THEN 0
                                             ELSE sample[stream.bit_depth - 24 + i]
      /\ payload[28] = IF stream.non_pcm THEN 1 ELSE 0
      /\ payload[29] = 0 /\ payload[30] = StatusBit(stream, frame)
      /\ Ones(payload, 0, 31) % 2 = 0
  BY <1>1, <1>3, Payloads
<1>5. {slot \in 4 .. 31 : Decoded(line)[slot] = 1} = {u \in 0 .. 31 : payload[u] = 1}
  BY <1>2, <1>4
<1>6. Cardinality({slot \in 4 .. 31 : Decoded(line)[slot] = 1}) % 2 = 0
  BY <1>4, <1>5 DEF Ones
<1>7. \A i \in 0 .. 23 : 4 + i \in 4 .. 31
  OBVIOUS
<1> QED
  BY <1>1, <1>2, <1>4, <1>6, <1>7 DEF SampleArrives

-------------------------------------------------------------------------------
(* How a receiver finds a subframe.                                        *)

\* After each cell the level of the line, the ones sent so far and the number of the cell
\* add up to an odd number.
Balanced(line, payload, slot) ==
  (Level(line, 0, 2 * slot + 1) + Ones(payload, 0, slot) + slot) % 2 = 1

\* A cell keeps the sum odd: its ones are one more than the one it carries.
LEMMA BalancedStep ==
  ASSUME NEW line, \A u \in 0 .. 63 : line[u] \in {0, 1}, NEW payload \in AnyWord,
         NEW slot \in 3 .. 30, Balanced(line, payload, slot),
         line[2 * (slot + 1)] = 1, line[2 * (slot + 1) + 1] = payload[slot + 1]
  PROVE  Balanced(line, payload, slot + 1)
<1>1. PICK t \in 0 .. 61 : t = 2 * slot + 1
  OBVIOUS
<1>2. /\ t \in 0 .. 62 /\ t + 1 \in 0 .. 62 /\ t + 1 = 2 * (slot + 1)
      /\ (t + 1) + 1 = 2 * (slot + 1) + 1
  BY <1>1
<1>3. PICK a \in {0, 1}, p \in {0, 1}, n \in Nat :
        /\ a = Level(line, 0, t) /\ p = payload[slot + 1] /\ n = Ones(payload, 0, slot)
        /\ Ones(payload, 0, slot + 1) = n + p
  <2>1. Level(line, 0, t) \in {0, 1}
    BY <1>2, LevelStep
  <2>2. slot + 1 \in Bits32 /\ slot \in Int /\ -1 <= slot
    BY DEF Bits32
  <2>3. payload[slot + 1] \in {0, 1}
    BY <2>2 DEF AnyWord
  <2>4. Ones(payload, 0, slot) \in Nat
        /\ Ones(payload, 0, slot + 1) = Ones(payload, 0, slot) + payload[slot + 1]
    BY <2>2, <2>3, OnesFromZero
  <2> QED
    BY <2>1, <2>3, <2>4
<1>4. Level(line, 0, t + 1) = (a + 1) % 2
  <2>1. line[t + 1] = 1
    BY <1>2
  <2>2. Level(line, 0, t + 1) = (Level(line, 0, t) + line[t + 1]) % 2
    BY <1>2, LevelStep
  <2> QED
    BY <1>3, <2>1, <2>2
<1>5. Level(line, 0, (t + 1) + 1) = (((a + 1) % 2) + p) % 2
  <2>1. PICK v \in 0 .. 62 : v = t + 1
    BY <1>2
  <2>2. Level(line, 0, v + 1) = (Level(line, 0, v) + line[v + 1]) % 2
    BY LevelStep
  <2>3. line[v + 1] = p
    BY <1>2, <1>3, <2>1
  <2> QED
    BY <1>4, <2>1, <2>2, <2>3
<1>6. (a + n + slot) % 2 = 1
  BY <1>1, <1>3 DEF Balanced
<1>7. (((((a + 1) % 2) + p) % 2) + (n + p) + (slot + 1)) % 2 = 1
  BY <1>6
<1> QED
  BY <1>2, <1>3, <1>5, <1>7 DEF Balanced

\* The levels of a preamble.
LEMMA PreambleLevels ==
  ASSUME NEW line, \A u \in 0 .. 63 : line[u] \in {0, 1}
  PROVE  /\ (\A t \in 0 .. 7 : line[t] = BitOf(57, t)) => IsPreamble("B", line)
         /\ (\A t \in 0 .. 7 : line[t] = BitOf(201, t)) => IsPreamble("M", line)
         /\ (\A t \in 0 .. 7 : line[t] = BitOf(105, t)) => IsPreamble("W", line)
<1> DEFINE level(t) == Level(line, 0, t)
<1>1. /\ level(0) = line[0] /\ level(1) = (level(0) + line[1]) % 2
      /\ level(2) = (level(1) + line[2]) % 2 /\ level(3) = (level(2) + line[3]) % 2
      /\ level(4) = (level(3) + line[4]) % 2 /\ level(5) = (level(4) + line[5]) % 2
      /\ level(6) = (level(5) + line[6]) % 2 /\ level(7) = (level(6) + line[7]) % 2
  <2>1. \A t \in 0 .. 62 : level(0) = line[0] /\ level(t + 1) = (level(t) + line[t + 1]) % 2
    BY LevelStep
  <2> HIDE DEF level
  <2> QED
    BY <2>1
<1>2. \A name : (\A t \in 0 .. 7 : level(t) = Preambles[name][t + 1]) => IsPreamble(name, line)
  <2>1. ASSUME NEW name, \A t \in 0 .. 7 : level(t) = Preambles[name][t + 1],
               NEW u \in 1 .. 8
        PROVE  Level(line, 0, u - 1) = Preambles[name][u]
    <3>1. u - 1 \in 0 .. 7 /\ (u - 1) + 1 = u
      OBVIOUS
    <3> QED
      BY <2>1, <3>1
  <2> QED
    BY <2>1 DEF IsPreamble
<1> HIDE DEF level
<1>3. ASSUME \A t \in 0 .. 7 : line[t] = BitOf(57, t)
      PROVE  IsPreamble("B", line)
  <2>1. \A t \in 0 .. 7 : line[t] = IF t \in {0, 3, 4, 5} THEN 1 ELSE 0
    BY <1>3, PreambleBits
  <2>2. /\ level(0) = 1 /\ level(1) = 1 /\ level(2) = 1 /\ level(3) = 0
        /\ level(4) = 1 /\ level(5) = 0 /\ level(6) = 0 /\ level(7) = 0
    BY <1>1, <2>1
  <2>3. Preambles["B"] = <<1, 1, 1, 0, 1, 0, 0, 0>>
    BY DEF Preambles
  <2> QED
    BY <1>2, <2>2, <2>3
<1>4. ASSUME \A t \in 0 .. 7 : line[t] = BitOf(201, t)
      PROVE  IsPreamble("M", line)
  <2>1. \A t \in 0 .. 7 : line[t] = IF t \in {0, 3, 6, 7} THEN 1 ELSE 0
    BY <1>4, PreambleBits
  <2>2. /\ level(0) = 1 /\ level(1) = 1 /\ level(2) = 1 /\ level(3) = 0
        /\ level(4) = 0 /\ level(5) = 0 /\ level(6) = 1 /\ level(7) = 0
    BY <1>1, <2>1
  <2>3. Preambles["M"] = <<1, 1, 1, 0, 0, 0, 1, 0>>
    BY DEF Preambles
  <2> QED
    BY <1>2, <2>2, <2>3
<1>5. ASSUME \A t \in 0 .. 7 : line[t] = BitOf(105, t)
      PROVE  IsPreamble("W", line)
  <2>1. \A t \in 0 .. 7 : line[t] = IF t \in {0, 3, 5, 6} THEN 1 ELSE 0
    BY <1>5, PreambleBits
  <2>2. /\ level(0) = 1 /\ level(1) = 1 /\ level(2) = 1 /\ level(3) = 0
        /\ level(4) = 0 /\ level(5) = 1 /\ level(6) = 0 /\ level(7) = 0
    BY <1>1, <2>1
  <2>3. Preambles["W"] = <<1, 1, 1, 0, 0, 1, 0, 0>>
    BY DEF Preambles
  <2> QED
    BY <1>2, <2>2, <2>3
<1> QED
  BY <1>3, <1>4, <1>5

\* The level the preambles leave the line at.
LEMMA PreambleEnds ==
  ASSUME NEW name \in {"B", "M", "W"}, NEW line, IsPreamble(name, line)
  PROVE  Level(line, 0, 7) = 0
<1>1. 8 \in 1 .. 8 /\ 8 - 1 = 7
  OBVIOUS
<1>2. Level(line, 0, 7) = Preambles[name][8]
  BY <1>1 DEF IsPreamble
<1>3. Preambles[name][8] = 0
  BY DEF Preambles
<1> QED
  BY <1>2, <1>3

\* Every subframe of a block begins with its preamble, which no data imitates, and leaves
\* the line at the level it found, whatever word it carries (spdif_encode_block and the
\* tables of spdif_encode_init).
THEOREM EverySubframeIsFound ==
  \A stream \in Streams, frame \in AllFrames, channel \in Channels, sample \in AnyWord :
    SubframeIsFound(stream, frame, channel, sample)
<1> SUFFICES ASSUME NEW stream \in Streams, NEW frame \in AllFrames, NEW channel \in Channels,
                    NEW sample \in AnyWord
             PROVE  SubframeIsFound(stream, frame, channel, sample)
  OBVIOUS
<1>1. PICK line, payload : /\ line = Subframe(stream, frame, channel, sample)
                           /\ payload = Payload(stream, sample, StatusBit(stream, frame))
  OBVIOUS
<1>2. PICK name \in {"B", "M", "W"} :
        name = IF channel = 1 THEN "W" ELSE IF frame = 0 THEN "B" ELSE "M"
  OBVIOUS
<1>3. /\ payload \in AnyWord /\ \A u \in 0 .. 63 : line[u] \in {0, 1}
      /\ \A t \in 0 .. 7 : line[t] = BitOf(Preamble(frame, channel), t)
      /\ \A slot \in 4 .. 31 : line[2 * slot] = 1 /\ line[2 * slot + 1] = payload[slot]
  BY <1>1, Lines
<1>4. IsPreamble(name, line) /\ line[0] = 1
  <2>1. CASE channel = 1
    <3>1. \A t \in 0 .. 7 : line[t] = BitOf(105, t)
      BY <1>3, <2>1 DEF Preamble
    <3> QED
      BY <1>2, <1>3, <2>1, <3>1, PreambleLevels, PreambleBits
  <2>2. CASE channel # 1 /\ frame = 0
    <3>1. \A t \in 0 .. 7 : line[t] = BitOf(57, t)
      BY <1>3, <2>2 DEF Preamble
    <3> QED
      BY <1>2, <1>3, <2>2, <3>1, PreambleLevels, PreambleBits
  <2>3. CASE channel # 1 /\ frame # 0
    <3>1. \A t \in 0 .. 7 : line[t] = BitOf(201, t)
      BY <1>3, <2>3 DEF Preamble
    <3> QED
      BY <1>2, <1>3, <2>3, <3>1, PreambleLevels, PreambleBits
  <2> QED
    BY <2>1, <2>2, <2>3
<1>5. ASSUME NEW t \in 7 .. 62
      PROVE  line[t] = 1 \/ line[t + 1] = 1
  <2>1. PICK slot \in 4 .. 31 : t = 2 * slot \/ t + 1 = 2 * slot
    <3>1. (t + 1) \div 2 \in 4 .. 31
          /\ (t = 2 * ((t + 1) \div 2) \/ t + 1 = 2 * ((t + 1) \div 2))
      OBVIOUS
    <3> QED
      BY <3>1
  <2> QED
    BY <1>3, <2>1
<1>6. Level(line, 0, 63) = 0
  <2>1. Balanced(line, payload, 3)
    <3>1. Level(line, 0, 2 * 3 + 1) = 0
      <4>1. 2 * 3 + 1 = 7
        OBVIOUS
      <4> QED
        BY <1>4, <4>1, PreambleEnds
    <3>2. \A i \in 0 .. 3 : payload[i] = 0
      BY <1>1, Payloads, StatusBits
    <3>3. {u \in 0 .. 3 : payload[u] = 1} = {}
      BY <3>2
    <3>4. Ones(payload, 0, 3) = 0
      BY <3>3, FS_EmptySet DEF Ones
    <3> QED
      BY <3>1, <3>4 DEF Balanced
  <2>2. ASSUME NEW slot \in 3 .. 30, Balanced(line, payload, slot)
        PROVE  Balanced(line, payload, slot + 1)
    <3>1. slot + 1 \in 4 .. 31
      OBVIOUS
    <3>2. line[2 * (slot + 1)] = 1 /\ line[2 * (slot + 1) + 1] = payload[slot + 1]
      BY <1>3, <3>1
    <3> QED
      BY <1>3, <2>2, <3>2, BalancedStep
  <2>3. \A n \in Nat : n <= 28 => Balanced(line, payload, 3 + n)
    <3> DEFINE S == {n \in Nat : n <= 28 => Balanced(line, payload, 3 + n)}
    <3>1. 0 \in S
      <4>1. 3 + 0 = 3
        OBVIOUS
      <4> QED
        BY <2>1, <4>1
    <3>2. ASSUME NEW n \in Nat, n \in S PROVE n + 1 \in S
      <4> SUFFICES ASSUME n + 1 <= 28 PROVE Balanced(line, payload, 3 + (n + 1))
        OBVIOUS
      <4>1. PICK slot \in 3 .. 30 : slot = 3 + n /\ slot + 1 = 3 + (n + 1)
        OBVIOUS
      <4> QED
        BY <2>2, <3>2, <4>1
    <3> HIDE DEF S
    <3>3. \A n \in Nat : n \in S
      BY <3>1, <3>2, SetInduction
    <3> QED
      BY <3>3 DEF S
  <2>4. Balanced(line, payload, 31)
    <3>1. 3 + 28 = 31
      OBVIOUS
    <3> QED
      BY <2>3, <3>1
  <2>5. PICK last \in {0, 1}, n \in Nat : /\ last = Level(line, 0, 63) /\ n = Ones(payload, 0, 31)
                                          /\ n % 2 = 0
    <3>1. Level(line, 0, 63) \in {0, 1}
      <4>1. 62 \in 0 .. 62 /\ 62 + 1 = 63
        OBVIOUS
      <4>2. Level(line, 0, 62) \in {0, 1} /\ line[63] \in {0, 1}
        BY <1>3, <4>1, LevelStep
      <4>3. Level(line, 0, 62 + 1) = (Level(line, 0, 62) + line[62 + 1]) % 2
        BY <1>3, <4>1, LevelStep
      <4> QED
        BY <4>1, <4>2, <4>3
    <3>2. Ones(payload, 0, 31) % 2 = 0
      BY <1>1, Payloads, StatusBits
    <3>3. Ones(payload, 0, 31) \in Nat
      BY <1>3, ParityIsSum, SumIsOnes
    <3> QED
      BY <3>1, <3>2, <3>3
  <2>6. (last + n + 31) % 2 = 1
    <3>1. 2 * 31 + 1 = 63
      OBVIOUS
    <3> QED
      BY <2>4, <2>5, <3>1 DEF Balanced
  <2> QED
    BY <2>5, <2>6
<1> QED
  BY <1>1, <1>2, <1>4, <1>5, <1>6 DEF SubframeIsFound

-------------------------------------------------------------------------------
(* A whole block on the line.                                              *)

\* The cells of the part are those of the line from base on, and so are its ones.
Copies(line, part, base) ==
  \A t \in 0 .. 63 : line[base + t] = part[t] /\ part[t] \in {0, 1}
Follows(line, part, base) ==
  \A t \in 0 .. 63 : Ones(line, 0, base + t) = Ones(line, 0, base - 1) + Ones(part, 0, t)

\* Ones on a part of the line.
LEMMA OnesInPart ==
  ASSUME NEW line, NEW part, NEW base \in Nat, Copies(line, part, base)
  PROVE  Follows(line, part, base)
<1>0. \A t \in 0 .. 63 : line[base + t] = part[t] /\ part[t] \in {0, 1}
  BY DEF Copies
<1>1. PICK before \in Nat : before = Ones(line, 0, base - 1)
  <2>1. base - 1 \in Int /\ -1 <= base - 1
    OBVIOUS
  <2> QED
    BY <2>1, OnesAreCounted
<1> DEFINE S == {t \in Nat : t <= 63 => Ones(line, 0, base + t) = before + Ones(part, 0, t)}
<1>2. 0 \in S
  <2>1. PICK n \in Int : n = base - 1
    OBVIOUS
  <2>2. PICK m \in Int : m = -1
    OBVIOUS
  <2>3. -1 <= n /\ n + 1 = base /\ base + 0 = base /\ -1 <= m /\ m + 1 = 0
    BY <2>1, <2>2
  <2>4. line[base] = part[0] /\ part[0] \in {0, 1}
    BY <1>0, <2>3
  <2>5. Ones(line, 0, n + 1) = Ones(line, 0, n) + line[n + 1]
    BY <2>3, <2>4, OnesFromZero
  <2>6. Ones(part, 0, m) = 0 /\ Ones(part, 0, m + 1) = Ones(part, 0, m) + part[m + 1]
    BY <2>2, <2>3, <2>4, OnesFromZero
  <2>7. Ones(part, 0, 0) = part[0]
    BY <2>3, <2>4, <2>6
  <2>8. Ones(line, 0, base + 0) = before + Ones(part, 0, 0)
    BY <1>1, <2>1, <2>3, <2>4, <2>5, <2>7
  <2> QED
    BY <2>8
<1>3. ASSUME NEW t \in Nat, t \in S PROVE t + 1 \in S
  <2> SUFFICES ASSUME t + 1 <= 63
               PROVE  Ones(line, 0, base + (t + 1)) = before + Ones(part, 0, t + 1)
    OBVIOUS
  <2>1. PICK n \in Int : n = base + t
    OBVIOUS
  <2>2. -1 <= n /\ n + 1 = base + (t + 1) /\ t + 1 \in 0 .. 63 /\ t \in Int /\ -1 <= t /\ t <= 63
    BY <2>1
  <2>3. line[n + 1] = part[t + 1] /\ part[t + 1] \in {0, 1}
    BY <1>0, <2>2
  <2>4. Ones(line, 0, n) = before + Ones(part, 0, t)
    BY <1>3, <2>1, <2>2
  <2>5. Ones(line, 0, n + 1) = Ones(line, 0, n) + line[n + 1]
    BY <2>2, <2>3, OnesFromZero
  <2>6. Ones(part, 0, t) \in Nat /\ Ones(part, 0, t + 1) = Ones(part, 0, t) + part[t + 1]
    BY <2>2, <2>3, OnesFromZero
  <2> QED
    BY <2>2, <2>3, <2>4, <2>5, <2>6
<1> HIDE DEF S
<1>4. \A t \in Nat : t \in S
  BY <1>2, <1>3, SetInduction
<1> QED
  BY <1>1, <1>4 DEF S, Follows

\* The places of a block, and the words that may fill it.
Places == 0 .. 2 * SPDIF_BLOCK_FRAMES - 1
AnyBlock == [Places -> AnyWord]

\* The subframes of a block, one after the other.
LEMMA Sections ==
  ASSUME NEW stream \in Streams, NEW samples \in AnyBlock, NEW k \in Places,
         NEW part, part = Subframe(stream, k \div 2, k % 2, samples[k])
  PROVE  /\ k \div 2 \in AllFrames /\ k % 2 \in Channels /\ samples[k] \in AnyWord
         /\ \A t \in 0 .. 63 : /\ Block(stream, samples)[64 * k + t] = part[t]
                               /\ part[t] \in {0, 1}
<1>1. k \in 0 .. 383 /\ k \div 2 \in AllFrames /\ k % 2 \in Channels /\ samples[k] \in AnyWord
  BY DEF Places, AllFrames, Channels, AnyBlock, SPDIF_BLOCK_FRAMES
<1>2. \A t \in 0 .. 63 : part[t] \in {0, 1}
  BY <1>1, Lines
<1>3. ASSUME NEW t \in 0 .. 63
      PROVE  Block(stream, samples)[64 * k + t] = part[t]
  <2>1. PICK u \in Nat : u = 64 * k + t
    BY <1>1
  <2>2. u \in 0 .. 24575
    BY <1>1, <2>1
  <2>3. 128 * SPDIF_BLOCK_FRAMES - 1 = 24575
    BY DEF SPDIF_BLOCK_FRAMES
  <2>4. u \div 64 = k /\ u % 64 = t
    <3>1. PICK q \in Nat : q = k
      BY <1>1
    <3>2. u = 64 * q + t
      BY <2>1, <3>1
    <3>3. u \div 64 = q /\ u % 64 = t
      BY <3>2
    <3> QED
      BY <3>1, <3>3
  <2>5. Block(stream, samples)[u]
          = Subframe(stream, (u \div 64) \div 2, (u \div 64) % 2, samples[u \div 64])[u % 64]
    BY <2>2, <2>3 DEF Block
  <2>6. Block(stream, samples)[u] = Subframe(stream, k \div 2, k % 2, samples[k])[t]
    BY <2>4, <2>5
  <2> QED
    BY <2>1, <2>6
<1> QED
  BY <1>1, <1>2, <1>3

\* The subframes of a block follow each other without a gap: at each the line has the
\* levels the subframe has by itself, whatever was sent before it (the loops of
\* spdif_encode_block).
THEOREM EveryBlockIsReceived ==
  \A stream \in Streams, samples \in AnyBlock, k \in Places, t \in 0 .. 63 :
    Level(Block(stream, samples), 0, 64 * k + t)
      = Level(Subframe(stream, k \div 2, k % 2, samples[k]), 0, t)
<1> SUFFICES ASSUME NEW stream \in Streams, NEW samples \in AnyBlock
             PROVE  \A k \in Places, t \in 0 .. 63 :
                      Level(Block(stream, samples), 0, 64 * k + t)
                        = Level(Subframe(stream, k \div 2, k % 2, samples[k]), 0, t)
  OBVIOUS
<1>1. PICK line : line = Block(stream, samples)
  OBVIOUS
<1> DEFINE Part(k) == Subframe(stream, k \div 2, k % 2, samples[k])
<1>2. \A f, n : Level(f, 0, n) = (0 + Ones(f, 0, n)) % 2
  BY DEF Level, Ones
<1>3. ASSUME NEW k \in Places
      PROVE  /\ k \in Nat /\ 64 * k \in Nat
             /\ \A t \in 0 .. 63 :
                  /\ Ones(line, 0, 64 * k - 1) \in Nat /\ Ones(Part(k), 0, t) \in Nat
                  /\ Ones(line, 0, 64 * k + t) = Ones(line, 0, 64 * k - 1) + Ones(Part(k), 0, t)
             /\ Ones(Part(k), 0, 63) % 2 = 0
  <2>1. PICK part : part = Part(k) /\ part = Subframe(stream, k \div 2, k % 2, samples[k])
    OBVIOUS
  <2> HIDE DEF Part
  <2>2. PICK base \in Nat : base = 64 * k /\ k \in Nat
    BY DEF Places, SPDIF_BLOCK_FRAMES
  <2>3. \A t \in 0 .. 63 : line[base + t] = part[t] /\ part[t] \in {0, 1}
    <3>1. \A t \in 0 .. 63 : line[64 * k + t] = part[t] /\ part[t] \in {0, 1}
      BY <1>1, <2>1, Sections
    <3> QED
      BY <2>2, <3>1
  <2>4. \A t \in 0 .. 63 : Ones(line, 0, base + t) = Ones(line, 0, base - 1) + Ones(part, 0, t)
    <3>1. Copies(line, part, base)
      BY <2>3, Zenon DEF Copies
    <3>2. Follows(line, part, base)
      BY <3>1, OnesInPart, Zenon
    <3> QED
      BY <3>2, Zenon DEF Follows
  <2>5. \A t \in 0 .. 63 : Ones(part, 0, t) \in Nat
    BY OnesAreCounted
  <2>6. Ones(line, 0, base - 1) \in Nat
    <3>1. base - 1 \in Int /\ -1 <= base - 1
      OBVIOUS
    <3> QED
      BY <3>1, OnesAreCounted
  <2>7. Level(part, 0, 63) = 0
    <3>1. k \div 2 \in AllFrames /\ k % 2 \in Channels /\ samples[k] \in AnyWord
      BY <2>1, Sections
    <3> QED
      BY <2>1, <3>1, EverySubframeIsFound DEF SubframeIsFound
  <2>8. Ones(part, 0, 63) % 2 = 0
    BY <1>2, <2>5, <2>7
  <2> QED
    BY <2>1, <2>2, <2>4, <2>5, <2>6, <2>8
<1> DEFINE S == {k \in Nat : k \in Places => Ones(line, 0, 64 * k - 1) % 2 = 0}
<1> HIDE DEF Part
<1>4. 0 \in S
  <2>1. 64 * 0 - 1 = -1
    OBVIOUS
  <2>2. {u \in 0 .. -1 : line[u] = 1} = {}
    OBVIOUS
  <2>3. Ones(line, 0, -1) = 0
    BY <2>2, FS_EmptySet DEF Ones
  <2> QED
    BY <2>1, <2>3
<1>5. ASSUME NEW k \in Nat, k \in S PROVE k + 1 \in S
  <2> SUFFICES ASSUME k + 1 \in Places PROVE Ones(line, 0, 64 * (k + 1) - 1) % 2 = 0
    OBVIOUS
  <2>1. k \in Places /\ 64 * (k + 1) - 1 = 64 * k + 63 /\ 63 \in 0 .. 63
    BY DEF Places, SPDIF_BLOCK_FRAMES
  <2>2. Ones(line, 0, 64 * k - 1) % 2 = 0
    BY <1>5, <2>1
  <2>3. PICK a \in Nat, b \in Nat : /\ a = Ones(line, 0, 64 * k - 1) /\ b = Ones(Part(k), 0, 63)
                                    /\ Ones(line, 0, 64 * k + 63) = a + b /\ b % 2 = 0
    <3>1. /\ Ones(line, 0, 64 * k - 1) \in Nat /\ Ones(Part(k), 0, 63) \in Nat
          /\ Ones(line, 0, 64 * k + 63) = Ones(line, 0, 64 * k - 1) + Ones(Part(k), 0, 63)
          /\ Ones(Part(k), 0, 63) % 2 = 0
      BY <1>3, <2>1
    <3> QED
      BY <3>1
  <2>4. (a + b) % 2 = 0
    BY <2>2, <2>3
  <2> QED
    BY <2>1, <2>3, <2>4
<1> HIDE DEF S
<1>6. \A k \in Nat : k \in S
  BY <1>4, <1>5, SetInduction
<1>7. ASSUME NEW k \in Places, NEW t \in 0 .. 63
      PROVE  Level(line, 0, 64 * k + t) = Level(Part(k), 0, t)
  <2>1. PICK a \in Nat, b \in Nat : /\ a = Ones(line, 0, 64 * k - 1) /\ b = Ones(Part(k), 0, t)
                                    /\ Ones(line, 0, 64 * k + t) = a + b
    <3>1. /\ Ones(line, 0, 64 * k - 1) \in Nat /\ Ones(Part(k), 0, t) \in Nat
          /\ Ones(line, 0, 64 * k + t) = Ones(line, 0, 64 * k - 1) + Ones(Part(k), 0, t)
      BY <1>3
    <3> QED
      BY <3>1
  <2>2. a % 2 = 0
    BY <1>3, <1>6, <2>1 DEF S
  <2>3. (0 + (a + b)) % 2 = (0 + b) % 2
    BY <2>2
  <2> QED
    BY <1>2, <2>1, <2>3
<1> QED
  BY <1>1, <1>7 DEF Part

\* A receiver that knows the level the line had at first sees a preamble at half-cell s.
Sighted(name, line, start, s) ==
  \A t \in 1 .. 8 : Level(line, start, s + t - 1) = Preambles[name][t]

\* The preamble of the k-th subframe.
NameOf(k) == IF k % 2 = 1 THEN "W" ELSE IF k = 0 THEN "B" ELSE "M"

\* The changes of level a receiver sees where it sees a preamble.
LEMMA SightedChanges ==
  ASSUME NEW line, NEW start \in {0, 1}, NEW s \in Nat, NEW name \in {"B", "M", "W"},
         \A t \in 0 .. 7 : line[s + t] \in {0, 1},
         Sighted(name, line, start, s)
  PROVE  /\ line[s + 1] = 0 /\ line[s + 2] = 0 /\ line[s + 3] = 1
         /\ line[s + 4] = 1 <=> name = "B"
         /\ line[s + 5] = 1 <=> name \in {"B", "W"}
         /\ line[s + 7] = 1 <=> name = "M"
<1> DEFINE level(t) == Level(line, start, s + t)
<1>1. \A t \in 0 .. 7 : level(t) = Preambles[name][t + 1]
  <2>1. ASSUME NEW t \in 0 .. 7 PROVE level(t) = Preambles[name][t + 1]
    <3>1. t + 1 \in 1 .. 8 /\ s + (t + 1) - 1 = s + t
      OBVIOUS
    <3>2. Level(line, start, s + (t + 1) - 1) = Preambles[name][t + 1]
      BY <3>1 DEF Sighted
    <3> QED
      BY <3>1, <3>2
  <2> QED
    BY <2>1
<1>2. ASSUME NEW t \in 0 .. 6
      PROVE  level(t + 1) = (level(t) + line[s + (t + 1)]) % 2 /\ line[s + (t + 1)] \in {0, 1}
  <2>1. PICK n \in Nat : n = s + t
    OBVIOUS
  <2>2. n \in Int /\ -1 <= n /\ n + 1 = s + (t + 1) /\ t + 1 \in 0 .. 7
    BY <2>1
  <2>3. line[n + 1] \in {0, 1}
    BY <2>2
  <2>4. Ones(line, 0, n) \in Nat /\ Ones(line, 0, n + 1) = Ones(line, 0, n) + line[n + 1]
    BY <2>2, <2>3, OnesFromZero
  <2>5. \A m : Level(line, start, m) = (start + Ones(line, 0, m)) % 2
    BY DEF Level, Ones
  <2>6. PICK a \in Nat, b \in {0, 1} : a = Ones(line, 0, n) /\ b = line[n + 1]
    BY <2>3, <2>4
  <2>7. (start + (a + b)) % 2 = (((start + a) % 2) + b) % 2
    OBVIOUS
  <2> QED
    BY <2>1, <2>2, <2>4, <2>5, <2>6, <2>7
<1>3. /\ level(1) = (level(0) + line[s + 1]) % 2 /\ line[s + 1] \in {0, 1}
      /\ level(2) = (level(1) + line[s + 2]) % 2 /\ line[s + 2] \in {0, 1}
      /\ level(3) = (level(2) + line[s + 3]) % 2 /\ line[s + 3] \in {0, 1}
      /\ level(4) = (level(3) + line[s + 4]) % 2 /\ line[s + 4] \in {0, 1}
      /\ level(5) = (level(4) + line[s + 5]) % 2 /\ line[s + 5] \in {0, 1}
      /\ level(6) = (level(5) + line[s + 6]) % 2 /\ line[s + 6] \in {0, 1}
      /\ level(7) = (level(6) + line[s + 7]) % 2 /\ line[s + 7] \in {0, 1}
  <2> HIDE DEF level
  <2> QED
    BY <1>2
<1> HIDE DEF level
<1>4. /\ level(0) = 1 /\ level(1) = 1 /\ level(2) = 1 /\ level(3) = 0 /\ level(7) = 0
      /\ level(4) = IF name = "B" THEN 1 ELSE 0
      /\ level(5) = IF name = "W" THEN 1 ELSE 0
      /\ level(6) = IF name = "M" THEN 1 ELSE 0
  BY <1>1 DEF Preambles
<1> QED
  BY <1>3, <1>4

\* The changes at the beginning of a subframe, and at its later cells.
LEMMA FirstCells ==
  ASSUME NEW stream \in Streams, NEW frame \in AllFrames, NEW channel \in Channels,
         NEW sample \in AnyWord, NEW part, part = Subframe(stream, frame, channel, sample)
  PROVE  /\ part[0] = 1 /\ part[1] = 0 /\ part[2] = 0 /\ part[3] = 1
         /\ \/ part[4] = 1 /\ part[5] = 1 /\ part[6] = 0 /\ part[7] = 0
            \/ part[4] = 0 /\ part[5] = 0 /\ part[6] = 1 /\ part[7] = 1
            \/ part[4] = 0 /\ part[5] = 1 /\ part[6] = 1 /\ part[7] = 0
         /\ \A slot \in 4 .. 31 : part[2 * slot] = 1
<1>1. /\ \A t \in 0 .. 7 : part[t] = BitOf(Preamble(frame, channel), t)
      /\ \A slot \in 4 .. 31 : part[2 * slot] = 1
  BY Lines
<1>2. Preamble(frame, channel) \in {57, 105, 201}
  BY DEF Preamble
<1>3. CASE Preamble(frame, channel) = 57
  BY <1>1, <1>3, PreambleBits
<1>4. CASE Preamble(frame, channel) = 105
  BY <1>1, <1>4, PreambleBits
<1>5. CASE Preamble(frame, channel) = 201
  BY <1>1, <1>5, PreambleBits
<1> QED
  BY <1>2, <1>3, <1>4, <1>5

\* The receiver's view of the beginning of a subframe in its block.
LEMMA SightedThere ==
  ASSUME NEW stream \in Streams, NEW samples \in AnyBlock, NEW k \in Places
  PROVE  /\ Sighted(NameOf(k), Block(stream, samples), 0, 64 * k)
         /\ Level(Block(stream, samples), 1, 64 * k) = 0
<1>1. PICK line, part : /\ line = Block(stream, samples)
                        /\ part = Subframe(stream, k \div 2, k % 2, samples[k])
  OBVIOUS
<1>2. PICK frame \in AllFrames, channel \in Channels :
        frame = k \div 2 /\ channel = k % 2 /\ samples[k] \in AnyWord
  BY <1>1, Sections
<1>3. NameOf(k) = IF channel = 1 THEN "W" ELSE IF frame = 0 THEN "B" ELSE "M"
  BY <1>2 DEF NameOf, Channels, Places, SPDIF_BLOCK_FRAMES
<1>4. IsPreamble(NameOf(k), part)
  BY <1>1, <1>2, <1>3, EverySubframeIsFound DEF SubframeIsFound
<1>5. \A t \in 0 .. 63 : Level(line, 0, 64 * k + t) = Level(part, 0, t)
  BY <1>1, EveryBlockIsReceived
<1>6. ASSUME NEW t \in 1 .. 8
      PROVE  Level(line, 0, 64 * k + t - 1) = Preambles[NameOf(k)][t]
  <2>1. PICK base \in Nat : base = 64 * k
    BY DEF Places, SPDIF_BLOCK_FRAMES
  <2>2. t - 1 \in 0 .. 63 /\ base + t - 1 = base + (t - 1)
    OBVIOUS
  <2>3. Level(line, 0, base + (t - 1)) = Level(part, 0, t - 1)
    BY <1>5, <2>1, <2>2
  <2>4. Level(part, 0, t - 1) = Preambles[NameOf(k)][t]
    BY <1>4 DEF IsPreamble
  <2> QED
    BY <2>1, <2>2, <2>3, <2>4
<1>7. Level(line, 1, 64 * k) = 0
  <2>1. PICK base \in Nat : base = 64 * k
    BY DEF Places, SPDIF_BLOCK_FRAMES
  <2>2. Level(line, 0, base) = 1
    <3>1. 1 \in 1 .. 8 /\ base + 1 - 1 = base
      OBVIOUS
    <3>2. Level(line, 0, base + 1 - 1) = Preambles[NameOf(k)][1]
      BY <1>6, <2>1, <3>1
    <3>3. NameOf(k) \in {"B", "M", "W"}
      BY DEF NameOf
    <3>4. Preambles[NameOf(k)][1] = 1
      BY <3>3 DEF Preambles
    <3> QED
      BY <3>1, <3>2, <3>4
  <2>3. PICK ones \in Nat : ones = Ones(line, 0, base)
    BY OnesAreCounted
  <2>4. Level(line, 0, base) = (0 + ones) % 2 /\ Level(line, 1, base) = (1 + ones) % 2
    BY <2>3 DEF Level, Ones
  <2> QED
    BY <2>1, <2>2, <2>4
<1> QED
  BY <1>1, <1>6, <1>7 DEF Sighted

\* Anywhere in a block a receiver sees a preamble, on a line of either polarity, exactly
\* where a subframe begins, and it is that subframe's preamble: no data, and no piece of
\* another preamble, looks like one (the preambles and the table of spdif_encode_init).
THEOREM PreamblesAreUnique ==
  \A stream \in Streams, samples \in AnyBlock, name \in {"B", "M", "W"},
     s \in 0 .. 128 * SPDIF_BLOCK_FRAMES - 8 :
    (\E start \in {0, 1} : Sighted(name, Block(stream, samples), start, s))
      <=> s % 64 = 0 /\ name = NameOf(s \div 64)
<1> SUFFICES ASSUME NEW stream \in Streams, NEW samples \in AnyBlock,
                    NEW name \in {"B", "M", "W"}, NEW s \in 0 .. 128 * SPDIF_BLOCK_FRAMES - 8
             PROVE  (\E start \in {0, 1} : Sighted(name, Block(stream, samples), start, s))
                      <=> s % 64 = 0 /\ name = NameOf(s \div 64)
  OBVIOUS
<1>1. PICK line : line = Block(stream, samples)
  OBVIOUS
<1>2. PICK k \in Places, u \in 0 .. 63 : /\ s = 64 * k + u /\ k \in 0 .. 383
                                         /\ k = s \div 64 /\ u = s % 64
  <2>1. s \in 0 .. 24568 /\ Places = 0 .. 383
    BY DEF Places, SPDIF_BLOCK_FRAMES
  <2>2. s \div 64 \in 0 .. 383 /\ s % 64 \in 0 .. 63 /\ s = 64 * (s \div 64) + (s % 64)
    BY <2>1
  <2>3. s \div 64 \in Places
    BY <2>1, <2>2
  <2> QED
    BY <2>2, <2>3, Zenon
<1>3. ASSUME u >= 57 PROVE k + 1 \in Places
  <2>1. s \in 0 .. 24568 /\ Places = 0 .. 383
    BY DEF Places, SPDIF_BLOCK_FRAMES
  <2>2. k # 383
    <3>1. k = 383 => s = 24512 + u
      BY <1>2
    <3> QED
      BY <1>3, <2>1, <3>1
  <2>3. k + 1 \in 0 .. 383
    BY <1>2, <2>2
  <2> QED
    BY <2>1, <2>3
<1>4. ASSUME NEW j \in Places
      PROVE  /\ line[64 * j] = 1 /\ line[64 * j + 1] = 0 /\ line[64 * j + 2] = 0
             /\ line[64 * j + 3] = 1
             /\ \/ /\ line[64 * j + 4] = 1 /\ line[64 * j + 5] = 1
                   /\ line[64 * j + 6] = 0 /\ line[64 * j + 7] = 0
                \/ /\ line[64 * j + 4] = 0 /\ line[64 * j + 5] = 0
                   /\ line[64 * j + 6] = 1 /\ line[64 * j + 7] = 1
                \/ /\ line[64 * j + 4] = 0 /\ line[64 * j + 5] = 1
                   /\ line[64 * j + 6] = 1 /\ line[64 * j + 7] = 0
             /\ \A slot \in 4 .. 31 : line[64 * j + 2 * slot] = 1
             /\ \A t \in 0 .. 63 : line[64 * j + t] \in {0, 1}
  <2>1. PICK part : part = Subframe(stream, j \div 2, j % 2, samples[j])
    OBVIOUS
  <2>2. PICK base \in Nat : base = 64 * j
    BY DEF Places, SPDIF_BLOCK_FRAMES
  <2>3. /\ j \div 2 \in AllFrames /\ j % 2 \in Channels /\ samples[j] \in AnyWord
        /\ \A t \in 0 .. 63 : line[64 * j + t] = part[t] /\ part[t] \in {0, 1}
    BY <1>1, <2>1, Sections
  <2>4. /\ part[0] = 1 /\ part[1] = 0 /\ part[2] = 0 /\ part[3] = 1
        /\ \/ part[4] = 1 /\ part[5] = 1 /\ part[6] = 0 /\ part[7] = 0
           \/ part[4] = 0 /\ part[5] = 0 /\ part[6] = 1 /\ part[7] = 1
           \/ part[4] = 0 /\ part[5] = 1 /\ part[6] = 1 /\ part[7] = 0
        /\ \A slot \in 4 .. 31 : part[2 * slot] = 1
    BY <2>1, <2>3, FirstCells
  <2>5. \A t \in 0 .. 63 : line[base + t] = part[t] /\ part[t] \in {0, 1}
    BY <2>2, <2>3
  <2>6. base + 0 = base /\ \A slot \in 4 .. 31 : 2 * slot \in 0 .. 63
    OBVIOUS
  <2>7. \A slot \in 4 .. 31 : line[base + 2 * slot] = 1
    BY <2>4, <2>5, <2>6
  <2> QED
    BY <2>2, <2>4, <2>5, <2>6, <2>7
<1>5. ASSUME NEW start \in {0, 1}, Sighted(name, line, start, s)
      PROVE  u = 0 /\ name = NameOf(k)
  <2>1. PICK base \in Nat : base = 64 * k /\ 64 * (k + 1) = base + 64
    BY <1>2
  <2>2. \A t \in 0 .. 7 : line[s + t] \in {0, 1}
    <3>1. ASSUME NEW t \in 0 .. 7 PROVE line[s + t] \in {0, 1}
      <4>1. CASE u + t <= 63
        <5>1. u + t \in 0 .. 63 /\ s + t = base + (u + t)
          BY <1>2, <2>1, <4>1
        <5>2. line[base + (u + t)] \in {0, 1}
          BY <1>4, <2>1, <5>1
        <5> QED
          BY <5>1, <5>2
      <4>2. CASE u + t > 63
        <5>1. u >= 57 /\ k + 1 \in Places
          BY <1>3, <4>2
        <5>2. u + t - 64 \in 0 .. 63 /\ s + t = (base + 64) + (u + t - 64)
          BY <1>2, <2>1, <4>2
        <5>3. line[(base + 64) + (u + t - 64)] \in {0, 1}
          BY <1>4, <2>1, <5>1, <5>2
        <5> QED
          BY <5>2, <5>3
      <4> QED
        BY <4>1, <4>2
    <3> QED
      BY <3>1
  <2>3. /\ line[s + 1] = 0 /\ line[s + 2] = 0 /\ line[s + 3] = 1
        /\ line[s + 4] = 1 <=> name = "B"
        /\ line[s + 5] = 1 <=> name \in {"B", "W"}
        /\ line[s + 7] = 1 <=> name = "M"
    <3>1. s \in Nat
      BY <1>2, <2>1
    <3> QED
      BY <1>5, <2>2, <3>1, SightedChanges
  <2>4. /\ line[base] = 1 /\ line[base + 1] = 0 /\ line[base + 2] = 0 /\ line[base + 3] = 1
        /\ \/ /\ line[base + 4] = 1 /\ line[base + 5] = 1
              /\ line[base + 6] = 0 /\ line[base + 7] = 0
           \/ /\ line[base + 4] = 0 /\ line[base + 5] = 0
              /\ line[base + 6] = 1 /\ line[base + 7] = 1
           \/ /\ line[base + 4] = 0 /\ line[base + 5] = 1
              /\ line[base + 6] = 1 /\ line[base + 7] = 0
        /\ \A slot \in 4 .. 31 : line[base + 2 * slot] = 1
    BY <1>4, <2>1
  <2>5. s = base + u
    BY <1>2, <2>1
  <2>6. u \notin 6 .. 61
    <3>1. ASSUME u \in 6 .. 61 PROVE FALSE
      <4>1. PICK slot \in 4 .. 31 : 2 * slot = u + 1 \/ 2 * slot = u + 2
        <5>1. (u + 2) \div 2 \in 4 .. 31
              /\ (2 * ((u + 2) \div 2) = u + 1 \/ 2 * ((u + 2) \div 2) = u + 2)
          BY <3>1
        <5> QED
          BY <5>1
      <4>2. PICK even \in Nat : even = 2 * slot
        OBVIOUS
      <4>3. line[base + even] = 1
        BY <2>4, <4>2
      <4>4. base + even = s + 1 \/ base + even = s + 2
        BY <2>5, <4>1, <4>2
      <4> QED
        BY <2>3, <4>3, <4>4
    <3> QED
      BY <3>1
  <2>7. u \notin {62, 63}
    <3>1. ASSUME u \in {62, 63} PROVE FALSE
      <4>1. k + 1 \in Places
        BY <1>3, <3>1
      <4>2. line[base + 64] = 1
        BY <1>4, <2>1, <4>1
      <4>3. base + 64 = s + 1 \/ base + 64 = s + 2
        BY <2>5, <3>1
      <4> QED
        BY <2>3, <4>2, <4>3
    <3> QED
      BY <3>1
  <2>8. line[base + 8] = 1 /\ line[base + 10] = 1 /\ line[base + 12] = 1
    <3>1. 4 \in 4 .. 31 /\ 5 \in 4 .. 31 /\ 6 \in 4 .. 31 /\ 2 * 4 = 8 /\ 2 * 5 = 10 /\ 2 * 6 = 12
      OBVIOUS
    <3> QED
      BY <2>4, <3>1
  <2>9. u \notin {1, 2}
    BY <2>3, <2>4, <2>5
  <2>10. u # 3
    BY <2>3, <2>4, <2>5, <2>8
  <2>11. u # 4
    BY <2>3, <2>4, <2>5, <2>8
  <2>12. u # 5
    BY <2>3, <2>4, <2>5, <2>8
  <2>13. u = 0
    BY <2>6, <2>7, <2>9, <2>10, <2>11, <2>12
  <2>14. start = 0
    <3>1. Level(line, 1, base) = 0
      BY <1>1, <2>1, SightedThere
    <3>2. Level(line, start, base) = 1
      <4>1. 1 \in 1 .. 8 /\ s + 1 - 1 = base
        BY <2>5, <2>13
      <4>2. Level(line, start, s + 1 - 1) = Preambles[name][1]
        BY <1>5, <4>1 DEF Sighted
      <4>3. Preambles[name][1] = 1
        BY DEF Preambles
      <4> QED
        BY <4>1, <4>2, <4>3
    <3> QED
      BY <3>1, <3>2
  <2>15. name = NameOf(k)
    <3>1. PICK other \in {"B", "M", "W"} : other = NameOf(k)
      BY DEF NameOf
    <3>2. Sighted(other, line, 0, s)
      <4>1. s = 64 * k
        BY <2>1, <2>5, <2>13
      <4> QED
        BY <1>1, <3>1, <4>1, SightedThere
    <3>3. /\ line[s + 4] = 1 <=> other = "B"
          /\ line[s + 7] = 1 <=> other = "M"
      <4>1. s \in Nat /\ 0 \in {0, 1}
        BY <2>5
      <4> QED
        BY <2>2, <3>2, <4>1, SightedChanges
    <3> QED
      BY <2>3, <3>1, <3>3
  <2> QED
    BY <2>13, <2>15
<1>6. ASSUME u = 0, name = NameOf(k)
      PROVE  \E start \in {0, 1} : Sighted(name, line, start, s)
  <2>1. s = 64 * k
    BY <1>2, <1>6
  <2>2. Sighted(name, line, 0, s)
    BY <1>1, <1>6, <2>1, SightedThere
  <2> QED
    BY <2>2
<1> QED
  BY <1>1, <1>2, <1>5, <1>6

-------------------------------------------------------------------------------
(* What a receiver learns of the stream.                                   *)

\* The C bits the receiver finds in a block.
ReceivedStatus(stream, channel, samples) ==
  [frame \in AllFrames |-> Decoded(Subframe(stream, frame, channel, samples[frame]))[30]]

\* Whatever is played, the C bits of a whole block describe the stream, on both channels:
\* the 24 bytes spdif_encode_init assembles, sent low bit first by spdif_encode_block.
THEOREM EveryFormatArrives ==
  \A stream \in Streams, channel \in Channels, samples \in [AllFrames -> AnyWord] :
    Describes(ReceivedStatus(stream, channel, samples), AllFrames, stream)
<1> SUFFICES ASSUME NEW stream \in Streams, NEW channel \in Channels,
                    NEW samples \in [AllFrames -> AnyWord]
             PROVE  Describes(ReceivedStatus(stream, channel, samples), AllFrames, stream)
  OBVIOUS
<1> DEFINE c == ReceivedStatus(stream, channel, samples)
           rate == RateBits(stream.rate)
           length == LengthBits(stream.bit_depth)
<1>1. \A frame \in AllFrames : c[frame] = StatusBit(stream, frame)
  BY EverySampleArrives DEF ReceivedStatus
<1> HIDE DEF c, rate, length
<1>2. /\ StatusBit(stream, 0) = 0 /\ StatusBit(stream, 2) = 1
      /\ StatusBit(stream, 1) = IF stream.non_pcm THEN 1 ELSE 0
      /\ \A frame \in AllFrames \ ({0, 1, 2} \cup 24 .. 27 \cup 32 .. 35) :
           StatusBit(stream, frame) = 0
  <2>1. 0 \in AllFrames
    BY DEF AllFrames, SPDIF_BLOCK_FRAMES
  <2> QED
    BY <2>1, StatusBits
<1>3. c[0] = 0 /\ c[2] = 1 /\ c[1] = IF stream.non_pcm THEN 1 ELSE 0
  BY <1>1, <1>2 DEF AllFrames, SPDIF_BLOCK_FRAMES
<1>4. ASSUME NEW k \in 0 .. 3
      PROVE  /\ c[24 + k] = BitOf(frequency_code(stream.rate), k)
             /\ c[32 + k] = IF stream.bit_depth = 16 THEN IF k = 1 THEN 1 ELSE 0
                            ELSE IF k = 2 THEN 0 ELSE 1
  <2>1. 0 \in AllFrames /\ 24 + k \in AllFrames /\ 32 + k \in AllFrames
    BY DEF AllFrames, SPDIF_BLOCK_FRAMES
  <2> QED
    BY <1>1, <2>1, StatusBits
<1>5. ASSUME NEW k \in 0 .. 3
      PROVE  BitOf(frequency_code(stream.rate), k) = rate[k + 1]
  <2>1. k \in 0 .. 7 /\ k \in {0, 1, 2, 3}
    OBVIOUS
  <2>2. CASE stream.rate = 44100
    <3>1. frequency_code(stream.rate) = 0 /\ rate = <<0, 0, 0, 0>>
      BY <2>2 DEF frequency_code, RateBits, rate
    <3> QED
      BY <2>1, <3>1, ByteBits
  <2>3. CASE stream.rate = 48000
    <3>1. frequency_code(stream.rate) = 2 /\ rate = <<0, 1, 0, 0>>
      BY <2>3 DEF frequency_code, RateBits, rate
    <3> QED
      BY <2>1, <3>1, ByteBits
  <2>4. CASE stream.rate = 88200
    <3>1. frequency_code(stream.rate) = 8 /\ rate = <<0, 0, 0, 1>>
      BY <2>4 DEF frequency_code, RateBits, rate
    <3> QED
      BY <2>1, <3>1, ByteBits
  <2>5. CASE stream.rate = 96000
    <3>1. frequency_code(stream.rate) = 10 /\ rate = <<0, 1, 0, 1>>
      BY <2>5 DEF frequency_code, RateBits, rate
    <3> QED
      BY <2>1, <3>1, ByteBits
  <2>6. CASE stream.rate = 192000
    <3>1. frequency_code(stream.rate) = 14 /\ rate = <<0, 1, 1, 1>>
      BY <2>6 DEF frequency_code, RateBits, rate
    <3> QED
      BY <2>1, <3>1, ByteBits
  <2> QED
    BY <2>2, <2>3, <2>4, <2>5, <2>6, StreamFields
<1>6. ASSUME NEW i \in 1 .. 4
      PROVE  c[23 + i] = rate[i] /\ c[31 + i] = length[i]
  <2>1. PICK k \in 0 .. 3 : i = k + 1
    <3>1. i - 1 \in 0 .. 3 /\ i = (i - 1) + 1
      OBVIOUS
    <3> QED
      BY <3>1
  <2>2. 23 + i = 24 + k /\ 31 + i = 32 + k
    BY <2>1
  <2>3. c[24 + k] = rate[k + 1]
    BY <1>4, <1>5
  <2>4. c[32 + k] = length[k + 1]
    <3>1. k \in {0, 1, 2, 3}
      OBVIOUS
    <3> QED
      BY <1>4, <3>1 DEF length, LengthBits
  <2> QED
    BY <2>1, <2>2, <2>3, <2>4
<1>7. \A frame \in AllFrames \ ({0, 1, 2} \cup 24 .. 27 \cup 32 .. 35) : c[frame] = 0
  BY <1>1, <1>2
<1> QED
  BY <1>3, <1>6, <1>7 DEF Describes, c, rate, length

\* The words and places the run enumerates.
LEMMA Enumerated ==
  /\ \A depth \in {16, 24, 32} : Samples(depth) \subseteq AnyWord
  /\ [i \in Bits32 |-> 0] \in AnyWord
  /\ Frames \subseteq AllFrames /\ SPDIF_BLOCK_FRAMES - 1 \in AllFrames
  /\ {0, 1, 2} \subseteq AllFrames
<1>1. ASSUME NEW depth \in {16, 24, 32}
      PROVE  Samples(depth) \subseteq AnyWord
  <2>1. \A i \in Bits32 : (i \div 3) % 2 \in {0, 1}
    BY DEF Bits32
  <2>2. /\ [i \in Bits32 |-> 0] \in AnyWord /\ [i \in Bits32 |-> 1] \in AnyWord
        /\ [i \in Bits32 |-> IF i >= depth - 1 THEN 1 ELSE 0] \in AnyWord
        /\ [i \in Bits32 |-> IF i < depth - 1 THEN 1 ELSE 0] \in AnyWord
        /\ [i \in Bits32 |-> IF i = 0 THEN 1 ELSE 0] \in AnyWord
    BY DEF AnyWord
  <2>3. [i \in Bits32 |-> IF i < depth THEN (i \div 3) % 2 ELSE 0] \in AnyWord
    BY <2>1 DEF AnyWord
  <2> QED
    BY <2>2, <2>3 DEF Samples
<1>2. [i \in Bits32 |-> 0] \in AnyWord
  BY DEF AnyWord
<1>3. /\ Frames \subseteq AllFrames /\ SPDIF_BLOCK_FRAMES - 1 \in AllFrames
      /\ {0, 1, 2} \subseteq AllFrames
  BY DEF Frames, AllFrames, SPDIF_BLOCK_FRAMES
<1> QED
  BY <1>1, <1>2, <1>3

\* What the run checks of the samples is an instance of what holds for all.
LEMMA SamplesOf ==
  ASSUME NEW stream \in Streams PROVE SamplesArrive(stream)
<1>1. \A sample \in Samples(stream.bit_depth), frame \in {0, 1, 2} :
        sample \in AnyWord /\ frame \in AllFrames
  BY Enumerated, StreamFields
<1>2. 0 \in Channels
  BY DEF Channels
<1> QED
  BY <1>1, <1>2, EverySampleArrives DEF SamplesArrive

\* So are the C bits of the frames the run looks at.
LEMMA FormatOf ==
  ASSUME NEW stream \in Streams PROVE FormatArrives(stream)
<1> DEFINE silence == [i \in Bits32 |-> 0]
           samples == [frame \in AllFrames |-> silence]
           all(channel) == ReceivedStatus(stream, channel, samples)
           c(channel) == [frame \in Frames |->
                            Decoded(Subframe(stream, frame, channel, silence))[30]]
<1>1. samples \in [AllFrames -> AnyWord] /\ Frames \subseteq AllFrames
  BY Enumerated
<1>2. \A channel \in Channels, frame \in Frames : c(channel)[frame] = all(channel)[frame]
  BY <1>1 DEF ReceivedStatus
<1>3. {0, 1, 2} \subseteq Frames /\ \A i \in 1 .. 4 : 23 + i \in Frames /\ 31 + i \in Frames
  BY DEF Frames
<1>4. \A channel \in Channels : Describes(all(channel), AllFrames, stream)
  BY <1>1, EveryFormatArrives
<1> HIDE DEF all, c
<1>5. ASSUME NEW channel \in Channels
      PROVE  Describes(c(channel), Frames, stream)
  BY <1>1, <1>2, <1>3, <1>4 DEF Describes
<1>6. Channels = {0, 1}
  BY DEF Channels
<1> QED
  BY <1>5, <1>6 DEF FormatArrives, c

\* And the subframes it looks at.
LEMMA SubframesOf ==
  ASSUME NEW stream \in Streams PROVE SubframesAreFound(stream)
<1>1. \A sample \in Samples(stream.bit_depth) : sample \in AnyWord
  BY Enumerated, StreamFields
<1>2. \A frame \in {0, 1, SPDIF_BLOCK_FRAMES - 1} : frame \in AllFrames
  BY Enumerated
<1>3. Channels = {0, 1}
  BY DEF Channels
<1> QED
  BY <1>1, <1>2, <1>3, EverySubframeIsFound DEF SubframesAreFound

\* While the driver streams, a receiver gets every sample as it was submitted, whichever
\* stream the mirror's state allows for (spdif_encode_block, spdif_submit_buffer).
THEOREM SamplesReceived == Spec => []ReceiverGetsSamples
<1>1. ReceiverGetsSamples
  <2>1. PcmSamplesArrive /\ NonPcmSamplesArrive
    BY SamplesOf DEF PcmSamplesArrive, NonPcmSamplesArrive, Streams
  <2> QED
    BY <2>1 DEF ReceiverGetsSamples, Carries
<1> QED
  BY <1>1, PTL

\* While the driver streams, the receiver is told what the stream is (spdif_encode_init).
THEOREM FormatReceived == Spec => []ReceiverKnowsFormat
<1>1. ReceiverKnowsFormat
  <2>1. PcmFormatArrives /\ NonPcmFormatArrives
    BY FormatOf DEF PcmFormatArrives, NonPcmFormatArrives, Streams
  <2> QED
    BY <2>1 DEF ReceiverKnowsFormat, Carries
<1> QED
  BY <1>1, PTL

\* While the driver streams, the receiver finds block, frames and channels
\* (spdif_encode_block).
THEOREM SubframesReceived == Spec => []ReceiverFindsSubframes
<1>1. ReceiverFindsSubframes
  <2>1. PcmSubframesAreFound /\ NonPcmSubframesAreFound
    BY SubframesOf DEF PcmSubframesAreFound, NonPcmSubframesAreFound, Streams
  <2> QED
    BY <2>1 DEF ReceiverFindsSubframes, Carries
<1> QED
  BY <1>1, PTL

-------------------------------------------------------------------------------
(* The driver.                                                            *)

IInv == TypeOK /\ SlotOwnership

USE BothOutputsAssumption, MaxBlocksAssumption

\* The fields of a queue after a completion.
LEMMA CompleteFields ==
  ASSUME NEW q \in Queues, NEW o \in Outputs
  PROVE  LET r    == Complete(q, o)
             last == q.completed \cup {o} = q.consumers
         IN  /\ r \in Queues
             /\ r.consumers = q.consumers /\ r.writing = q.writing
             /\ r.queued = IF q.completed = {} THEN None ELSE q.queued
             /\ r.playing = IF last THEN NextBlock(q) ELSE q.playing
             /\ r.next = IF last THEN None ELSE NextBlock(q)
             /\ r.completed = IF last THEN {} ELSE q.completed \cup {o}
<1>1. CASE q.completed \cup {o} = q.consumers
  BY <1>1 DEF Complete, NextBlock, Queues, None
<1>2. CASE q.completed \cup {o} # q.consumers
  BY <1>2 DEF Complete, NextBlock, Queues, None
<1> QED
  BY <1>1, <1>2

LEMMA Initially == Init => IInv
<1> SUFFICES ASSUME Init PROVE IInv
  OBVIOUS
<1> USE DEF Init, Outputs, Slots, None
<1>1. TypeOK
  <2>1. mirror_active \in BOOLEAN
    BY BothOutputsAssumption
  <2>2. blocks \in Queues
    BY DEF Queues, Reset, Consumers
  <2>3. published \in 0 .. MaxBlocks
    BY MaxBlocksAssumption
  <2>4. encoded \in [Outputs -> [Slots -> Contents]]
    BY DEF Contents, Partial
  <2> QED
    BY <2>1, <2>2, <2>3, <2>4 DEF TypeOK
<1>2. QueueOwns
  BY DEF QueueOwns, Reset, Consumers
<1>3. WriterOwns
  BY DEF WriterOwns, Reset
<1>4. ChannelOwns
  BY DEF ChannelOwns, Reset
<1>5. SlotsHoldBlocks
  BY DEF SlotsHoldBlocks, Reset
<1> QED
  BY <1>1, <1>2, <1>3, <1>4, <1>5 DEF IInv, SlotOwnership

LEMMA SpdifInitStep == IInv /\ SpdifInit => IInv'
<1> SUFFICES ASSUME IInv, SpdifInit PROVE IInv'
  OBVIOUS
<1> USE DEF IInv, SpdifInit, Main, hardware, Outputs, Slots, None
<1>1. TypeOK'
  BY DEF TypeOK, Queues, Reset, Consumers, Contents, Partial
<1>2. QueueOwns'
  BY DEF QueueOwns, Reset, Consumers
<1>3. WriterOwns'
  BY DEF TypeOK, SlotOwnership, WriterOwns, Reset, Consumers
<1>4. ChannelOwns'
  BY DEF TypeOK, SlotOwnership, ChannelOwns, WriterOwns, Reset, Consumers
<1>5. SlotsHoldBlocks'
  BY DEF SlotsHoldBlocks, Reset
<1> QED
  BY <1>1, <1>2, <1>3, <1>4, <1>5 DEF SlotOwnership

LEMMA SpdifStartStep == IInv /\ SpdifStart => IInv'
<1> SUFFICES ASSUME IInv, SpdifStart PROVE IInv'
  OBVIOUS
<1> USE DEF IInv, SpdifStart, Main, Consumers, Outputs, Slots, None
<1>1. TypeOK'
  BY DEF TypeOK, Queues, Contents, Partial
<1>2. QueueOwns'
  BY DEF SlotOwnership, QueueOwns
<1>3. WriterOwns'
  BY DEF TypeOK, SlotOwnership, WriterOwns, Reset
<1>4. ChannelOwns'
  BY DEF TypeOK, SlotOwnership, ChannelOwns, WriterOwns, Reset
<1>5. SlotsHoldBlocks'
  BY DEF SlotOwnership, SlotsHoldBlocks
<1> QED
  BY <1>1, <1>2, <1>3, <1>4, <1>5 DEF SlotOwnership

LEMMA BufferReadyStep == IInv /\ BufferReady => IInv'
<1> SUFFICES ASSUME IInv, BufferReady PROVE IInv'
  OBVIOUS
<1> USE DEF IInv, BufferReady, Main, driver, hardware, CanAcquire, Acquire,
            IsFree, Outputs, Slots, None
<1>1. TypeOK'
  BY DEF TypeOK, Queues, Contents, Partial
<1>2. QueueOwns'
  BY DEF TypeOK, Queues, SlotOwnership, QueueOwns, Consumers
<1>3. WriterOwns'
  BY DEF TypeOK, Queues, SlotOwnership, WriterOwns, Consumers
<1>4. ChannelOwns'
  BY DEF TypeOK, Queues, SlotOwnership, ChannelOwns, Consumers
<1>5. SlotsHoldBlocks'
  BY DEF TypeOK, Queues, SlotOwnership, SlotsHoldBlocks, Consumers
<1> QED
  BY <1>1, <1>2, <1>3, <1>4, <1>5 DEF SlotOwnership

LEMMA StartEncodeStep == IInv /\ StartEncode => IInv'
<1> SUFFICES ASSUME IInv, StartEncode PROVE IInv'
  OBVIOUS
<1> USE DEF IInv, StartEncode, Main, driver, hardware, Consumers, Outputs, Slots, None
<1>1. TypeOK'
  BY DEF TypeOK, Queues, Contents, Partial, SlotOwnership, WriterOwns
<1>2. QueueOwns'
  BY DEF TypeOK, Queues, SlotOwnership, QueueOwns
<1>3. WriterOwns'
  BY DEF TypeOK, Queues, SlotOwnership, WriterOwns
<1>4. ChannelOwns'
  BY DEF TypeOK, Queues, SlotOwnership, ChannelOwns
<1>5. SlotsHoldBlocks'
  BY DEF TypeOK, Queues, SlotOwnership, SlotsHoldBlocks, QueueOwns, WriterOwns
<1> QED
  BY <1>1, <1>2, <1>3, <1>4, <1>5 DEF SlotOwnership

LEMMA StartMirrorStep == IInv /\ StartMirror => IInv'
<1> SUFFICES ASSUME IInv, StartMirror PROVE IInv'
  OBVIOUS
<1> USE DEF IInv, StartMirror, Main, driver, hardware, Consumers, Outputs, Slots, None
<1>1. TypeOK'
  BY DEF TypeOK, Queues, Contents, Partial, SlotOwnership, WriterOwns
<1>2. QueueOwns'
  BY DEF TypeOK, Queues, SlotOwnership, QueueOwns
<1>3. WriterOwns'
  <2>1. blocks.writing \in {0, 1}
    BY DEF TypeOK, Queues, SlotOwnership, WriterOwns
  <2>2. encoded'["spdif"][blocks.writing] = published + 1
    BY <2>1 DEF TypeOK
  <2> QED
    BY <2>2 DEF TypeOK, SlotOwnership, WriterOwns
<1>4. ChannelOwns'
  BY DEF TypeOK, Queues, SlotOwnership, ChannelOwns
<1>5. SlotsHoldBlocks'
  BY DEF TypeOK, Queues, SlotOwnership, SlotsHoldBlocks, QueueOwns, WriterOwns
<1> QED
  BY <1>1, <1>2, <1>3, <1>4, <1>5 DEF SlotOwnership

LEMMA PublishBlockStep == IInv /\ PublishBlock => IInv'
<1> SUFFICES ASSUME IInv, PublishBlock PROVE IInv'
  OBVIOUS
<1> USE DEF IInv, PublishBlock, Publish, Main, driver, hardware, Consumers, Outputs, Slots, None
<1>1. TypeOK'
  <2>1. /\ blocks.writing \in {0, 1}
        /\ published \in 0 .. MaxBlocks - 1
    BY DEF TypeOK, Queues, SlotOwnership, WriterOwns
  <2>2. published' \in 0 .. MaxBlocks
    BY <2>1
  <2>3. encoded' \in [Outputs -> [Slots -> Contents]]
    <3>1. published + 1 \in Contents
      BY <2>1 DEF Contents
    <3> QED
      BY <2>1, <3>1 DEF TypeOK
  <2>4. blocks' \in Queues
    BY DEF TypeOK, Queues
  <2> QED
    BY <2>2, <2>3, <2>4 DEF TypeOK
<1>2. QueueOwns'
  BY DEF TypeOK, Queues, SlotOwnership, QueueOwns, WriterOwns
<1>3. WriterOwns'
  BY DEF TypeOK, Queues, SlotOwnership, WriterOwns, QueueOwns, Reset
<1>4. ChannelOwns'
  BY DEF TypeOK, Queues, SlotOwnership, ChannelOwns
<1>5. SlotsHoldBlocks'
  BY DEF TypeOK, Queues, SlotOwnership, SlotsHoldBlocks, QueueOwns, WriterOwns
<1> QED
  BY <1>1, <1>2, <1>3, <1>4, <1>5 DEF SlotOwnership

LEMMA MaskSpdifStep ==
  ASSUME NEW for \in {"stop", "deinit"}, IInv, MaskSpdif(for) PROVE IInv'
<1> USE DEF IInv, MaskSpdif, Main, driver, Consumers, Outputs, Slots, None
<1>1. TypeOK'
  BY DEF TypeOK, Queues, Contents, Partial
<1>2. QueueOwns'
  BY DEF SlotOwnership, QueueOwns
<1>3. WriterOwns'
  BY DEF SlotOwnership, WriterOwns, Reset
<1>4. ChannelOwns'
  BY DEF SlotOwnership, ChannelOwns
<1>5. SlotsHoldBlocks'
  BY DEF SlotOwnership, SlotsHoldBlocks
<1> QED
  BY <1>1, <1>2, <1>3, <1>4, <1>5 DEF SlotOwnership

LEMMA HaltStep ==
  ASSUME NEW for \in {"stop", "deinit"}, IInv, Halt(for) PROVE IInv'
<1> USE DEF IInv, Halt, Main, Reset, Consumers, Outputs, Slots, None
<1>1. TypeOK'
  BY DEF TypeOK, Queues, Contents, Partial
<1>2. QueueOwns'
  BY DEF SlotOwnership, QueueOwns
<1>3. WriterOwns'
  BY DEF SlotOwnership, WriterOwns
<1>4. ChannelOwns'
  BY DEF ChannelOwns
<1>5. SlotsHoldBlocks'
  BY DEF SlotsHoldBlocks
<1> QED
  BY <1>1, <1>2, <1>3, <1>4, <1>5 DEF SlotOwnership

LEMMA DmaFinishStep ==
  ASSUME NEW o \in Outputs, IInv, DmaFinish(o) PROVE IInv'
<1> USE DEF IInv, DmaFinish, driver, Consumers, Outputs, Slots, None
<1>1. TypeOK'
  BY DEF TypeOK, Queues, Contents, Partial
<1>2. QueueOwns'
  BY DEF SlotOwnership, QueueOwns
<1>3. WriterOwns'
  BY DEF SlotOwnership, WriterOwns, Reset
<1>4. ChannelOwns'
  BY DEF TypeOK, SlotOwnership, ChannelOwns
<1>5. SlotsHoldBlocks'
  BY DEF SlotOwnership, SlotsHoldBlocks
<1> QED
  BY <1>1, <1>2, <1>3, <1>4, <1>5 DEF SlotOwnership

\* One half of the interrupt handler, whichever channel it looks at.
LEMMA ServeStep ==
  ASSUME NEW o \in Outputs, IInv, Serve(o), isr' \in {"none", "i2s"},
         UNCHANGED <<driver, pc, irq_enabled, encoded, published>>
  PROVE  IInv'
<1> USE DEF IInv, Consumers, Outputs, Slots, None, driver
<1>1. CASE ~Pending(o)
  <2>1. UNCHANGED <<source, dma, blocks>>
    BY <1>1 DEF Serve
  <2>2. TypeOK'
    BY <2>1 DEF TypeOK, Queues, Contents, Partial
  <2>3. SlotOwnership'
    BY <2>1 DEF SlotOwnership, QueueOwns, WriterOwns, ChannelOwns,
                SlotsHoldBlocks, Reset
  <2> QED
    BY <2>2, <2>3
<1>2. CASE Pending(o)
  <2> DEFINE chosen == NextBlock(blocks)
             last   == blocks.completed \cup {o} = blocks.consumers
  <2>1. /\ source' = [source EXCEPT ![o] = chosen]
        /\ dma' = [dma EXCEPT ![o] = "busy"]
        /\ blocks' = Complete(blocks, o)
    BY <1>2 DEF Serve
  <2>2. /\ blocks' \in Queues
        /\ blocks'.consumers = blocks.consumers
        /\ blocks'.writing = blocks.writing
        /\ blocks'.queued = IF blocks.completed = {} THEN None ELSE blocks.queued
        /\ blocks'.playing = IF last THEN chosen ELSE blocks.playing
        /\ blocks'.next = IF last THEN None ELSE chosen
        /\ blocks'.completed = IF last THEN {} ELSE blocks.completed \cup {o}
    BY <2>1, CompleteFields DEF TypeOK
  <2>3. chosen \in {0, 1, -1}
    BY DEF TypeOK, Queues, NextBlock
  <2>4. /\ running /\ dma[o] = "done"
        /\ o \in blocks.consumers
        /\ o \notin blocks.completed
    BY <1>2 DEF Pending, SlotOwnership, ChannelOwns, QueueOwns
  <2>5. chosen = IF blocks.completed = {} THEN blocks.queued ELSE blocks.next
    BY DEF NextBlock
  <2> HIDE DEF chosen
  <2>6. TypeOK'
    BY <2>1, <2>2, <2>3 DEF TypeOK, Contents
  <2>7. QueueOwns'
    BY <2>2, <2>3, <2>4, <2>5 DEF SlotOwnership, QueueOwns
  <2>8. WriterOwns'
    BY <2>2, <2>4 DEF SlotOwnership, WriterOwns
  <2>9. ChannelOwns'
    <3> SUFFICES ASSUME NEW p \in Outputs
                 PROVE  ChannelOwns!(p)'
      BY DEF ChannelOwns
    <3>1. CASE p = o
      BY <2>1, <2>2, <2>3, <2>4, <2>5, <3>1
         DEF TypeOK, SlotOwnership, ChannelOwns, QueueOwns
    <3>2. CASE p # o /\ last
      BY <2>1, <2>2, <2>3, <2>4, <2>5, <3>2
         DEF TypeOK, SlotOwnership, ChannelOwns, QueueOwns
    <3>3. CASE p # o /\ ~last
      BY <2>1, <2>2, <2>3, <2>4, <2>5, <3>3
         DEF TypeOK, SlotOwnership, ChannelOwns, QueueOwns
    <3> QED
      BY <3>1, <3>2, <3>3
  <2>10. SlotsHoldBlocks'
    BY <2>2, <2>3, <2>4, <2>5 DEF SlotOwnership, SlotsHoldBlocks, QueueOwns
  <2> QED
    BY <2>6, <2>7, <2>8, <2>9, <2>10 DEF SlotOwnership
<1> QED
  BY <1>1, <1>2

LEMMA NextStep == IInv /\ [Next]_vars => IInv'
<1> SUFFICES ASSUME IInv, [Next]_vars PROVE IInv'
  OBVIOUS
<1>1. CASE IsrSpdif
  BY <1>1, ServeStep DEF IsrSpdif, Outputs, driver
<1>2. CASE IsrI2s
  BY <1>2, ServeStep DEF IsrI2s, Outputs, driver
<1>3. CASE UNCHANGED vars
  BY <1>3 DEF vars, IInv, TypeOK, Queues, Contents, SlotOwnership, QueueOwns,
              WriterOwns, ChannelOwns, SlotsHoldBlocks, Consumers
<1> QED
  BY <1>1, <1>2, <1>3, SpdifInitStep, SpdifStartStep, BufferReadyStep,
     StartEncodeStep, StartMirrorStep, PublishBlockStep, MaskSpdifStep,
     HaltStep, DmaFinishStep DEF Next, Submit, Halting

\* Every variable keeps its type, and every slot its one owner.
THEOREM Ownership == Spec => [](TypeOK /\ SlotOwnership)
<1>1. Spec => []IInv
  BY Initially, NextStep, PTL DEF Spec
<1> QED
  BY <1>1 DEF IInv

\* The driver's variables keep their types: slot numbers, consumers and pending sets of
\* the block queue, the channels' states and what each slot holds.
THEOREM TypeCorrect == Spec => []TypeOK
  BY Ownership, PTL

\* A DMA channel never streams a slot that is being encoded or was never filled.
THEOREM NeverTorn == Spec => []NoTornBlock
<1>1. IInv => NoTornBlock
  BY DEF IInv, TypeOK, Queues, SlotOwnership, QueueOwns, ChannelOwns, WriterOwns,
         SlotsHoldBlocks, NoTornBlock, Emitted, Item, Partial, Outputs, Slots, None,
         Consumers
<1>2. Spec => []IInv
  BY Initially, NextStep, PTL DEF Spec
<1> QED
  BY <1>1, <1>2, PTL

-------------------------------------------------------------------------------
(* The refinement: every step is a step of BlockProgram or changes nothing   *)
(* that BlockProgram sees.                                                    *)

abstract == <<Listening, Upcoming, published, Newest, Behind, Playing>>

LEMMA InitRefines == Init => Program!Init
BY DEF Init, Program!Init, Program!Quiet, Listening, Upcoming, Newest, Behind,
       Playing, Emitted, Item, Reset, Program!Silence, Outputs, None

\* Encoding into the slot being written changes nothing an output emits.
LEMMA EncodeStutters ==
  ASSUME IInv, blocks.writing # None,
         UNCHANGED <<driver, blocks, hardware, published>>,
         encoded' \in [Outputs -> [Slots -> Contents]],
         \A o \in Outputs, s \in Slots :
           s # blocks.writing => encoded'[o][s] = encoded[o][s]
  PROVE  UNCHANGED abstract
<1> USE DEF IInv, TypeOK, Queues, driver, hardware, Outputs, Slots, None
<1>1. /\ blocks.queued = None
      /\ blocks.playing # blocks.writing
      /\ blocks.next # blocks.writing
  BY DEF SlotOwnership, QueueOwns
<1>2. \A o \in Outputs : Emitted(o)' = Emitted(o)
  BY <1>1 DEF Emitted, Item, SlotOwnership, ChannelOwns
<1>3. Playing' = Playing
  BY <1>2 DEF Playing
<1>4. Newest' = Newest
  BY <1>1 DEF Newest, Item
<1> QED
  BY <1>1, <1>3, <1>4 DEF abstract, Listening, Upcoming, Behind, Consumers, Item

LEMMA StutterSteps ==
  ASSUME IInv, \/ SpdifInit \/ BufferReady \/ StartEncode \/ StartMirror
               \/ \E for \in {"stop", "deinit"} : MaskSpdif(for)
               \/ \E o \in Outputs : DmaFinish(o)
               \/ UNCHANGED vars
  PROVE  UNCHANGED abstract
<1> USE DEF IInv, Outputs, Slots, None, driver, hardware
<1>1. CASE SpdifInit
  BY <1>1 DEF SpdifInit, Main, SlotOwnership, WriterOwns, ChannelOwns, Reset, abstract,
              Listening, Upcoming, Newest, Behind, Playing, Emitted, Item
<1>2. CASE BufferReady
  BY <1>2 DEF BufferReady, Acquire, Main, TypeOK, Queues, abstract, Listening,
              Upcoming, Newest, Behind, Playing, Emitted, Item, Consumers
<1>3. CASE StartEncode
  BY <1>3, EncodeStutters, StartEncodeStep
     DEF StartEncode, Main, TypeOK, Queues, SlotOwnership, WriterOwns
<1>4. CASE StartMirror
  BY <1>4, EncodeStutters, StartMirrorStep
     DEF StartMirror, Main, TypeOK, Queues, SlotOwnership, WriterOwns
<1>5. CASE \E for \in {"stop", "deinit"} : MaskSpdif(for)
  BY <1>5 DEF MaskSpdif, Main, abstract, Listening, Upcoming, Newest, Behind, Playing,
              Emitted, Item, Consumers
<1>6. CASE \E o \in Outputs : DmaFinish(o)
  BY <1>6 DEF DmaFinish, TypeOK, abstract, Listening, Upcoming, Newest, Behind,
              Playing, Emitted, Item, Consumers
<1>7. CASE UNCHANGED vars
  BY <1>7 DEF vars, abstract, Listening, Upcoming, Newest, Behind, Playing, Emitted,
              Item, Consumers
<1> QED
  BY <1>1, <1>2, <1>3, <1>4, <1>5, <1>6, <1>7

LEMMA StartRefines == IInv /\ SpdifStart => Program!Start
<1> SUFFICES ASSUME IInv, SpdifStart PROVE Program!Start
  OBVIOUS
<1> USE DEF IInv, SpdifStart, Main, Outputs, Slots, None, Consumers
<1>1. blocks = Reset(Consumers)
  BY DEF SlotOwnership, WriterOwns
<1>2. Listening = {} /\ Listening' = Consumers
  BY DEF TypeOK, Listening, SlotOwnership, ChannelOwns
<1>3. Playing' = Playing
  BY DEF TypeOK, Playing, Emitted, Item, SlotOwnership, ChannelOwns
<1> QED
  BY <1>1, <1>2, <1>3 DEF Program!Start, Upcoming, Newest, Behind, Item, Reset

LEMMA PublishRefines == IInv /\ PublishBlock => Program!Publish
<1> SUFFICES ASSUME IInv, PublishBlock PROVE Program!Publish
  OBVIOUS
<1> USE DEF IInv, PublishBlock, Publish, Main, Outputs, Slots, None, driver, hardware
<1>1. /\ blocks.queued = None /\ running
      /\ blocks.writing \in Slots
      /\ blocks.playing # blocks.writing /\ blocks.next # blocks.writing
      /\ encoded["spdif"][blocks.writing] = published + 1
  BY DEF TypeOK, Queues, SlotOwnership, QueueOwns, WriterOwns
<1>2. \A o \in Outputs : Emitted(o)' = Emitted(o)
  BY <1>1 DEF TypeOK, Queues, Emitted, Item, SlotOwnership, ChannelOwns
<1>3. Playing' = Playing
  BY <1>2 DEF Playing
<1>4. Newest' = Newest
  BY <1>1 DEF TypeOK, Queues, Newest, Item
<1>5. Behind' = Behind /\ Listening' = Listening
  BY DEF TypeOK, Queues, Behind, Listening, Consumers
<1>6. Upcoming = <<>> /\ Upcoming' = <<published + 1>>
  BY <1>1 DEF TypeOK, Queues, Upcoming, Item
<1>7. "spdif" \in Listening
  BY <1>1 DEF Listening, SlotOwnership, ChannelOwns, Consumers
<1> QED
  BY <1>3, <1>4, <1>5, <1>6, <1>7 DEF Program!Publish

LEMMA StopRefines ==
  ASSUME NEW for \in {"stop", "deinit"}, IInv, Halt(for) PROVE Program!Stop
BY DEF Halt, Reset, Program!Stop, Program!Quiet, Program!Silence, Listening, Upcoming,
       Newest, Behind, Playing, Emitted, Item, Outputs, None

\* The interrupt decides or follows, or has nothing to do for this channel.
LEMMA ServeRefines ==
  ASSUME NEW o \in Outputs, IInv, Serve(o), UNCHANGED <<driver, encoded, published>>
  PROVE  Program!Decide(o) \/ Program!Follow(o) \/ UNCHANGED abstract
<1> USE DEF IInv, Outputs, Slots, None, driver
<1>1. CASE ~Pending(o)
  BY <1>1 DEF Serve, abstract, Listening, Upcoming, Newest, Behind, Playing, Emitted,
              Item, Consumers
<1>2. CASE Pending(o)
  <2> DEFINE chosen == NextBlock(blocks)
             done   == blocks.completed \cup {o} = blocks.consumers
  <2>1. /\ source' = [source EXCEPT ![o] = chosen]
        /\ dma' = [dma EXCEPT ![o] = "busy"]
        /\ blocks' = Complete(blocks, o)
    BY <1>2 DEF Serve
  <2>2. /\ blocks'.queued = IF blocks.completed = {} THEN None ELSE blocks.queued
        /\ blocks'.playing = IF done THEN chosen ELSE blocks.playing
        /\ blocks'.next = IF done THEN None ELSE chosen
        /\ blocks'.completed = IF done THEN {} ELSE blocks.completed \cup {o}
    BY <2>1, CompleteFields DEF TypeOK
  <2>3. /\ running /\ dma[o] = "done"
        /\ o \in Consumers /\ blocks.consumers = Consumers
        /\ o \notin blocks.completed
        /\ blocks.completed \subseteq Consumers
    BY <1>2 DEF Pending, SlotOwnership, ChannelOwns, QueueOwns
  <2>4. chosen = IF blocks.completed = {} THEN blocks.queued ELSE blocks.next
    BY DEF NextBlock
  <2>5. chosen \in {0, 1, -1}
    BY <2>4 DEF TypeOK, Queues
  <2> HIDE DEF chosen
  <2>6. Newest' = Item("spdif", chosen) /\ Item(o, chosen) = Item("spdif", chosen)
    <3>1. Newest' = Item("spdif", chosen)
      BY <2>2 DEF Newest, Item
    <3>2. Item(o, chosen) = Item("spdif", chosen)
      BY <2>3, <2>4 DEF Item, SlotOwnership, SlotsHoldBlocks
    <3> QED
      BY <3>1, <3>2
  <2>7. Playing' = [Playing EXCEPT ![o] = Newest']
    <3>1. Emitted(o)' = Newest'
      BY <2>1, <2>6 DEF TypeOK, Emitted, Item
    <3>2. \A p \in Outputs : p # o => Emitted(p)' = Emitted(p)
      BY <2>1 DEF TypeOK, Emitted, Item
    <3> QED
      BY <3>1, <3>2 DEF Playing
  <2>8. Listening' = Listening /\ Listening = Consumers
    BY <2>1, <2>3 DEF TypeOK, Listening, SlotOwnership, ChannelOwns, Consumers
  <2>9. Behind' = IF blocks.completed = {} THEN Consumers \ {o} ELSE Behind \ {o}
    BY <2>2, <2>3 DEF Behind, Consumers
  <2>10. CASE blocks.completed = {}
    <3>1. Behind = {}
      BY <2>10 DEF Behind
    <3>2. IF Upcoming = <<>> THEN Newest' = Program!Silence /\ Upcoming' = Upcoming
          ELSE Newest' = Head(Upcoming) /\ Upcoming' = Tail(Upcoming)
      BY <2>2, <2>4, <2>6, <2>10 DEF Upcoming, Item, Program!Silence
    <3> QED
      BY <2>3, <2>7, <2>8, <2>9, <2>10, <3>1, <3>2 DEF Program!Decide
  <2>11. CASE blocks.completed # {}
    <3>1. Newest' = Newest
      BY <2>4, <2>6, <2>11 DEF Newest
    <3>2. Upcoming' = Upcoming
      BY <2>2, <2>11 DEF Upcoming, Item
    <3>3. o \in Behind
      BY <2>3, <2>11 DEF Behind
    <3> QED
      BY <2>7, <2>8, <2>9, <2>11, <3>1, <3>2, <3>3 DEF Program!Follow
  <2> QED
    BY <2>10, <2>11
<1> QED
  BY <1>1, <1>2

\* Whatever the interleaving of main loop, interrupt and DMA, all outputs emit one
\* program of blocks: the specification implements BlockProgram.
THEOREM Implements == Spec => OneProgram
<1>1. IInv /\ [Next]_vars => [Program!Next]_(Program!vars)
  <2> SUFFICES ASSUME IInv, [Next]_vars PROVE Program!Next \/ UNCHANGED abstract
    BY DEF abstract, Program!vars
  <2>1. CASE SpdifStart
    BY <2>1, StartRefines DEF Program!Next
  <2>2. CASE PublishBlock
    BY <2>2, PublishRefines DEF Program!Next
  <2>3. CASE Halting
    BY <2>3, StopRefines DEF Halting, Program!Next
  <2>4. CASE IsrSpdif
    BY <2>4, ServeRefines DEF IsrSpdif, driver, Outputs, Program!Next
  <2>5. CASE IsrI2s
    BY <2>5, ServeRefines DEF IsrI2s, driver, Outputs, Program!Next
  <2> QED
    BY <2>1, <2>2, <2>3, <2>4, <2>5, StutterSteps DEF Next, Submit
<1>2. Spec => []IInv
  BY Initially, NextStep, PTL DEF Spec
<1> QED
  BY <1>1, <1>2, InitRefines, PTL DEF Spec, OneProgram, Program!Spec

===============================================================================
