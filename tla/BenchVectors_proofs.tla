------------------------- MODULE BenchVectors_proofs ------------------------
(***************************************************************************)
(* Theorems about the layers around the convolutional code and about the   *)
(* schedule tool, for every block, every scrambling sequence, every set of *)
(* wrong bits and every length of a recording: the interleavers take back  *)
(* what they did, the decoder is given each bit at its place, the bits of  *)
(* a fade reach it apart, the labels count slots and the grid is whole.    *)
(***************************************************************************)
EXTENDS BenchVectors, SequenceTheorems, TLAPS

-----------------------------------------------------------------------------
(* The interleavers of the channels: length and multiplier.                *)

Interleavers == { <<432, 103>>, <<216, 101>>, <<168, 13>>, <<120, 11>> }

(* Where bit i of a block is on the air.                                   *)
AirPlace(K, a, i) == 1 + ((a * i) % K)

Bits == {0, 1}

LEMMA Lengths ==
  ASSUME NEW p \in Interleavers
  PROVE  /\ p[1] \in Nat \ {0} /\ p[2] \in Nat
         /\ p[1] = 3 * (p[1] \div 3) /\ p[1] \div 3 \in Nat
  BY DEF Interleavers

(* f is a block of n places.                                               *)
IsBlock(f, n) == f = [i \in 1..n |-> f[i]]

(* A sequence that TLC is made to evaluate stays what it is.               *)
LEMMA WholeIs ==
  ASSUME NEW n \in Nat, NEW f, IsBlock(f, n)
  PROVE  Whole(f) = f /\ Len(f) = n
<1>. DEFINE S == {f[i] : i \in 1..n}
<1>1. f \in [1..n -> S]
  BY DEF IsBlock
<1>. HIDE DEF S
<1>2. f \in Seq(S)
  BY <1>1, SeqDef
<1>3. Len(f) = n
  BY <1>1, <1>2, LenProperties
<1>. QED
  BY <1>2, <1>3, SubSeqFull DEF Whole

(* No two bits of a block have the same place, and every place has a bit.  *)
OnePlaceEach(K, a) ==
  /\ \A i \in 1..K : AirPlace(K, a, i) \in 1..K
  /\ \A i, j \in 1..K : AirPlace(K, a, i) = AirPlace(K, a, j) => i = j
  /\ \A k \in 1..K : \E i \in 1..K : AirPlace(K, a, i) = k

(* The multiplier has an inverse, so a block has two bits at one place     *)
(* only if their numbers differ by whole blocks.                           *)
LEMMA MultipliersInvertible ==
  /\ \A x, y \in Int : (103 * x) % 432 = (103 * y) % 432 => \E c \in Int : x - y = 432 * c
  /\ \A x, y \in Int : (101 * x) % 216 = (101 * y) % 216 => \E c \in Int : x - y = 216 * c
  /\ \A x, y \in Int : (13 * x) % 168 = (13 * y) % 168 => \E c \in Int : x - y = 168 * c
  /\ \A x, y \in Int : (11 * x) % 120 = (11 * y) % 120 => \E c \in Int : x - y = 120 * c
<1>1. ASSUME NEW x \in Int, NEW y \in Int, (103 * x) % 432 = (103 * y) % 432
      PROVE  \E c \in Int : x - y = 432 * c
  <2>. DEFINE d == ((103 * x) \div 432) - ((103 * y) \div 432)
  <2>1. d \in Int /\ 103 * (x - y) = 432 * d
    BY <1>1
  <2>. HIDE DEF d
  <2>2. x - y = 432 * (151 * d - 36 * (x - y))
    BY <2>1
  <2>3. 151 * d - 36 * (x - y) \in Int
    BY <2>1
  <2>. QED
    BY <2>2, <2>3
<1>2. ASSUME NEW x \in Int, NEW y \in Int, (101 * x) % 216 = (101 * y) % 216
      PROVE  \E c \in Int : x - y = 216 * c
  <2>. DEFINE d == ((101 * x) \div 216) - ((101 * y) \div 216)
  <2>1. d \in Int /\ 101 * (x - y) = 216 * d
    BY <1>2
  <2>. HIDE DEF d
  <2>2. x - y = 216 * (77 * d - 36 * (x - y))
    BY <2>1
  <2>3. 77 * d - 36 * (x - y) \in Int
    BY <2>1
  <2>. QED
    BY <2>2, <2>3
<1>3. ASSUME NEW x \in Int, NEW y \in Int, (13 * x) % 168 = (13 * y) % 168
      PROVE  \E c \in Int : x - y = 168 * c
  <2>. DEFINE d == ((13 * x) \div 168) - ((13 * y) \div 168)
  <2>1. d \in Int /\ 13 * (x - y) = 168 * d
    BY <1>3
  <2>. HIDE DEF d
  <2>2. x - y = 168 * (13 * d - 1 * (x - y))
    BY <2>1
  <2>3. 13 * d - 1 * (x - y) \in Int
    BY <2>1
  <2>. QED
    BY <2>2, <2>3
<1>4. ASSUME NEW x \in Int, NEW y \in Int, (11 * x) % 120 = (11 * y) % 120
      PROVE  \E c \in Int : x - y = 120 * c
  <2>. DEFINE d == ((11 * x) \div 120) - ((11 * y) \div 120)
  <2>1. d \in Int /\ 11 * (x - y) = 120 * d
    BY <1>4
  <2>. HIDE DEF d
  <2>2. x - y = 120 * (11 * d - 1 * (x - y))
    BY <2>1
  <2>3. 11 * d - 1 * (x - y) \in Int
    BY <2>1
  <2>. QED
    BY <2>2, <2>3
<1>. QED
  BY <1>1, <1>2, <1>3, <1>4

LEMMA Places ==
  ASSUME NEW p \in Interleavers
  PROVE  OnePlaceEach(p[1], p[2])
<1>1. OnePlaceEach(432, 103)
  <2>1. \A i \in 1..432 : 1 + ((103 * i) % 432) \in 1..432
    OBVIOUS
  <2>2. ASSUME NEW i \in 1..432, NEW j \in 1..432, AirPlace(432, 103, i) = AirPlace(432, 103, j)
        PROVE  i = j
    <3>1. (103 * i) % 432 = (103 * j) % 432
      BY <2>2 DEF AirPlace
    <3>2. PICK c \in Int : i - j = 432 * c
      BY <3>1, MultipliersInvertible
    <3>. QED
      BY <3>2
  <2>3. ASSUME NEW k \in 1..432
        PROVE  \E i \in 1..432 : 1 + ((103 * i) % 432) = k
    <3>. DEFINE i == 1 + ((151 * (k - 1) + 431) % 432)
    <3>1. i \in 1..432 /\ 1 + ((103 * i) % 432) = k
      BY SMTT(30)
    <3>. HIDE DEF i
    <3>. QED
      BY <3>1
  <2>4. \A i \in 1..432 : AirPlace(432, 103, i) \in 1..432
    BY <2>1 DEF AirPlace
  <2>5. \A k \in 1..432 : \E i \in 1..432 : AirPlace(432, 103, i) = k
    BY <2>3 DEF AirPlace
  <2>. QED
    BY <2>2, <2>4, <2>5 DEF OnePlaceEach
<1>2. OnePlaceEach(216, 101)
  <2>1. \A i \in 1..216 : 1 + ((101 * i) % 216) \in 1..216
    OBVIOUS
  <2>2. ASSUME NEW i \in 1..216, NEW j \in 1..216, AirPlace(216, 101, i) = AirPlace(216, 101, j)
        PROVE  i = j
    <3>1. (101 * i) % 216 = (101 * j) % 216
      BY <2>2 DEF AirPlace
    <3>2. PICK c \in Int : i - j = 216 * c
      BY <3>1, MultipliersInvertible
    <3>. QED
      BY <3>2
  <2>3. ASSUME NEW k \in 1..216
        PROVE  \E i \in 1..216 : 1 + ((101 * i) % 216) = k
    <3>. DEFINE i == 1 + ((77 * (k - 1) + 215) % 216)
    <3>1. i \in 1..216 /\ 1 + ((101 * i) % 216) = k
      BY SMTT(30)
    <3>. HIDE DEF i
    <3>. QED
      BY <3>1
  <2>4. \A i \in 1..216 : AirPlace(216, 101, i) \in 1..216
    BY <2>1 DEF AirPlace
  <2>5. \A k \in 1..216 : \E i \in 1..216 : AirPlace(216, 101, i) = k
    BY <2>3 DEF AirPlace
  <2>. QED
    BY <2>2, <2>4, <2>5 DEF OnePlaceEach
<1>3. OnePlaceEach(168, 13)
  <2>1. \A i \in 1..168 : 1 + ((13 * i) % 168) \in 1..168
    OBVIOUS
  <2>2. ASSUME NEW i \in 1..168, NEW j \in 1..168, AirPlace(168, 13, i) = AirPlace(168, 13, j)
        PROVE  i = j
    <3>1. (13 * i) % 168 = (13 * j) % 168
      BY <2>2 DEF AirPlace
    <3>2. PICK c \in Int : i - j = 168 * c
      BY <3>1, MultipliersInvertible
    <3>. QED
      BY <3>2
  <2>3. ASSUME NEW k \in 1..168
        PROVE  \E i \in 1..168 : 1 + ((13 * i) % 168) = k
    <3>. DEFINE i == 1 + ((13 * (k - 1) + 167) % 168)
    <3>1. i \in 1..168 /\ 1 + ((13 * i) % 168) = k
      BY SMTT(30)
    <3>. HIDE DEF i
    <3>. QED
      BY <3>1
  <2>4. \A i \in 1..168 : AirPlace(168, 13, i) \in 1..168
    BY <2>1 DEF AirPlace
  <2>5. \A k \in 1..168 : \E i \in 1..168 : AirPlace(168, 13, i) = k
    BY <2>3 DEF AirPlace
  <2>. QED
    BY <2>2, <2>4, <2>5 DEF OnePlaceEach
<1>4. OnePlaceEach(120, 11)
  <2>1. \A i \in 1..120 : 1 + ((11 * i) % 120) \in 1..120
    OBVIOUS
  <2>2. ASSUME NEW i \in 1..120, NEW j \in 1..120, AirPlace(120, 11, i) = AirPlace(120, 11, j)
        PROVE  i = j
    <3>1. (11 * i) % 120 = (11 * j) % 120
      BY <2>2 DEF AirPlace
    <3>2. PICK c \in Int : i - j = 120 * c
      BY <3>1, MultipliersInvertible
    <3>. QED
      BY <3>2
  <2>3. ASSUME NEW k \in 1..120
        PROVE  \E i \in 1..120 : 1 + ((11 * i) % 120) = k
    <3>. DEFINE i == 1 + ((11 * (k - 1) + 119) % 120)
    <3>1. i \in 1..120 /\ 1 + ((11 * i) % 120) = k
      BY SMTT(30)
    <3>. HIDE DEF i
    <3>. QED
      BY <3>1
  <2>4. \A i \in 1..120 : AirPlace(120, 11, i) \in 1..120
    BY <2>1 DEF AirPlace
  <2>5. \A k \in 1..120 : \E i \in 1..120 : AirPlace(120, 11, i) = k
    BY <2>3 DEF AirPlace
  <2>. QED
    BY <2>2, <2>4, <2>5 DEF OnePlaceEach
<1>. QED
  BY <1>1, <1>2, <1>3, <1>4 DEF Interleavers

LEMMA Deinterleaved ==
  ASSUME NEW p \in Interleavers, NEW air
  PROVE  DeinterleavePerm(air, p[1], p[2])
           = [i \in 1..p[1] |-> air[AirPlace(p[1], p[2], i)]]
<1>. DEFINE f == [i \in 1..p[1] |-> air[AirPlace(p[1], p[2], i)]]
<1>1. DeinterleavePerm(air, p[1], p[2]) = Whole(f)
  BY DEF DeinterleavePerm, AirPlace
<1>2. IsBlock(f, p[1])
  BY DEF IsBlock
<1>3. p[1] \in Nat
  BY Lengths
<1>. HIDE DEF f
<1>4. Whole(f) = f
  BY <1>2, <1>3, WholeIs
<1>. QED
  BY <1>1, <1>4 DEF f

(* air holds the bits, each at its place and nothing else.                 *)
Carries(air, bits, K, a) ==
  /\ IsBlock(air, K)
  /\ \A i \in 1..K : air[AirPlace(K, a, i)] = bits[i]
  /\ \A k \in 1..K : \E i \in 1..K : air[k] = bits[i]

LEMMA Interleaved ==
  ASSUME NEW p \in Interleavers, NEW bits
  PROVE  Carries(BlockInterleave(bits, p[1], p[2]), bits, p[1], p[2])
<1>. DEFINE At(k) == CHOOSE i \in 1..p[1] : AirPlace(p[1], p[2], i) = k
            f == [k \in 1..p[1] |-> bits[At(k)]]
<1>1. BlockInterleave(bits, p[1], p[2]) = Whole(f)
  BY DEF BlockInterleave, AirPlace
<1>2. ASSUME NEW k \in 1..p[1]
      PROVE  At(k) \in 1..p[1] /\ AirPlace(p[1], p[2], At(k)) = k
  BY Places DEF OnePlaceEach
<1>3. IsBlock(f, p[1])
  BY DEF IsBlock
<1>4. p[1] \in Nat
  BY Lengths
<1>5. ASSUME NEW i \in 1..p[1]
      PROVE  f[AirPlace(p[1], p[2], i)] = bits[i]
  <2>1. AirPlace(p[1], p[2], i) \in 1..p[1]
    BY Places DEF OnePlaceEach
  <2>2. At(AirPlace(p[1], p[2], i)) = i
    BY <1>2, <2>1, Places DEF OnePlaceEach
  <2>. QED
    BY <2>1, <2>2
<1>6. ASSUME NEW k \in 1..p[1]
      PROVE  \E i \in 1..p[1] : f[k] = bits[i]
  <2>1. At(k) \in 1..p[1]
    BY <1>2
  <2>2. f[k] = bits[At(k)]
    OBVIOUS
  <2>. HIDE DEF f, At
  <2>. QED
    BY <2>1, <2>2
<1>. HIDE DEF f
<1>7. BlockInterleave(bits, p[1], p[2]) = f
  BY <1>1, <1>3, <1>4, WholeIs
<1>8. Carries(f, bits, p[1], p[2])
  BY <1>3, <1>5, <1>6 DEF Carries
<1>. QED
  BY <1>7, <1>8

-----------------------------------------------------------------------------
(* Puncturing.  Of eight coded bits the first, the second and the fifth    *)
(* are sent.                                                               *)

LEMMA MotherIs ==
  ASSUME NEW j \in Nat \ {0}
  PROVE  \E g \in Nat :
           \/ j = 3 * g + 1 /\ MotherPosition(j) = 8 * g + 1
           \/ j = 3 * g + 2 /\ MotherPosition(j) = 8 * g + 2
           \/ j = 3 * g + 3 /\ MotherPosition(j) = 8 * g + 5
<1>. DEFINE g == (j - 1) \div 3
<1>1. g \in Nat /\ j - 3 * g \in {1, 2, 3}
  OBVIOUS
<1>2. Kept[1] = 1 /\ Kept[2] = 2 /\ Kept[3] = 5
  BY DEF Kept
<1>3. MotherPosition(j) = 8 * g + Kept[j - 3 * g]
  BY DEF MotherPosition
<1>. HIDE DEF g
<1>. QED
  BY <1>1, <1>2, <1>3

LEMMA MotherApart ==
  ASSUME NEW i \in Nat \ {0}, NEW j \in Nat \ {0}, i < j
  PROVE  /\ MotherPosition(i) < MotherPosition(j)
         /\ j - i >= 11 => MotherPosition(j) - MotherPosition(i) >= 28
  BY MotherIs, SMTT(30)

LEMMA MotherWithin ==
  ASSUME NEW n \in Nat, NEW j \in 1..(3 * n)
  PROVE  MotherPosition(j) \in 1..(8 * n)
  BY MotherIs, SMTT(30)

LEMMA Depunctured ==
  ASSUME NEW n \in Nat, NEW bits, DOMAIN bits = 1..(3 * n), NEW blank
  PROVE  /\ \A j \in 1..(3 * n) :
              Depuncture(bits, blank, 8 * n)[MotherPosition(j)] = bits[j]
         /\ \A k \in 1..(8 * n) : (\A j \in 1..(3 * n) : MotherPosition(j) # k)
              => Depuncture(bits, blank, 8 * n)[k] = blank
<1>. DEFINE D == 1..(3 * n)
            kept == {MotherPosition(j) : j \in D}
            at == [k \in kept |-> CHOOSE j \in D : MotherPosition(j) = k]
            f == [k \in 1..(8 * n) |-> IF k \in DOMAIN at THEN bits[at[k]] ELSE blank]
<1>1. DOMAIN at = kept
  OBVIOUS
<1>2. Depuncture(bits, blank, 8 * n) = Whole(f)
  BY DEF Depuncture
<1>3. ASSUME NEW k \in kept
      PROVE  at[k] \in D /\ MotherPosition(at[k]) = k
  OBVIOUS
<1>4. IsBlock(f, 8 * n)
  BY DEF IsBlock
<1>5. ASSUME NEW j \in D
      PROVE  f[MotherPosition(j)] = bits[j]
  <2>1. MotherPosition(j) \in kept /\ MotherPosition(j) \in 1..(8 * n)
    BY MotherWithin
  <2>2. at[MotherPosition(j)] = j
    <3>. DEFINE i == at[MotherPosition(j)]
    <3>1. i \in D /\ MotherPosition(i) = MotherPosition(j)
      BY <1>3, <2>1
    <3>. HIDE DEF i
    <3>2. i \in Nat \ {0} /\ j \in Nat \ {0}
      BY <3>1
    <3>3. MotherPosition(j) \in Int
      BY <2>1
    <3>4. ~(i < j) /\ ~(j < i)
      BY <3>1, <3>2, <3>3, MotherApart
    <3>5. i = j
      BY <3>2, <3>4
    <3>. QED
      BY <3>5 DEF i
  <2>. QED
    BY <1>1, <2>1, <2>2
<1>6. ASSUME NEW k \in 1..(8 * n), \A j \in D : MotherPosition(j) # k
      PROVE  f[k] = blank
  BY <1>1, <1>6
<1>7. 8 * n \in Nat
  OBVIOUS
<1>. HIDE DEF f
<1>8. Depuncture(bits, blank, 8 * n) = f
  BY <1>2, <1>4, <1>7, WholeIs
<1>. QED
  BY <1>5, <1>6, <1>8

-----------------------------------------------------------------------------
(* The interleavers take back what they did, whatever the block.           *)

(* What the encoders of verify_sb1_encoder.py and of the stimuli spread    *)
(* over a block, decode_dl.py puts back: for the four channels.            *)
THEOREM InterleaverTakenBack ==
  ASSUME NEW p \in Interleavers, NEW bits, IsBlock(bits, p[1])
  PROVE  DeinterleavePerm(BlockInterleave(bits, p[1], p[2]), p[1], p[2]) = bits
<1>. DEFINE air == BlockInterleave(bits, p[1], p[2])
            back == DeinterleavePerm(air, p[1], p[2])
<1>1. \A i \in 1..p[1] : air[AirPlace(p[1], p[2], i)] = bits[i]
  BY Interleaved DEF Carries
<1>. HIDE DEF air
<1>2. back = [i \in 1..p[1] |-> air[AirPlace(p[1], p[2], i)]]
  BY Deinterleaved
<1>3. back = [i \in 1..p[1] |-> bits[i]]
  BY <1>1, <1>2
<1>. QED
  BY <1>3 DEF IsBlock, air

(* The j-th place that is reached going round a circle of K places.        *)
Circles == {432, 216}
CirclePlace(K, step, j) == 1 + (((j - 1) * step) % K)

LEMMA Permuted ==
  ASSUME NEW K \in Circles, NEW data, NEW step
  PROVE  StepPermute(data, K, step) = [j \in 1..K |-> data[CirclePlace(K, step, j)]]
<1>. DEFINE f == [j \in 1..K |-> data[CirclePlace(K, step, j)]]
<1>1. StepPermute(data, K, step) = Whole(f)
  BY DEF StepPermute, CirclePlace
<1>2. IsBlock(f, K) /\ K \in Nat
  BY DEF IsBlock, Circles
<1>. HIDE DEF f
<1>3. Whole(f) = f
  BY <1>2, WholeIs
<1>. QED
  BY <1>1, <1>3 DEF f

(* gen_interleaver_vectors.py: going round the circle by the receiver's    *)
(* step undoes going round it by the sender's, for both block lengths.     *)
THEOREM StepsTakenBack ==
  ASSUME NEW K \in Circles, NEW data, IsBlock(data, K)
  PROVE  StepDeinterleave(StepInterleave(data, K), K) = data
<1>. DEFINE sent == [j \in 1..K |-> data[CirclePlace(K, StepTx, j)]]
            At(j) == CirclePlace(K, StepRx(K), j)
<1>1. \A j \in 1..K : At(j) \in 1..K /\ CirclePlace(K, StepTx, At(j)) = j
  <2>1. \A j \in 1..432 : /\ 1 + (((j - 1) * 275) % 432) \in 1..432
                          /\ 1 + ((((1 + (((j - 1) * 275) % 432)) - 1) * 11) % 432) = j
    BY SMTT(30)
  <2>2. \A j \in 1..216 : /\ 1 + (((j - 1) * 59) % 216) \in 1..216
                          /\ 1 + ((((1 + (((j - 1) * 59) % 216)) - 1) * 11) % 216) = j
    BY SMTT(30)
  <2>. QED
    BY <2>1, <2>2 DEF StepTx, StepRx, CirclePlace, Circles
<1>2. StepInterleave(data, K) = sent
  BY Permuted DEF StepInterleave
<1>3. \A j \in 1..K : sent[At(j)] = data[j]
  <2>. TAKE j \in 1..K
  <2>1. sent[At(j)] = data[CirclePlace(K, StepTx, At(j))]
    <3>. HIDE DEF At
    <3>. QED
      BY <1>1
  <2>. QED
    BY <1>1, <2>1
<1>. HIDE DEF sent
<1>4. StepDeinterleave(sent, K) = [j \in 1..K |-> sent[At(j)]]
  BY Permuted DEF StepDeinterleave
<1>. HIDE DEF At
<1>5. StepDeinterleave(sent, K) = [j \in 1..K |-> data[j]]
  BY <1>3, <1>4
<1>. QED
  BY <1>2, <1>5 DEF IsBlock

(* decode_tch_s.py: its interleaver for a speech block counts from one     *)
(* where that of decode_dl.py counts from nought; it takes its own back.   *)
THEOREM SpeechTakenBack ==
  ASSUME NEW bits, IsBlock(bits, 432)
  PROVE  DeinterleaveBlock(InterleaveBlock(bits, 432, 103), 432, 103) = bits
<1>. DEFINE At(k) == 1 + ((1 + 103 * (k - 1)) % 432)
            From(i) == CHOOSE k \in 1..432 : At(k) = i
            air == [i \in 1..432 |-> bits[From(i)]]
            back == [k \in 1..432 |-> air[At(k)]]
<1>1. \A k \in 1..432 : At(k) \in 1..432
  OBVIOUS
<1>2. ASSUME NEW i \in 1..432, NEW k \in 1..432, At(i) = At(k)
      PROVE  i = k
  <2>. DEFINE d == ((1 + 103 * (i - 1)) \div 432) - ((1 + 103 * (k - 1)) \div 432)
  <2>1. d \in Int /\ 103 * (i - k) = 432 * d
    BY <1>2
  <2>. HIDE DEF d
  <2>2. PICK c \in Int : i - k = 432 * c
    <3>1. i - k = 432 * (151 * d - 36 * (i - k)) /\ 151 * d - 36 * (i - k) \in Int
      BY <2>1
    <3>. QED
      BY <3>1
  <2>. QED
    BY <2>2
<1>3. ASSUME NEW k \in 1..432
      PROVE  From(At(k)) = k
  <2>. HIDE DEF At
  <2>. DEFINE j == From(At(k))
  <2>1. j \in 1..432 /\ At(j) = At(k)
    OBVIOUS
  <2>. HIDE DEF j
  <2>2. j = k
    BY <1>2, <2>1
  <2>. QED
    BY <2>2 DEF j
<1>4. InterleaveBlock(bits, 432, 103) = air
  BY DEF InterleaveBlock
<1>5. DeinterleaveBlock(air, 432, 103) = back
  BY DEF DeinterleaveBlock
<1>. HIDE DEF At, From
<1>6. \A k \in 1..432 : air[At(k)] = bits[k]
  BY <1>1, <1>3
<1>. HIDE DEF air
<1>7. back = [k \in 1..432 |-> bits[k]]
  BY <1>6
<1>8. back = bits
  BY <1>7 DEF IsBlock
<1>. HIDE DEF back
<1>. QED
  BY <1>4, <1>5, <1>8

-----------------------------------------------------------------------------
(* What the decoder of the convolutional code is given.                    *)

LEMMA Scrambled ==
  ASSUME NEW n \in Nat, NEW bits \in [1..n -> Bits], NEW scr \in [1..n -> Bits]
  PROVE  /\ XorSeq(bits, scr) \in [1..n -> Bits]
         /\ \A i \in 1..n : XorSeq(bits, scr)[i] = (bits[i] + scr[i]) % 2
  BY DEF XorSeq, Bits

LEMMA Flipped ==
  ASSUME NEW n \in Nat, NEW bits \in [1..n -> Bits], NEW wrong
  PROVE  /\ Flip(bits, wrong) \in [1..n -> Bits]
         /\ \A i \in 1..n :
              Flip(bits, wrong)[i] = IF i \in wrong THEN 1 - bits[i] ELSE bits[i]
  BY DEF Flip, Bits

(* A bit received wrong is descrambled to the wrong bit, any other to the  *)
(* bit that was scrambled.                                                 *)
LEMMA Descrambled ==
  ASSUME NEW n \in Nat, NEW bits \in [1..n -> Bits], NEW scr \in [1..n -> Bits],
         NEW wrong
  PROVE  XorSeq(Flip(XorSeq(bits, scr), wrong), scr) = Flip(bits, wrong)
<1>. DEFINE sent == XorSeq(bits, scr)
            got == Flip(sent, wrong)
<1>1. sent \in [1..n -> Bits] /\ \A i \in 1..n : sent[i] = (bits[i] + scr[i]) % 2
  BY Scrambled
<1>. HIDE DEF sent
<1>2. /\ got \in [1..n -> Bits]
      /\ \A i \in 1..n : got[i] = IF i \in wrong THEN 1 - sent[i] ELSE sent[i]
  BY <1>1, Flipped
<1>. HIDE DEF got
<1>3. /\ XorSeq(got, scr) \in [1..n -> Bits]
      /\ \A i \in 1..n : XorSeq(got, scr)[i] = (got[i] + scr[i]) % 2
  BY <1>2, Scrambled
<1>4. \A x, y \in {0, 1} : /\ (((x + y) % 2) + y) % 2 = x
                           /\ ((1 - ((x + y) % 2)) + y) % 2 = 1 - x
  OBVIOUS
<1>5. ASSUME NEW i \in 1..n
      PROVE  XorSeq(got, scr)[i] = Flip(bits, wrong)[i]
  <2>1. bits[i] \in {0, 1} /\ scr[i] \in {0, 1}
    BY DEF Bits
  <2>2. XorSeq(got, scr)[i] = (got[i] + scr[i]) % 2
    BY <1>3
  <2>3. CASE i \in wrong
    <3>1. got[i] = 1 - ((bits[i] + scr[i]) % 2) /\ Flip(bits, wrong)[i] = 1 - bits[i]
      BY <1>1, <1>2, <2>3, Flipped
    <3>. QED
      BY <1>4, <2>1, <2>2, <3>1
  <2>4. CASE i \notin wrong
    <3>1. got[i] = (bits[i] + scr[i]) % 2 /\ Flip(bits, wrong)[i] = bits[i]
      BY <1>1, <1>2, <2>4, Flipped
    <3>. QED
      BY <1>4, <2>1, <2>2, <3>1
  <2>. QED
    BY <2>3, <2>4
<1>6. Flip(bits, wrong) \in [1..n -> Bits]
  BY Flipped
<1>7. XorSeq(got, scr) = Flip(bits, wrong)
  BY <1>3, <1>5, <1>6
<1>. QED
  BY <1>7 DEF got, sent

(* A block of coded bits is punctured, interleaved and scrambled, some of  *)
(* its bits are received wrong, and it is descrambled, deinterleaved and   *)
(* filled up as decode_channel does (decode_dl.py).  The decoder is given  *)
(* every coded bit that was sent at its own place, wrong if it was         *)
(* received wrong and right otherwise, and an erasure at every other       *)
(* place: whatever the block, the cell's scrambling sequence and the bits  *)
(* that are wrong.                                                         *)
THEOREM DecoderInput ==
  ASSUME NEW p \in Interleavers, NEW n \in Nat, p[1] = 3 * n,
         NEW mother \in [1..(8 * n) -> Bits], NEW scr \in [1..p[1] -> Bits],
         NEW wrong
  PROVE  LET type3 == PunctureR23(mother)
             sent  == XorSeq(BlockInterleave(type3, p[1], p[2]), scr)
             type4 == DeinterleavePerm(XorSeq(Flip(sent, wrong), scr), p[1], p[2])
             coded == DepunctureR23(type4, 8 * n)
         IN  /\ \A j \in 1..p[1] :
                  coded[MotherPosition(j)]
                    = IF AirPlace(p[1], p[2], j) \in wrong
                      THEN 1 - mother[MotherPosition(j)]
                      ELSE mother[MotherPosition(j)]
             /\ \A k \in 1..(8 * n) :
                  (\A j \in 1..p[1] : MotherPosition(j) # k) => coded[k] = 2
<1>. DEFINE K == p[1]
            a == p[2]
            type3 == PunctureR23(mother)
            air == BlockInterleave(type3, K, a)
            got == XorSeq(Flip(XorSeq(air, scr), wrong), scr)
            type4 == DeinterleavePerm(got, K, a)
            coded == DepunctureR23(type4, 8 * n)
<1>1. K = 3 * n /\ K \in Nat
  OBVIOUS
<1>2. \A j \in 1..K : /\ type3[j] = mother[MotherPosition(j)]
                      /\ type3[j] \in Bits
  <2>1. 8 * n \in Nat /\ (8 * n) \div 8 = n
    OBVIOUS
  <2>2. IsBlock(mother, 8 * n)
    BY DEF IsBlock
  <2>3. Len(mother) = 8 * n
    BY <2>1, <2>2, WholeIs
  <2>4. type3 = [j \in 1..(3 * n) |-> mother[MotherPosition(j)]]
    BY <2>1, <2>3 DEF PunctureR23
  <2>5. \A j \in 1..(3 * n) : MotherPosition(j) \in 1..(8 * n)
    BY MotherWithin
  <2>. QED
    BY <2>4, <2>5
<1>. HIDE DEF type3
<1>3. Carries(air, type3, K, a)
  BY Interleaved
<1>. HIDE DEF air
<1>4. air \in [1..K -> Bits]
  BY <1>2, <1>3 DEF IsBlock, Carries
<1>5. got = Flip(air, wrong)
  BY <1>1, <1>4, Descrambled
<1>6. \A i \in 1..K : got[i] = IF i \in wrong THEN 1 - air[i] ELSE air[i]
  BY <1>1, <1>4, <1>5, Flipped
<1>. HIDE DEF got
<1>7. type4 = [j \in 1..K |-> got[AirPlace(K, a, j)]]
  BY Deinterleaved
<1>8. \A j \in 1..K : AirPlace(K, a, j) \in 1..K
  BY Places DEF OnePlaceEach
<1>9. DOMAIN type4 = 1..(3 * n)
  BY <1>7
<1>. HIDE DEF type4
<1>10. /\ \A j \in 1..K : coded[MotherPosition(j)] = type4[j]
       /\ \A k \in 1..(8 * n) :
            (\A j \in 1..K : MotherPosition(j) # k) => coded[k] = 2
  BY <1>9, Depunctured DEF DepunctureR23
<1>. HIDE DEF coded
<1>11. ASSUME NEW j \in 1..K
       PROVE  coded[MotherPosition(j)]
                = IF AirPlace(K, a, j) \in wrong
                  THEN 1 - mother[MotherPosition(j)]
                  ELSE mother[MotherPosition(j)]
  <2>1. coded[MotherPosition(j)] = got[AirPlace(K, a, j)]
    BY <1>7, <1>10
  <2>2. air[AirPlace(K, a, j)] = mother[MotherPosition(j)]
    BY <1>2, <1>3 DEF Carries
  <2>. QED
    BY <1>6, <1>8, <2>1, <2>2
<1>. QED
  BY <1>10, <1>11 DEF type3, air, got, type4, coded

-----------------------------------------------------------------------------
(* Fades.                                                                  *)

(* The differences of up to eight places, round a block.                   *)
Near(K) == 0..8 \cup (K - 8)..(K - 1)

(* Two bits whose numbers differ by ten or less are further apart.         *)
LEMMA NeighboursApart ==
  ASSUME NEW p \in Interleavers, NEW r \in 1..10
  PROVE  (p[2] * r) % p[1] \notin Near(p[1])
<1>1. \A x \in 1..10 : (103 * x) % 432 \notin Near(432)
  BY SMTT(30) DEF Near
<1>2. \A x \in 1..10 : (101 * x) % 216 \notin Near(216)
  BY SMTT(30) DEF Near
<1>3. \A x \in 1..10 : (13 * x) % 168 \notin Near(168)
  BY SMTT(30) DEF Near
<1>4. \A x \in 1..10 : (11 * x) % 120 \notin Near(120)
  BY SMTT(30) DEF Near
<1>. QED
  BY <1>1, <1>2, <1>3, <1>4 DEF Interleavers

(* The distance of two bits on the air depends on that of their numbers.   *)
LEMMA DifferenceNear ==
  ASSUME NEW p \in Interleavers, NEW i \in 1..p[1], NEW j \in 1..p[1], i < j,
         AirPlace(p[1], p[2], i) - AirPlace(p[1], p[2], j) \in -8..8
  PROVE  (p[2] * (j - i)) % p[1] \in Near(p[1])
<1>1. ASSUME NEW x \in Int, NEW y \in Int, ((103 * x) % 432) - ((103 * y) % 432) \in -8..8
      PROVE  (103 * (y - x)) % 432 \in Near(432)
  <2>. DEFINE d == ((103 * y) \div 432) - ((103 * x) \div 432)
              e == ((103 * y) % 432) - ((103 * x) % 432)
  <2>1. d \in Int /\ e \in -8..8
    BY <1>1
  <2>2. 103 * (y - x) = 432 * d + e
    OBVIOUS
  <2>. HIDE DEF d, e
  <2>3. (432 * d + e) % 432 \in Near(432)
    BY <2>1 DEF Near
  <2>. QED
    BY <2>2, <2>3
<1>2. ASSUME NEW x \in Int, NEW y \in Int, ((101 * x) % 216) - ((101 * y) % 216) \in -8..8
      PROVE  (101 * (y - x)) % 216 \in Near(216)
  <2>. DEFINE d == ((101 * y) \div 216) - ((101 * x) \div 216)
              e == ((101 * y) % 216) - ((101 * x) % 216)
  <2>1. d \in Int /\ e \in -8..8
    BY <1>2
  <2>2. 101 * (y - x) = 216 * d + e
    OBVIOUS
  <2>. HIDE DEF d, e
  <2>3. (216 * d + e) % 216 \in Near(216)
    BY <2>1 DEF Near
  <2>. QED
    BY <2>2, <2>3
<1>3. ASSUME NEW x \in Int, NEW y \in Int, ((13 * x) % 168) - ((13 * y) % 168) \in -8..8
      PROVE  (13 * (y - x)) % 168 \in Near(168)
  <2>. DEFINE d == ((13 * y) \div 168) - ((13 * x) \div 168)
              e == ((13 * y) % 168) - ((13 * x) % 168)
  <2>1. d \in Int /\ e \in -8..8
    BY <1>3
  <2>2. 13 * (y - x) = 168 * d + e
    OBVIOUS
  <2>. HIDE DEF d, e
  <2>3. (168 * d + e) % 168 \in Near(168)
    BY <2>1 DEF Near
  <2>. QED
    BY <2>2, <2>3
<1>4. ASSUME NEW x \in Int, NEW y \in Int, ((11 * x) % 120) - ((11 * y) % 120) \in -8..8
      PROVE  (11 * (y - x)) % 120 \in Near(120)
  <2>. DEFINE d == ((11 * y) \div 120) - ((11 * x) \div 120)
              e == ((11 * y) % 120) - ((11 * x) % 120)
  <2>1. d \in Int /\ e \in -8..8
    BY <1>4
  <2>2. 11 * (y - x) = 120 * d + e
    OBVIOUS
  <2>. HIDE DEF d, e
  <2>3. (120 * d + e) % 120 \in Near(120)
    BY <2>1 DEF Near
  <2>. QED
    BY <2>2, <2>3
<1>5. ((p[2] * i) % p[1]) - ((p[2] * j) % p[1]) \in -8..8
  BY DEF AirPlace, Interleavers
<1>6. i \in Int /\ j \in Int
  BY Lengths
<1>7. CASE p[1] = 432 /\ p[2] = 103
  BY <1>1, <1>5, <1>6, <1>7
<1>8. CASE p[1] = 216 /\ p[2] = 101
  BY <1>2, <1>5, <1>6, <1>8
<1>9. CASE p[1] = 168 /\ p[2] = 13
  BY <1>3, <1>5, <1>6, <1>9
<1>10. CASE p[1] = 120 /\ p[2] = 11
  BY <1>4, <1>5, <1>6, <1>10
<1>. QED
  BY <1>7, <1>8, <1>9, <1>10 DEF Interleavers

(* Two bits that are received at most eight bits apart, as in a fade of    *)
(* nine bits, reach the decoder at least 28 coded bits apart, seven of its *)
(* steps.  An input bit bears on the coded bits of five steps, so no input *)
(* bit has two wrong ones among the coded bits that tell of it.            *)
THEOREM FadesTakenApart ==
  ASSUME NEW p \in Interleavers, NEW i \in 1..p[1], NEW j \in 1..p[1], i < j,
         AirPlace(p[1], p[2], i) - AirPlace(p[1], p[2], j) \in -8..8
  PROVE  MotherPosition(j) - MotherPosition(i) >= 28
<1>1. i \in Nat \ {0} /\ j \in Nat \ {0}
  BY Lengths
<1>2. j - i \notin 1..10
  BY DifferenceNear, NeighboursApart
<1>3. j - i >= 11
  BY <1>1, <1>2
<1>. QED
  BY <1>1, <1>3, MotherApart

-----------------------------------------------------------------------------
(* The schedule tool.                                                      *)

Labels == [mn : 1..60, fn : 1..18, tn : 0..3]
Following(at) ==
  [mn |-> IF at.tn = 3 /\ at.fn = 18 THEN (at.mn % 60) + 1 ELSE at.mn,
   fn |-> IF at.tn = 3 THEN (at.fn % 18) + 1 ELSE at.fn,
   tn |-> (at.tn + 1) % 4]

LabelAt(n) ==
  [mn |-> ((n \div 72) % 60) + 1, fn |-> ((n % 72) \div 4) + 1, tn |-> (n % 72) % 4]
NumberOf(at) == (((at.mn - 1) * 72) + ((at.fn - 1) * 4)) + at.tn

(* Slot n, when h hyperframes begin before it.                             *)
SlotIs(n, h, mn, fn, tn) ==
  n = 4320 * h + (((mn - 1) * 72) + ((fn - 1) * 4)) + tn

LEMMA LabelOf ==
  ASSUME NEW n, NEW h \in Int, NEW mn \in 1..60, NEW fn \in 1..18, NEW tn \in 0..3,
         SlotIs(n, h, mn, fn, tn)
  PROVE  LabelAt(n) = [mn |-> mn, fn |-> fn, tn |-> tn]
<1>. DEFINE m == 60 * h + (mn - 1)
            s == 4 * (fn - 1) + tn
<1>1. m \in Int /\ s \in 0..71 /\ n = 72 * m + s
  BY DEF SlotIs
<1>2. m % 60 = mn - 1
  OBVIOUS
<1>3. s \div 4 = fn - 1 /\ s % 4 = tn
  OBVIOUS
<1>. HIDE DEF m, s
<1>4. n \div 72 = m /\ n % 72 = s
  BY <1>1
<1>. QED
  BY <1>2, <1>3, <1>4 DEF LabelAt

LEMMA LabelParts ==
  ASSUME NEW n \in Int
  PROVE  \E h \in Int, mn \in 1..60, fn \in 1..18, tn \in 0..3 : SlotIs(n, h, mn, fn, tn)
<1>. DEFINE m == n \div 72
            s == n % 72
            h == m \div 60
            mn == (m % 60) + 1
            fn == (s \div 4) + 1
            tn == s % 4
<1>1. m \in Int /\ s \in 0..71 /\ n = 72 * m + s
  OBVIOUS
<1>. HIDE DEF m, s
<1>2. h \in Int /\ mn \in 1..60 /\ m = 60 * h + mn - 1
  BY <1>1
<1>3. fn \in 1..18 /\ tn \in 0..3 /\ s = 4 * (fn - 1) + tn
  BY <1>1
<1>. HIDE DEF h, mn, fn, tn
<1>4. SlotIs(n, h, mn, fn, tn)
  BY <1>1, <1>2, <1>3 DEF SlotIs
<1>. QED
  BY <1>2, <1>3, <1>4

(* The labels of schedule.py: the anchor burst has the slot it was decoded *)
(* with, and going from burst to burst, before the anchor as after it, the *)
(* labels go through slots, frames and multiframes in order, round the     *)
(* hyperframe: whatever the anchor and however long the recording.         *)
THEOREM LabelsCountOn ==
  ASSUME NEW at \in Labels, NEW anchor_idx \in Int, NEW bi \in Int
  PROVE  /\ SlotLabel(anchor_idx, anchor_idx, at) = at
         /\ SlotLabel(bi, anchor_idx, at) \in Labels
         /\ SlotLabel(bi + 1, anchor_idx, at) = Following(SlotLabel(bi, anchor_idx, at))
<1>1. \A b \in Int : SlotLabel(b, anchor_idx, at) = LabelAt(NumberOf(at) + (b - anchor_idx))
  BY DEF SlotLabel, LabelAt, NumberOf
<1>2. /\ at.mn \in 1..60 /\ at.fn \in 1..18 /\ at.tn \in 0..3
      /\ at = [mn |-> at.mn, fn |-> at.fn, tn |-> at.tn]
  BY DEF Labels
<1>3. NumberOf(at) \in Int
  <2>1. at.mn \in Int /\ at.fn \in Int /\ at.tn \in Int
    BY <1>2
  <2>. QED
    BY <2>1 DEF NumberOf
<1>4. SlotLabel(anchor_idx, anchor_idx, at) = at
  <2>1. SlotLabel(anchor_idx, anchor_idx, at) = LabelAt(NumberOf(at))
    BY <1>1, <1>3
  <2>2. SlotIs(NumberOf(at), 0, at.mn, at.fn, at.tn)
    BY <1>2 DEF NumberOf, SlotIs
  <2>3. LabelAt(NumberOf(at)) = [mn |-> at.mn, fn |-> at.fn, tn |-> at.tn]
    <3>. DEFINE mn == at.mn
                fn == at.fn
                tn == at.tn
    <3>1. mn \in 1..60 /\ fn \in 1..18 /\ tn \in 0..3 /\ 0 \in Int
      BY <1>2
    <3>2. SlotIs(NumberOf(at), 0, mn, fn, tn)
      BY <2>2
    <3>. HIDE DEF mn, fn, tn
    <3>3. LabelAt(NumberOf(at)) = [mn |-> mn, fn |-> fn, tn |-> tn]
      BY <3>1, <3>2, LabelOf
    <3>. QED
      BY <3>3 DEF mn, fn, tn
  <2>. QED
    BY <1>2, <2>1, <2>3
<1>. DEFINE n == NumberOf(at) + (bi - anchor_idx)
<1>5. n \in Int /\ NumberOf(at) + ((bi + 1) - anchor_idx) = n + 1
  BY <1>3
<1>. HIDE DEF n
<1>6. PICK h \in Int, mn \in 1..60, fn \in 1..18, tn \in 0..3 : SlotIs(n, h, mn, fn, tn)
  BY <1>5, LabelParts
<1>7. LabelAt(n + 1) = Following([mn |-> mn, fn |-> fn, tn |-> tn])
  <2>1. CASE tn < 3
    <3>1. SlotIs(n + 1, h, mn, fn, tn + 1)
      BY <1>6 DEF SlotIs
    <3>2. tn + 1 \in 0..3 /\ (tn + 1) % 4 = tn + 1
      BY <2>1
    <3>3. LabelAt(n + 1) = [mn |-> mn, fn |-> fn, tn |-> tn + 1]
      BY <3>1, <3>2, LabelOf
    <3>. QED
      BY <2>1, <3>2, <3>3 DEF Following
  <2>2. CASE tn = 3 /\ fn < 18
    <3>1. SlotIs(n + 1, h, mn, fn + 1, 0)
      BY <1>6, <2>2 DEF SlotIs
    <3>2. fn + 1 \in 1..18 /\ fn % 18 = fn
      BY <2>2
    <3>3. LabelAt(n + 1) = [mn |-> mn, fn |-> fn + 1, tn |-> 0]
      <4>1. 0 \in 0..3
        OBVIOUS
      <4>. QED
        BY <3>1, <3>2, <4>1, LabelOf
    <3>. QED
      BY <2>2, <3>2, <3>3 DEF Following
  <2>3. CASE tn = 3 /\ fn = 18 /\ mn < 60
    <3>1. SlotIs(n + 1, h, mn + 1, 1, 0)
      BY <1>6, <2>3 DEF SlotIs
    <3>2. mn + 1 \in 1..60 /\ mn % 60 = mn
      BY <2>3
    <3>3. LabelAt(n + 1) = [mn |-> mn + 1, fn |-> 1, tn |-> 0]
      <4>1. 1 \in 1..18 /\ 0 \in 0..3
        OBVIOUS
      <4>. QED
        BY <3>1, <3>2, <4>1, LabelOf
    <3>. QED
      BY <2>3, <3>2, <3>3 DEF Following
  <2>4. CASE tn = 3 /\ fn = 18 /\ mn = 60
    <3>1. SlotIs(n + 1, h + 1, 1, 1, 0)
      BY <1>6, <2>4 DEF SlotIs
    <3>2. LabelAt(n + 1) = [mn |-> 1, fn |-> 1, tn |-> 0]
      <4>1. h + 1 \in Int /\ 1 \in 1..60 /\ 1 \in 1..18 /\ 0 \in 0..3
        OBVIOUS
      <4>. QED
        BY <3>1, <4>1, LabelOf
    <3>. QED
      BY <2>4, <3>2 DEF Following
  <2>. QED
    BY <2>1, <2>2, <2>3, <2>4
<1>8. LabelAt(n) = [mn |-> mn, fn |-> fn, tn |-> tn]
  BY <1>6, LabelOf
<1>9. SlotLabel(bi, anchor_idx, at) = LabelAt(n) /\ SlotLabel(bi + 1, anchor_idx, at) = LabelAt(n + 1)
  BY <1>1, <1>5 DEF n
<1>. QED
  BY <1>4, <1>7, <1>8, <1>9 DEF Labels

(* The grid of schedule.py holds, in order and each once, all positions of *)
(* the anchor's raster at which a burst fits into the recording, and no    *)
(* other; the anchor is at the index from which the labels count.          *)
THEOREM GridIsRaster ==
  ASSUME NEW anchor \in Nat, NEW file \in Nat
  PROVE  /\ \A i \in DOMAIN Grid(anchor, file) :
              /\ Grid(anchor, file)[i] \in 0..(file - Spacing - 1)
              /\ Grid(anchor, file)[i] % Spacing = anchor % Spacing
              /\ AnchorIdx(Grid(anchor, file)[i]) + 1 = i
         /\ \A x \in 0..(file - Spacing - 1) : x % Spacing = anchor % Spacing =>
              /\ AnchorIdx(x) + 1 \in DOMAIN Grid(anchor, file)
              /\ Grid(anchor, file)[AnchorIdx(x) + 1] = x
<1>. DEFINE first == anchor % 255
            count == IF file - 255 > first THEN ((file - 255 - first - 1) \div 255) + 1 ELSE 0
<1>1. Grid(anchor, file) = [i \in 1..count |-> first + 255 * (i - 1)]
  BY DEF Grid, Spacing
<1>2. first \in 0..254
  OBVIOUS
<1>. HIDE DEF first
<1>3. count \in Nat
  BY <1>2
<1>4. \A i \in 1..count : first + 255 * (i - 1) <= file - 255 - 1
  BY <1>2
<1>5. \A k \in Int : first + 255 * k < file - 255 => k + 1 <= count
  BY <1>2
<1>6. \A k \in Int : (first + 255 * k) % 255 = first
  BY <1>2
<1>. HIDE DEF count
<1>7. ASSUME NEW i \in DOMAIN Grid(anchor, file)
      PROVE  /\ Grid(anchor, file)[i] \in 0..(file - Spacing - 1)
             /\ Grid(anchor, file)[i] % Spacing = first
             /\ AnchorIdx(Grid(anchor, file)[i]) + 1 = i
  <2>1. i \in 1..count /\ Grid(anchor, file)[i] = first + 255 * (i - 1)
    BY <1>1
  <2>2. i - 1 \in Nat
    BY <1>3, <2>1
  <2>3. first + 255 * (i - 1) \in 0..(file - 255 - 1)
    BY <1>2, <1>4, <2>1, <2>2
  <2>4. (first + 255 * (i - 1)) % 255 = first
    BY <1>6, <2>2
  <2>5. ((first + 255 * (i - 1)) - first) \div 255 = i - 1
    BY <1>2, <2>2
  <2>6. AnchorIdx(first + 255 * (i - 1)) = i - 1
    BY <2>4, <2>5 DEF AnchorIdx, Spacing
  <2>. HIDE DEF count
  <2>. QED
    BY <1>3, <2>1, <2>3, <2>4, <2>6 DEF Spacing
<1>8. ASSUME NEW x \in 0..(file - Spacing - 1), x % Spacing = first
      PROVE  /\ AnchorIdx(x) + 1 \in DOMAIN Grid(anchor, file)
             /\ Grid(anchor, file)[AnchorIdx(x) + 1] = x
  <2>. DEFINE k == AnchorIdx(x)
  <2>1. k \in Nat /\ x = first + 255 * k
    BY <1>2, <1>8 DEF AnchorIdx, Spacing
  <2>. HIDE DEF k
  <2>2. k + 1 \in 1..count
    BY <1>2, <1>3, <1>5, <2>1 DEF Spacing
  <2>3. Grid(anchor, file)[k + 1] = x
    BY <1>1, <2>1, <2>2
  <2>. QED
    BY <1>1, <2>2, <2>3 DEF k
<1>. QED
  BY <1>7, <1>8 DEF first, Spacing
=============================================================================
