------------------------------ MODULE BenchVectors ------------------------------
(***************************************************************************)
(* The generators of the test vectors in tb/vectors: scrambler, CRC,       *)
(* interleaver, convolutional code with its reference decoder, Reed-Muller *)
(* code; and the schedule of scripts/schedule.py, which is written for the *)
(* transmitter and measured in a recording.                                *)
(*                                                                         *)
(* HyperframeKept is a faulty variant that the models do not use.          *)
(***************************************************************************)
EXTENDS ChannelCodes

(* gen_scrambler_vectors.py: a Galois register, the bit it shifts out is   *)
(* the output and is added at the places of the mask.                      *)
PolyMask == {26, 23, 22, 16, 12, 11, 10, 8, 7, 5, 4, 2, 1, 0}
LfsrStep(state) == CrcStep(state, PolyMask, 0)
Scramble(lfsr_init, data) ==
  LET Step(acc, b) == [state |-> LfsrStep(acc.state), out |-> Append(acc.out, (b + acc.state[1]) % 2)]
  IN  Scan(Step, [state |-> lfsr_init, out |-> << >>], data).out
ComputeLfsrInit(cc, mcc, mnc, tn) ==
  LsbFirst(cc, 6) \o LsbFirst(mcc, 10) \o LsbFirst(mnc, 14) \o LsbFirst(tn, 2)
ScramblerCases ==
  << [cc |-> 1, mcc |-> 1, mnc |-> 1, tn |-> 0, data |-> [i \in 1..216 |-> ((i - 1) * 3 + 7) % 2]],
     [cc |-> 21, mcc |-> 291, mnc |-> 2748, tn |-> 2, data |-> [i \in 1..216 |-> 0]],
     [cc |-> 63, mcc |-> 1023, mnc |-> 16383, tn |-> 3, data |-> [i \in 1..432 |-> 1]],
     [cc |-> 42, mcc |-> 341, mnc |-> 4660, tn |-> 1,
      data |-> [i \in 1..432 |-> (((i - 1) * 7) + ((i - 1) \div 8)) % 2]],
     [cc |-> 1, mcc |-> 0, mnc |-> 0, tn |-> 0, data |-> [i \in 1..216 |-> i % 2]] >>

(* gen_crc16_vectors.py: the data go in at the low end of the register,    *)
(* read here from its top bit.                                             *)
Crc16Ccitt(data) ==
  LET Step(crc, b) ==
        LET left == SubSeq(crc, 2, 16) \o <<b>>
        IN  Whole(IF crc[1] = 1 THEN Flip(left, {4, 11, 16}) ELSE left)
  IN  Scan(Step, [i \in 1..16 |-> 1], data)
BytesToBits(data) == FlattenSeq([i \in DOMAIN data |-> MsbFirst(data[i], 8)])
(* "123456789", 0xABCD and 0xABCD with a bit flipped.                      *)
Bits1 == BytesToBits(<<49, 50, 51, 52, 53, 54, 55, 56, 57>>)
Bits7 == MsbFirst(43981, 16)
Bits9 == Flip(Bits7, {4})
(* The script stops at the first assertion that fails, with no file        *)
(* written.                                                                *)
Crc16FilesWritten ==
  /\ Crc16Ccitt(Bits1) = MsbFirst(10673, 16)
  /\ Crc16Ccitt(Bits9) # Crc16Ccitt(Bits7)

(* gen_interleaver_vectors.py: every "step"-th place of a circle.          *)
StepTx == 11
StepRx(K) == IF K = 432 THEN 275 ELSE 59
StepPermute(data, K, step) == Whole([j \in 1..K |-> data[1 + (((j - 1) * step) % K)]])
StepInterleave(data, K) == StepPermute(data, K, StepTx)
StepDeinterleave(data, K) == StepPermute(data, K, StepRx(K))

-----------------------------------------------------------------------------
(* gen_rcpc_encoder_vectors.py and gen_viterbi_vectors.py: three           *)
(* generators, given by how far back their taps look; the newest bit is on *)
(* top of the register.                                                    *)

Delays == << {0, 1, 3, 4}, {0, 1, 4}, {0, 2, 4} >>
EncodeBit(bits, i) ==
  [m \in 1..3 |-> Cardinality({t \in Delays[m] : i > t /\ bits[i - t] = 1}) % 2]
WithTail(bits, tail) == IF tail THEN bits \o <<0, 0, 0, 0>> ELSE bits
EncodeBlock(bits, tail) ==
  LET all == WithTail(bits, tail) IN [i \in DOMAIN all |-> EncodeBit(all, i)]
(* The register behind the last bit, its oldest bit first.                 *)
FinalSr(bits, tail) ==
  LET all == <<0, 0, 0, 0>> \o WithTail(bits, tail) IN SubSeq(all, Len(all) - 3, Len(all))
PunctureRate23(triplets) == [i \in DOMAIN triplets |-> SubSeq(triplets[i], 1, 2)]

Puncture(triplets, rate23) ==
  FlattenSeq([i \in DOMAIN triplets |-> SubSeq(triplets[i], 1, IF rate23 THEN 2 ELSE 3)])
AddSoftNoise(bits, level) ==
  [i \in DOMAIN bits |-> IF bits[i] # 0 THEN <<7, 6, 5, 4>>[level + 1] ELSE <<0, 1, 2, 3>>[level + 1]]
(* A value that is not 0 counts as a certain 1, soft values included.      *)
HardToSoft(b) == IF b # 0 THEN 7 ELSE 0
DepunctureTriplets(received, rate23, n) ==
  LET w == IF rate23 THEN 2 ELSE 3
      At(j) == IF j <= Len(received) THEN HardToSoft(received[j]) ELSE 4
  IN  [i \in 1..n |-> [m \in 1..3 |-> IF m <= w THEN At(w * (i - 1) + m) ELSE 4]]

(* The survivor of a state keeps the bit that led to it and not the state  *)
(* it came from, so the way back takes the lower of the two states from    *)
(* which that bit leads here.  A state is kept with its newest bit below.  *)
BenchTable == Table(Append(Delays, {}))
BranchMetric(e, soft) == IF soft = -1 THEN 0 ELSE IF e = 1 THEN 7 - soft ELSE soft
MirrorNumber(s) == FoldLeft(LAMBDA n, b : 2 * n + b, 0, LsbFirst(s, 4))
BestState(pm) ==
  CHOOSE s \in {x \in 0..15 : pm[x + 1].alive} : \A t \in {x \in 0..15 : pm[x + 1].alive} :
    pm[s + 1].cost < pm[t + 1].cost
      \/ (pm[s + 1].cost = pm[t + 1].cost /\ MirrorNumber(s) <= MirrorNumber(t))
Traceback(state, stages) ==
  Scan(LAMBDA acc, t : [state |-> acc.state \div 2, bits |-> <<acc.state % 2>> \o acc.bits],
       [state |-> state, bits |-> << >>], Upto(stages)).bits
ViterbiDecode(triplets) ==
  LET quads == FlattenSeq([i \in DOMAIN triplets |-> Append(triplets[i], -1)])
  IN  Traceback(BestState(Survivors(quads, BenchTable, BranchMetric)), Len(triplets))
(* print_tc: what is printed as "Match".                                   *)
Match(data, rate23, level) ==
  LET coded == Puncture(EncodeBlock(data, TRUE), rate23)
      soft  == AddSoftNoise(coded, level)
      given == DepunctureTriplets(IF rate23 THEN soft ELSE coded, rate23, Len(data) + 4)
  IN  SubSeq(ViterbiDecode(given), 1, Len(data)) = data

-----------------------------------------------------------------------------
(* gen_reed_muller_vectors.py: monomials of degree one and two over the 32 *)
(* points, less the points 0 and 1; a word is read from its low end.       *)

Bit(point, i) == (point \div 2^i) % 2
Bases ==
  << [p \in 0..31 |-> 1] >> \o [i \in 1..5 |-> [p \in 0..31 |-> Bit(p, i - 1)]]
    \o FlattenSeq([i \in 1..5 |-> [k \in 1..(5 - i) |->
                     [p \in 0..31 |-> Bit(p, i - 1) * Bit(p, i - 1 + k)]]])
BuildRm25Row(row_idx) == [b \in 1..30 |-> Bases[row_idx + 1][b + 1]]
GRows == Whole([i \in 1..14 |-> Whole(BuildRm25Row(i + 1))])
RmEncode(m) ==
  FoldLeft(LAMBDA c, i : IF m[i] = 1 THEN XorSeq(c, GRows[i]) ELSE c, [b \in 1..30 |-> 0], Upto(14))
TMax == 3
(* The first of the nearest code words, by the number of its message; the  *)
(* words are those of gf2 combinations of the rows, in that order.         *)
CodeWords ==
  Scan(LAMBDA words, row : words \o Whole([i \in DOMAIN words |-> Whole(XorSeq(words[i], row))]),
       << [b \in 1..30 |-> 0] >>, GRows)
RmDecode(r) ==
  LET words == CodeWords
      dist  == Whole([m \in DOMAIN words |-> Distance(words[m], r)])
      best  == Min(ToSet(dist))
      m     == CHOOSE x \in DOMAIN dist : dist[x] = best /\ \A y \in 1..(x - 1) : dist[y] > best
  IN  [m |-> LsbFirst(m - 1, 14), error |-> best > TMax]
DMin ==
  LET words == CodeWords
  IN  Min({Cardinality({b \in 1..30 : words[m][b] = 1}) : m \in 2..Len(words)})

-----------------------------------------------------------------------------
(* schedule.py.  The grid goes from the anchor to the start of the file    *)
(* and then on to its end; every burst is given its slot, frame and        *)
(* multiframe by counting from the anchor.                                 *)

Spacing == 255
Grid(anchor, file) ==
  LET first == anchor % Spacing
      count == IF file - Spacing > first THEN ((file - Spacing - first - 1) \div Spacing) + 1 ELSE 0
  IN  [i \in 1..count |-> first + Spacing * (i - 1)]
AnchorIdx(anchor) == (anchor - (anchor % Spacing)) \div Spacing
HyperframeKept(bi, anchor_idx, at) ==
  LET abs_slot == (((at.mn - 1) * 72) + ((at.fn - 1) * 4) + at.tn) + (bi - anchor_idx)
      rem == abs_slot % 72
  IN  [mn |-> (abs_slot \div 72) + 1, fn |-> (rem \div 4) + 1, tn |-> rem % 4]
SlotLabel(bi, anchor_idx, at) ==
  LET abs_slot == (((at.mn - 1) * 72) + ((at.fn - 1) * 4) + at.tn) + (bi - anchor_idx)
      rem == abs_slot % 72
  IN  [mn |-> ((abs_slot \div 72) % 60) + 1, fn |-> (rem \div 4) + 1, tn |-> rem % 4]

(* Correlations in percent.                                                *)
Class(s_c, n1_c, n2_c) ==
  LET best_nts == Max({n1_c, n2_c}) IN
  CASE s_c >= best_nts /\ s_c >= 50 -> "SB"
    [] ~(s_c >= best_nts /\ s_c >= 50) /\ best_nts >= 55 -> IF n1_c >= n2_c THEN "NDB1" ELSE "NDB2"
    [] OTHER -> "empty"

(* Sync candidates: the strongest thirty, at least half a burst apart.     *)
Dedup(peaks) ==
  LET far(x, kept) == \A i \in DOMAIN kept : Max({x.at - kept[i].at, kept[i].at - x.at}) >= Spacing \div 2
  IN  FoldLeft(LAMBDA kept, x : IF Len(kept) < 30 /\ far(x, kept) THEN Append(kept, x) ELSE kept,
               << >>, SortSeq(SelectSeq(peaks, LAMBDA x : x.corr >= 35), LAMBDA x, y : x.corr > y.corr))
(* The first candidate and layout whose sync block decodes.                *)
Lock(candidates, decodes) ==
  LET tries == FlattenSeq([i \in DOMAIN candidates |->
                 << <<candidates[i], "non-continuous">>, <<candidates[i], "continuous">> >>])
      hits  == SelectSeq(tries, LAMBDA t : decodes[t])
  IN  IF hits = << >> THEN << >> ELSE hits[1]

(* The preset: an entry of 16 bits, packed from the top.                   *)
PackEntry(e) ==
  MsbFirst(e.class, 4) \o MsbFirst(e.idx, 6) \o MsbFirst(e.burst, 2)
    \o <<e.ndb2, e.enable, e.inject, 0>>
SdbEntry == [class |-> 0, idx |-> 3, burst |-> 1, ndb2 |-> 0, enable |-> 1, inject |-> 1]
Ndb2Entry == [class |-> 1, idx |-> 0, burst |-> 0, ndb2 |-> 1, enable |-> 1, inject |-> 0]
RefEntry(mn, fn, tn) == IF tn # 0 \/ (fn = 17 /\ mn = 2) THEN SdbEntry ELSE Ndb2Entry

DenseIdx(mn, fn, tn) == mn * 72 + fn * 4 + tn
Entries ==
  [d \in 0..287 |-> PackEntry(RefEntry(d \div 72, (d % 72) \div 4, d % 4))]
(* A word holds the odd entry above the even one and is written byte by    *)
(* byte from its low end.                                                  *)
Word(w) == Entries[2 * w + 1] \o Entries[2 * w]
Blob == FlattenSeq([i \in 1..144 |->
          << SubSeq(Word(i - 1), 25, 32), SubSeq(Word(i - 1), 17, 24),
             SubSeq(Word(i - 1), 9, 16),  SubSeq(Word(i - 1), 1, 8) >>])
HeaderWord(w) == Blob[4 * w + 4] \o Blob[4 * w + 3] \o Blob[4 * w + 2] \o Blob[4 * w + 1]
=============================================================================
