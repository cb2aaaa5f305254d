----------------------------- MODULE ChannelCodes -----------------------------
(***************************************************************************)
(* The channel decoding of scripts/decode_dl.py: scrambler, interleaver,   *)
(* punctured convolutional code, CRC and the Reed-Muller code of the AACH; *)
(* and the puncturing and interleaving of the encoders, its inverse.       *)
(* Bits are 0 and 1, 2 is an erasure; a register is the sequence of its    *)
(* bits from the least significant one.                                    *)
(*                                                                         *)
(* LowByteChecked is a faulty variant that the models do not use.          *)
(***************************************************************************)
EXTENDS Integers, Sequences, FiniteSets, FiniteSetsExt, SequencesExt

Upto(n) == [i \in 1..n |-> i]
(* Whole(s) = s: makes TLC evaluate a sequence once, before it is used.    *)
Whole(s) == SubSeq(s, 1, Len(s))
(* A fold from the left over a value that is never empty, in blocks: the   *)
(* tests keep TLC from piling up unevaluated steps.                        *)
Steps(Op(_, _), start, s) ==
  FoldLeft(LAMBDA acc, x : IF acc = << >> THEN acc ELSE Op(acc, x), start, s)
Scan(Op(_, _), start, s) ==
  LET Block(acc, k) == Steps(Op, acc, SubSeq(s, 16 * k - 15, Min({16 * k, Len(s)})))
  IN  Steps(Block, start, Upto((Len(s) + 15) \div 16))

XorSeq(a, b) == [i \in DOMAIN a |-> (a[i] + b[i]) % 2]
Distance(a, b) == Cardinality({i \in DOMAIN a : a[i] # b[i]})
LsbFirst(n, w) == [i \in 1..w |-> (n \div 2^(i - 1)) % 2]
MsbFirst(n, w) == Reverse(LsbFirst(n, w))

-----------------------------------------------------------------------------
(* Scrambling.  The register shifts right and takes the new bit in at the  *)
(* top, so it is a window of 32 bits on start \o output.                   *)

Taps == {0, 6, 9, 10, 16, 20, 21, 22, 24, 25, 27, 28, 30, 31}

FibonacciSeq(taps, start, length) ==
  LET Shift(x, i) == Append(x, Cardinality({t \in taps : x[i + t] = 1}) % 2)
  IN  SubSeq(Scan(Shift, start, Upto(length)), 33, 32 + length)

NonZero(init) == IF \A i \in DOMAIN init : init[i] = 0 THEN [i \in 1..32 |-> 1] ELSE init
ScramblerSeq(init, length) == FibonacciSeq(Taps, NonZero(init), length)

MakeScrambCode(mcc, mnc, cc) ==
  <<1, 1>> \o LsbFirst(cc, 6) \o LsbFirst(mnc, 14) \o LsbFirst(mcc, 10)
MakeScrambCodeDmo(mnc, src) == <<1, 1>> \o LsbFirst(src, 24) \o LsbFirst(mnc, 6)
BschCode == LsbFirst(3, 16) \o LsbFirst(0, 16)

-----------------------------------------------------------------------------
(* Interleaving and puncturing.                                            *)

DeinterleavePerm(bits, K, a) == Whole([i \in 1..K |-> bits[1 + ((a * i) % K)]])

Kept == <<1, 2, 5>>
MotherPosition(j) == 8 * ((j - 1) \div 3) + Kept[j - 3 * ((j - 1) \div 3)]
Depuncture(bits, blank, mother_len) ==
  LET at == [k \in {MotherPosition(j) : j \in DOMAIN bits} |->
               CHOOSE j \in DOMAIN bits : MotherPosition(j) = k]
  IN  Whole([k \in 1..mother_len |-> IF k \in DOMAIN at THEN bits[at[k]] ELSE blank])
DepunctureR23(bits, mother_len) == Depuncture(bits, 2, mother_len)
DepunctureR23Soft(soft, mother_len) == Depuncture(soft, 0, mother_len)

(* What the encoders do before it: puncture_r23 and interleave_bsch of     *)
(* verify_sb1_encoder.py, and the interleaver of decode_tch_s.py for a     *)
(* speech block, which counts from one.                                    *)
PunctureR23(mother) == [j \in 1..(3 * (Len(mother) \div 8)) |-> mother[MotherPosition(j)]]
BlockInterleave(bits, K, a) ==
  Whole([j \in 1..K |-> bits[CHOOSE k \in 1..K : 1 + ((a * k) % K) = j]])
DeinterleaveBlock(bits, K, a) == [k \in 1..K |-> bits[1 + ((1 + a * (k - 1)) % K)]]
InterleaveBlock(bits, K, a) ==
  [i \in 1..K |-> bits[CHOOSE k \in 1..K : 1 + ((1 + a * (k - 1)) % K) = i]]

-----------------------------------------------------------------------------
(* The convolutional code: the four generators as sets of taps on the five *)
(* bits <<state, input>>, and what they yield for each of them.            *)

Generators == << {0, 1, 4}, {0, 2, 3, 4}, {0, 1, 2, 4}, {0, 1, 3, 4} >>
Parity(sr, taps) == Cardinality({t \in taps : (sr \div 2^t) % 2 = 1}) % 2
Table(gens) == [sr \in 0..31 |-> [m \in 1..4 |-> Parity(sr, gens[m])]]
CodedBits == Table(Generators)

(* A survivor is a path of inputs and its cost; Dead stands for INF.  That *)
(* of state s is at s + 1.  The traceback from state 0 reads off its path. *)
Dead == [cost |-> -1, path |-> << >>, alive |-> FALSE]
FirstSurvivors ==
  [s \in 1..16 |-> IF s = 1 THEN [cost |-> 0, path |-> << >>, alive |-> TRUE] ELSE Dead]

(* Two states lead to each state; the lower one wins a tie.                *)
Extend(pm, rx, state, table, Cost(_, _)) ==
  LET Into(old) ==
        LET e == table[2 * old + (state % 2)] IN
        IF ~pm[old + 1].alive THEN Dead
        ELSE [alive |-> TRUE, path |-> Append(pm[old + 1].path, state % 2),
              cost  |-> pm[old + 1].cost + Cost(e[1], rx[1]) + Cost(e[2], rx[2])
                         + Cost(e[3], rx[3]) + Cost(e[4], rx[4])]
      low  == Into(state \div 2)
      high == Into(state \div 2 + 8)
  IN  IF high.alive /\ (~low.alive \/ high.cost < low.cost) THEN high ELSE low

Survivors(coded, table, Cost(_, _)) ==
  LET Step(pm, i) ==
        Whole([s \in 1..16 |->
                 Extend(pm, SubSeq(coded, 4 * i - 3, 4 * i), s - 1, table, Cost)])
  IN  Scan(Step, FirstSurvivors, Upto(Len(coded) \div 4))
Viterbi(coded, table, Cost(_, _)) == Survivors(coded, table, Cost)[1].path

HardCost(e, r) == IF r = 2 THEN 0 ELSE (e + r) % 2
SoftCost(e, r) == -(r * (1 - 2 * e))
ViterbiR14(coded) == Viterbi(coded, CodedBits, HardCost)
ViterbiR14Soft(coded) == Viterbi(coded, CodedBits, SoftCost)

-----------------------------------------------------------------------------
(* The CRC registers shift right: 16 bits over a block, 32 bits over an    *)
(* LLC PDU.                                                                *)

CrcStep(reg, poly, b) ==
  LET feedback == (b + reg[1]) % 2 IN
  Whole([i \in DOMAIN reg |->
           ((IF i < Len(reg) THEN reg[i + 1] ELSE 0)
              + (IF i - 1 \in poly THEN feedback ELSE 0)) % 2])
CrcRegister(width, poly, bits) ==
  Scan(LAMBDA reg, b : CrcStep(reg, poly, b), [i \in 1..width |-> 1], bits)

DllPoly == {15, 10, 3}
DllGood == LsbFirst(61624, 16)
LowByteChecked(bits) ==
  SubSeq(CrcRegister(16, DllPoly, bits), 1, 8) = SubSeq(DllGood, 1, 8)
Crc16CheckDll(bits) == CrcRegister(16, DllPoly, bits) = DllGood

LlcPoly == {31, 30, 29, 27, 26, 24, 23, 21, 20, 19, 15, 9, 8, 5}
LlcGood == LsbFirst(8419, 16) \o LsbFirst(57019, 16)
Crc32CheckLlc(bits) == CrcRegister(32, LlcPoly, bits) = LlcGood

-----------------------------------------------------------------------------
(* decode_channel and decode_channel_soft: the CRC verdict and the block.  *)

Checked(decoded, info_len) ==
  [ok |-> Crc16CheckDll(SubSeq(decoded, 1, info_len + 16)), info |-> SubSeq(decoded, 1, info_len)]
DecodeChannel(type5, K, a, info_len) ==
  LET type4 == DeinterleavePerm(type5, K, a)
      type3 == DepunctureR23(type4, (K \div 3) * 8)
  IN  Checked(ViterbiR14(type3), info_len)

DescrambleSoft(soft, init) ==
  LET scr == ScramblerSeq(init, Len(soft)) IN
  [i \in DOMAIN soft |-> soft[i] * (1 - 2 * scr[i])]

DecodeChannelSoft(soft5, K, a, info_len) ==
  LET type4 == DeinterleavePerm(soft5, K, a)
  IN  Checked(ViterbiR14Soft(DepunctureR23Soft(type4, (K \div 3) * 8)), info_len)

-----------------------------------------------------------------------------
(* The (30,14) code of the AACH: decoding takes the first of the nearest   *)
(* code words, and refuses it beyond four errors.                          *)

RmGen ==
  << <<1,0,0,1,1,0,1,1,0,1,1,0,0,0,0,0>>, <<0,0,1,0,1,1,0,1,1,1,1,0,0,0,0,0>>,
     <<1,1,1,1,1,1,0,0,0,0,1,0,0,0,0,0>>, <<1,1,1,0,0,0,0,0,0,0,1,1,1,1,0,0>>,
     <<1,0,0,1,1,0,0,0,0,0,1,1,1,0,1,0>>, <<0,1,0,1,0,1,0,0,0,0,1,1,0,1,1,0>>,
     <<0,0,1,0,1,1,0,0,0,0,1,0,1,1,1,0>>, <<1,1,1,1,1,1,1,1,1,1,0,1,1,1,1,1>>,
     <<1,0,0,0,0,0,1,1,0,0,1,1,1,0,0,1>>, <<0,1,0,0,0,0,1,0,1,0,1,1,0,1,0,1>>,
     <<0,0,1,0,0,0,0,1,1,0,1,0,1,1,0,1>>, <<0,0,0,1,0,0,1,0,0,1,1,1,0,0,1,1>>,
     <<0,0,0,0,1,0,0,1,0,1,1,0,1,0,1,1>>, <<0,0,0,0,0,1,0,0,1,1,1,0,0,1,1,1>> >>

RmWord(info) ==
  info \o [j \in 1..16 |-> Cardinality({i \in 1..14 : info[i] = 1 /\ RmGen[i][j] = 1}) % 2]

(* The code is linear: every code word at distance d of a word differs     *)
(* from it in at most d information bits.                                  *)
Flip(bits, at) == [i \in DOMAIN bits |-> IF i \in at THEN 1 - bits[i] ELSE bits[i]]
InfosAt(rx, d) ==
  {v \in {Flip(SubSeq(rx, 1, 14), at) : at \in UNION {kSubset(k, 1..14) : k \in 0..d}} :
     Distance(RmWord(v), rx) = d}
FirstOf(S) ==
  LET Number(v) == FoldLeft(LAMBDA n, b : 2 * n + b, 0, v)
  IN  CHOOSE v \in S : \A u \in S : Number(v) <= Number(u)
Rm3014Decode(rx) ==
  LET best == {d \in 0..4 : InfosAt(rx, d) # {}} IN
  IF best = {} THEN << >>
  ELSE FirstOf(InfosAt(rx, CHOOSE d \in best : \A e \in best : d <= e))

(* parse_aach.                                                             *)
ParseAach(info) ==
  LET field1 == SubSeq(info, 3, 8)
      header == 2 * info[1] + info[2]
  IN  [header |-> header, field1 |-> field1, field2 |-> SubSeq(info, 9, 14),
       dl_usage |-> IF header < 2 THEN SubSeq(field1, 1, 3) ELSE << >>,
       ul_usage |-> IF header < 2 THEN SubSeq(field1, 4, 6) ELSE << >>,
       colour_code |-> IF header # 2 THEN SubSeq(info, 9, 14) ELSE << >>]
=============================================================================
