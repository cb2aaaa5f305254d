------------------------------ MODULE CodeVectors ------------------------------
(***************************************************************************)
(* The scripts that produce what the decoders and the test benches read:   *)
(* verify_sb1_encoder.py, gen_sch_f_tv.py, gen_sch_hd_tv.py,               *)
(* gen_sch_hu_tv.py, gen_sch_f_dec_tv.py, gen_schf_reass_tv.py,            *)
(* gen_ul_mac_exp.py, gen_ul_demod_tv.py, gen_ul_wav_iq_stim.py,           *)
(* gen_aach_reference.py and gen_d_nwrk_broadcast.py; the scripts that     *)
(* mirror the receiver of the hardware: verify_sch_hu_decode.py,           *)
(* check_ul_wav_quant.py, check_ul_wav_rtl_emu.py, check_ul_wav_hex.py,    *)
(* check_ul_demod_tv.py;                                                   *)
(* and the speech block reader decode_tch_s.py.                            *)
(*                                                                         *)
(* BlankIsZero and OddFirst are faulty variants the models do not use.     *)
(***************************************************************************)
EXTENDS UlDecoder

LOCAL Sb == INSTANCE SbDecoder

Inverted(bits) == [i \in DOMAIN bits |-> 1 - bits[i]]
TailBits == <<0, 0, 0, 0>>

-----------------------------------------------------------------------------
(* verify_sb1_encoder.py.  The CRC register is read from its top bit.      *)

Crc16(bits) == bits \o Inverted(CrcRegister(16, DllPoly, bits))

(* Generator m of the bit at i looks at the bits i - t for its taps t.     *)
Coded(bits, i, m) ==
  Cardinality({t \in Generators[m] : i > t /\ bits[i - t] = 1}) % 2
ConvEncodeR14(bits) ==
  [n \in 1..(4 * Len(bits)) |-> Coded(bits, (n + 3) \div 4, ((n - 1) % 4) + 1)]
InterleaveBsch(bits) == BlockInterleave(bits, 120, 11)
ScrambleBsch(bits) == XorSeq(bits, FibonacciSeq(Taps, BschCode, Len(bits)))

BuildPdu(cfg, timeslot, frame, multiframe) ==
  MsbFirst(cfg.system_code, 4) \o MsbFirst(cfg.colour_code, 6) \o MsbFirst(timeslot, 2)
    \o MsbFirst(frame, 5) \o MsbFirst(multiframe, 6) \o MsbFirst(cfg.sharing_mode, 2)
    \o MsbFirst(cfg.ts_reserved_frames, 3) \o <<cfg.u_plane, cfg.frame_18_ext, 0>>
    \o MsbFirst(cfg.mcc, 10) \o MsbFirst(cfg.mnc, 14) \o MsbFirst(cfg.ncb, 2)
    \o MsbFirst(cfg.csl, 2) \o <<cfg.late_entry>>

SwEncodeBsch(pdu) ==
  ScrambleBsch(InterleaveBsch(PunctureR23(ConvEncodeR14(Crc16(pdu) \o TailBits))))

(* The hardware's way: two outputs for an even bit, one for an odd one,    *)
(* from the four bits before it, the newest first, and the bit itself.     *)
OddFirst(bits) ==
  LET Out(full, m) == Cardinality({t \in Generators[m] : full[t + 1] = 1}) % 2
      Step(acc, i) ==
        LET full == <<bits[i]>> \o acc.sr IN
        [sr  |-> SubSeq(full, 1, 4),
         out |-> acc.out \o IF i % 2 = 0 THEN <<Out(full, 1), Out(full, 2)>> ELSE <<Out(full, 1)>>]
  IN  Scan(Step, [sr |-> TailBits, out |-> << >>], Upto(Len(bits))).out
RtlRcpc(bits) ==
  LET Out(full, m) == Cardinality({t \in Generators[m] : full[t + 1] = 1}) % 2
      Step(acc, i) ==
        LET full == <<bits[i]>> \o acc.sr IN
        [sr  |-> SubSeq(full, 1, 4),
         out |-> acc.out \o IF i % 2 = 1 THEN <<Out(full, 1), Out(full, 2)>> ELSE <<Out(full, 1)>>]
  IN  Scan(Step, [sr |-> TailBits, out |-> << >>], Upto(Len(bits))).out
RtlEncodeBsch(pdu) == ScrambleBsch(InterleaveBsch(RtlRcpc(Crc16(pdu) \o TailBits)))

(* The slot of the sync burst in frame 18, by formula and by table.        *)
SdbSlotSw(mn) == (4 - ((mn + 1) % 4)) - 1
SdbSlotRtl(mn) == <<2, 1, 0, 3>>[1 + (mn % 4)]

-----------------------------------------------------------------------------
(* The encoders of the full slot, the half slot and the uplink half slot.  *)
(* The first two take a register of zeros as it is; the last asks the      *)
(* decoder's scrambler, which starts from ones instead.                    *)

ScrambleWithInit(bits, init) == XorSeq(bits, FibonacciSeq(Taps, init, Len(bits)))
EncodeSchF(info, init) ==
  ScrambleWithInit(BlockInterleave(PunctureR23(ConvEncodeR14(Crc16(info) \o TailBits)), 432, 103), init)
EncodeSchHd(info, init) ==
  ScrambleWithInit(BlockInterleave(PunctureR23(ConvEncodeR14(Crc16(info) \o TailBits)), 216, 101), init)

AppendFcs(info) == info \o Inverted(CrcRegister(16, DllPoly, info))
ScrambleHu(bits, init) == XorSeq(bits, ScramblerSeq(init, 168))
EncodeSchHu(info, init) ==
  ScrambleHu(BlockInterleave(PunctureR23(ConvEncodeR14(AppendFcs(info) \o TailBits)), 168, 13), init)

(* What a bit becomes in the stimulus files, and the expected record: the  *)
(* verdict and the bits of the block in bytes, the last one filled up.     *)
Soft8(bit) == IF bit = 1 THEN -127 ELSE 127
NubSoft4(bit) == IF bit = 1 THEN 7 ELSE -7
Expected(info) == <<1>> \o BitsToHex(info)
HuVector(info, init) ==
  [soft |-> [i \in 1..168 |-> Soft8(EncodeSchHu(info, init)[i])], exp |-> Expected(info)]
FullVector(info, init) ==
  LET type5 == EncodeSchF(info, init)
  IN  [soft |-> [i \in 1..432 |-> Soft8(type5[i])], nub |-> [i \in 1..432 |-> NubSoft4(type5[i])],
       exp |-> Expected(info)]

(* gen_schf_reass_tv.py: the blocks of a long message and its body.        *)
InfoBlock(payload, is_end, fill, li) ==
  <<0, 1, IF is_end THEN 1 ELSE 0, fill>> \o (IF is_end THEN MsbFirst(li, 6) ELSE << >>) \o payload
ReassVector(frag1, payloads) ==
  LET n == Len(payloads) IN
  [blocks |-> [f \in 1..n |-> InfoBlock(payloads[f], f = n, IF f = n THEN 1 ELSE (f - 1) % 2, 33)],
   body   |-> frag1 \o FlattenSeq(payloads)]

(* gen_ul_mac_exp.py: three of the fields it packs have other names in the *)
(* parser's result and stay 0.                                             *)
Packed(bits, h) ==
  LET Field(name, w) == IF Has(h, name) THEN MsbFirst(Value(bits, h, name), w) ELSE MsbFirst(0, w)
  IN  Field("pdu_type", 2) \o Field("fill_bit", 1) \o Field("encryption_mode", 2)
        \o Field("access_ack", 1) \o Field("addr_type", 3)
        \o Field("short_ssi_or_event_label", 10) \o MsbFirst(0, 13)
MacExp(record) ==
  LET bits == SubSeq(FlattenSeq([i \in 1..12 |-> MsbFirst(record[i + 1], 8)]), 1, 92)
  IN  IF record[1] % 2 = 0 THEN [i \in 1..32 |-> 0] ELSE Packed(bits, AccessHeader(bits))

-----------------------------------------------------------------------------
(* Modulated stimuli: a symbol is its phase in multiples of pi/4.          *)

EtsDibits == <<2, 1, 3, 1, 0, 0, 3, 2, 2, 1, 3, 1, 0, 0, 3>>
Dibits(bits) == [i \in 1..(Len(bits) \div 2) |-> 2 * bits[2 * i - 1] + bits[2 * i]]
Phases(dibits, start) ==
  Tail(Scan(LAMBDA s, d : Append(s, s[Len(s)] + Sb!DphaseOf(d)), <<start>>, dibits))
ModulateFullBurst(type5) ==
  Phases(<<0, 0>> \o Dibits(SubSeq(type5, 1, 84)) \o EtsDibits
           \o Dibits(SubSeq(type5, 85, 168)) \o <<0, 0>>, 0)
(* Two halves of one reference symbol and 42 symbols each.                 *)
ModulateBurst(type5) ==
  <<0>> \o Phases(Dibits(SubSeq(type5, 1, 84)), 0)
    \o <<1>> \o Phases(Dibits(SubSeq(type5, 85, 168)), 1)

(* check_ul_demod_tv.py: the signs of the sine and the cosine of a step.   *)
SignBits(symbols) == [i \in 1..(2 * (Len(symbols) - 1)) |->
                        IF DemodPi4dqpskSoftEtsi(symbols)[i] >= 0 THEN 0 ELSE 1]
DemodMismatches(type5) ==
  LET iq  == ModulateBurst(type5)
      got == SignBits(SubSeq(iq, 1, 43)) \o SignBits(SubSeq(iq, 44, 86))
  IN  Cardinality({k \in 1..84 : got[2 * k - 1] # type5[2 * k - 1] \/ got[2 * k] # type5[2 * k]})

(* gen_ul_wav_iq_stim.py: the bursts it takes from a recording, in order:  *)
(* a clear training sequence, and all 103 symbols within the recording.    *)
XSymIdx == 44
FullSyms == 103
StimBursts(bursts, n_bursts, file) ==
  LET usable == SelectSeq(bursts, LAMBDA b :
                  b.x_corr >= 50 /\ b.x >= XSymIdx /\ b.x - XSymIdx + FullSyms <= file)
  IN  SubSeq(usable, 1, Min({n_bursts, Len(usable)}))
Recorded(r) ==
  LET info == SubSeq(r.info, 1, Min({92, Len(r.info)}))
  IN  <<IF r.ok THEN 1 ELSE 0>> \o BitsToHex(info \o [i \in 1..(92 - Len(info)) |-> 0])
StimRecord(symbols, x, init) ==
  LET blocks == SampleHalfSoftBits(symbols, x)
  IN  Recorded(TryChannelDecode(blocks[1], blocks[2], init, "schhu"))

-----------------------------------------------------------------------------
(* The receiver of the hardware in Python.  The first demodulates the      *)
(* burst of gen_ul_demod_tv.py: the products of two symbols of amplitude   *)
(* 30000, the sine in front of the cosine, cut to eight bits.              *)

RtlSlice(p) == CASE p = 0 -> 0 [] p = 7 -> 18 [] p = 10 -> 26 [] p = -7 -> -19 [] p = -10 -> -27
RtlDemod(symbols) ==
  [i \in 1..(2 * (Len(symbols) - 1)) |-> RtlSlice(DemodPi4dqpskSoftEtsi(symbols)[i])]
Blocks(burst) == RtlDemod(SubSeq(burst, 2, 44)) \o RtlDemod(SubSeq(burst, 59, 101))
RtlEmuDecode(burst, init) ==
  DecodeChannelSoft(DescrambleSoft(Blocks(burst), init), 168, 13, 92)

(* check_ul_wav_hex.py: the software's decoder on the same burst.          *)
Verdict(r) == [ok |-> r.ok, info |-> r.info]
HexDecode(burst, init) ==
  Verdict(TryChannelDecode(DemodPi4dqpskSoftEtsi(SubSeq(burst, 2, 44)),
                           DemodPi4dqpskSoftEtsi(SubSeq(burst, 59, 101)), init, "schhu"))

(* Three bits for the decoder: 0 is a certain 0, 7 a certain 1.            *)
Clamp7(n) == Max({0, Min({7, n})})
ToVitSoft(signed8) == Clamp7(4 - (signed8 \div 16))
ToVitSoftRtl(s) == Clamp7(4 - s)
VitCost(e, r) == IF e = 1 THEN 7 - r ELSE r
DepunctureVit(type4) == Depuncture(type4, 4, (Len(type4) \div 3) * 8)
ViterbiRtlEmu(vsoft) == Viterbi(vsoft, CodedBits, VitCost)
QuantDecode(burst, init) ==
  LET type4 == DeinterleavePerm(DescrambleSoft(Blocks(burst), init), 168, 13)
  IN  Checked(ViterbiRtlEmu(DepunctureVit([i \in 1..168 |-> ToVitSoftRtl(type4[i])])), 92)

(* verify_sch_hu_decode.py ends in the state of the least cost, the first  *)
(* in the order of the hardware, which keeps the newest bit on top, and    *)
(* tests the remainder.                                                    *)
DescrambleSigns(softs, init) ==
  LET seq == ScramblerSeq(init, 168) IN [i \in 1..168 |-> IF seq[i] = 1 THEN -softs[i] ELSE softs[i]]
BlankIsZero(type4) == Depuncture([i \in 1..168 |-> ToVitSoft(type4[i])], 0, 448)
FeedVitQuads(type4) == Depuncture([i \in 1..168 |-> ToVitSoft(type4[i])], 4, 448)
MirrorNumber(s) == Number(LsbFirst(s, 4))
BestPath(last) ==
  LET live == {s \in 0..15 : last[s + 1].alive}
      Before(s, t) == \/ last[s + 1].cost < last[t + 1].cost
                      \/ last[s + 1].cost = last[t + 1].cost /\ MirrorNumber(s) <= MirrorNumber(t)
      best == CHOOSE s \in live : \A t \in live : Before(s, t)
  IN  last[best + 1].path
ViterbiRtlMirror(quads) ==
  SubSeq(BestPath(Survivors(quads, CodedBits, VitCost)), 1, (Len(quads) \div 4) - 4)
Residue == MsbFirst(7439, 16)
Mirrored(decoded) ==
  [ok |-> CrcRegister(16, DllPoly, decoded) = Residue, info |-> SubSeq(decoded, 1, 92)]
MirrorDecode(softs, init) ==
  Mirrored(ViterbiRtlMirror(FeedVitQuads(DeinterleavePerm(DescrambleSigns(softs, init), 168, 13))))

-----------------------------------------------------------------------------
(* gen_aach_reference.py.                                                  *)

RmRow(i) == [j \in 1..14 |-> IF j = i THEN 1 ELSE 0] \o RmGen[i]
Rm3014Encode(in) ==
  FoldLeft(LAMBDA word, i : IF in[i] = 1 THEN XorSeq(word, RmRow(i)) ELSE word,
           [j \in 1..30 |-> 0], Upto(14))
StTaps == {32 - y : y \in {32, 26, 23, 22, 16, 12, 11, 10, 8, 7, 5, 4, 2, 1}}
AachScramble(mcc, mnc, cc, word) ==
  XorSeq(word, FibonacciSeq(StTaps, MakeScrambCode(mcc, mnc, cc), 30))
AachInfoCapaloc == MsbFirst(12288, 14)
AachInfoDlulAssign == MsbFirst(0, 2) \o MsbFirst(0, 3) \o MsbFirst(1, 3) \o MsbFirst(0, 6)
EncodeAach(fn, cc, mcc, mnc) ==
  AachScramble(mcc, mnc, cc,
    Rm3014Encode(IF fn = 17 THEN AachInfoDlulAssign ELSE AachInfoCapaloc))

-----------------------------------------------------------------------------
(* gen_d_nwrk_broadcast.py.  The register has 17 bits, the top one first,  *)
(* and a bit is added below the place that is tested.                      *)

NwrkPoly == {1, 5, 12, 17}
TetraCrc16(bits) ==
  LET Step(reg, b) ==
        LET in   == [reg EXCEPT ![2] = (@ + b) % 2]
            left == SubSeq(in, 2, 17) \o <<0>>
        IN  Whole(IF in[1] = 1 THEN Flip(left, NwrkPoly) ELSE left)
      final == Scan(Step, <<0>> \o [i \in 1..16 |-> 1], bits)
  IN  Inverted(SubSeq(final, 2, 17))
ConvEncodeK5(bits) ==
  LET Back(i, t) == IF i > t THEN bits[i - t] ELSE 0 IN
  [n \in 1..(2 * Len(bits)) |->
     LET i == (n + 1) \div 2
     IN  IF n % 2 = 1 THEN (bits[i] + Back(i, 1) + Back(i, 2) + Back(i, 4)) % 2
                      ELSE (bits[i] + Back(i, 3) + Back(i, 4)) % 2]
InterleaveNwrk(bits, a) == [i \in DOMAIN bits |-> bits[1 + ((a * (i - 1)) % Len(bits))]]
BuildDNwrkType5(info, cc, mcc, mnc) ==
  LET type3 == ConvEncodeK5(info \o TetraCrc16(info) \o TailBits)
  IN  XorSeq(InterleaveNwrk(type3, 11), FibonacciSeq(Taps, NonZero(MakeScrambCode(mcc, mnc, cc)), 288))

-----------------------------------------------------------------------------
(* decode_tch_s.py: speech blocks and the classes of the codec's bits.     *)

Class0Positions ==
  <<35, 36, 37, 38, 39, 40, 41, 42, 33, 47, 48, 56, 61, 62, 63, 65, 66, 67, 68, 69, 70, 74, 75,
    83, 88, 89, 90, 91, 92, 93, 94, 95, 96, 97, 101, 102, 110, 115, 116, 117, 118, 119, 120,
    121, 122, 123, 124, 128, 129, 137>>
Class1Positions ==
  <<58, 85, 112, 54, 81, 108, 135, 50, 77, 104, 131, 45, 72, 99, 126, 55, 82, 109, 136, 5, 13,
    34, 8, 16, 17, 22, 23, 24, 25, 26, 6, 14, 7, 15, 60, 87, 114, 46, 73, 100, 127, 44, 71, 98,
    125, 33, 49, 76, 103, 130, 59, 86, 113, 57, 84, 111>>
Class2Positions ==
  <<18, 19, 20, 21, 31, 32, 53, 80, 107, 134, 1, 2, 3, 4, 9, 10, 11, 12, 27, 28, 29, 30, 52,
    79, 106, 133, 51, 78, 105, 132>>
AcelpPositionToClass(pos) ==
  CASE pos \in ToSet(Class0Positions) -> "Class0"
    [] pos \notin ToSet(Class0Positions) /\ pos \in ToSet(Class1Positions) -> "Class1"
    [] pos \notin ToSet(Class0Positions) \cup ToSet(Class1Positions)
         /\ pos \in ToSet(Class2Positions) -> "Class2"
    [] OTHER -> "unknown"

TchTaps == {31, 30, 29, 27, 25, 0}
(* A register that shifts left is a window that moves to the left; "init"  *)
(* is its bits from the top.                                               *)
CellScramblerSeq(init, length) ==
  LET Shift(x, i) ==
        Append(x, Cardinality({t \in TchTaps : x[Len(x) - t] = 1}) % 2)
  IN  SubSeq(Scan(Shift, init, Upto(length)), 33, 32 + length)
DescrambleTchS(type5, init) == XorSeq(type5, CellScramblerSeq(init, Len(type5)))
SplitFrameIntoClasses(frame) ==
  [class0 |-> SubSeq(frame, 1, 51), class1 |-> SubSeq(frame, 52, 163),
   class2 |-> SubSeq(frame, 164, 208), crc |-> SubSeq(frame, 209, 216)]
DecodeTchSBurst(type5, init) ==
  LET type2 == DeinterleaveBlock(DescrambleTchS(type5, init), 432, 103)
  IN  [frame0 |-> SplitFrameIntoClasses(SubSeq(type2, 1, 216)),
       frame1 |-> SplitFrameIntoClasses(SubSeq(type2, 217, 432)),
       acelp_layout |-> [pos \in 1..137 |-> AcelpPositionToClass(pos)]]
=============================================================================
