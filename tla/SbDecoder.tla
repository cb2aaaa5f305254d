------------------------------- MODULE SbDecoder -------------------------------
(***************************************************************************)
(* scripts/decode_sb.py and scripts/decode_bnch.py: the search for sync    *)
(* bursts in a recording, the two decodings of the sync block (the ETSI    *)
(* code and the code of the project's own transmitter), its CRC in three   *)
(* readings, the broadcast block behind it and the tallies.                *)
(*                                                                         *)
(* A symbol is its phase in multiples of pi/4, from -3 to 4; a recording   *)
(* is counted in symbols.  Frequency and timing refinement are left out:   *)
(* they move the phases of a burst, not the blocks it is cut into.         *)
(***************************************************************************)
EXTENDS ChannelCodes, DlPdu

(* Blocks within the 255 symbols of a burst, in the two layouts.           *)
SbTotal == 255
Continuous    == [sb1 |-> 47, sts |-> 107, bb |-> 126, bkn2 |-> 141]
NonContinuous == [sb1 |-> 25, sts |-> 85, bb |-> 104, bkn2 |-> 119]
BurstLayouts == <<Continuous, NonContinuous>>

-----------------------------------------------------------------------------
(* Modulation.                                                             *)

DphaseOf(dibit) == CASE dibit = 0 -> 1 [] dibit = 1 -> 3 [] dibit = 2 -> -1 [] dibit = 3 -> -3
Wrapped(p) == ((p + 3) % 8) - 3
DibitsToSymbols(dibits, phase) ==
  Tail(Scan(LAMBDA s, d : Append(s, Wrapped(s[Len(s)] + DphaseOf(d))), <<phase>>, dibits))

Differences(symbols) == [i \in 1..(Len(symbols) - 1) |-> Wrapped(symbols[i + 1] - symbols[i])]
DibitOf(p) ==
  CASE p \in {-1, 0} -> 2 [] p \in {1, 2} -> 0 [] p \in {3, 4} -> 1 [] OTHER -> 3
Demod(symbols) == [i \in DOMAIN Differences(symbols) |-> DibitOf(Differences(symbols)[i])]

(* A soft bit is the sine or the cosine of the step, in tenths, times the  *)
(* amplitude of the symbol; its sign is that of the hard decision.         *)
TenSin(p) == CASE p \in {0, 4} -> 0 [] p \in {1, 3} -> 7 [] p = 2 -> 10
               [] p \in {-1, -3} -> -7 [] p = -2 -> -10
DemodSoft(symbols, amplitude) ==
  LET step == Differences(symbols) IN
  [i \in 1..(2 * Len(step)) |->
     LET j == (i + 1) \div 2
     IN  amplitude[j] * TenSin(IF i % 2 = 1 THEN step[j] ELSE Wrapped(step[j] + 2))]

(* The first of the 254 dibits is that of the second symbol.               *)
BlockBits(dibits, off, len, msb_first) ==
  [i \in 1..(2 * len) |->
     LET d == dibits[off - 1 + (i + 1) \div 2]
     IN  IF (i % 2 = 1) = msb_first THEN d \div 2 ELSE d % 2]
InBurst(dibits, off, len) == off >= 1 /\ off - 1 + len <= Len(dibits)

-----------------------------------------------------------------------------
(* The CRC of the sync block: its register read from the top, so that it   *)
(* shifts as the one of the library does, whose good remainder is that of  *)
(* the inverted check bits.                                                *)

SysinfoBits == 60
Crc16Bits(info) == CrcRegister(16, DllPoly, info)
Inverted(bits) == [i \in DOMAIN bits |-> 1 - bits[i]]
Crc16Modes(block) ==
  LET info == SubSeq(block, 1, SysinfoBits)
      fcs  == SubSeq(block, SysinfoBits + 1, SysinfoBits + 16)
  IN  (IF fcs = Crc16Bits(info) THEN {"raw"} ELSE {})
        \cup (IF fcs = Inverted(Crc16Bits(info)) THEN {"inverted"} ELSE {})
        \cup (IF Crc16CheckDll(block) THEN {"dll"} ELSE {})
CrcOk(modes, invert_fcs) == "dll" \in modes \/ (IF invert_fcs THEN "inverted" ELSE "raw") \in modes

(* parse_sysinfo: the fields of trunked mode, whatever the system code.    *)
ParseSysinfo(bits) ==
  IF Len(bits) < SysinfoBits THEN Closed(Reader(0)) ELSE TakeAll(Reader(0), SyncTmo)

-----------------------------------------------------------------------------
(* The two codes of the sync block: 120 bits to 80.                        *)

ScrambInit == BschCode
DescrambleBsch(bits) == XorSeq(bits, ScramblerSeq(ScrambInit, Len(bits)))

ProjectTable == Table(<< {0, 1, 3, 4}, {0, 3, 4}, {0, 2, 4}, {} >>)
Shape(length) ==
  CASE length = 120 -> <<8, 15>> [] length = 240 -> <<16, 15>> [] length = 216 -> <<24, 9>>
    [] length = 162 -> <<18, 9>> [] length = 28 -> <<4, 7>> [] OTHER -> <<1, length>>
Deinterleave(bits, length) ==
  LET R == Shape(length)[1]  C == Shape(length)[2]
  IN  [k \in 1..length |-> bits[((k - 1) % R) * C + (k - 1) \div R + 1]]
(* Of two input bits g1 and g2 of the first and g1 of the second are sent: *)
(* the places 1, 2 and 5 of a mother word of two times four.               *)
ViterbiDecodeR23(coded) ==
  Viterbi(DepunctureR23(coded, (Len(coded) \div 3) * 8), ProjectTable, HardCost)
EtsiDeinterleaveBsch(bits) == DeinterleavePerm(bits, 120, 11)
EtsiViterbiDecodeR23(coded) == ViterbiR14(DepunctureR23(coded, (Len(coded) \div 3) * 8))

Attempt(dibits, sb1, msb_first, etsi, invert_fcs) ==
  LET type5 == BlockBits(dibits, sb1, 60, msb_first)
      type4 == DescrambleBsch(type5)
      type2 == SubSeq(IF etsi THEN EtsiViterbiDecodeR23(EtsiDeinterleaveBsch(type4))
                      ELSE ViterbiDecodeR23(Deinterleave(type4, 120)), 1, SysinfoBits + 16)
      modes == Crc16Modes(type2)
  IN  IF ~InBurst(dibits, sb1, 60) THEN [ok |-> FALSE, raw |-> << >>]
      ELSE [ok  |-> IF etsi THEN CrcOk(modes, invert_fcs) ELSE "raw" \in modes,
            raw |-> SubSeq(type2, 1, SysinfoBits)]

-----------------------------------------------------------------------------
(* The search.  Offsets are taken by falling correlation; one that is      *)
(* nearer than four fifths of a burst to one taken before is dropped.      *)

MinSpacing == (SbTotal * 4) \div 5
Apart(x, peaks) == \A i \in DOMAIN peaks : Max({x.at - peaks[i].at, peaks[i].at - x.at}) >= MinSpacing
FindSyncBursts(best, min_corr) ==
  FoldLeft(LAMBDA peaks, x : IF x.corr >= min_corr /\ Apart(x, peaks) THEN Append(peaks, x) ELSE peaks,
           << >>, SortSeq(best, LAMBDA x, y : x.corr > y.corr))

InFile(peak, layout, file) ==
  peak.at >= layout.sts /\ peak.at - layout.sts + SbTotal <= file

(* decode_tetra_sb: every attempt at the candidates, in the order they are *)
(* made; each that passes adds its block to the summary.                   *)
Product2(xs, ys) ==
  FlattenSeq([i \in DOMAIN xs |-> [j \in DOMAIN ys |-> <<xs[i], ys[j]>>]])
Attempts(peaks, max_tries, all_layouts, bit_reverse) ==
  Product2(Product2(SubSeq(peaks, 1, Min({max_tries, Len(peaks)})),
                    IF all_layouts THEN BurstLayouts ELSE <<Continuous>>),
           IF bit_reverse THEN <<TRUE, FALSE>> ELSE <<TRUE>>)
Passing(attempts, file, read) ==
  LET tried == SelectSeq(attempts, LAMBDA a : InFile(a[1][1], a[1][2], file))
      done  == [i \in DOMAIN tried |-> read[tried[i]]]
  IN  SelectSeq(done, LAMBDA d : d.ok)

(* The summary: every bit by majority, a tie counts as 1.                  *)
Majority(blocks) ==
  [k \in 1..SysinfoBits |->
     IF 2 * FoldLeft(LAMBDA n, b : n + b.raw[k], 0, blocks) >= Len(blocks) THEN 1 ELSE 0]

-----------------------------------------------------------------------------
(* decode_bnch.                                                            *)

TryDecodeBsch(dibits, layout) ==
  LET type2 == SubSeq(EtsiViterbiDecodeR23(EtsiDeinterleaveBsch(
                        DescrambleBsch(BlockBits(dibits, layout.sb1, 60, TRUE)))), 1, 76)
  IN  IF InBurst(dibits, layout.sb1, 60) /\ Crc16Modes(type2) # {}
      THEN ParseSysinfo(SubSeq(type2, 1, SysinfoBits)) ELSE Closed(Reader(0))

CreateScramblerCode(mcc, mnc, cc) ==
  LsbFirst(3, 2) \o LsbFirst(cc, 6) \o LsbFirst(mnc, 14) \o LsbFirst(mcc, 10)

EtsiDeinterleaveBnch(bits) == DeinterleavePerm(bits, 216, 101)
EtsiDepunctureR23Bnch(bits) == Depuncture(bits, 2, (Len(bits) \div 3) * 8)

(* The soft branch metric; a punctured place costs nothing.                *)
Erased == 99
EtsiDeinterleaveBnchSoft(soft) == DeinterleavePerm(soft, 216, 101)
EtsiDepunctureR23BnchSoft(soft) == Depuncture(soft, Erased, (Len(soft) \div 3) * 8)
LikelihoodCost(e, s) == IF s = Erased THEN 0 ELSE 10 - s * (1 - 2 * e)
EtsiViterbiDecodeR14Soft(mother) == Viterbi(mother, CodedBits, LikelihoodCost)

BnchInfoBits == 124
(* The soft decoding first, the hard one if its CRC fails.                 *)
TryDecodeBnch(dibits, soft, bkn2, init) ==
  LET Info(d) == SubSeq(d, 1, BnchInfoBits)
      Good(d) == Crc16CheckDll(SubSeq(d, 1, BnchInfoBits + 16))
      s == EtsiViterbiDecodeR14Soft(EtsiDepunctureR23BnchSoft(EtsiDeinterleaveBnchSoft(
             DescrambleSoft(SubSeq(soft, 2 * bkn2 - 1, 2 * bkn2 + 214), init))))
      h == ViterbiR14(EtsiDepunctureR23Bnch(EtsiDeinterleaveBnch(
             XorSeq(BlockBits(dibits, bkn2, 108, TRUE), ScramblerSeq(init, 216)))))
  IN  CASE 2 * bkn2 + 214 <= Len(soft) /\ Good(s) -> Info(s)
        [] InBurst(dibits, bkn2, 108) /\ Good(h)  -> Info(h)
        [] OTHER -> << >>

TryDecodeAach(dibits, bb) == IF InBurst(dibits, bb, 15) THEN BlockBits(dibits, bb, 15, TRUE) ELSE << >>

(* parse_bnch_pdu reads without asking for the length: there are 124 bits. *)
BnchSysinfo ==
  << <<"Main_Carrier", 12>>, <<"Frequency_Band", 4>>, <<"Offset", 2>>, <<"Duplex_Spacing", 3>>,
     <<"Reverse_Operation", 1>>, <<"NumberOfCommon_SC", 2>>, <<"MS_TXPwr_Max_Cell", 3>>,
     <<"RXLevel_Access_Min", 4>>, <<"Access_Parameter", 4>>, <<"Radio_DL_Timeout", 4>>,
     <<"HF_or_CK_flag", 1>> >>
BnchTail ==
  << <<"Optional_field_flag", 2>>, <<"Optional_field_value", 20>>, <<"Location_Area", 14>>,
     <<"Subscriber_Class", 16>> >>
     \o [i \in 1..12 |->
           << <<"Registration_required", "De_registration_required", "Priority_cell",
                "Cell_never_uses_minimum_mode", "Migration_supported", "System_wide_services",
                "TETRA_voice_service", "Circuit_mode_data_service", "Reserved",
                "SNDCP_Service", "Air_interface_encryption", "Advanced_link_supported">>[i], 1>>]
BnchAccess ==
  << <<"Access_code", 4>>, <<"Immediate", 1>>, <<"Waiting_time", 4>>, <<"Num_random_access_tx", 4>>,
     <<"Frame_length_factor", 1>>, <<"Timeslot_pointer", 4>>, <<"Min_priority", 3>> >>
ParseBnchPdu(bits) ==
  LET sys == TakeAll(Reader(4), BnchSysinfo)
      hf  == IF Value(bits, sys, "HF_or_CK_flag") = 0 THEN "Hyperframe" ELSE "CK_Identifier"
      acc == TakeAll(Reader(4), << <<"Fill_bit_indication", 1>>, <<"Encryption_mode", 2>>,
                                   <<"Random_access_flag", 1>> >>)
  IN  CASE Len(bits) < 4 \/ Extract(bits, 0, 2) # 2 -> Closed(Reader(0))
        [] Extract(bits, 2, 2) = 0 -> TakeAll(sys, << <<hf, 16>> >> \o BnchTail)
        [] Extract(bits, 2, 2) = 1 -> IF Value(bits, acc, "Random_access_flag") = 1
                                      THEN TakeAll(acc, BnchAccess) ELSE acc
        [] OTHER -> Reader(4)

(* Step 1: the layout and the cell of the first of twenty bursts whose     *)
(* sync block decodes, layout by layout.                                   *)
Seed(peaks, file, bsch) ==
  LET tries == FlattenSeq([l \in 1..2 |->
                 [i \in 1..Min({20, Len(peaks)}) |-> <<BurstLayouts[l], peaks[i]>>]])
      hits  == SelectSeq(tries, LAMBDA t : InFile(t[2], t[1], file) /\ bsch[t].open)
  IN  IF hits = << >> THEN << >> ELSE <<hits[1][1], bsch[hits[1]]>>

(* Step 2: the tallies over the bursts; one that sticks out of the file is *)
(* passed over but stays in the total printed for the sync blocks.         *)
Tallies(peaks, file, max_bursts, layout, bsch, bnch) ==
  LET first == SubSeq(peaks, 1, Min({max_bursts, Len(peaks)}))
      whole == SelectSeq(first, LAMBDA p : InFile(p, layout, file))
      Count(Test(_)) == Len(SelectSeq(whole, Test))
  IN  [n_total  |-> Len(first),
       bsch_ok  |-> Count(LAMBDA p : bsch[p].open),
       bnch_ok  |-> Count(LAMBDA p : bnch[p] # << >>),
       crc_fail |-> Count(LAMBDA p : bnch[p] = << >>)]
=============================================================================
