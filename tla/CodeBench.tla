------------------------------- MODULE CodeBench -------------------------------
(***************************************************************************)
(* A block on the air: it is encoded by the scripts that generate vectors, *)
(* some of its bits are received wrong, one by one or in a row, and it is  *)
(* decoded by the scripts that read recordings and by those that mirror    *)
(* the hardware's receiver.                                                *)
(***************************************************************************)
EXTENDS CodeVectors
Sb == INSTANCE SbDecoder
V == INSTANCE BenchVectors
R == INSTANCE ReferenceLog

CONSTANTS
  Channels,   \* of "bsch", "schf", "schhd", "schhu", "aach"
  Seeds,      \* of the blocks sent
  MaxFlips,   \* how many bits at most are received wrong away from each other
  Stride,     \* for every channel, how far apart these lie at least
  Fades       \* lengths of the rows of wrong bits

ASSUME CodeBenchAssumption ==
  /\ Channels \subseteq {"bsch", "schf", "schhd", "schhu", "aach"}
  /\ MaxFlips \in Nat /\ Fades \subseteq Nat \ {0}
  /\ Channels \subseteq DOMAIN Stride /\ \A c \in Channels : Stride[c] \in Nat \ {0}

VARIABLES
  channel,  \* the logical channel of the block
  seed,     \* which block is sent
  flips     \* the places of its bits that are received wrong

vars == <<channel, seed, flips>>

-----------------------------------------------------------------------------
(* The cell of the scripts' defaults and what it sends.                    *)

Mcc == 901
Mnc == 9998
Cc == 49
Code == MakeScrambCode(Mcc, Mnc, Cc)
Config ==
  [system_code |-> 0, colour_code |-> Cc, sharing_mode |-> 0, ts_reserved_frames |-> 0,
   u_plane |-> 0, frame_18_ext |-> 0, mcc |-> Mcc, mnc |-> Mnc, ncb |-> 0, csl |-> 0,
   late_entry |-> 0]

(* The half slot is a broadcast PDU, system information or access codes.  *)
InfoLength == [schf |-> 268, schhd |-> 124, schhu |-> 92]
Payload(n, s) == [i \in 1..n |-> ((i * i) \div s + i) % 2]
BlockOf(c, s) ==
  CASE c = "bsch" -> BuildPdu(Config, SdbSlotSw(s), 18, s)
    [] c = "aach" -> IF s % 2 = 0 THEN AachInfoCapaloc ELSE AachInfoDlulAssign
    [] c = "schhd" -> <<1, 0, 0, s % 2>> \o Payload(InfoLength[c] - 4, s)
    [] c = "schhu" -> <<0>> \o Payload(InfoLength[c] - 1, s)
    [] c = "schf"  -> Payload(InfoLength[c], s)
Sent(c, info) ==
  CASE c = "bsch"  -> SwEncodeBsch(info)
    [] c = "schf"  -> EncodeSchF(info, Code)
    [] c = "schhd" -> EncodeSchHd(info, Code)
    [] c = "schhu" -> EncodeSchHu(info, Code)
    [] c = "aach"  -> EncodeAach(IF info = AachInfoCapaloc THEN 1 ELSE 17, Cc, Mcc, Mnc)

(* The decoders, each with its verdict and its block.                      *)

HardRead(air, K, a, n) == DecodeChannel(XorSeq(air, ScramblerSeq(Code, K)), K, a, n)
SoftRead(air, K, a, n) ==
  DecodeChannelSoft(DescrambleSoft([i \in DOMAIN air |-> Soft8(air[i])], Code), K, a, n)
(* A block at its place in a burst of the transmitter's layout.            *)
InBurst(air, off) ==
  LET d == Dibits(air) IN
  [i \in 1..254 |-> IF i \in off..(off + Len(d) - 1) THEN d[i - off + 1] ELSE 0]
Layout == Sb!NonContinuous
(* The sync burst in a recording of a thousand symbols, found twice, and a *)
(* weaker find that is none; every layout and bit order is tried.          *)
Finds == << [at |-> 401, corr |-> 60], [at |-> 400, corr |-> 90], [at |-> 900, corr |-> 30] >>
Peaks == Sb!FindSyncBursts(Finds, 35)
FileLength == 1000
Summary(passing) ==
  [ok |-> passing # << >>, info |-> IF passing = << >> THEN << >> ELSE Sb!Majority(passing)]
SyncSummary(air) ==
  LET dibits == Whole(InBurst(air, Layout.sb1))
      attempts == Sb!Attempts(Peaks, 5, TRUE, TRUE)
      read == [a \in ToSet(attempts) |-> Sb!Attempt(dibits, a[1][2].sb1, a[2], TRUE, FALSE)]
  IN  Summary(Sb!Passing(attempts, FileLength, read))
SyncRead(air) ==
  << SyncSummary(air),
     DecodeChannel(XorSeq(air, ScramblerSeq(BschCode, 120)), 120, 11, 60) >>
(* The second half of a burst, modulated, as the broadcast channel.        *)
Taken(info) == [ok |-> info # << >>, info |-> info]
BnchOf(symbols) ==
  Taken(Sb!TryDecodeBnch(Whole(Sb!Demod(symbols)),
          Whole(Sb!DemodSoft(symbols, [i \in 1..254 |-> 1 + (i % 2)])), Layout.bkn2,
          Sb!CreateScramblerCode(Mcc, Mnc, Cc)))
BnchRead(air) ==
  BnchOf(Sb!DibitsToSymbols(Whole(<<0>> \o InBurst(air, Layout.bkn2)), 0))
HalfSlotRead(air) ==
  LET burst == Whole(ModulateFullBurst(air))
  IN  << SoftRead(air, 168, 13, 92), HexDecode(burst, Code), RtlEmuDecode(burst, Code),
          QuantDecode(burst, Code), MirrorDecode([i \in DOMAIN air |-> Soft8(air[i])], Code) >>
AachRead(air) ==
  << Taken(Rm3014Decode(XorSeq(air, ScramblerSeq(Code, 30)))) >>
Reads(c, air) ==
  CASE c = "bsch"  -> SyncRead(air)
    [] c = "schf"  -> << HardRead(air, 432, 103, 268), SoftRead(air, 432, 103, 268) >>
    [] c = "schhd" -> << HardRead(air, 216, 101, 124), SoftRead(air, 216, 101, 124), BnchRead(air) >>
    [] c = "schhu" -> HalfSlotRead(air)
    [] c = "aach"  -> AachRead(air)

-----------------------------------------------------------------------------
Init == channel \in Channels /\ seed \in Seeds /\ flips = {}

Places == 1..Len(Sent(channel, BlockOf(channel, seed)))
Noise(k) ==
  /\ Cardinality(flips) < MaxFlips
  /\ \A j \in flips : k >= j + Stride[channel]
  /\ flips' = flips \cup {k}
  /\ UNCHANGED <<channel, seed>>
Fade(k, length) ==
  /\ flips = {} /\ k + length - 1 \in Places
  /\ flips' = k..(k + length - 1)
  /\ UNCHANGED <<channel, seed>>

Next ==
  \E k \in {p \in Places : p % Stride[channel] = 1} :
    Noise(k) \/ \E l \in Fades : Fade(k, l)
Spec == Init /\ [][Next]_vars

-----------------------------------------------------------------------------
(* Properties.                                                             *)

(* What every decoder of the channel makes of the block as received.       *)
Block == Whole(BlockOf(channel, seed))
Air == Whole(Flip(Sent(channel, Block), flips))

Reach == [bsch |-> 9, schf |-> 9, schhd |-> 9, schhu |-> 3, aach |-> 3]
Row == flips = {} \/ Max(flips) - Min(flips) < Cardinality(flips)
Restored(reads) == \A i \in DOMAIN reads : reads[i].ok /\ reads[i].info = Block

(* One wrong bit, or a row of them as long as the interleaver takes apart, *)
(* is corrected: every decoder, the software's and those that mirror the   *)
(* hardware, with hard and with soft bits, gives the block the encoder was *)
(* given.                                                                  *)
Corrected ==
  (Row /\ Cardinality(flips) <= Reach[channel]) =>
    Restored(Reads(channel, Air))

(* The CRC of a block: the sync scripts take its bits as they are,         *)
(* inverted, or by the remainder; the others by the remainder alone.       *)
Protected == Whole(Crc16(Block))
Accepted(bits) == IF channel = "bsch" THEN Sb!Crc16Modes(bits) # {} ELSE Crc16CheckDll(bits)
(* The places in flips as bits that the decoder left wrong: of a row its   *)
(* ends and any between them, else all of them and a last one.             *)
NearMisses ==
  CASE flips = {} -> {{k} : k \in DOMAIN Protected}
    [] Cardinality(flips) \in 1..MaxFlips
         -> {flips} \cup {flips \cup {k} : k \in (Max(flips) + 1)..Len(Protected)}
    [] OTHER
         -> {{Min(flips), Max(flips)} \cup inner : inner \in SUBSET (flips \ {Min(flips), Max(flips)})}

(* A block that comes out of the Viterbi decoder nearly right is refused,  *)
(* also where three readings of its CRC are tried: one to three wrong      *)
(* bits, of which all but the last lie at the places of the model, or a    *)
(* burst of a length in Fades, whatever is wrong between its ends.         *)
(* Nothing is said of a block that is further off: sixteen bits cannot     *)
(* exclude that it passes.                                                 *)
NearMissRefused ==
  (channel # "aach" /\ flips \subseteq DOMAIN Protected) =>
    \A wrong \in NearMisses : ~Accepted(Flip(Protected, wrong))

(* What is said twice is the same.  bsch: the hardware's way of encoding   *)
(* the sync block and of finding its slot is the software's                *)
(* (verify_sb1_encoder.py), and both readers of a sync PDU give back the   *)
(* cell and the time it was made of.                                       *)
SyncAgrees ==
  LET bsch == [t \in ToSet(Sb!BurstLayouts) \X ToSet(Peaks) |->
                 Sb!TryDecodeBsch(InBurst(Air, Layout.sb1), t[1])]
      found == Sb!Seed(Peaks, FileLength, bsch)
  IN  /\ RtlEncodeBsch(Block) = Air
      /\ SdbSlotSw(seed) = SdbSlotRtl(seed)
      /\ SyncToAir(Block) = <<SdbSlotSw(seed), 18, seed>>
      /\ found[1] = Layout
      /\ Value(Block, found[2], "MCC") = Mcc /\ Value(Block, found[2], "MNC") = Mnc
      /\ Value(Block, found[2], "ColourCode") = Cc
      /\ \A i \in DOMAIN V!ScramblerCases :
           LET c == V!ScramblerCases[i]  init == V!ComputeLfsrInit(c.cc, c.mcc, c.mnc, c.tn)
           IN  V!Scramble(init, V!Scramble(init, c.data)) = c.data

(* aach: parse_aach gives back the fields that gen_aach_reference.py       *)
(* packs; the Reed-Muller code of the vectors has the distance it asks for *)
(* and corrects three bits.                                                *)
AachAgrees ==
  /\ Sb!TryDecodeAach(InBurst(Air, Layout.bb), Layout.bb) = Air
  /\ LET a == ParseAach(Block) IN
     IF Block = AachInfoCapaloc THEN a.header = 3 /\ a.dl_usage = << >>
     ELSE a.header = 0 /\ a.dl_usage = <<0, 0, 0>> /\ a.ul_usage = <<0, 0, 1>>
  /\ V!DMin >= 8
  /\ V!RmDecode(Flip(V!RmEncode(Block), {1, 9 + seed, 30})) = [m |-> Block, error |-> FALSE]

HeaderAgrees(header) ==
  SubSeq(header, 1, 3) = <<0, 0, Block[2]>> /\ SubSeq(header, 7, 9) = <<0, Block[4], Block[5]>>
VectorAgrees(vector, record) ==
  /\ record = vector.exp
  /\ MirrorDecode(vector.soft, Code) = [ok |-> TRUE, info |-> Block]
  /\ HeaderAgrees(MacExp(vector.exp))

(* schhu: the modulated stimuli demodulate to the bits, to the record the  *)
(* test bench expects and to the header it expects (check_ul_demod_tv.py,  *)
(* gen_ul_wav_iq_stim.py, gen_ul_mac_exp.py), and the mirror of the        *)
(* hardware reads the vector of gen_sch_hu_tv.py.                          *)
UplinkAgrees ==
  LET bursts == << [x |-> XSymIdx + 1, x_corr |-> 80], [x |-> XSymIdx, x_corr |-> 40],
                   [x |-> XSymIdx, x_corr |-> 80] >>
      taken == StimBursts(bursts, 4, FullSyms)
  IN  /\ DemodMismatches(Air) = 0
      /\ taken = <<bursts[3]>>
      /\ VectorAgrees(HuVector(Block, Code), StimRecord(ModulateFullBurst(Air), taken[1].x + 1, Code))

Retaken(air, K) ==
  /\ V!StepDeinterleave(V!StepInterleave(air, K), K) = air
  /\ V!Scramble(Code, V!Scramble(Code, air)) = air
SameFields(r, s) == \A n \in DOMAIN r.read \cap DOMAIN s.read : r.read[n] = s.read[n]

(* schhd: the two readers of a broadcast PDU have the same fields at the   *)
(* same bits, the burst is counted as read and one that sticks out of the  *)
(* file is not; scrambler and interleavers of the vectors take back what   *)
(* they did, and the block of gen_d_nwrk_broadcast.py has every coded bit. *)
BroadcastAgrees ==
  LET peaks == Append(Peaks, [at |-> 990, corr |-> 40])
      synced == [p \in ToSet(peaks) |-> [open |-> p.at = 400]]
      heard == [p \in ToSet(peaks) |-> BnchRead(Air).info]
      nwrk == BuildDNwrkType5(Block, Cc, Mcc, Mnc)
  IN  /\ SameFields(MacBroadcast(Block, 2), Sb!ParseBnchPdu(Block))
      /\ Sb!Tallies(peaks, FileLength, 50, Layout, synced, heard)
           = [n_total |-> 2, bsch_ok |-> 1, bnch_ok |-> 1, crc_fail |-> 0]
      /\ Retaken(Air, 216)
      /\ Len(nwrk) = 288 /\ ToSet(InterleaveNwrk(Upto(288), 11)) = 1..288
      /\ \A i \in {1, 60, 123} : TetraCrc16(Flip(Block, {i})) # TetraCrc16(Block)

(* A normal uplink burst with its training sequence, modulated.            *)
NormalBurst ==
  Whole(Phases(Whole(<<0>> \o Dibits(SubSeq(Air, 1, 216)) \o SubSeq(EtsDibits, 1, NtsSyms)
                 \o Dibits(SubSeq(Air, 217, 432))), 0))

(* schf: a normal uplink burst is found although it fades for a moment,    *)
(* and is read from its training sequence; the vector of gen_sch_f_tv.py   *)
(* is read with its soft bits; the blocks of gen_schf_reass_tv.py are      *)
(* joined to their body; speech blocks and layers are taken apart as they  *)
(* were put together.                                                      *)
FullSlotAgrees ==
  LET read(halves) == TrySchhuDecode(halves[1], halves[2], Code)
      IsBlock(r) == r.channel = "schf" /\ r.info = Block
      vector == FullVector(Block, Code)
      nub    == TryChannelDecode(SubSeq(vector.nub, 1, 216), SubSeq(vector.nub, 217, 432), Code, "schf")
      reass  == ReassVector(SubSeq(Block, 1, 48), << SubSeq(Block, 1, 264), SubSeq(Block, 5, 262) >>)
      chain  == [chains |-> << >>, cur |-> [ssi |-> 1, tm |-> SubSeq(Block, 1, 48), nf |-> 0]]
      joined == FoldLeft(LAMBDA acc, b : AddFull(acc, SchfFrag(b)), chain, reass.blocks)
      speech == DecodeTchSBurst(DescrambleTchS(InterleaveBlock(Air, 432, 103), Code), Code)
      layers == R!Chain(Air, Code, 432, 103)
  IN  /\ FindBursts([i \in 1..400 |-> i \in (60..295) \ (150..(150 + 8 * seed))]) = << <<60, 295>> >>
      /\ IsBlock(read(SampleNubBlocks(NormalBurst, 2 + NubHalfSyms)))
      /\ nub.ok /\ vector.exp = <<1>> \o BitsToHex(nub.info)
      /\ joined.chains = << [ssi |-> 1, tm |-> reass.body, nf |-> 2] >>
      /\ Retaken(Air, 432)
      /\ speech.frame0.class0 \o speech.frame0.class1 \o speech.frame0.class2
           \o speech.frame0.crc = SubSeq(Air, 1, 216)
      /\ R!DescrambleBits(layers[2], Code) = Air
      /\ \A i \in DOMAIN BitsToBytes(Block) :
           BitsToBytes(Block)[i] = 16 * R!NibblesOf(Block)[2 * i - 1] + R!NibblesOf(Block)[2 * i]
      /\ Crc32CheckLlc(Block \o Inverted(CrcRegister(32, LlcPoly, Block)))
      /\ FlattenSeq(V!PunctureRate23(V!EncodeBlock(Block, TRUE)))
           = V!Puncture(V!EncodeBlock(Block, TRUE), TRUE)
      /\ V!FinalSr(Block, TRUE) = TailBits

(* Two scripts, or a script and the test bench, that say the same thing    *)
(* say it alike: the agreements above, for every block that is sent.       *)
VectorsAgree ==
  flips = {} =>
    CASE channel = "bsch"  -> SyncAgrees
      [] channel = "aach"  -> AachAgrees
      [] channel = "schhu" -> UplinkAgrees
      [] channel = "schhd" -> BroadcastAgrees
      [] channel = "schf"  -> FullSlotAgrees
=============================================================================
