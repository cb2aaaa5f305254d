------------------------------- MODULE UlDecoder -------------------------------
(***************************************************************************)
(* scripts/decode_ul.py without its PDU parsers: the bursts in a           *)
(* recording (found by scripts/verify_ul_ra_burst.py), the two burst       *)
(* layouts, the hypotheses a burst is decoded under, and the joining of    *)
(* the fragments of a long message.                                        *)
(*                                                                         *)
(* FirstStartHolds is a faulty variant that the models do not use.         *)
(***************************************************************************)
EXTENDS ChannelCodes, UlPdu

(* find_bursts, in symbols: the stretches above the threshold that are     *)
(* long enough, each merged with the one before if the gap is short.       *)
MinRun == 50
MinGap == 50
FindBursts(above) ==
  LET starts == {i \in DOMAIN above : above[i] /\ (i = 1 \/ ~above[i - 1])}
      End(s) == CHOOSE e \in s..Len(above) : above[e] /\ (e = Len(above) \/ ~above[e + 1])
                                               /\ \A k \in s..e : above[k]
      Join(bursts, s) ==
        LET e == End(s)  n == Len(bursts) IN
        IF e - s + 1 < MinRun THEN bursts
        ELSE IF n > 0 /\ s - bursts[n][2] - 1 < MinGap
        THEN [bursts EXCEPT ![n][2] = e] ELSE Append(bursts, <<s, e>>)
  IN  FoldLeft(Join, << >>, SetToSortSeq(starts, LAMBDA x, y : x < y))

-----------------------------------------------------------------------------
(* A symbol is its phase in multiples of pi/4; a soft bit is the sine or   *)
(* the cosine of the step to it, in tenths.  Block 1 ends where the        *)
(* training sequence begins, block 2 starts where it ends, and each is     *)
(* sampled with the symbol in front of it.                                 *)

RaCbSyms == 42
RaXSyms == 15
NubHalfSyms == 108
NtsSyms == 11

Sine(p) == CASE p % 8 \in {0, 4} -> 0 [] p % 8 \in {1, 3} -> 7 [] p % 8 = 2 -> 10
             [] p % 8 \in {5, 7} -> -7 [] p % 8 = 6 -> -10
DemodPi4dqpskSoftEtsi(symbols) ==
  [i \in 1..(2 * (Len(symbols) - 1)) |->
     LET step == symbols[(i + 1) \div 2 + 1] - symbols[(i + 1) \div 2]
     IN  Sine(IF i % 2 = 1 THEN step ELSE step + 2)]

(* "at" is the position of the first symbol of the training sequence.      *)
Around(symbols, at, middle, half) ==
  << DemodPi4dqpskSoftEtsi(SubSeq(symbols, at - half - 1, at - 1)),
     DemodPi4dqpskSoftEtsi(SubSeq(symbols, at + middle - 1, at + middle + half - 1)) >>
SampleHalfSoftBits(symbols, at) == Around(symbols, at, RaXSyms, RaCbSyms)
SampleNubBlocks(symbols, at) == Around(symbols, at, NtsSyms, NubHalfSyms)

-----------------------------------------------------------------------------
(* try_channel_decode: order of the halves, polarity and scrambling are    *)
(* guessed; the first guess that passes is taken, or else the first.       *)

Channel(name) ==
  CASE name = "schhu" -> [K |-> 168, a |-> 13, info |-> 92]
    [] name = "schhd" -> [K |-> 216, a |-> 101, info |-> 124]
    [] name = "schf"  -> [K |-> 432, a |-> 103, info |-> 268]

Signed(sign, soft) == [i \in DOMAIN soft |-> sign * soft[i]]
Hypotheses(blk1, blk2, init, K) ==
  LET Halves(o) == SubSeq(IF o = "12" THEN blk1 \o blk2 ELSE blk2 \o blk1, 1, K)
      Guess(o, sign, scrambled) ==
        [order |-> o, sign |-> sign, scrambled |-> scrambled,
         soft |-> Signed(sign, IF scrambled THEN DescrambleSoft(Halves(o), init) ELSE Halves(o))]
  IN  << Guess("12", 1, TRUE), Guess("12", 1, FALSE), Guess("12", -1, TRUE), Guess("12", -1, FALSE),
         Guess("21", 1, TRUE), Guess("21", 1, FALSE), Guess("21", -1, TRUE), Guess("21", -1, FALSE) >>

NoResult == [ok |-> FALSE, info |-> << >>, hard |-> << >>, channel |-> "none"]
Result(block, channel, soft) ==
  [ok |-> block.ok, info |-> block.info, channel |-> channel,
   hard |-> [k \in DOMAIN soft |-> IF soft[k] < 0 THEN 1 ELSE 0]]
FirstOk(results, otherwise) ==
  LET Ok(i) == results[i].ok
      first == CHOOSE i \in DOMAIN results : Ok(i) /\ \A j \in 1..(i - 1) : ~Ok(j)
  IN  results[IF \E i \in DOMAIN results : Ok(i) THEN first ELSE otherwise]
Guessed(guesses, ch, channel) ==
  [i \in DOMAIN guesses |->
     Result(DecodeChannelSoft(guesses[i].soft, ch.K, ch.a, ch.info), channel, guesses[i].soft)]
TryChannelDecode(blk1, blk2, init, channel) ==
  LET ch == Channel(channel) IN
  IF 2 * Len(blk1) < ch.K THEN NoResult
  ELSE FirstOk(Guessed(Hypotheses(blk1, blk2, init, ch.K), ch, channel), 1)

(* try_schhu_decode: the channels one after the other; the last result     *)
(* stands if none passes.                                                  *)
TrySchhuDecode(blk1, blk2, init) ==
  FirstOk([i \in 1..3 |-> TryChannelDecode(blk1, blk2, init, <<"schhu", "schhd", "schf">>[i])], 3)

(* _decode_one_burst.  A burst with a weak training sequence x is skipped, *)
(* a normal burst, which has none, included.  The timings and frequencies  *)
(* are tried until one passes, and the first result is kept otherwise; a   *)
(* long burst that did not pass is tried as a normal one.                  *)
FirstPassing(results) ==
  LET hits == SelectSeq(results, LAMBDA r : r.ok)
  IN  IF hits # << >> THEN hits[1] ELSE IF results # << >> THEN results[1] ELSE NoResult
DecodeOneBurst(burst) ==
  LET cb == FirstPassing(burst.cb) IN
  IF burst.x_corr < 50 THEN [skip |-> TRUE, result |-> NoResult]
  ELSE [skip |-> FALSE,
        result |-> IF ~cb.ok /\ burst.length > 150 /\ burst.nts_corr > 45
                        /\ (burst.nub.ok \/ cb.info = << >>)
                   THEN burst.nub ELSE cb]

-----------------------------------------------------------------------------
(* Output.                                                                 *)

PadTo(bits, w) == bits \o [i \in 1..((-Len(bits)) % w) |-> 0]
BitsToHex(bits) ==
  [i \in 1..(Len(PadTo(bits, 8)) \div 8) |-> Extract(PadTo(bits, 8), 8 * i - 8, 8)]
BitsToBytes(bits) == [i \in 1..(Len(bits) \div 8) |-> Extract(bits, 8 * i - 8, 8)]
(* Seven bits a character, the least significant first; 0 is unprintable.  *)
Gsm7(bits) ==
  [i \in 1..(Len(bits) \div 7) |->
     LET v == Extract(Reverse(SubSeq(bits, 7 * i - 6, 7 * i)), 0, 7)
     IN  IF v >= 32 /\ v < 127 THEN v ELSE 0]

-----------------------------------------------------------------------------
(* The joining of a long message: an access PDU that announces fragments   *)
(* starts a chain, fragments in full slots are added to it, the end or the *)
(* next start closes it.  Neither the subscriber nor a number tells whose  *)
(* fragment it is.                                                         *)

SchfFrag(info) ==
  IF Len(info) < 11 \/ Extract(info, 0, 2) # 1 THEN [kind |-> "none", body |-> << >>]
  ELSE IF info[3] = 0 THEN [kind |-> "FRAG", body |-> SubSeq(info, 5, Len(info))]
  ELSE [kind |-> "END", body |-> SubSeq(info, 11, Len(info))]

NoChain == [ssi |-> -1, tm |-> << >>, nf |-> -1]
Open(acc) == acc.cur # NoChain
Close(acc) == IF Open(acc) THEN [chains |-> Append(acc.chains, acc.cur), cur |-> NoChain] ELSE acc
FirstStartHolds(acc, p) ==
  IF p.frag_flag = 1 /\ ~Open(acc)
  THEN [acc EXCEPT !.cur = [ssi |-> p.ssi, tm |-> p.body, nf |-> 0]] ELSE acc
AddAccess(acc, p) ==
  IF p.frag_flag = 1
  THEN [Close(acc) EXCEPT !.cur = [ssi |-> p.ssi, tm |-> p.body, nf |-> 0]] ELSE acc
AddFull(acc, r) ==
  LET more == [acc EXCEPT !.cur.tm = @ \o r.body, !.cur.nf = @ + 1]
  IN  IF ~Open(acc) \/ r.kind = "none" THEN acc
      ELSE IF r.kind = "END" THEN Close(more) ELSE more

(* The access PDU as the aggregation sees it: payload_start is there when  *)
(* the header was one of an access PDU and could be read.                  *)
AccessPart(info) ==
  LET parts == MacAccess(info) IN
  IF parts = << >> THEN [frag_flag |-> -1, ssi |-> -1, body |-> << >>]
  ELSE [frag_flag |-> Value(info, parts[1], "frag_flag"),
        ssi  |-> IF Value(info, parts[1], "addr_type") = 1 THEN -1 ELSE Value(info, parts[1], "address"),
        body |-> SubSeq(info, 1 + (IF parts[1].open THEN parts[1].at ELSE 0), Len(info))]

AddBurst(acc, res) ==
  IF res.skip \/ ~res.result.ok THEN acc
  ELSE CASE res.result.channel = "schhu" -> AddAccess(acc, AccessPart(res.result.info))
         [] res.result.channel = "schf"  -> AddFull(acc, SchfFrag(res.result.info))
         [] OTHER -> acc
Chains(results) == Close(FoldLeft(AddBurst, [chains |-> << >>, cur |-> NoChain], results)).chains

(* The table of bit patterns is an array with a row for every burst that   *)
(* was not skipped, and the bits of a full slot are more than the others:  *)
(* rows of two lengths are an error the script dies of, in front of the    *)
(* list of the PDUs.                                                       *)
Patterns(results) ==
  {IF r.result.channel = "none" THEN 168 ELSE Channel(r.result.channel).K :
     r \in {x \in ToSet(results) : ~x.skip}}
Finishes(results) == Cardinality(Patterns(results)) <= 1
=============================================================================
