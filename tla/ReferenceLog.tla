------------------------------ MODULE ReferenceLog ------------------------------
(***************************************************************************)
(* scripts/parse_reference_decode.py: it reads the printed output of the   *)
(* downlink and of the uplink decoder line by line, gives every burst the  *)
(* lines that belong to it, turns slot labels into times and looks for the *)
(* downlink reactions to every uplink burst.                               *)
(*                                                                         *)
(* A line is a record whose "kind" is the regular expression it matches;   *)
(* times are counted in slots of 14.167 ms.                                *)
(*                                                                         *)
(* NthRow and LabelsOnly are  faulty variants that the models do not use.  *)
(***************************************************************************)
EXTENDS ChannelCodes

(* The codes once more.  The scrambler shifts the other way and has other  *)
(* taps than the one the decoders use.                                     *)
CellScramblerSeq(init, n) == FibonacciSeq({0, 1, 2, 4, 6, 31}, Reverse(init), n)
DescrambleBits(bits, init) == XorSeq(bits, CellScramblerSeq(init, Len(bits)))
DeinterleaveBits(bits, K, a) == DeinterleavePerm(bits, K, a)
NibblesOf(bits) ==
  LET padded == bits \o [i \in 1..((-Len(bits)) % 4) |-> 0]
  IN  [i \in 1..(Len(padded) \div 4) |->
         FoldLeft(LAMBDA n, b : 2 * n + b, 0, SubSeq(padded, 4 * i - 3, 4 * i))]

-----------------------------------------------------------------------------
(* parse_dl: an event for every header, and with it all the lines up to    *)
(* the next header.                                                        *)

RawKeys ==
  {"sb_dibits", "sb1_info_60b", "sb1_t5_onair_120b", "sb1_t4_descr_120b", "sb1_t3_deint_120b",
   "type5_onair_432b", "info_268b", "info_hex", "scramb_code", "bkn1_onair_216b",
   "bkn2_onair_216b", "bkn1_info_124b", "bkn2_info_124b", "bb_raw_30b", "bb_descr_30b",
   "aach_info_14b"}

NewDlEvent(h) ==
  [idx |-> h.idx, type |-> h.type, tn |-> h.tn, fn |-> h.fn, mn |-> h.mn, suffix |-> h.suffix,
   aach |-> h.aach, raw |-> [k \in {} |-> << >>], crc_ok |-> FALSE, cell |-> "none",
   mac |-> << >>, llc |-> << >>, mle |-> << >>, cmce |-> << >>, mm |-> << >>, sysinfo |-> FALSE]

WithLine(ev, line) ==
  CASE line.kind = "raw"     -> IF line.key \in RawKeys
                                THEN [ev EXCEPT !.raw = [k \in DOMAIN @ \cup {line.key} |->
                                        IF k = line.key THEN line.val ELSE @[k]]]
                                ELSE ev
    [] line.kind = "sb1crc"  -> [ev EXCEPT !.crc_ok = TRUE, !.cell = line.val]
    [] line.kind = "mac"     -> [ev EXCEPT !.mac = Append(@, line.val)]
    [] line.kind = "llc"     -> [ev EXCEPT !.llc = Append(@, line.val)]
    [] line.kind = "mle"     -> [ev EXCEPT !.mle = Append(@, line.val)]
    [] line.kind = "cmce"    -> [ev EXCEPT !.cmce = Append(@, line.val)]
    [] line.kind = "mm"      -> [ev EXCEPT !.mm = Append(@, line.val)]
    [] line.kind = "sysinfo" -> [ev EXCEPT !.sysinfo = TRUE]
    [] OTHER                 -> ev

ParseDl(lines) ==
  FoldLeft(LAMBDA evs, l :
             IF l.kind = "header" THEN Append(evs, NewDlEvent(l))
             ELSE IF evs = << >> THEN evs
             ELSE [evs EXCEPT ![Len(evs)] = WithLine(evs[Len(evs)], l)],
           << >>, lines)

-----------------------------------------------------------------------------
(* parse_ul: first the rows, each with the dump lines behind it; then the  *)
(* list at the end, whose i-th entry is taken for the i-th row that is OK. *)

UlRow(l) ==
  [idx |-> l.idx, time |-> l.time, crc |-> l.crc, head |-> l.head, dump |-> << >>,
   bits92 |-> << >>, parsed |-> << >>]
UlRows(lines) ==
  FoldLeft(LAMBDA evs, l :
             CASE l.kind = "row" -> Append(evs, UlRow(l))
               [] l.kind = "dump" /\ evs # << >> -> [evs EXCEPT ![Len(evs)].dump = l.val]
               [] OTHER -> evs,
           << >>, lines)

(* The position of the n-th OK row, or 0 when there are fewer.             *)
OkRows(evs) == SelectSeq(Upto(Len(evs)), LAMBDA i : evs[i].crc = "OK")
NthRow(evs, n) == IF n <= Len(evs) THEN n ELSE 0
NthOk(evs, n) == IF n <= Len(OkRows(evs)) THEN OkRows(evs)[n] ELSE 0

(* acc.n counts the entries of the list gone by.                           *)
ListLine(acc, l) ==
  LET at == IF acc.n = 0 THEN 0 ELSE NthOk(acc.evs, acc.n) IN
  CASE l.kind = "pdu"                -> [acc EXCEPT !.n = @ + 1]
    [] l.kind = "bits92" /\ at # 0   -> [acc EXCEPT !.evs[at].bits92 = l.val]
    [] l.kind = "parsed" /\ at # 0   -> [acc EXCEPT !.evs[at].parsed = l.val]
    [] OTHER                         -> acc
ParseUl(lines) == FoldLeft(ListLine, [evs |-> UlRows(lines), n |-> 0], lines).evs

-----------------------------------------------------------------------------
(* Slot labels.  They repeat after a hyperframe.                           *)

SlotsMf == 72
SlotsHf == 60 * SlotsMf
SlotId(ev) == (ev.mn - 1) * SlotsMf + (ev.fn - 1) * 4 + (ev.tn - 1)

(* A sync burst in front of a jump of more than a quarter of a hyperframe  *)
(* is the one the decoder locked with, labelled before the time was set.   *)
DetectDlAnchor(dl) ==
  IF Len(dl) >= 2 /\ dl[1].type = "SB"
     /\ (SlotId(dl[2]) - SlotId(dl[1])) % SlotsHf > SlotsHf \div 4
  THEN 2 ELSE 1

LabelsOnly(dl) ==
  [i \in 1..(Len(dl) + 1 - DetectDlAnchor(dl)) |-> SlotId(dl[i - 1 + DetectDlAnchor(dl)])]
(* The absolute slots from the anchor on: half a hyperframe back is a wrap. *)
AbsSlots(dl) ==
  LET anchor == DetectDlAnchor(dl)
      Next1(acc, i) ==
        LET s == SlotId(dl[i]) + acc.wrap * SlotsHf
            wraps == s < acc.prev - SlotsHf \div 2
            sa == IF wraps THEN s + SlotsHf ELSE s
        IN  [wrap |-> IF wraps THEN acc.wrap + 1 ELSE acc.wrap, prev |-> sa,
             abs  |-> Append(acc.abs, sa)]
  IN  FoldLeft(Next1, [wrap |-> 0, prev |-> SlotId(dl[anchor]), abs |-> <<SlotId(dl[anchor])>>],
               [i \in 1..(Len(dl) - anchor) |-> anchor + i]).abs
(* The time of the event at a position of the list; none before the anchor. *)
HasTime(dl, i) == i >= DetectDlAnchor(dl)
DlTime(dl, i) == LET abs == AbsSlots(dl) IN abs[i + 1 - DetectDlAnchor(dl)] - abs[1]

-----------------------------------------------------------------------------
(* Selections and tallies.                                                 *)

IsAddressed(ev) == ev.type = "NDB1" /\ \E i \in DOMAIN ev.mac : ev.mac[i].addr # "NULL"
IsBroadcast(ev) == \E i \in DOMAIN ev.mac : ev.mac[i].id = 16777215
Signalling(dl) == SelectSeq(Upto(Len(dl)), LAMBDA i : IsAddressed(dl[i]) /\ ~IsBroadcast(dl[i]))

Tally(keys) == [k \in ToSet(keys) |-> Len(SelectSeq(keys, LAMBDA x : x = k))]
Each(evs, Key(_)) == [i \in DOMAIN evs |-> Key(evs[i])]
CrcTally(ul) == Tally(Each(ul, LAMBDA u : u.crc))
Inventory(dl, ul) ==
  [types |-> Tally(Each(dl, LAMBDA e : e.type)),
   bnch  |-> Len(SelectSeq(dl, LAMBDA e : e.suffix = "BNCH")),
   aach  |-> Tally(Each(SelectSeq(dl, LAMBDA e : e.aach # "none"), LAMBDA e : e.aach)),
   addr  |-> Tally(SelectSeq(FlattenSeq(Each(dl, LAMBDA e : Each(e.mac, LAMBDA m : m.addr))),
                             LAMBDA a : a # "NULL")),
   sig_ndb1 |-> Len(SelectSeq(dl, IsAddressed)),
   sig_addr |-> Len(Signalling(dl)),
   ul    |-> CrcTally(ul)]

-----------------------------------------------------------------------------
(* The layers written for a burst, from the bits on the air to the block   *)
(* decoded.  The type-4 and type-3 layers of the downlink are computed     *)
(* here, with this script's scrambler; those of a sync block and the       *)
(* type-4 layer of the uplink come from the decoder.                       *)

Raw(ev, key) == IF key \in DOMAIN ev.raw THEN ev.raw[key] ELSE << >>
Chain(onair, code, K, a) ==
  IF onair = << >> \/ code = << >> THEN << >>
  ELSE LET t4 == DescrambleBits(onair, code)
       IN  <<onair, t4, DeinterleaveBits(t4, K, a)>>
DlLayers(ev) ==
  CASE ev.type = "SB" -> << << Raw(ev, "sb1_t5_onair_120b"), Raw(ev, "sb1_t4_descr_120b"),
                               Raw(ev, "sb1_t3_deint_120b") >> >>
    [] ev.type = "NDB1" -> << Chain(Raw(ev, "type5_onair_432b"), Raw(ev, "scramb_code"), 432, 103) >>
    [] ev.type = "NDB2" -> << Chain(Raw(ev, "bkn1_onair_216b"), Raw(ev, "scramb_code"), 216, 101),
                              Chain(Raw(ev, "bkn2_onair_216b"), Raw(ev, "scramb_code"), 216, 101) >>
UlLayers(u) ==
  IF u.crc = "SKIP" \/ u.dump = << >> THEN << >>
  ELSE << u.dump.type5, u.dump.type4,
          DeinterleaveBits(u.dump.type4, 168, 13),
          IF u.bits92 # << >> THEN u.bits92 ELSE u.dump.info >>

-----------------------------------------------------------------------------
(* build_action_reaction: the clocks of the two recordings are aligned by  *)
(* one pair of bursts, a registration and its answer where they are found. *)

FirstWhere(n, Test(_)) ==
  LET hits == SelectSeq(Upto(n), Test) IN IF hits = << >> THEN 0 ELSE hits[1]
FirstOf2(preferred, fallback) == IF preferred # 0 THEN preferred ELSE fallback
UlAnchor(ul) ==
  FirstOf2(FirstWhere(Len(ul), LAMBDA i : ul[i].crc = "OK" /\ ul[i].head = "registration"),
           FirstWhere(Len(ul), LAMBDA i : ul[i].crc = "OK"))
DlAnchor(dl) ==
  LET sig == Signalling(dl)
      hit == FirstWhere(Len(sig), LAMBDA k : dl[sig[k]].mle # << >>
                                             /\ dl[sig[k]].mle[1] = "LOC-UPD")
  IN  IF hit # 0 THEN sig[hit] ELSE IF sig # << >> THEN sig[1] ELSE 0
Offset(dl, ul) ==
  IF UlAnchor(ul) = 0 \/ DlAnchor(dl) = 0 \/ ~HasTime(dl, DlAnchor(dl)) THEN 0
  ELSE ul[UlAnchor(ul)].time - DlTime(dl, DlAnchor(dl))

(* The events within a window of the time of an uplink burst, the nearest  *)
(* first: 3 s are 211 slots, 0.2 s are 14.                                 *)
Distant(dl, ul, u, i) == DlTime(dl, i) - (ul[u].time - Offset(dl, ul))
Nearest(dl, ul, u, candidates, window) ==
  SortSeq(SelectSeq(candidates, LAMBDA i : HasTime(dl, i) /\ Distant(dl, ul, u, i) \in (-window)..window),
          LAMBDA i, j : Max({Distant(dl, ul, u, i), -Distant(dl, ul, u, i)})
                          < Max({Distant(dl, ul, u, j), -Distant(dl, ul, u, j)}))
CorrWindow == 211
FindDlResponses(dl, ul, u) == Nearest(dl, ul, u, Signalling(dl), CorrWindow)
FindAachGrants(dl, ul, u) ==
  LET found == Nearest(dl, ul, u,
                 SelectSeq(Upto(Len(dl)), LAMBDA i : dl[i].aach \in {"DL/UL-Assign", "CapAlloc"}), 14)
  IN  SubSeq(found, 1, Min({3, Len(found)}))
(* A burst that was skipped is asked nothing.                              *)
Matched(dl, ul) ==
  SelectSeq(Upto(Len(ul)), LAMBDA u : ul[u].crc # "SKIP" /\ FindDlResponses(dl, ul, u) # << >>)
=============================================================================
