---------------------------- MODULE ReferenceCapture ----------------------------
(***************************************************************************)
(* The reference capture: the bursts of an uplink and of a downlink        *)
(* recording go through decode_ul.py and decode_dl.py, and what they print *)
(* goes through parse_reference_decode.py.                                 *)
(*                                                                         *)
(* The air is the environment: mobiles send short access PDUs and long     *)
(* messages in fragments, the cell sends sync bursts and answers; an       *)
(* uplink burst is decoded, fails its CRC or is skipped.  The decoder of   *)
(* the downlink labels the bursts up to its first sync burst with a time   *)
(* that is "lag" slots ahead (module DlDecoder).                           *)
(***************************************************************************)
EXTENDS UlDecoder
R == INSTANCE ReferenceLog

CONSTANTS
  Mobiles,     \* subscriber numbers
  MaxBursts,   \* bound on the bursts of a capture
  First,       \* the slot number in the hyperframe at which it starts
  Lags,        \* how far ahead the first labels may be
  Gaps,        \* the slots up to a burst of the downlink
  ClockShift   \* how much later the downlink recording was started

ASSUME ReferenceCaptureAssumption ==
  /\ Mobiles \subseteq 1..15 /\ MaxBursts \in Nat
  /\ First \in 0..4319 /\ Lags \subseteq 0..4319
  /\ Gaps \subseteq 1..(2159 - MaxBursts) /\ ClockShift \in Nat

VARIABLES
  focus,    \* "messages": long messages; "times": registrations and answers
  now,      \* slots since the uplink recording began
  lag,      \* the lag of this capture
  sending,  \* for every mobile, the number of the burst of its long message
  ul,       \* the uplink bursts: [at, from, part, outcome, nr]
  dl        \* the downlink bursts: [at, type, label, answer]

vars == <<focus, now, lag, sending, ul, dl>>

Count == Len(ul) + Len(dl)

Init ==
  /\ focus \in {"messages", "times"} /\ now = ClockShift
  /\ lag \in (IF focus = "times" THEN Lags ELSE {0})
  /\ sending = [m \in Mobiles |-> 0] /\ ul = << >> /\ dl = << >>

Sent(m, part, outcome) ==
  /\ Count < MaxBursts
  /\ now' = now + 1
  /\ ul' = Append(ul, [at |-> now', from |-> m, part |-> part, outcome |-> outcome, nr |-> Len(ul) + 1])
  /\ UNCHANGED <<focus, lag, dl>>

ShortAccess(m, outcome) ==
  /\ sending[m] = 0
  /\ Sent(m, "short", outcome)
  /\ UNCHANGED sending

StartLong(m, outcome) ==
  /\ focus = "messages" /\ sending[m] = 0
  /\ Sent(m, "start", outcome)
  /\ sending' = [sending EXCEPT ![m] = 1]

Continue(m, part, outcome) ==
  /\ sending[m] > 0 /\ part \in {"FRAG", "END"}
  /\ Sent(m, part, outcome)
  /\ sending' = [sending EXCEPT ![m] = IF part = "END" THEN 0 ELSE @ + 1]

(* The label of a slot, ahead by the lag until a sync burst was taken.     *)
Ahead == IF \E i \in DOMAIN dl : dl[i].type = "SB" THEN 0 ELSE lag
Cell(type, answer) ==
  /\ focus = "times" /\ Count < MaxBursts
  /\ \E g \in Gaps : now' = now + g
  /\ dl' = Append(dl, [at |-> now', type |-> type, answer |-> answer,
                       label |-> (First + now' + Ahead) % R!SlotsHf])
  /\ UNCHANGED <<focus, lag, sending, ul>>

Next ==
  \/ \E m \in Mobiles, o \in {"ok", "fail", "skip"} :
       ShortAccess(m, o) \/ StartLong(m, o) \/ (\E p \in {"FRAG", "END"} : Continue(m, p, o))
  \/ Cell("SB", FALSE) \/ (\E a \in BOOLEAN : Cell("NDB1", a))

Spec == Init /\ [][Next]_vars

-----------------------------------------------------------------------------
(* The bits of the bursts: the PDUs are those of module UlPdu, the body is *)
(* the number of the burst.                                                *)

BodyOf(b) == Bits(b.nr, 8)
Info(b) ==
  CASE b.part = "short" -> <<0, 0, 0, 0, 0>> \o Bits(b.from, 24) \o <<0>> \o BodyOf(b)
    [] b.part = "start" -> <<0, 0, 0, 0, 0>> \o Bits(b.from, 24) \o <<1, 1, 1, 0, 0, 0, 0>> \o BodyOf(b)
    [] b.part = "FRAG"  -> <<0, 1, 0, 0>> \o BodyOf(b)
    [] b.part = "END"   -> <<0, 1, 1, 0, 0, 0, 0, 0, 0, 0>> \o BodyOf(b)

(* A long burst that fails is reported as the access burst it was tried as *)
(* first.                                                                  *)
ResultOf(b) ==
  LET full == b.part \in {"FRAG", "END"}  ok == b.outcome = "ok" IN
  DecodeOneBurst(
    [x_corr |-> IF b.outcome = "skip" THEN 20 ELSE 80, length |-> IF full THEN 236 ELSE 103,
     cb  |-> << [ok |-> ok /\ ~full, info |-> Info(b), hard |-> << >>, channel |-> "schhu"] >>,
     nts_corr |-> IF full THEN 90 ELSE 10,
     nub |-> [ok |-> ok, info |-> Info(b), hard |-> << >>, channel |-> "schf"]])
Results == Whole([i \in DOMAIN ul |-> ResultOf(ul[i])])

(* What decode_ul prints: a row for every burst, its bits behind it, and   *)
(* at the end, if the script gets there, the PDUs of the rows that are OK. *)
OnAir == [k \in 1..168 |-> k % 2]
RowLines(i, r) ==
  << [kind |-> "row", idx |-> i - 1, time |-> ul[i].at,
      crc  |-> IF r.skip THEN "SKIP" ELSE IF r.result.ok THEN "OK" ELSE "-",
      head |-> IF ul[i].part = "short" THEN "registration" ELSE "other"] >>
    \o (IF r.skip THEN << >>
        ELSE << [kind |-> "dump", val |-> [type5 |-> OnAir, type4 |-> OnAir, info |-> r.result.info]] >>)
PduLines(r) == << [kind |-> "pdu"], [kind |-> "bits92", val |-> r.result.info] >>
UlLog ==
  LET res == Results  hits == SelectSeq(res, LAMBDA r : ~r.skip /\ r.result.ok) IN
  FlattenSeq([i \in DOMAIN ul |-> RowLines(i, res[i])])
    \o (IF Finishes(res) THEN FlattenSeq([k \in DOMAIN hits |-> PduLines(hits[k])]) ELSE << >>)
UlRead == R!ParseUl(UlLog)

(* What decode_dl prints.                                                  *)
DlLines(i) ==
  << [kind |-> "header", idx |-> i - 1, type |-> dl[i].type, suffix |-> "none",
      aach |-> IF dl[i].answer THEN "none" ELSE "CapAlloc",
      tn |-> (dl[i].label % 4) + 1, fn |-> ((dl[i].label \div 4) % 18) + 1, mn |-> dl[i].label \div 72 + 1] >>
    \o (CASE dl[i].type = "SB" -> << [kind |-> "sb1crc", val |-> "cell"] >>
          [] dl[i].answer -> << [kind |-> "mac", val |-> [addr |-> "SSI", id |-> 1]],
                                [kind |-> "mle", val |-> "LOC-UPD"] >>
          [] OTHER -> << [kind |-> "mac", val |-> [addr |-> "NULL", id |-> 0]] >>)
DlRead == R!ParseDl(FlattenSeq([i \in DOMAIN dl |-> DlLines(i)]))

-----------------------------------------------------------------------------
(* Properties.                                                             *)

(* The list at the end of the uplink log has no burst numbers; parse_ul    *)
(* counts.  Every row still gets its own PDU, whatever failed or was       *)
(* skipped before it, and a row that is not OK gets none; the last of the  *)
(* layers written for a row is its own block, and the inventory counts     *)
(* every burst of both recordings once.                                    *)
Sum(f) == FoldFunction(LAMBDA x, y : x + y, 0, f)
RowsGetOwnPdu ==
  LET rows == UlRead  tally == R!Inventory(DlRead, rows) IN
  /\ Len(rows) = Len(ul)
  /\ \A i \in DOMAIN rows : rows[i].bits92 \in {<< >>, Info(ul[i])}
  /\ \A i \in DOMAIN rows : rows[i].bits92 # << >> => ul[i].outcome = "ok"
  /\ \A i \in DOMAIN rows :
       LET layers == R!UlLayers(rows[i])
       IN  IF ul[i].outcome = "skip" THEN layers = << >> ELSE layers[4] = Info(ul[i])
  /\ Sum(tally.ul) = Len(ul) /\ Sum(tally.types) = Len(dl)

(* The bursts of the long message that burst s starts, up to its end.      *)
MessageEnd(s) ==
  LET ends == {e \in s..Len(ul) : ul[e].from = ul[s].from /\ ul[e].part = "END"}
  IN  IF ends = {} THEN Len(ul) ELSE Min(ends)
MessageParts(s) == SelectSeq([i \in 1..(MessageEnd(s) - s + 1) |-> s + i - 1],
                             LAMBDA i : ul[i].from = ul[s].from)
Undisturbed(s) ==
  /\ ul[s].part = "start"
  /\ \A i \in s..MessageEnd(s) : IF ul[i].from = ul[s].from THEN ul[i].outcome = "ok"
                                 ELSE ul[i].part = "short" \/ ul[i].outcome # "ok"
(* A long message all of whose bursts are received, while no burst of      *)
(* another long message is, is joined to one chain with the sender's       *)
(* number, its parts in order and nothing else, whatever became of the     *)
(* messages before it.                                                     *)
WholeMessages ==
  LET chains == ToSet(Chains(Results)) IN
  \A s \in DOMAIN ul :
    Undisturbed(s) =>
      \E c \in chains :
        /\ c.ssi = ul[s].from /\ c.nf = Len(MessageParts(s)) - 1
        /\ c.tm = FlattenSeq([k \in DOMAIN MessageParts(s) |-> BodyOf(ul[MessageParts(s)[k]])])

(* The slot labels of the downlink repeat every hyperframe and are wrong   *)
(* up to the first sync burst.  From there on the delay between an uplink  *)
(* burst and a downlink burst comes out as it was, but for the delay of    *)
(* the pair the recordings are aligned by: the responses found for a burst *)
(* are the answers within three seconds of it, no other, and the grants    *)
(* found lie within a fifth of a second.                                   *)
Synced(i) == \E k \in 1..(i - 1) : dl[k].type = "SB"
DelaysTrue ==
  LET d == DlRead  u == UlRead  a == R!DlAnchor(d)  b == R!UlAnchor(u)
      Delay(i, j) == (dl[i].at - ul[j].at) - (dl[a].at - ul[b].at)
      Known == {i \in DOMAIN d : Synced(i)}
      Responses(j) == {i \in Known : dl[i].answer /\ Delay(i, j) \in (-R!CorrWindow)..R!CorrWindow}
  IN  a # 0 /\ b # 0 /\ Synced(a) =>
        /\ \A i \in Known, j \in DOMAIN u : R!HasTime(d, i) /\ R!Distant(d, u, j, i) = Delay(i, j)
        /\ \A j \in DOMAIN u :
             /\ ToSet(R!FindDlResponses(d, u, j)) \cap Known = Responses(j)
             /\ Responses(j) # {} /\ ul[j].outcome # "skip" => j \in ToSet(R!Matched(d, u))
             /\ \A i \in ToSet(R!FindAachGrants(d, u, j)) \cap Known : Delay(i, j) \in (-14)..14
=============================================================================
