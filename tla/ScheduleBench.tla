----------------------------- MODULE ScheduleBench -----------------------------
(***************************************************************************)
(* scripts/schedule.py from both ends: the transmitter sends what the      *)
(* preset it generates prescribes, slot by slot, and the script measures   *)
(* the recording of it.  The recording may begin anywhere in the           *)
(* hyperframe and in a slot; its bursts are clear, too weak to decode, or  *)
(* gone.                                                                   *)
(***************************************************************************)
EXTENDS BenchVectors

CONSTANTS
  Firsts,   \* the numbers in the hyperframe its first slot may have
  Heads,    \* how many symbols of a slot may lie before that
  MaxSlots  \* bound on its slots

VARIABLES
  first, head,  \* where the recording begins
  heard         \* of every slot "clear", "weak" or "gone"

vars == <<first, head, heard>>

-----------------------------------------------------------------------------
(* The air, through the eyes of a receiver; the transmitter looks up its   *)
(* slot in the words of the generated header.                              *)

AirTime(i) == LET n == (first + i) % 4320
              IN  [mn |-> n \div 72 + 1, fn |-> ((n % 72) \div 4) + 1, tn |-> n % 4]
Looked(t) ==
  LET d == DenseIdx(t.mn % 4, t.fn - 1, t.tn)  w == HeaderWord(d \div 2)
  IN  IF d % 2 = 0 THEN SubSeq(w, 17, 32) ELSE SubSeq(w, 1, 16)
IsSync(entry) == SubSeq(entry, 11, 12) = <<0, 1>>
TypeOf(entry) == IF IsSync(entry) THEN "SB" ELSE IF entry[13] = 1 THEN "NDB2" ELSE "NDB1"
Sent(i) == TypeOf(Looked(AirTime(i)))

Strength(i) ==
  IF i + 1 \notin DOMAIN heard THEN 20
  ELSE CASE heard[i + 1] = "clear" -> 90 [] heard[i + 1] = "weak" -> 60 [] OTHER -> 20
(* A training sequence lies at its place in the continuous layout; at any  *)
(* other place its correlator finds nothing.                               *)
At(i, offset) == head + offset + (Spacing * i)
Correlation(type, symbol, offset) ==
  LET i == (symbol - head - offset) \div Spacing
  IN  IF symbol = At(i, offset) /\ Sent(i) = type THEN Strength(i) ELSE 20

StsOff == [l \in {"continuous", "non-continuous"} |-> IF l = "continuous" THEN 107 ELSE 85]
NtsOff == 122
File == head + (Spacing * Len(heard))

-----------------------------------------------------------------------------
(* analyze.                                                                *)

Candidates ==
  LET peak(i) == [at |-> At(i - 1, 107), corr |-> Correlation("SB", At(i - 1, 107), 107), slot |-> i - 1]
  IN  Dedup(SelectSeq([i \in DOMAIN heard |-> peak(i)], LAMBDA p : p.at < File - Spacing))
(* The sync block lies 60 symbols before its training sequence in both     *)
(* layouts, so either decodes; the burst must begin in the file.           *)
Decodes(c, layout) == heard[c.slot + 1] = "clear" /\ c.at >= StsOff[layout]
Found ==
  Lock(Candidates, [t \in ToSet(Candidates) \X DOMAIN StsOff |-> Decodes(t[1], t[2])])

(* The rows of the table: where, how labelled and how classified.          *)
Rows ==
  IF Found = << >> THEN << >>
  ELSE LET anchor == Found[1].at
           sts    == StsOff[Found[2]]
           grid   == Grid(anchor, File)
           At2(i) == grid[i] + NtsOff - sts
       IN  [i \in DOMAIN grid |->
              [slot  |-> (grid[i] - At(0, 107)) \div Spacing,
               label |-> SlotLabel(i - 1, AnchorIdx(anchor), AirTime(Found[1].slot)),
               class |-> Class(Correlation("SB", grid[i], 107),
                               Correlation("NDB1", At2(i), NtsOff),
                               Correlation("NDB2", At2(i), NtsOff))]]

-----------------------------------------------------------------------------
Init == first \in Firsts /\ head \in Heads /\ heard = << >>

Record(quality) ==
  /\ Len(heard) < MaxSlots
  /\ heard' = Append(heard, quality)
  /\ UNCHANGED <<first, head>>

Next == \E q \in {"clear", "weak", "gone"} : Record(q)
Spec == Init /\ [][Next]_vars

-----------------------------------------------------------------------------
(* Properties.                                                             *)

(* "genauen Schedule der -Zelle ermitteln, damit der FPGA-TX exakt         *)
(* nachgebaut werden kann": a clear recording of the preset measures as    *)
(* the preset.                                                             *)
MeasuredAsPreset ==
  LET rows == Rows IN
  \A i \in DOMAIN rows : Strength(rows[i].slot) = 90 => rows[i].class = Sent(rows[i].slot)
=============================================================================
