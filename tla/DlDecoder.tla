------------------------------- MODULE DlDecoder -------------------------------
(***************************************************************************)
(* decode_dl of scripts/decode_dl.py on a recording: it locks to a cell    *)
(* with one sync burst, lays a grid of slots over the file, goes through   *)
(* it from the file's first slot and labels every slot with a network time *)
(* of its own.                                                             *)
(*                                                                         *)
(* A burst is its type as the correlators classify it, the cell that sends *)
(* it and the blocks of it that decode at one of the timings the script    *)
(* tries, given the right scrambling code.  The AACH is printed only.      *)
(*                                                                         *)
(* KeepMultiframe, HijackByForeign and FailTwice are faulty variants that  *)
(* the model does not use.                                                 *)
(***************************************************************************)
EXTENDS Integers, Sequences

CONSTANTS
  Own,      \* the cell the filter asks for
  Others,   \* other cells of trunked mode on the channel
  Direct,   \* direct mode beacons on the channel
  Slots,    \* the slots of the recording
  Starts    \* the network times its first slot may have, for any sender

ASSUME DlDecoderAssumption ==
  /\ Slots \in Nat \ {0}
  /\ Starts \subseteq (1..4) \X (1..18) \X (1..60)
  /\ Own \notin Others \cup Direct /\ Others \cap Direct = {}

Cells == {Own} \cup Others \cup Direct

VARIABLES
  filter,   \* whether --mcc, --mnc or --cc is given
  start,    \* the true time of slot 0 for each sender
  acq,      \* the slot and the cell of the sync burst it locked to
  layout,   \* the burst layout it locked with
  idx,      \* the slots gone through
  nt,       \* NetworkTime: <<tn, fn, mn>>
  code,     \* the cell whose scrambling code is used
  fn,       \* the frame of the last sync burst taken, or 0 before
  count,    \* n_sb_ok, n_sb_fail, n_ndb_ok, n_ndb_fail, n_empty
  bad,      \* bad_burst_counter, in quarters
  running,  \* FALSE once the script has died of an unbound name
  synced,   \* history: the last sync burst taken in the loop, or no cell
  last      \* history: the last burst and the blocks it yielded

vars == <<filter, start, acq, layout, idx, nt, code, fn, count, bad, running, synced, last>>

-----------------------------------------------------------------------------
(* NetworkTime.                                                            *)

Clamp(x, top) == IF x > top THEN top ELSE IF x <= 0 THEN 1 ELSE x
Synchronize(air_tn, air_fn, air_mn) ==
  <<Clamp(air_tn + 1, 4), Clamp(air_fn, 18), Clamp(air_mn, 60)>>

KeepMultiframe(t) ==
  IF t[1] < 4 THEN <<t[1] + 1, t[2], t[3]>>
  ELSE IF t[2] < 18 THEN <<1, t[2] + 1, t[3]>> ELSE <<1, 1, t[3]>>
Advance(t) ==
  IF t[1] < 4 THEN <<t[1] + 1, t[2], t[3]>>
  ELSE IF t[2] < 18 THEN <<1, t[2] + 1, t[3]>>
  ELSE <<1, 1, IF t[3] < 60 THEN t[3] + 1 ELSE 1>>

IsBsch(t) == t[2] = 18 /\ t[1] = 4 - ((t[3] + 1) % 4)
IsBnch(t) == t[2] = 18 /\ t[1] = 4 - ((t[3] + 3) % 4)

-----------------------------------------------------------------------------
(* The air: slots are numbered through the hyperframe.                     *)

SlotNumber(t) == (t[3] - 1) * 72 + (t[2] - 1) * 4 + t[1] - 1
TimeOf(n) == <<(n % 4) + 1, ((n \div 4) % 18) + 1, ((n \div 72) % 60) + 1>>
AirTime(cell, i) == TimeOf(SlotNumber(start[cell]) + i)

(* sync_to_air: TN counts from 0 on the air; direct mode has no multiframe. *)
SyncFields(cell, i) ==
  LET t == AirTime(cell, i)
  IN  <<t[1] - 1, t[2], IF cell \in Direct THEN 0 ELSE t[3]>>

SyncBursts == [type : {"SB"}, cell : Cells, good : SUBSET {"SB1", "BKN2"}]
NormalBursts ==
  [type : {"NDB1"}, cell : Cells, good : {{"SCH/F"}} \cup SUBSET {"BLK1", "BLK2"}]
    \cup [type : {"NDB2"}, cell : Cells, good : SUBSET {"BLK1", "BLK2"}]
Nothing == [type |-> "none", cell |-> Own, good |-> {}]
Bursts == SyncBursts \cup NormalBursts \cup {Nothing}

(* Locked with the other layout the grid is 22 symbols off for the normal  *)
(* bursts, and their correlators find nothing; the sync burst is the same. *)
Seen(b) ==
  IF layout = "non-continuous" /\ b.type \in {"NDB1", "NDB2"} THEN Nothing ELSE b

-----------------------------------------------------------------------------
(* _cell_matches.                                                          *)
CellMatches(cell) == filter => cell = Own

(* Acquisition takes the first candidate, by correlation, that decodes and *)
(* matches.  The continuous layout is tried first, but before the start of *)
(* the file only the shorter one fits.                                     *)
Init ==
  /\ filter \in BOOLEAN
  /\ start \in [Cells -> Starts]
  /\ acq \in [slot : 0..(Slots - 1), cell : {c \in Cells : CellMatches(c)}]
  /\ layout \in {"continuous"} \cup (IF acq.slot = 0 THEN {"non-continuous"} ELSE {})
  /\ LET t == SyncFields(acq.cell, acq.slot) IN nt = Synchronize(t[1], t[2], t[3])
  /\ code = acq.cell /\ fn = 0
  /\ idx = 0 /\ bad = 0 /\ running = TRUE
  /\ count = [sb_ok |-> 0, sb_fail |-> 0, ndb_ok |-> 0, ndb_fail |-> 0, empty |-> 0]
  /\ synced = {} /\ last = [burst |-> Nothing, got |-> {}]

(* The burst of the next slot; the one it locked to decodes again.         *)
Arrives(b) ==
  /\ running /\ idx < Slots
  /\ idx = acq.slot => b.type = "SB" /\ b.cell = acq.cell /\ "SB1" \in b.good
  /\ idx' = idx + 1

Step(kind, cost, b, got) ==
  /\ count' = [count EXCEPT ![kind] = @ + 1]
  /\ bad' = bad + cost
  /\ last' = [burst |-> b, got |-> got]
  /\ UNCHANGED <<filter, start, acq, layout>>

EmptySlot(b) ==
  /\ Arrives(b) /\ Seen(b).type = "none"
  /\ Step("empty", 4, b, {})
  /\ nt' = Advance(nt)
  /\ UNCHANGED <<code, fn, running, synced>>

SyncLost(b) ==
  /\ Arrives(b) /\ b.type = "SB" /\ "SB1" \notin b.good
  /\ Step("sb_fail", 2, b, {})
  /\ nt' = Advance(nt)
  /\ UNCHANGED <<code, fn, running, synced>>

(* A sync burst of the locked cell, or of any cell without a filter, sets  *)
(* code, time and frame; then BKN2 is tried with the code in force.  A     *)
(* failed BKN2 asks for the frame of the last sync burst taken.            *)
HijackByForeign(cell) == TRUE
Taken(cell) == CellMatches(cell)
SyncBurst(b) ==
  LET takes == Taken(b.cell)
      key   == IF takes THEN b.cell ELSE code
      bkn2  == "BKN2" \in b.good /\ b.cell = key
      t     == SyncFields(b.cell, idx)
  IN  /\ Arrives(b) /\ b.type = "SB" /\ "SB1" \in b.good
      /\ Step("sb_ok", IF bkn2 THEN 0 ELSE 2, b, {"SB1"} \cup (IF bkn2 THEN {"BKN2"} ELSE {}))
      /\ code' = key
      /\ fn' = IF takes THEN t[2] ELSE fn
      /\ synced' = IF takes THEN {b.cell} ELSE synced
      /\ nt' = Advance(IF takes THEN Synchronize(t[1], t[2], t[3]) ELSE nt)
      /\ running' = (bkn2 \/ fn' # 0)

(* One logical channel, or a stolen half of it; two of them.  Of a normal  *)
(* burst with both halves stolen the first is read and the second dropped. *)
Readable(b) == IF b.cell = code THEN b.good ELSE {}
FailTwice(b) == IF Readable(b) = {} THEN 6 ELSE 0
Cost1(b) == IF Readable(b) = {} THEN 2 ELSE 0
Cost2(b) == (IF "BLK1" \in Readable(b) THEN 0 ELSE 1) + (IF "BLK2" \in Readable(b) THEN 0 ELSE 1)
Read(b) ==
  IF b.type = "NDB1" /\ "BLK1" \in Readable(b) THEN {"BLK1"} ELSE Readable(b)
NormalBurst(b) ==
  /\ Arrives(b) /\ Seen(b).type \in {"NDB1", "NDB2"}
  /\ Step(IF Readable(b) = {} THEN "ndb_fail" ELSE "ndb_ok",
          IF b.type = "NDB1" THEN Cost1(b) ELSE Cost2(b), b, Read(b))
  /\ nt' = Advance(nt)
  /\ UNCHANGED <<code, fn, running, synced>>

(* The second half of a two-channel burst is read as the broadcast channel *)
(* by a rule of its own, not by IsBnch.                                    *)
ReadAsBnch == nt[1] = 1 /\ nt[2] = 18

(* The summary, at the end of the grid.                                    *)
Summary == (idx = Slots \/ ~running) /\ UNCHANGED vars

Next ==
  \/ \E b \in Bursts : EmptySlot(b) \/ SyncLost(b) \/ SyncBurst(b) \/ NormalBurst(b)
  \/ Summary

Spec == Init /\ [][Next]_vars

-----------------------------------------------------------------------------
(* Properties.                                                             *)

(* The summary's figures: every slot gone through is counted once, and     *)
(* bad_burst_counter never charges a slot more than a whole burst, so the  *)
(* error rate it prints is at most 100 per cent.                           *)
Tally ==
  /\ count.sb_ok + count.sb_fail + count.ndb_ok + count.ndb_fail + count.empty = idx
  /\ bad <= 4 * idx
  /\ bad >= 4 * count.empty + 2 * (count.sb_fail + count.ndb_fail)

(* The slot labels: from the first sync burst taken in the loop on, the    *)
(* network time is that of the slot on the air of the cell whose code is   *)
(* in use, across every wrap; before, it is ahead by as many slots as lie  *)
(* between the start of the file and the sync burst that was locked to.    *)
LabelsFollowCell ==
  LET due == AirTime(code, IF synced = {} THEN acq.slot + idx ELSE idx)
  IN  nt[1] = due[1] /\ nt[2] = due[2] /\ (code \notin Direct => nt[3] = due[3])

(* What foreign bursts cannot do to a cell that is asked for by a filter.  *)
(* Of each of its bursts that the script comes to, in the layout it has,   *)
(* as much is read as if no other cell were there: all that decodes, but   *)
(* the second of two stolen halves, and nothing of a sync burst without    *)
(* its first block.  And the script may die of a foreign sync burst, but   *)
(* only in front of the one that it locked to: once behind that burst it   *)
(* comes to every slot.                                                    *)
Alone(b) ==
  CASE b.type = "SB" /\ "SB1" \notin b.good  -> {}
    [] b.type = "NDB1" /\ "BLK1" \in b.good  -> {"BLK1"}
    [] OTHER                                 -> b.good
OwnBlocksRead ==
  /\ filter /\ layout = "continuous" /\ last.burst.cell = Own
       => last.got = Alone(last.burst)
  /\ ~running => filter /\ last.burst.cell # Own /\ idx <= acq.slot
=============================================================================
