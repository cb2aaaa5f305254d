---------------------------- MODULE DlDecoder_proofs ----------------------------
(***************************************************************************)
(* Theorems about the downlink decoder script, for every recording, every  *)
(* set of cells on its channel and every moment it begins: the figures of  *)
(* its summary, the labels of its slots, which schedule.py gives alike,    *)
(* and what foreign bursts cannot do to the cell that is asked for.        *)
(***************************************************************************)
EXTENDS MCDlDecoder, TLAPS

-----------------------------------------------------------------------------
(* The clock.  A hyperframe has 60 multiframes of 18 frames of 4 slots.    *)

Times == (1..4) \X (1..18) \X (1..60)

LEMMA TimeOfType == ASSUME NEW n \in Nat PROVE TimeOf(n) \in Times
  BY DEF TimeOf, Times

LEMMA SlotNumberType == ASSUME NEW t \in Times PROVE SlotNumber(t) \in Nat
  BY SMTT(30) DEF SlotNumber, Times

(* The network time of the next slot is the next time of the network.      *)
LEMMA TimeGoesOn == ASSUME NEW n \in Nat PROVE Advance(TimeOf(n)) = TimeOf(n + 1)
  BY SMTT(30) DEF TimeOf, Advance

(* The slots of a hyperframe and its times are one for one.                *)
LEMMA TimeOfSlotNumber ==
  ASSUME NEW t \in Times
  PROVE  TimeOf(SlotNumber(t)) = t /\ SlotNumber(t) < 4320
  BY DEF TimeOf, SlotNumber, Times

LEMMA SlotNumberOfTime ==
  ASSUME NEW n \in Nat
  PROVE  SlotNumber(TimeOf(n)) = n % 4320
  BY DEF TimeOf, SlotNumber

(* schedule.py's label, k slots from an anchor at slot n.                  *)
LEMMA LabelFromAnchor ==
  ASSUME NEW n \in Nat, NEW bi \in Nat, NEW at \in Nat, n + (bi - at) \in Nat
  PROVE  LET a == TimeOf(n)
             label == S!SlotLabel(bi, at, [mn |-> a[3], fn |-> a[2], tn |-> a[1] - 1])
         IN  <<label.tn + 1, label.fn, label.mn>> = TimeOf(n + (bi - at))
<1> DEFINE a == TimeOf(n)
           abs == (((a[3] - 1) * 72) + ((a[2] - 1) * 4) + (a[1] - 1)) + (bi - at)
           m == n + (bi - at)
<1>1. abs = (n % 4320) + (bi - at)
  BY DEF TimeOf
<1>2. /\ (abs % 72) % 4 = m % 4
      /\ (abs % 72) \div 4 = (m \div 4) % 18
      /\ (abs \div 72) % 60 = (m \div 72) % 60
  <2> HIDE DEF abs
  <2> QED
    BY <1>1
<1> QED
  BY <1>2 DEF S!SlotLabel, TimeOf

-----------------------------------------------------------------------------
(* Types.                                                                  *)

Blocks == {"SB1", "BKN2", "SCH/F", "BLK1", "BLK2"}
Kinds == {"sb_ok", "sb_fail", "ndb_ok", "ndb_fail", "empty"}

Counts == [sb_ok : Nat, sb_fail : Nat, ndb_ok : Nat, ndb_fail : Nat, empty : Nat]

TypeOK ==
  /\ filter \in BOOLEAN /\ start \in [Cells -> Times]
  /\ acq \in [slot : 0..(Slots - 1), cell : Cells]
  /\ layout \in {"continuous", "non-continuous"}
  /\ idx \in 0..Slots /\ nt \in Times /\ code \in Cells /\ fn \in 0..18
  /\ count \in Counts /\ bad \in Nat /\ running \in BOOLEAN
  /\ synced \subseteq Cells
  /\ last \in [burst : Bursts, got : SUBSET Blocks]

LEMMA AirTimeType ==
  ASSUME TypeOK, NEW c \in Cells, NEW i \in Nat
  PROVE  /\ SlotNumber(start[c]) \in Nat
         /\ SlotNumber(start[c]) + i \in Nat
         /\ AirTime(c, i) \in Times
<1>1. SlotNumber(start[c]) \in Nat
  BY SlotNumberType DEF TypeOK
<1>2. SlotNumber(start[c]) + i \in Nat
  BY <1>1
<1> QED
  BY <1>1, <1>2, TimeOfType DEF AirTime

LEMMA AirGoesOn ==
  ASSUME TypeOK, NEW c \in Cells, NEW i \in Nat
  PROVE  AirTime(c, i + 1) = Advance(AirTime(c, i))
<1>1. SlotNumber(start[c]) \in Nat
  BY AirTimeType
<1> DEFINE n == SlotNumber(start[c]) + i
<1>2. n \in Nat /\ SlotNumber(start[c]) + (i + 1) = n + 1
  BY <1>1
<1> HIDE DEF n
<1>3. TimeOf(n + 1) = Advance(TimeOf(n))
  BY <1>2, TimeGoesOn
<1> QED
  BY <1>2, <1>3 DEF AirTime, n

(* A time as a cell sends it, set and read back: direct mode sends no      *)
(* multiframe.                                                             *)
LEMMA SyncSets ==
  ASSUME TypeOK, NEW c \in Cells, NEW i \in Nat
  PROVE  LET s == SyncFields(c, i)
             t == Synchronize(s[1], s[2], s[3])
             due == AirTime(c, i)
         IN  /\ t \in Times /\ s[2] \in 1..18
             /\ t[1] = due[1] /\ t[2] = due[2]
             /\ c \notin Direct => t[3] = due[3]
<1> DEFINE due == AirTime(c, i)
<1>1. due \in Times
  BY AirTimeType
<1> HIDE DEF due
<1>2. SyncFields(c, i) = <<due[1] - 1, due[2], IF c \in Direct THEN 0 ELSE due[3]>>
  BY DEF SyncFields, due
<1>3. /\ Clamp(due[1] - 1 + 1, 4) = due[1] /\ Clamp(due[2], 18) = due[2]
      /\ Clamp(due[3], 60) = due[3] /\ Clamp(0, 60) = 1
  BY <1>1 DEF Clamp, Times
<1>4. CASE c \in Direct
  <2>1. Synchronize(due[1] - 1, due[2], 0) = <<due[1], due[2], 1>>
    BY <1>3 DEF Synchronize
  <2> QED
    BY <1>1, <1>2, <1>4, <2>1 DEF Times, due
<1>5. CASE c \notin Direct
  <2>1. Synchronize(due[1] - 1, due[2], due[3]) = <<due[1], due[2], due[3]>>
    BY <1>3 DEF Synchronize
  <2> QED
    BY <1>1, <1>2, <1>5, <2>1 DEF Times, due
<1> QED
  BY <1>4, <1>5

LEMMA AdvanceType ==
  ASSUME NEW t \in Times
  PROVE  Advance(t) \in Times
  BY DEF Advance, Times

LEMMA CountType ==
  ASSUME count \in Counts, NEW kind \in Kinds
  PROVE  [count EXCEPT ![kind] = @ + 1] \in Counts
<1>1. \A k \in Kinds : count[k] + 1 \in Nat
  BY DEF Counts, Kinds
<1> QED
  BY <1>1 DEF Counts, Kinds

LEMMA BurstGood == \A b \in Bursts : b.good \subseteq Blocks /\ b.cell \in Cells
  BY DEF Bursts, SyncBursts, NormalBursts, Nothing, Blocks, Cells

LEMMA TypeInit == Init => TypeOK
<1> SUFFICES ASSUME Init PROVE TypeOK
  OBVIOUS
<1>1. /\ filter \in BOOLEAN /\ start \in [Cells -> Times]
      /\ layout \in {"continuous", "non-continuous"}
      /\ code \in Cells /\ running \in BOOLEAN /\ synced \subseteq Cells
  BY DlDecoderAssumption DEF Init, Times
<1>2. acq \in [slot : 0..(Slots - 1), cell : Cells]
  BY DEF Init
<1>3. count \in Counts
  BY DEF Init, Counts
<1>4. last \in [burst : Bursts, got : SUBSET Blocks]
  BY DEF Init, Bursts
<1>5. idx \in 0..Slots /\ fn \in 0..18 /\ bad \in Nat
  BY DlDecoderAssumption DEF Init
<1>6. nt \in Times
  <2> DEFINE due == TimeOf(SlotNumber(start[acq.cell]) + acq.slot)
  <2>1. acq.cell \in Cells /\ acq.slot \in Nat
    BY <1>2, DlDecoderAssumption
  <2>2. SlotNumber(start[acq.cell]) \in Nat
    BY <1>1, <2>1, SlotNumberType
  <2>3. due \in Times
    <3>1. SlotNumber(start[acq.cell]) + acq.slot \in Nat
      BY <2>1, <2>2
    <3> QED
      BY <3>1, TimeOfType
  <2>4. AirTime(acq.cell, acq.slot) = due
    BY DEF AirTime
  <2> HIDE DEF due
  <2>5. /\ Clamp(due[1] - 1 + 1, 4) = due[1] /\ Clamp(due[2], 18) = due[2]
        /\ Clamp(due[3], 60) = due[3] /\ Clamp(0, 60) = 1
    BY <2>3 DEF Clamp, Times
  <2>6. nt = <<due[1], due[2], IF acq.cell \in Direct THEN 1 ELSE due[3]>>
    BY <2>4, <2>5 DEF Init, SyncFields, Synchronize
  <2> QED
    BY <2>3, <2>6 DEF Times
<1> QED
  BY <1>1, <1>2, <1>3, <1>4, <1>5, <1>6 DEF TypeOK

(* What every step through the grid does.                                  *)
LEMMA Goes ==
  ASSUME TypeOK, NEW b \in Bursts,
         EmptySlot(b) \/ SyncLost(b) \/ SyncBurst(b) \/ NormalBurst(b)
  PROVE  /\ idx \in Nat /\ idx < Slots /\ idx' = idx + 1
         /\ UNCHANGED <<filter, start, acq, layout>>
         /\ last'.burst = b
  BY DEF EmptySlot, SyncLost, SyncBurst, NormalBurst, Arrives, Step, TypeOK

(* A sync burst that is taken sets time, frame and code, and no other does.*)
LEMMA SyncShape ==
  ASSUME TypeOK, NEW b \in Bursts, SyncBurst(b)
  PROVE  \/ /\ Taken(b.cell) /\ code' = b.cell /\ synced' = {b.cell}
            /\ fn' = SyncFields(b.cell, idx)[2]
            /\ nt' = LET t == SyncFields(b.cell, idx)
                     IN  Advance(Synchronize(t[1], t[2], t[3]))
         \/ /\ ~Taken(b.cell) /\ UNCHANGED <<code, synced, fn>>
            /\ nt' = Advance(nt)
<1>1. CASE Taken(b.cell)
  BY <1>1 DEF SyncBurst
<1>2. CASE ~Taken(b.cell)
  BY <1>2 DEF SyncBurst
<1> QED
  BY <1>1, <1>2

LEMMA OtherShape ==
  ASSUME NEW b, EmptySlot(b) \/ SyncLost(b) \/ NormalBurst(b)
  PROVE  UNCHANGED <<code, synced, fn, running>> /\ nt' = Advance(nt)
  BY DEF EmptySlot, SyncLost, NormalBurst

LEMMA ClockType ==
  ASSUME TypeOK, NEW b \in Bursts,
         EmptySlot(b) \/ SyncLost(b) \/ SyncBurst(b) \/ NormalBurst(b)
  PROVE  nt' \in Times /\ code' \in Cells /\ fn' \in 0..18 /\ synced' \subseteq Cells
<1>1. CASE EmptySlot(b) \/ SyncLost(b) \/ NormalBurst(b)
  BY <1>1, OtherShape, AdvanceType DEF TypeOK
<1>2. CASE SyncBurst(b)
  <2>1. b.cell \in Cells /\ idx \in Nat
    BY <1>2, BurstGood, Goes
  <2>2. CASE ~Taken(b.cell)
    BY <1>2, <2>2, SyncShape, AdvanceType DEF TypeOK
  <2>3. CASE Taken(b.cell)
    <3> DEFINE s == SyncFields(b.cell, idx)
               t == Synchronize(s[1], s[2], s[3])
    <3>1. t \in Times /\ s[2] \in 1..18
      BY <2>1, SyncSets
    <3>2. code' = b.cell /\ synced' = {b.cell} /\ fn' = s[2] /\ nt' = Advance(t)
      BY <1>2, <2>3, SyncShape
    <3> HIDE DEF s, t
    <3> QED
      BY <2>1, <3>1, <3>2, AdvanceType
  <2> QED
    BY <2>2, <2>3
<1> QED
  BY <1>1, <1>2

(* What every step counts.                                                 *)
Charges(kind, cost) ==
  /\ count' = [count EXCEPT ![kind] = @ + 1] /\ bad' = bad + cost

LEMMA StepCounts ==
  ASSUME TypeOK, NEW b \in Bursts,
         EmptySlot(b) \/ SyncLost(b) \/ SyncBurst(b) \/ NormalBurst(b)
  PROVE  /\ \/ Charges("empty", 4) \/ Charges("sb_fail", 2)
            \/ \E cost \in {0, 2} : Charges("sb_ok", cost)
            \/ Charges("ndb_fail", 2)
            \/ \E cost \in 0..2 : Charges("ndb_ok", cost)
         /\ last'.got \subseteq Blocks
<1>1. CASE EmptySlot(b)
  BY <1>1 DEF EmptySlot, Step, Charges
<1>2. CASE SyncLost(b)
  BY <1>2 DEF SyncLost, Step, Charges
<1>3. CASE SyncBurst(b)
  BY <1>3 DEF SyncBurst, Step, Charges, Blocks
<1>4. CASE NormalBurst(b)
  <2> DEFINE cost == IF b.type = "NDB1" THEN Cost1(b) ELSE Cost2(b)
  <2>1. cost \in 0..2 /\ (Readable(b) = {} => cost = 2)
    BY DEF Cost1, Cost2
  <2>2. Read(b) \subseteq Blocks
    BY BurstGood DEF Read, Readable, Blocks
  <2>3. Charges(IF Readable(b) = {} THEN "ndb_fail" ELSE "ndb_ok", cost)
        /\ last'.got = Read(b)
    BY <1>4 DEF NormalBurst, Step, Charges
  <2> HIDE DEF cost
  <2> QED
    BY <2>1, <2>2, <2>3
<1> QED
  BY <1>1, <1>2, <1>3, <1>4

LEMMA TypeStep == ASSUME TypeOK, [Next]_vars PROVE TypeOK'
<1>1. ASSUME NEW b \in Bursts,
             EmptySlot(b) \/ SyncLost(b) \/ SyncBurst(b) \/ NormalBurst(b)
      PROVE  TypeOK'
  <2>1. idx' \in 0..Slots
    BY <1>1, Goes, DlDecoderAssumption
  <2>2. count' \in Counts
    <3>1. \A kind \in Kinds : [count EXCEPT ![kind] = @ + 1] \in Counts
      BY CountType DEF TypeOK
    <3> QED
      BY <1>1, <3>1, StepCounts DEF Charges, Kinds
  <2>3. bad' \in Nat
    <3>1. \E cost \in 0..4 : bad' = bad + cost
      BY <1>1, StepCounts DEF Charges
    <3>2. bad \in Nat
      BY DEF TypeOK
    <3> QED
      BY <3>1, <3>2
  <2>4. last' \in [burst : Bursts, got : SUBSET Blocks]
    <3>1. \E got : last' = [burst |-> b, got |-> got]
      BY <1>1 DEF EmptySlot, SyncLost, SyncBurst, NormalBurst, Step
    <3> QED
      BY <1>1, <3>1, StepCounts
  <2>5. running' \in BOOLEAN
    BY <1>1 DEF EmptySlot, SyncLost, SyncBurst, NormalBurst, TypeOK
  <2> QED
    BY <1>1, <2>1, <2>2, <2>3, <2>4, <2>5, Goes, ClockType DEF TypeOK
<1>2. CASE UNCHANGED vars
  BY <1>2 DEF vars, TypeOK
<1> QED
  BY <1>1, <1>2 DEF Next, Summary

(* The state of the script keeps its shape; its clock is always a time.    *)
THEOREM TypeCorrect == Spec => []TypeOK
  BY TypeInit, TypeStep, PTL DEF Spec

-----------------------------------------------------------------------------
(* The figures of the summary.                                             *)

LEMMA TallyStep ==
  ASSUME TypeOK, Tally, [Next]_vars
  PROVE  Tally'
<1>1. ASSUME NEW b \in Bursts,
             EmptySlot(b) \/ SyncLost(b) \/ SyncBurst(b) \/ NormalBurst(b)
      PROVE  Tally'
  <2>1. idx' = idx + 1 /\ idx \in Nat
    BY <1>1, Goes
  <2>2. count \in Counts /\ bad \in Nat
    BY DEF TypeOK
  <2>3. ASSUME NEW kind \in Kinds, NEW cost \in 0..4, Charges(kind, cost),
               \/ kind = "empty" /\ cost = 4
               \/ kind \in {"sb_fail", "ndb_fail"} /\ cost = 2
               \/ kind \in {"sb_ok", "ndb_ok"}
        PROVE  Tally'
    BY <2>1, <2>2, <2>3 DEF Charges, Tally, Counts, Kinds
  <2> QED
    BY <1>1, <2>3, StepCounts DEF Kinds
<1>2. CASE UNCHANGED vars
  BY <1>2 DEF vars, Tally
<1> QED
  BY <1>1, <1>2 DEF Next, Summary

(* Every slot is counted once, and the error rate of the summary is        *)
(* between what the empty and the failed slots cost and 100 per cent.      *)
THEOREM TallyCorrect == Spec => []Tally
<1>1. Init => Tally
  BY DEF Init, Tally
<1> QED
  BY <1>1, TallyStep, TypeCorrect, PTL DEF Spec

-----------------------------------------------------------------------------
(* The labels.                                                             *)

LEMMA LabelsInit == Init => LabelsFollowCell
<1> SUFFICES ASSUME Init PROVE LabelsFollowCell
  OBVIOUS
<1>1. TypeOK
  BY TypeInit
<1>2. acq.cell \in Cells /\ acq.slot \in Nat /\ acq.slot + idx = acq.slot
  BY <1>1, DlDecoderAssumption DEF Init, TypeOK
<1>3. code = acq.cell /\ synced = {}
      /\ nt = LET t == SyncFields(acq.cell, acq.slot) IN Synchronize(t[1], t[2], t[3])
  BY DEF Init
<1> QED
  BY <1>1, <1>2, <1>3, SyncSets DEF LabelsFollowCell

(* Two clocks that agree still agree after a slot, multiframe apart.       *)
LEMMA AdvanceAgrees ==
  ASSUME NEW s \in Times, NEW t \in Times, s[1] = t[1], s[2] = t[2]
  PROVE  /\ Advance(s)[1] = Advance(t)[1] /\ Advance(s)[2] = Advance(t)[2]
         /\ s[3] = t[3] => Advance(s)[3] = Advance(t)[3]
  BY DEF Advance, Times

LEMMA LabelsStep ==
  ASSUME TypeOK, LabelsFollowCell, [Next]_vars
  PROVE  LabelsFollowCell'
<1>1. ASSUME NEW b \in Bursts,
             EmptySlot(b) \/ SyncLost(b) \/ SyncBurst(b) \/ NormalBurst(b)
      PROVE  LabelsFollowCell'
  <2>1. /\ idx \in Nat /\ idx' = idx + 1 /\ UNCHANGED <<start, acq>>
        /\ acq.slot \in Nat
    BY <1>1, Goes, DlDecoderAssumption DEF TypeOK
  <2>2. \A c, i : AirTime(c, i)' = AirTime(c, i)
    BY <2>1 DEF AirTime
  <2>3. ASSUME UNCHANGED <<code, synced>>, nt' = Advance(nt)
        PROVE  LabelsFollowCell'
    <3> DEFINE at == IF synced = {} THEN acq.slot + idx ELSE idx
               due == AirTime(code, at)
    <3>1. at \in Nat /\ code \in Cells /\ nt \in Times
      BY <2>1 DEF TypeOK
    <3>2. (IF synced' = {} THEN acq'.slot + idx' ELSE idx') = at + 1
      BY <2>1, <2>3
    <3> HIDE DEF at
    <3>3. AirTime(code, at + 1) = Advance(due) /\ due \in Times
      BY <3>1, AirGoesOn, AirTimeType
    <3>4. nt[1] = due[1] /\ nt[2] = due[2] /\ (code \notin Direct => nt[3] = due[3])
      BY DEF LabelsFollowCell, at
    <3>5. /\ Advance(nt)[1] = Advance(due)[1] /\ Advance(nt)[2] = Advance(due)[2]
          /\ code \notin Direct => Advance(nt)[3] = Advance(due)[3]
      BY <3>1, <3>3, <3>4, AdvanceAgrees
    <3> QED
      BY <2>2, <2>3, <3>2, <3>3, <3>5 DEF LabelsFollowCell
  <2>4. ASSUME SyncBurst(b), Taken(b.cell)
        PROVE  LabelsFollowCell'
    <3> DEFINE s == SyncFields(b.cell, idx)
               t == Synchronize(s[1], s[2], s[3])
               due == AirTime(b.cell, idx)
    <3>1. b.cell \in Cells
      BY BurstGood
    <3>2. /\ t \in Times /\ due \in Times
          /\ t[1] = due[1] /\ t[2] = due[2]
          /\ b.cell \notin Direct => t[3] = due[3]
      BY <2>1, <3>1, SyncSets, AirTimeType
    <3>3. code' = b.cell /\ synced' # {} /\ nt' = Advance(t)
      BY <2>4, SyncShape
    <3>4. AirTime(b.cell, idx + 1) = Advance(due)
      BY <2>1, <3>1, AirGoesOn
    <3> HIDE DEF s, t, due
    <3>5. /\ Advance(t)[1] = Advance(due)[1] /\ Advance(t)[2] = Advance(due)[2]
          /\ b.cell \notin Direct => Advance(t)[3] = Advance(due)[3]
      BY <3>2, AdvanceAgrees
    <3> QED
      BY <2>1, <2>2, <3>3, <3>4, <3>5 DEF LabelsFollowCell
  <2> QED
    BY <1>1, <2>3, <2>4, OtherShape, SyncShape
<1>2. CASE UNCHANGED vars
  BY <1>2 DEF vars, LabelsFollowCell, AirTime
<1> QED
  BY <1>1, <1>2 DEF Next, Summary

(* The label of every slot is the time its cell sends it at, across every  *)
(* wrap of slot, frame, multiframe and hyperframe, once a sync burst was   *)
(* taken in the loop; before it is ahead by the slots before the lock.     *)
THEOREM LabelsFollowCellCorrect == Spec => []LabelsFollowCell
  BY LabelsInit, LabelsStep, TypeCorrect, PTL DEF Spec

(* schedule.py and decode_dl.py give a slot the same time, though one      *)
(* counts from its anchor and the other keeps a clock.                     *)
THEOREM ScheduleAgreesCorrect == Spec => []ScheduleAgrees
<1>1. TypeOK /\ LabelsFollowCell => ScheduleAgrees
  <2> SUFFICES ASSUME TypeOK, LabelsFollowCell, acq.cell \notin Direct,
                      code = acq.cell, synced = {acq.cell}
               PROVE  LET anchor == AirTime(acq.cell, acq.slot)
                          label  == S!SlotLabel(idx, acq.slot,
                                      [mn |-> anchor[3], fn |-> anchor[2],
                                       tn |-> anchor[1] - 1])
                      IN  nt = <<label.tn + 1, label.fn, label.mn>>
    BY DEF ScheduleAgrees
  <2>1. acq.cell \in Cells /\ acq.slot \in Nat /\ idx \in Nat /\ nt \in Times
    BY DlDecoderAssumption DEF TypeOK
  <2> DEFINE base == SlotNumber(start[acq.cell])
             n == base + acq.slot
  <2>2. base \in Nat
    BY <2>1, AirTimeType
  <2> HIDE DEF base
  <2>3. n \in Nat /\ n + (idx - acq.slot) = base + idx /\ base + idx \in Nat
    BY <2>1, <2>2
  <2> HIDE DEF n
  <2>4. AirTime(acq.cell, acq.slot) = TimeOf(n)
    BY DEF AirTime, n, base
  <2>5. AirTime(acq.cell, idx) = TimeOf(base + idx) /\ TimeOf(base + idx) \in Times
    BY <2>3, TimeOfType DEF AirTime, base
  <2>6. nt = TimeOf(base + idx)
    <3>1. nt[1] = TimeOf(base + idx)[1] /\ nt[2] = TimeOf(base + idx)[2]
          /\ nt[3] = TimeOf(base + idx)[3]
      BY <2>5 DEF LabelsFollowCell
    <3> QED
      BY <2>1, <2>5, <3>1 DEF Times
  <2> QED
    BY <2>1, <2>3, <2>4, <2>6, LabelFromAnchor
<1> QED
  BY <1>1, LabelsFollowCellCorrect, TypeCorrect, PTL

-----------------------------------------------------------------------------
(* The cell filter.  The code is that of the cell asked for; behind the    *)
(* sync burst that was locked to, the frame of one is known.               *)

OwnCode ==
  /\ filter => code = Own /\ acq.cell = Own
  /\ idx > acq.slot => fn # 0

LEMMA FrameKnown ==
  ASSUME TypeOK, OwnCode, NEW b \in Bursts,
         EmptySlot(b) \/ SyncLost(b) \/ SyncBurst(b) \/ NormalBurst(b)
  PROVE  OwnCode'
<1>1. /\ UNCHANGED <<filter, acq>> /\ idx \in Nat /\ idx' = idx + 1
      /\ b.cell \in Cells /\ acq.slot \in Nat
  BY Goes, BurstGood, DlDecoderAssumption DEF TypeOK
<1>2. CASE EmptySlot(b) \/ SyncLost(b) \/ NormalBurst(b)
  <2>1. idx # acq.slot
    BY <1>2 DEF EmptySlot, SyncLost, NormalBurst, Arrives, Seen
  <2>2. idx' > acq.slot => idx > acq.slot
    BY <1>1, <2>1
  <2> QED
    BY <1>1, <1>2, <2>2, OtherShape DEF OwnCode
<1>3. CASE SyncBurst(b) /\ Taken(b.cell)
  <2>1. SyncFields(b.cell, idx)[2] \in 1..18
    BY <1>1, SyncSets
  <2>2. code' = b.cell /\ fn' # 0
    BY <1>3, <2>1, SyncShape
  <2> QED
    BY <1>1, <1>3, <2>2 DEF OwnCode, Taken, CellMatches
<1>4. CASE SyncBurst(b) /\ ~Taken(b.cell)
  <2>1. idx # acq.slot
    BY <1>4 DEF SyncBurst, Arrives, Taken, CellMatches, OwnCode
  <2>2. idx' > acq.slot => idx > acq.slot
    BY <1>1, <2>1
  <2> QED
    BY <1>1, <1>4, <2>2, SyncShape DEF OwnCode
<1> QED
  BY <1>2, <1>3, <1>4

LEMMA OwnStep ==
  ASSUME TypeOK, OwnCode, OwnBlocksRead, [Next]_vars
  PROVE  OwnCode' /\ OwnBlocksRead'
<1>1. ASSUME NEW b \in Bursts,
             EmptySlot(b) \/ SyncLost(b) \/ SyncBurst(b) \/ NormalBurst(b)
      PROVE  OwnCode' /\ OwnBlocksRead'
  <2>1. UNCHANGED <<filter, layout>> /\ last'.burst = b
    BY <1>1, Goes
  <2>2. OwnCode'
    BY <1>1, FrameKnown
  <2>3. ASSUME filter, layout = "continuous", b.cell = Own
        PROVE  last'.got = Alone(b)
    <3>1. Seen(b) = b
      BY <2>3 DEF Seen
    <3>2. CASE EmptySlot(b)
      <4>1. b.type = "none" /\ b.good = {}
        BY <3>1, <3>2 DEF EmptySlot, Bursts, SyncBursts, NormalBursts, Nothing
      <4> QED
        BY <3>2, <4>1 DEF EmptySlot, Step, Alone
    <3>3. CASE SyncLost(b)
      BY <3>3 DEF SyncLost, Step, Alone
    <3>4. CASE SyncBurst(b)
      <4>1. b.type = "SB" /\ "SB1" \in b.good /\ b.good \subseteq {"SB1", "BKN2"}
        BY <3>4 DEF SyncBurst, Bursts, SyncBursts, NormalBursts, Nothing
      <4>2. last'.got = {"SB1"} \cup (IF "BKN2" \in b.good THEN {"BKN2"} ELSE {})
        BY <2>3, <3>4 DEF SyncBurst, Step, Taken, CellMatches
      <4>3. last'.got = b.good
        BY <4>1, <4>2
      <4> QED
        BY <4>1, <4>3 DEF Alone
    <3>5. CASE NormalBurst(b)
      <4>1. b.type \in {"NDB1", "NDB2"} /\ last'.got = Read(b)
        BY <3>1, <3>5 DEF NormalBurst, Step
      <4>2. Readable(b) = b.good
        BY <2>3 DEF Readable, OwnCode
      <4> QED
        BY <4>1, <4>2 DEF Read, Alone
    <3> QED
      BY <1>1, <3>2, <3>3, <3>4, <3>5
  <2>4. ASSUME ~running'
        PROVE  filter' /\ b.cell # Own /\ idx' <= acq'.slot
    <3>1. running /\ idx \in Nat /\ idx' = idx + 1 /\ acq' = acq /\ acq.slot \in Nat
      <4>1. running
        BY <1>1 DEF EmptySlot, SyncLost, SyncBurst, NormalBurst, Arrives
      <4>2. idx \in Nat /\ idx' = idx + 1 /\ acq' = acq
        BY <1>1, Goes
      <4>3. acq.slot \in Nat
        BY DlDecoderAssumption DEF TypeOK
      <4> QED
        BY <4>1, <4>2, <4>3
    <3>2. SyncBurst(b) /\ fn' = 0
      BY <1>1, <2>4, <3>1, OtherShape DEF SyncBurst
    <3>3. ~(idx' > acq'.slot)
      BY <2>2, <3>2 DEF OwnCode
    <3>4. ~Taken(b.cell)
      <4>1. b.cell \in Cells
        BY BurstGood
      <4>2. SyncFields(b.cell, idx)[2] # 0
        BY <3>1, <4>1, SyncSets
      <4> QED
        BY <3>2, <4>2, SyncShape
    <3>5. idx' <= acq'.slot
      BY <3>1, <3>3
    <3> QED
      BY <2>1, <3>4, <3>5 DEF Taken, CellMatches
  <2> QED
    BY <2>1, <2>2, <2>3, <2>4 DEF OwnBlocksRead
<1>2. CASE UNCHANGED vars
  BY <1>2 DEF vars, OwnCode, OwnBlocksRead
<1> QED
  BY <1>1, <1>2 DEF Next, Summary

(* With a cell filter and the layout of the cell, as much of each burst of *)
(* the cell that the script comes to is read as if no other cell were on   *)
(* the channel, and behind the sync burst that it locked to the script     *)
(* comes to every slot: a foreign sync burst can end it only before.       *)
THEOREM OwnBlocksReadCorrect == Spec => []OwnBlocksRead
<1>1. Init => OwnCode /\ OwnBlocksRead
  <2> SUFFICES ASSUME Init PROVE OwnCode /\ OwnBlocksRead
    OBVIOUS
  <2>1. acq.slot \in Nat /\ idx = 0 /\ running
        /\ last = [burst |-> Nothing, got |-> {}]
    BY DlDecoderAssumption DEF Init
  <2>2. ~(idx > acq.slot)
    BY <2>1
  <2>3. filter => code = Own /\ acq.cell = Own
    BY DEF Init, CellMatches
  <2>4. last.got = Alone(last.burst)
    BY <2>1 DEF Nothing, Alone
  <2> QED
    BY <2>1, <2>2, <2>3, <2>4 DEF OwnCode, OwnBlocksRead
<1> QED
  BY <1>1, OwnStep, TypeCorrect, PTL DEF Spec
=============================================================================
