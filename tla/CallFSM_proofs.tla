---------------------------- MODULE CallFSM_proofs ----------------------------
(***************************************************************************)
(* Proofs about the call control for any number of mobiles, groups, call   *)
(* slots and any timing constants.                                         *)
(*                                                                         *)
(* Every step of the call control has one of five shapes with respect to   *)
(* who is on which channel (StepShape).  The safety properties and the     *)
(* refinement of VoiceChannels follow from the shapes, whatever the step   *)
(* does to states, timers and outputs.                                     *)
(***************************************************************************)
EXTENDS CallFSM, TLAPS

USE IdentityAssumption, TableAssumption, TimeAssumption
    DEF IdentityAssumption, TableAssumption, TimeAssumption

LEMMA ConstantTypes ==
  /\ Oldest \in Nat /\ UmtMin \in Nat
  /\ EmptySlot \in Slot
  /\ UmtMin \in Umt
  BY DEF Oldest, UmtMin, EmptySlot, Slot, Umt, Party

-----------------------------------------------------------------------------
(* Lemmas on the helpers.                                                  *)

LEMMA NumbersType ==
  ASSUME TypeOK
  PROVE  NextCallId(nextCallId) \in 1..MaxCallId /\ NextUmt(nextUmt) \in Umt
  BY DEF TypeOK, NextCallId, NextUmt, Umt, UmtMin

LEMMA VoiceMaskType ==
  ASSUME NEW slots \in [Calls -> Slot]
  PROVE  VoiceMask(slots) \subseteq {0} \cup VoiceTs
  BY DEF VoiceMask, Slot

LEMMA HeardType ==
  ASSUME TypeOK, NEW t
  PROVE  Heard(t) \in 0..MaxCallId
<1>1. CASE OnTs(t) = {}
  BY <1>1 DEF Heard
<1>2. CASE OnTs(t) # {}
  <2>1. (CHOOSE i \in OnTs(t) : TRUE) \in OnTs(t)
    BY <1>2
  <2>2. (CHOOSE i \in OnTs(t) : TRUE) \in Calls
    BY <2>1 DEF OnTs
  <2>3. Heard(t) = slot[CHOOSE i \in OnTs(t) : TRUE].callId
    BY <1>2 DEF Heard
  <2> QED
    BY <2>2, <2>3 DEF TypeOK, Slot
<1> QED
  BY <1>1, <1>2

LEMMA NoBanksType == NoBanks \in [AirTs -> {NoVoice} \cup 0..MaxCallId]
  BY DEF NoBanks

LEMMA StageStepType ==
  ASSUME NEW s \in Slot
  PROVE  /\ StageStep(s) \in Slot
         /\ StageStep(s).ssi = s.ssi /\ StageStep(s).callId = s.callId
         /\ StageStep(s).umt = s.umt /\ StageStep(s).ts = s.ts
         /\ StageStep(s).gssi = s.gssi /\ StageStep(s).state = s.state
         /\ StageStep(s).stage \in {1, 2} => s.stage \in {1, 2}
         /\ StageStep(s).stage = 11 => s.stage = 11
<1>1. CASE ~StageDue(s)
  BY <1>1 DEF StageStep
<1>2. ASSUME NEW n \in {0, 2}, NEW d \in 0..SetupGap
      PROVE  LET r == [s EXCEPT !.stage = n, !.due = d] IN
             /\ r \in Slot /\ r.ssi = s.ssi /\ r.callId = s.callId
             /\ r.umt = s.umt /\ r.ts = s.ts /\ r.gssi = s.gssi
             /\ r.state = s.state /\ r.stage = n
  BY DEF Slot
<1>3. CASE StageDue(s) /\ s.stage = 1
  <2> DEFINE r == [s EXCEPT !.stage = 2, !.due = SetupGap]
  <2>1. StageStep(s) = r
    BY <1>3 DEF StageStep
  <2>2. SetupGap \in 0..SetupGap
    OBVIOUS
  <2>3. /\ r \in Slot /\ r.ssi = s.ssi /\ r.callId = s.callId
        /\ r.umt = s.umt /\ r.ts = s.ts /\ r.gssi = s.gssi
        /\ r.state = s.state /\ r.stage = 2
    BY <1>2, <2>2
  <2> HIDE DEF r
  <2> QED
    BY <1>3, <2>1, <2>3
<1>4. CASE StageDue(s) /\ s.stage # 1
  <2> DEFINE r == [s EXCEPT !.stage = 0, !.due = 0]
  <2>1. StageStep(s) = r
    BY <1>4 DEF StageStep
  <2>2. 0 \in 0..SetupGap
    OBVIOUS
  <2>3. /\ r \in Slot /\ r.ssi = s.ssi /\ r.callId = s.callId
        /\ r.umt = s.umt /\ r.ts = s.ts /\ r.gssi = s.gssi
        /\ r.state = s.state /\ r.stage = 0
    BY <1>2, <2>2
  <2> HIDE DEF r
  <2> QED
    BY <2>1, <2>3
<1> QED
  BY <1>1, <1>3, <1>4

LEMMA SetUpType ==
  ASSUME NEW base \in Slot, NEW cp \in Party \cup {None}, NEW group \in BOOLEAN,
         group => cp \in Gssi
  PROVE  LET s == SetUp(base, cp, group) IN
         /\ s \in Slot
         /\ s.ssi = base.ssi /\ s.callId = base.callId
         /\ s.umt = base.umt /\ s.ts = base.ts
         /\ s.stage \in {1, 2} => s.gssi # None /\ s.state # "CONNECTING"
         /\ s.stage = 11 => s.gssi = None
<1> DEFINE R(g, p, st, n) ==
             [base EXCEPT !.gssi = g, !.issi = p, !.state = st, !.stage = n,
                          !.due = SetupGap, !.age = 0, !.ceased = FALSE]
<1>1. 0 \in 0..Oldest /\ SetupGap \in 0..SetupGap
  BY ConstantTypes
<1>2. ASSUME NEW g \in Gssi \cup {None}, NEW p \in Party \cup {None},
             NEW st \in {"CONNECTED", "CONNECTING"}, NEW n \in {1, 11}
      PROVE  /\ R(g, p, st, n) \in Slot
             /\ R(g, p, st, n).ssi = base.ssi
             /\ R(g, p, st, n).callId = base.callId
             /\ R(g, p, st, n).umt = base.umt /\ R(g, p, st, n).ts = base.ts
             /\ R(g, p, st, n).gssi = g /\ R(g, p, st, n).state = st
             /\ R(g, p, st, n).stage = n
  <2> DEFINE r1 == [base EXCEPT !.gssi = g, !.issi = p]
             r2 == [r1 EXCEPT !.state = st, !.stage = n]
             r3 == [r2 EXCEPT !.due = SetupGap, !.age = 0]
  <2>1. r1 \in Slot
    BY DEF Slot
  <2>2. r2 \in Slot
    BY <2>1 DEF Slot
  <2>3. r3 \in Slot
    BY <1>1, <2>2 DEF Slot
  <2>4. [r3 EXCEPT !.ceased = FALSE] \in Slot
    BY <2>3 DEF Slot
  <2> QED
    BY <2>4 DEF Slot
<1>3. CASE group
  <2>1. SetUp(base, cp, group) = R(cp, None, "CONNECTED", 1)
    BY <1>3 DEF SetUp
  <2>2. cp \in Gssi \cup {None} /\ None \in Party \cup {None} /\ cp # None
    BY <1>3
  <2> HIDE DEF R
  <2> QED
    BY <1>2, <2>1, <2>2
<1>4. CASE ~group
  <2>1. SetUp(base, cp, group) = R(None, cp, "CONNECTING", 11)
    BY <1>4 DEF SetUp
  <2>2. None \in Gssi \cup {None}
    OBVIOUS
  <2> HIDE DEF R
  <2> QED
    BY <1>2, <2>1, <2>2
<1> QED
  BY <1>3, <1>4

LEMMA OlderType ==
  ASSUME NEW s \in Slot, NEW d \in Delays
  PROVE  /\ Older(s, d) \in Slot
         /\ Older(s, d).ssi = s.ssi /\ Older(s, d).callId = s.callId
         /\ Older(s, d).umt = s.umt /\ Older(s, d).ts = s.ts
         /\ Older(s, d).gssi = s.gssi /\ Older(s, d).state = s.state
         /\ Older(s, d).stage = s.stage
<1>1. CASE s.ssi = None
  BY <1>1 DEF Older
<1>2. CASE s.ssi # None
  <2>1. PICK a, e : Older(s, d) = [s EXCEPT !.age = a, !.due = e]
                    /\ a \in 0..Oldest /\ e \in 0..SetupGap
    <3>1. s.age \in 0..Oldest /\ s.due \in 0..SetupGap /\ d \in Nat
      BY DEF Slot
    <3> DEFINE a == IF s.age + d > Oldest THEN Oldest ELSE s.age + d
               e == IF s.due <= d THEN 0 ELSE s.due - d
    <3>2. a \in 0..Oldest /\ e \in 0..SetupGap
      BY <3>1, ConstantTypes
    <3>3. Older(s, d) = [s EXCEPT !.age = a, !.due = e]
      BY <1>2 DEF Older
    <3> QED
      BY <3>2, <3>3
  <2> DEFINE r == [s EXCEPT !.age = a]
  <2>2. r \in Slot
    BY <2>1 DEF Slot
  <2>3. [r EXCEPT !.due = e] \in Slot
    BY <2>1, <2>2 DEF Slot
  <2>4. Older(s, d) = [r EXCEPT !.due = e]
    BY <2>1 DEF Slot
  <2>5. /\ Older(s, d).ssi = s.ssi /\ Older(s, d).callId = s.callId
        /\ Older(s, d).umt = s.umt /\ Older(s, d).ts = s.ts
        /\ Older(s, d).gssi = s.gssi /\ Older(s, d).state = s.state
        /\ Older(s, d).stage = s.stage
    BY <2>1 DEF Slot
  <2> QED
    BY <2>3, <2>4, <2>5
<1> QED
  BY <1>1, <1>2

-----------------------------------------------------------------------------
(* What a step does to the table.  A step that replaces one slot leaves    *)
(* the others alone.                                                       *)

SameCall(i) ==
  /\ slot'[i].ssi = slot[i].ssi /\ slot'[i].callId = slot[i].callId
  /\ slot'[i].umt = slot[i].umt /\ slot'[i].ts = slot[i].ts

Fits(s) ==
  /\ s.stage \in {1, 2} => s.gssi # None /\ s.state # "CONNECTING"
  /\ s.stage = 11 => s.gssi = None

FitsToo == \A j \in Calls : Fits(slot[j]) => Fits(slot'[j])

TablesTyped ==
  /\ slot' \in [Calls -> Slot]
  /\ aach' \in [AirTs -> {IdleAach} \cup Umt]
  /\ mask' \subseteq {0} \cup VoiceTs
  /\ bank' \in [AirTs -> {NoVoice} \cup 0..MaxCallId]

(* The calls stay as they are.                                             *)
Keeps == (\A j \in Calls : SameCall(j)) /\ aach' = aach

(* Mobile ms, which has no call, becomes the talker of call i.             *)
Takes(i, ms) ==
  /\ InUse(i) /\ OwnedBy(ms) = {} /\ slot'[i].ssi = ms
  /\ slot'[i].callId = slot[i].callId
  /\ slot'[i].umt = slot[i].umt /\ slot'[i].ts = slot[i].ts
  /\ \A j \in Calls \ {i} : SameCall(j)
  /\ aach' = aach

(* Mobile ms, which has no call, gets slot i and the timeslot t.           *)
Opens(i, ms, t) ==
  /\ ~InUse(i) /\ OwnedBy(ms) = {} /\ First(t, FreeTs)
  /\ slot'[i].ssi = ms /\ slot'[i].umt = nextUmt /\ slot'[i].ts = t
  /\ \A j \in Calls \ {i} : SameCall(j)
  /\ aach' = [aach EXCEPT ![t] = nextUmt]

(* Slot i is emptied.                                                      *)
Closes(i) ==
  /\ InUse(i) /\ slot'[i] = EmptySlot
  /\ \A j \in Calls \ {i} : SameCall(j)
  /\ aach' = [aach EXCEPT ![slot[i].ts] = IdleAach]

Shaped ==
  \/ Keeps
  \/ \E i \in Calls, ms \in Issi : Takes(i, ms)
  \/ \E i \in Calls, ms \in Issi, t \in VoiceTs : Opens(i, ms, t)
  \/ \E i \in Calls : Closes(i)

(* What is shown of every step.                                            *)
GoodStep == TablesTyped /\ FitsToo /\ Shaped

LEMMA Replaced ==
  ASSUME TypeOK, NEW i \in Calls, NEW s \in Slot,
         slot' = [slot EXCEPT ![i] = s]
  PROVE  /\ slot' \in [Calls -> Slot]
         /\ slot'[i] = s
         /\ \A j \in Calls \ {i} : slot'[j] = slot[j] /\ SameCall(j)
         /\ (Fits(slot[i]) => Fits(s)) => FitsToo
  BY DEF TypeOK, SameCall, FitsToo

LEMMA MaskTyped ==
  ASSUME slot' \in [Calls -> Slot], mask' = VoiceMask(slot')
  PROVE  mask' \subseteq {0} \cup VoiceTs
  BY VoiceMaskType

LEMMA PlaceStep ==
  ASSUME TypeOK, NEW i \in Calls, NEW base \in Slot,
         NEW cp \in Party \cup {None}, NEW group \in BOOLEAN,
         group => cp \in Gssi, Place(i, base, cp, group)
  PROVE  /\ slot' = [slot EXCEPT ![i] = SetUp(base, cp, group)]
         /\ slot' \in [Calls -> Slot]
         /\ slot'[i].ssi = base.ssi /\ slot'[i].callId = base.callId
         /\ slot'[i].umt = base.umt /\ slot'[i].ts = base.ts
         /\ \A j \in Calls \ {i} : SameCall(j)
         /\ FitsToo
         /\ mask' \subseteq {0} \cup VoiceTs
         /\ bank' \in [AirTs -> {NoVoice} \cup 0..MaxCallId]
<1> DEFINE s == SetUp(base, cp, group)
<1>1. /\ s \in Slot /\ Fits(s)
      /\ s.ssi = base.ssi /\ s.callId = base.callId
      /\ s.umt = base.umt /\ s.ts = base.ts
  BY SetUpType DEF Fits
<1>2. slot' = [slot EXCEPT ![i] = s]
  BY DEF Place
<1> HIDE DEF s
<1>3. /\ slot' \in [Calls -> Slot] /\ slot'[i] = s /\ FitsToo
      /\ \A j \in Calls \ {i} : SameCall(j)
  BY <1>1, <1>2, Replaced
<1>4. /\ mask' \subseteq {0} \cup VoiceTs
      /\ bank' \in [AirTs -> {NoVoice} \cup 0..MaxCallId]
  <2>1. CASE group
    BY <1>3, <2>1, MaskTyped, NoBanksType DEF Place
  <2>2. CASE ~group
    BY <2>2 DEF Place, TypeOK
  <2> QED
    BY <2>1, <2>2
<1> QED
  BY <1>1, <1>2, <1>3, <1>4 DEF s

LEMMA GroupIsBoolean ==
  ASSUME NEW cp, NEW p2mp \in BOOLEAN
  PROVE  IsGroup(cp, p2mp) \in BOOLEAN /\ (IsGroup(cp, p2mp) => cp \in Gssi)
  BY DEF IsGroup

LEMMA NewSlotType ==
  ASSUME TypeOK, NEW ms \in Issi, NEW t \in VoiceTs
  PROVE  /\ NewSlot(ms, t) \in Slot
         /\ NewSlot(ms, t).ssi = ms /\ NewSlot(ms, t).umt = nextUmt
         /\ NewSlot(ms, t).ts = t
<1> DEFINE r1 == [EmptySlot EXCEPT !.ssi = ms, !.callId = nextCallId]
           r2 == [r1 EXCEPT !.umt = nextUmt, !.ts = t]
<1>1. EmptySlot \in Slot
  BY ConstantTypes
<1>2. nextCallId \in 0..MaxCallId /\ nextUmt \in Umt
  BY DEF TypeOK
<1>3. r1 \in Slot
  BY <1>1, <1>2 DEF Slot
<1>4. r2 \in Slot
  BY <1>2, <1>3 DEF Slot
<1>5. NewSlot(ms, t) = r2
  BY DEF NewSlot, EmptySlot
<1> QED
  BY <1>4, <1>5, <1>1 DEF NewSlot, Slot

-----------------------------------------------------------------------------
(* Requests.                                                               *)

LEMMA SetupOwnStep ==
  ASSUME TypeOK, NEW ms \in Issi, NEW cp \in Party \cup {None},
         NEW p2mp \in BOOLEAN, SetupOwn(ms, cp, p2mp)
  PROVE  GoodStep
<1>1. PICK i \in Calls : /\ First(i, OwnedBy(ms))
                         /\ Place(i, slot[i], cp, IsGroup(cp, p2mp))
                         /\ aach' = aach
  BY DEF SetupOwn
<1>2. slot[i] \in Slot
  BY DEF TypeOK
<1>3. /\ slot' \in [Calls -> Slot] /\ FitsToo
      /\ SameCall(i) /\ \A j \in Calls \ {i} : SameCall(j)
      /\ mask' \subseteq {0} \cup VoiceTs
      /\ bank' \in [AirTs -> {NoVoice} \cup 0..MaxCallId]
  BY <1>1, <1>2, PlaceStep, GroupIsBoolean DEF SameCall
<1>4. Keeps
  BY <1>1, <1>3 DEF Keeps
<1> QED
  BY <1>1, <1>3, <1>4 DEF GoodStep, TablesTyped, Shaped, TypeOK

LEMMA SetupFloorTransferStep ==
  ASSUME TypeOK, NEW ms \in Issi, NEW cp \in Party \cup {None},
         NEW p2mp \in BOOLEAN, SetupFloorTransfer(ms, cp, p2mp)
  PROVE  GoodStep
<1>1. PICK i \in Calls :
        /\ OwnedBy(ms) = {} /\ IsGroup(cp, p2mp) /\ First(i, WithGssi(cp))
        /\ Place(i, [slot[i] EXCEPT !.ssi = ms], cp, TRUE)
        /\ aach' = aach
  BY DEF SetupFloorTransfer
<1> DEFINE base == [slot[i] EXCEPT !.ssi = ms]
<1>2. /\ base \in Slot /\ base.ssi = ms /\ base.callId = slot[i].callId
      /\ base.umt = slot[i].umt /\ base.ts = slot[i].ts
  BY DEF TypeOK, Slot
<1>3. InUse(i)
  BY <1>1 DEF First, WithGssi
<1>4. cp \in Gssi
  BY <1>1 DEF IsGroup
<1> HIDE DEF base
<1>5. /\ slot' \in [Calls -> Slot] /\ FitsToo
      /\ slot'[i].ssi = base.ssi /\ slot'[i].callId = base.callId
      /\ slot'[i].umt = base.umt /\ slot'[i].ts = base.ts
      /\ \A j \in Calls \ {i} : SameCall(j)
      /\ mask' \subseteq {0} \cup VoiceTs
      /\ bank' \in [AirTs -> {NoVoice} \cup 0..MaxCallId]
  BY <1>1, <1>2, <1>4, PlaceStep DEF base
<1>6. Takes(i, ms)
  BY <1>1, <1>2, <1>3, <1>5 DEF Takes
<1> QED
  BY <1>1, <1>5, <1>6 DEF GoodStep, TablesTyped, Shaped, TypeOK

LEMMA SetupNewStep ==
  ASSUME TypeOK, NEW ms \in Issi, NEW cp \in Party \cup {None},
         NEW p2mp \in BOOLEAN, SetupNew(ms, cp, p2mp)
  PROVE  GoodStep
<1>1. PICK i \in Calls, t \in VoiceTs :
        /\ NeedsSlot(ms, cp, p2mp) /\ First(i, FreeCalls) /\ First(t, FreeTs)
        /\ Place(i, NewSlot(ms, t), cp, IsGroup(cp, p2mp))
        /\ aach' = [aach EXCEPT ![t] = nextUmt]
  BY DEF SetupNew
<1> DEFINE base == NewSlot(ms, t)
<1>2. base \in Slot /\ base.ssi = ms /\ base.umt = nextUmt /\ base.ts = t
  BY NewSlotType
<1>3. ~InUse(i)
  BY <1>1 DEF First, FreeCalls
<1> HIDE DEF base
<1>4. /\ slot' \in [Calls -> Slot] /\ FitsToo
      /\ slot'[i].ssi = base.ssi
      /\ slot'[i].umt = base.umt /\ slot'[i].ts = base.ts
      /\ \A j \in Calls \ {i} : SameCall(j)
      /\ mask' \subseteq {0} \cup VoiceTs
      /\ bank' \in [AirTs -> {NoVoice} \cup 0..MaxCallId]
  BY <1>1, <1>2, PlaceStep, GroupIsBoolean DEF base
<1>5. Opens(i, ms, t)
  BY <1>1, <1>2, <1>3, <1>4 DEF Opens, NeedsSlot
<1>6. aach' \in [AirTs -> {IdleAach} \cup Umt]
  BY <1>1 DEF TypeOK
<1> QED
  BY <1>4, <1>5, <1>6 DEF GoodStep, TablesTyped, Shaped

(* A step that changes one slot but not its identity, and no register of   *)
(* the downlink's channels.                                                *)
LEMMA SameCallStep ==
  ASSUME TypeOK, NEW i \in Calls, NEW s \in Slot,
         slot' = [slot EXCEPT ![i] = s],
         s.ssi = slot[i].ssi, s.callId = slot[i].callId,
         s.umt = slot[i].umt, s.ts = slot[i].ts,
         Fits(slot[i]) => Fits(s),
         aach' = aach
  PROVE  /\ slot' \in [Calls -> Slot] /\ FitsToo /\ Keeps
         /\ aach' \in [AirTs -> {IdleAach} \cup Umt]
<1>1. /\ slot' \in [Calls -> Slot] /\ slot'[i] = s /\ FitsToo
      /\ \A j \in Calls \ {i} : SameCall(j)
  BY Replaced
<1>2. SameCall(i)
  BY <1>1 DEF SameCall
<1> QED
  BY <1>1, <1>2 DEF Keeps, TypeOK

LEMMA FreedStep ==
  ASSUME TypeOK, NEW i \in Calls, InUse(i), Freed(i)
  PROVE  /\ slot' \in [Calls -> Slot] /\ FitsToo /\ Closes(i)
         /\ aach' \in [AirTs -> {IdleAach} \cup Umt]
<1>1. slot' = [slot EXCEPT ![i] = EmptySlot] /\ EmptySlot \in Slot
  BY ConstantTypes DEF Freed
<1>2. Fits(EmptySlot)
  BY DEF Fits, EmptySlot
<1>3. /\ slot' \in [Calls -> Slot] /\ slot'[i] = EmptySlot /\ FitsToo
      /\ \A j \in Calls \ {i} : SameCall(j)
  BY <1>1, <1>2, Replaced
<1> QED
  BY <1>3 DEF Freed, Closes, TypeOK

LEMMA TxDemandStep ==
  ASSUME TypeOK, NEW ms \in Issi, NEW c \in 0..MaxCallId, TxDemand(ms, c)
  PROVE  GoodStep
<1>1. PICK i \in Calls : /\ ActsOn(i, ms, c)
                         /\ slot' = [slot EXCEPT ![i] = Demand(i, ms)]
                         /\ mask' = VoiceMask(slot')
                         /\ aach' = aach /\ bank' = bank
  BY DEF TxDemand
<1> DEFINE r == [slot[i] EXCEPT !.ssi = ms, !.state = "TALKER"]
           s == Demand(i, ms)
<1>2. slot[i] \in Slot /\ 0 \in 0..Oldest
  BY ConstantTypes DEF TypeOK
<1>3. r \in Slot
  BY <1>2 DEF Slot
<1>4. s \in Slot
  BY <1>2, <1>3 DEF Slot, Demand
<1>5. /\ s.ssi = ms /\ s.callId = slot[i].callId
      /\ s.umt = slot[i].umt /\ s.ts = slot[i].ts
      /\ Fits(slot[i]) => Fits(s)
  BY <1>2 DEF Slot, Demand, Fits
<1> HIDE DEF s
<1>6. /\ slot' \in [Calls -> Slot] /\ slot'[i] = s /\ FitsToo
      /\ \A j \in Calls \ {i} : SameCall(j)
  BY <1>1, <1>4, <1>5, Replaced DEF s
<1>7. TablesTyped
  BY <1>1, <1>6, MaskTyped DEF TablesTyped, TypeOK
<1>8. CASE First(i, OwnedBy(ms))
  <2>1. slot[i].ssi = ms
    BY <1>8 DEF First, OwnedBy
  <2>2. SameCall(i)
    BY <1>5, <1>6, <2>1 DEF SameCall
  <2>3. Keeps
    BY <1>1, <1>6, <2>2 DEF Keeps
  <2> QED
    BY <1>6, <1>7, <2>3 DEF GoodStep, Shaped
<1>9. CASE OwnedBy(ms) = {} /\ First(i, WithCallId(c))
  <2>1. InUse(i)
    BY <1>9 DEF First, WithCallId
  <2>2. Takes(i, ms)
    BY <1>1, <1>5, <1>6, <1>9, <2>1 DEF Takes
  <2> QED
    BY <1>6, <1>7, <2>2 DEF GoodStep, Shaped
<1> QED
  BY <1>1, <1>8, <1>9 DEF ActsOn

LEMMA TxCeasedStep ==
  ASSUME TypeOK, NEW ms \in Issi, TxCeased(ms)
  PROVE  GoodStep
<1>1. PICK i \in Calls :
        /\ slot' = [slot EXCEPT ![i].state = "CONNECTED", ![i].age = 0,
                                ![i].ceased = TRUE]
        /\ aach' = aach /\ mask' = mask /\ bank' = bank
  BY DEF TxCeased
<1> DEFINE r == [slot[i] EXCEPT !.state = "CONNECTED", !.age = 0]
           s == [r EXCEPT !.ceased = TRUE]
<1>2. slot[i] \in Slot /\ 0 \in 0..Oldest
  BY ConstantTypes DEF TypeOK
<1>3. r \in Slot
  BY <1>2 DEF Slot
<1>4. s \in Slot
  BY <1>3 DEF Slot
<1>5. /\ s.ssi = slot[i].ssi /\ s.callId = slot[i].callId
      /\ s.umt = slot[i].umt /\ s.ts = slot[i].ts
      /\ Fits(slot[i]) => Fits(s)
  BY <1>2 DEF Slot, Fits
<1>6. slot' = [slot EXCEPT ![i] = s]
  BY <1>1, <1>2 DEF Slot, TypeOK
<1> HIDE DEF s
<1>7. slot' \in [Calls -> Slot] /\ FitsToo /\ Keeps
      /\ aach' \in [AirTs -> {IdleAach} \cup Umt]
  BY <1>1, <1>4, <1>5, <1>6, SameCallStep
<1> QED
  BY <1>1, <1>7 DEF GoodStep, TablesTyped, Shaped, TypeOK

LEMMA ConnectStep ==
  ASSUME TypeOK, NEW ms \in Issi, NEW c \in 0..MaxCallId, Connect(ms, c)
  PROVE  GoodStep
<1>1. PICK i \in Calls :
        /\ slot' = [slot EXCEPT ![i].state = "CONNECTED", ![i].stage = 0,
                                ![i].due = 0, ![i].age = 0]
        /\ mask' = VoiceMask(slot')
        /\ bank' = NoBanks /\ aach' = aach
  BY DEF Connect
<1> DEFINE r == [slot[i] EXCEPT !.state = "CONNECTED", !.stage = 0]
           s == [r EXCEPT !.due = 0, !.age = 0]
<1>2. slot[i] \in Slot /\ 0 \in 0..Oldest /\ 0 \in 0..SetupGap
  BY ConstantTypes DEF TypeOK
<1>3. r \in Slot
  BY <1>2 DEF Slot
<1>4. s \in Slot
  BY <1>2, <1>3 DEF Slot
<1>5. /\ s.ssi = slot[i].ssi /\ s.callId = slot[i].callId
      /\ s.umt = slot[i].umt /\ s.ts = slot[i].ts
      /\ Fits(s)
  BY <1>2 DEF Slot, Fits
<1>6. slot' = [slot EXCEPT ![i] = s]
  BY <1>1, <1>2 DEF Slot, TypeOK
<1> HIDE DEF s
<1>7. slot' \in [Calls -> Slot] /\ FitsToo /\ Keeps
      /\ aach' \in [AirTs -> {IdleAach} \cup Umt]
  BY <1>1, <1>4, <1>5, <1>6, SameCallStep
<1> QED
  BY <1>1, <1>7, MaskTyped, NoBanksType DEF GoodStep, TablesTyped, Shaped

LEMMA ReleaseStep ==
  ASSUME TypeOK, NEW ms \in Issi, Release(ms)
  PROVE  GoodStep
<1>1. PICK i \in Calls :
        /\ First(i, OwnedBy(ms)) /\ Freed(i)
        /\ mask' = VoiceMask(slot')
        /\ bank' = IF mask' = {} THEN NoBanks ELSE bank
  BY DEF Release
<1>2. InUse(i)
  BY <1>1 DEF First, OwnedBy
<1>3. /\ slot' \in [Calls -> Slot] /\ FitsToo /\ Closes(i)
      /\ aach' \in [AirTs -> {IdleAach} \cup Umt]
  BY <1>1, <1>2, FreedStep
<1>4. bank' \in [AirTs -> {NoVoice} \cup 0..MaxCallId]
  BY <1>1, NoBanksType DEF TypeOK
<1> QED
  BY <1>1, <1>3, <1>4, MaskTyped DEF GoodStep, TablesTyped, Shaped

LEMMA UnchangedStep ==
  ASSUME TypeOK, UNCHANGED <<slot, aach, mask, bank>>
  PROVE  GoodStep
  BY DEF TypeOK, GoodStep, TablesTyped, FitsToo, Shaped, Keeps, SameCall

LEMMA HandleCmceStep ==
  ASSUME TypeOK, HandleCmce
  PROVE  /\ GoodStep
         /\ nextCallId' \in 1..MaxCallId /\ nextUmt' \in Umt
<1>1. PICK ms \in Issi :
       \/ \E cp \in Party \cup {None}, p2mp \in BOOLEAN :
            \/ SetupOwn(ms, cp, p2mp)
            \/ SetupFloorTransfer(ms, cp, p2mp)
            \/ SetupNew(ms, cp, p2mp)
            \/ SetupRefused(ms, cp, p2mp)
       \/ \E c \in 0..MaxCallId : TxDemand(ms, c) \/ Connect(ms, c)
       \/ TxCeased(ms)
       \/ Release(ms)
  BY DEF HandleCmce
<1>2. ASSUME NEW cp \in Party \cup {None}, NEW p2mp \in BOOLEAN,
             \/ SetupOwn(ms, cp, p2mp) \/ SetupFloorTransfer(ms, cp, p2mp)
             \/ SetupNew(ms, cp, p2mp) \/ SetupRefused(ms, cp, p2mp)
      PROVE  GoodStep /\ nextCallId' \in 1..MaxCallId /\ nextUmt' \in Umt
  <2>1. CASE SetupOwn(ms, cp, p2mp)
    BY <2>1, SetupOwnStep DEF SetupOwn, TypeOK
  <2>2. CASE SetupFloorTransfer(ms, cp, p2mp)
    BY <2>2, SetupFloorTransferStep DEF SetupFloorTransfer, TypeOK
  <2>3. CASE SetupNew(ms, cp, p2mp)
    <3>1. GoodStep
      BY <2>3, SetupNewStep
    <3>2. /\ nextCallId' = NextCallId(nextCallId)
          /\ nextUmt' = NextUmt(nextUmt)
      BY <2>3 DEF SetupNew, TakeNumbers
    <3> QED
      BY <3>1, <3>2, NumbersType
  <2>4. CASE SetupRefused(ms, cp, p2mp)
    <3>1. GoodStep
      BY <2>4, UnchangedStep DEF SetupRefused
    <3> QED
      BY <2>4, <3>1, NumbersType DEF SetupRefused, TakeNumbers, TypeOK
  <2> QED
    BY <1>2, <2>1, <2>2, <2>3, <2>4
<1>3. ASSUME NEW c \in 0..MaxCallId, TxDemand(ms, c) \/ Connect(ms, c)
      PROVE  GoodStep /\ nextCallId' \in 1..MaxCallId /\ nextUmt' \in Umt
  BY <1>3, TxDemandStep, ConnectStep DEF TxDemand, Connect, TypeOK
<1>4. CASE TxCeased(ms)
  BY <1>4, TxCeasedStep DEF TxCeased, TypeOK
<1>5. CASE Release(ms)
  BY <1>5, ReleaseStep DEF Release, TypeOK
<1> QED
  BY <1>1, <1>2, <1>3, <1>4, <1>5

-----------------------------------------------------------------------------
(* The tick and the passing of time.                                       *)

LEMMA StagedVisit ==
  ASSUME TypeOK, NEW i \in Calls
  PROVE  /\ StageStep(slot[i]) \in Slot
         /\ Fits(slot[i]) => Fits(StageStep(slot[i]))
         /\ slot[i].ts \in {0} \cup VoiceTs
  BY StageStepType DEF TypeOK, Slot, Fits

LEMMA QuietedType ==
  ASSUME TypeOK, NEW i \in Calls
  PROVE  Quieted(i) \in [AirTs -> {NoVoice} \cup 0..MaxCallId]
  BY DEF TypeOK, Quieted

LEMMA RefreshType ==
  ASSUME NEW slots \in [Calls -> Slot], NEW t, NEW j \in Calls
  PROVE  /\ Refresh(slots, t)[j] \in Slot
         /\ Refresh(slots, t)[j].ssi = slots[j].ssi
         /\ Refresh(slots, t)[j].callId = slots[j].callId
         /\ Refresh(slots, t)[j].umt = slots[j].umt
         /\ Refresh(slots, t)[j].ts = slots[j].ts
         /\ Fits(slots[j]) => Fits(Refresh(slots, t)[j])
<1>1. slots[j] \in Slot /\ 0 \in 0..Oldest
  BY ConstantTypes
<1>2. /\ [slots[j] EXCEPT !.age = 0] \in Slot
      /\ [slots[j] EXCEPT !.age = 0].ssi = slots[j].ssi
      /\ [slots[j] EXCEPT !.age = 0].callId = slots[j].callId
      /\ [slots[j] EXCEPT !.age = 0].umt = slots[j].umt
      /\ [slots[j] EXCEPT !.age = 0].ts = slots[j].ts
      /\ Fits(slots[j]) => Fits([slots[j] EXCEPT !.age = 0])
  BY <1>1 DEF Slot, Fits
<1>3. Refresh(slots, t)[j] \in {slots[j], [slots[j] EXCEPT !.age = 0]}
  BY DEF Refresh
<1> HIDE DEF Slot
<1> QED
  BY <1>1, <1>2, <1>3

LEMMA VisitRingingStep ==
  ASSUME TypeOK, NEW i \in Calls, VisitRinging(i)
  PROVE  GoodStep
<1>1. /\ slot' = [slot EXCEPT ![i] = StageStep(slot[i])]
      /\ aach' = aach /\ mask' = mask /\ bank' = bank
  BY DEF VisitRinging
<1>2. slot[i] \in Slot
  BY DEF TypeOK
<1>3. /\ StageStep(slot[i]) \in Slot
      /\ StageStep(slot[i]).ssi = slot[i].ssi
      /\ StageStep(slot[i]).callId = slot[i].callId
      /\ StageStep(slot[i]).umt = slot[i].umt
      /\ StageStep(slot[i]).ts = slot[i].ts
      /\ Fits(slot[i]) => Fits(StageStep(slot[i]))
  BY <1>2, StageStepType, StagedVisit
<1>4. /\ slot' \in [Calls -> Slot] /\ FitsToo /\ Keeps
      /\ aach' \in [AirTs -> {IdleAach} \cup Umt]
  BY <1>1, <1>3, SameCallStep
<1> QED
  BY <1>1, <1>4 DEF GoodStep, TablesTyped, Shaped, TypeOK

LEMMA RingTimeoutStep ==
  ASSUME TypeOK, NEW i \in Calls, RingTimeout(i)
  PROVE  GoodStep
<1>1. InUse(i) /\ Freed(i) /\ mask' = mask /\ bank' = bank
  BY DEF RingTimeout
<1> QED
  BY <1>1, FreedStep DEF GoodStep, TablesTyped, Shaped, TypeOK

LEMMA WatchdogStep ==
  ASSUME TypeOK, NEW i \in Calls, Watchdog(i)
  PROVE  GoodStep
<1>1. /\ InUse(i) /\ Freed(i) /\ mask' = mask
      /\ bank' = [bank EXCEPT ![slot[i].ts] = NoVoice]
  BY DEF Watchdog
<1>2. bank' \in [AirTs -> {NoVoice} \cup 0..MaxCallId]
  BY <1>1 DEF TypeOK
<1> QED
  BY <1>1, <1>2, FreedStep DEF GoodStep, TablesTyped, Shaped, TypeOK

LEMMA VisitActiveStep ==
  ASSUME TypeOK, NEW i \in Calls, VisitActive(i)
  PROVE  GoodStep
<1> DEFINE stepped == [slot EXCEPT ![i] = StageStep(@)]
<1>1. aach' = aach /\ mask' = mask
  BY DEF VisitActive
<1>2. slot[i] \in Slot
  BY DEF TypeOK
<1>3. /\ StageStep(slot[i]) \in Slot
      /\ StageStep(slot[i]).ssi = slot[i].ssi
      /\ StageStep(slot[i]).callId = slot[i].callId
      /\ StageStep(slot[i]).umt = slot[i].umt
      /\ StageStep(slot[i]).ts = slot[i].ts
      /\ Fits(slot[i]) => Fits(StageStep(slot[i]))
  BY <1>2, StageStepType, StagedVisit
<1>4. /\ stepped \in [Calls -> Slot]
      /\ \A j \in Calls :
           /\ stepped[j].ssi = slot[j].ssi
           /\ stepped[j].callId = slot[j].callId
           /\ stepped[j].umt = slot[j].umt /\ stepped[j].ts = slot[j].ts
           /\ Fits(slot[j]) => Fits(stepped[j])
  BY <1>3 DEF TypeOK
<1>5. CASE slot' = stepped /\ bank' = Quieted(i)
  <2>1. TablesTyped
    BY <1>1, <1>4, <1>5, QuietedType DEF TablesTyped, TypeOK
  <2>2. Keeps /\ FitsToo
    BY <1>1, <1>4, <1>5 DEF Keeps, SameCall, FitsToo
  <2> QED
    BY <2>1, <2>2 DEF GoodStep, Shaped
<1>6. ASSUME NEW t \in BurstTs, slot' = Refresh(stepped, t),
             bank' = [Quieted(i) EXCEPT ![t] = Heard(t)]
      PROVE  GoodStep
  <2> HIDE DEF stepped
  <2>1. slot' = [j \in Calls |-> Refresh(stepped, t)[j]]
    BY <1>6 DEF Refresh
  <2>2. \A j \in Calls :
          /\ slot'[j] \in Slot
          /\ slot'[j].ssi = slot[j].ssi /\ slot'[j].callId = slot[j].callId
          /\ slot'[j].umt = slot[j].umt /\ slot'[j].ts = slot[j].ts
          /\ Fits(slot[j]) => Fits(slot'[j])
    BY <1>4, <1>6, RefreshType
  <2>3. slot' \in [Calls -> Slot]
    BY <2>1, <2>2
  <2>4. bank' \in [AirTs -> {NoVoice} \cup 0..MaxCallId]
    BY <1>6, QuietedType, HeardType
  <2>5. TablesTyped
    BY <1>1, <2>3, <2>4 DEF TablesTyped, TypeOK
  <2>6. Keeps /\ FitsToo
    BY <1>1, <2>2 DEF Keeps, SameCall, FitsToo
  <2> QED
    BY <2>5, <2>6 DEF GoodStep, Shaped
<1> QED
  BY <1>5, <1>6 DEF VisitActive

LEMMA TickSlotStep ==
  ASSUME TypeOK, TickSlot
  PROVE  /\ GoodStep
         /\ nextCallId' = nextCallId /\ nextUmt' = nextUmt
         /\ pc' = pc /\ cursor' \in 1..MaxCalls + 1
<1>1. PICK i \in Calls :
        \/ VisitEmpty(i) \/ VisitRinging(i) \/ RingTimeout(i) \/ Watchdog(i)
        \/ VisitActive(i)
  BY DEF TickSlot
<1>2. Visit(i)
  BY <1>1 DEF VisitEmpty, VisitRinging, RingTimeout, Watchdog, VisitActive
<1>3. /\ nextCallId' = nextCallId /\ nextUmt' = nextUmt
      /\ pc' = pc /\ cursor' \in 1..MaxCalls + 1
  BY <1>2 DEF Visit, NextSlot, Calls
<1>4. CASE VisitEmpty(i)
  <2>1. slot' = slot /\ aach' = aach /\ mask' = mask /\ bank' = bank
    BY <1>4 DEF VisitEmpty
  <2>2. GoodStep
    BY <2>1, UnchangedStep
  <2> QED
    BY <1>3, <2>2
<1> QED
  BY <1>1, <1>3, <1>4, VisitRingingStep, RingTimeoutStep, WatchdogStep,
     VisitActiveStep

LEMMA TickEndStep ==
  ASSUME TypeOK, TickEnd
  PROVE  GoodStep
<1>1. mask' = VoiceMask(slot) /\ slot' = slot /\ aach' = aach /\ bank' = bank
  BY DEF TickEnd
<1>2. mask' \subseteq {0} \cup VoiceTs
  BY <1>1, VoiceMaskType DEF TypeOK
<1> QED
  BY <1>1, <1>2
  DEF TypeOK, GoodStep, TablesTyped, FitsToo, Shaped, Keeps, SameCall

LEMMA ElapseStep ==
  ASSUME TypeOK, Elapse
  PROVE  GoodStep
<1>1. PICK d \in Delays : slot' = [j \in Calls |-> Older(slot[j], d)]
  BY DEF Elapse
<1>2. aach' = aach /\ mask' = mask /\ bank' = bank
  BY DEF Elapse
<1>3. \A j \in Calls : slot[j] \in Slot
  BY DEF TypeOK
<1>4. \A j \in Calls :
        /\ slot'[j] \in Slot
        /\ slot'[j].ssi = slot[j].ssi /\ slot'[j].callId = slot[j].callId
        /\ slot'[j].umt = slot[j].umt /\ slot'[j].ts = slot[j].ts
        /\ Fits(slot[j]) => Fits(slot'[j])
  BY <1>1, <1>3, OlderType DEF Fits
<1>5. slot' \in [Calls -> Slot]
  BY <1>1, <1>4
<1>6. Keeps /\ FitsToo
  BY <1>2, <1>4 DEF Keeps, SameCall, FitsToo
<1> QED
  BY <1>2, <1>5, <1>6 DEF GoodStep, TablesTyped, Shaped, TypeOK

(* Every step keeps the types and has one of the four shapes.              *)
LEMMA StepShape ==
  ASSUME TypeOK, [Next]_vars
  PROVE  GoodStep /\ TypeOK'
<1>1. CASE TickSlot
  BY <1>1, TickSlotStep DEF GoodStep, TablesTyped, TypeOK
<1>2. CASE TickEnd
  <2>1. /\ nextCallId' = nextCallId /\ nextUmt' = nextUmt
        /\ pc' = "rx" /\ cursor' = 1 /\ 1 \in 1..MaxCalls + 1
    BY <1>2 DEF TickEnd
  <2> QED
    BY <1>2, <2>1, TickEndStep DEF GoodStep, TablesTyped, TypeOK
<1>3. CASE HandleCmce
  <2>1. pc' = "sleep" /\ cursor' = cursor
    BY <1>3 DEF HandleCmce
  <2> QED
    BY <1>3, <2>1, HandleCmceStep DEF GoodStep, TablesTyped, TypeOK
<1>4. CASE NoCmce
  <2>1. /\ UNCHANGED <<slot, nextCallId, nextUmt, aach, mask, bank, cursor>>
        /\ pc' = "sleep"
    BY <1>4 DEF NoCmce, NothingToDo
  <2> QED
    BY <2>1, UnchangedStep DEF TypeOK
<1>5. CASE \E g \in Gssi : LateEntry(g)
  <2>1. UNCHANGED <<slot, nextCallId, nextUmt, aach, mask, bank, pc, cursor>>
    BY <1>5 DEF LateEntry
  <2> QED
    BY <2>1, UnchangedStep DEF TypeOK
<1>6. CASE Elapse
  <2>1. /\ nextCallId' = nextCallId /\ nextUmt' = nextUmt
        /\ pc' = "tick" /\ cursor' = cursor
    BY <1>6 DEF Elapse
  <2> QED
    BY <1>6, <2>1, ElapseStep DEF GoodStep, TablesTyped, TypeOK
<1>7. CASE UNCHANGED vars
  BY <1>7, UnchangedStep DEF vars, TypeOK
<1> QED
  BY <1>1, <1>2, <1>3, <1>4, <1>5, <1>6, <1>7 DEF Next

-----------------------------------------------------------------------------
(* The call table, the registers and the loop keep their types.            *)
THEOREM TypeCorrect == Spec => []TypeOK
<1>1. Init => TypeOK
  <2>1. EmptySlot \in Slot /\ UmtMin \in Umt /\ 1 \in 1..MaxCallId
        /\ 1 \in 1..MaxCalls + 1
    BY ConstantTypes
  <2> QED
    BY <2>1, NoBanksType DEF Init, TypeOK
<1>2. TypeOK /\ [Next]_vars => TypeOK'
  BY StepShape
<1> QED
  BY <1>1, <1>2, PTL DEF Spec

-----------------------------------------------------------------------------
(* Who is on which channel.  The three invariants need each other: a call  *)
(* that is closed leaves the other markers alone because no other call is  *)
(* on its timeslot, and the timeslot of a new call is free because every   *)
(* call that holds a timeslot is found by the allocator.                   *)

ChannelsInv == OneCallPerMobile /\ OneCallPerTimeslot /\ AachFollowsCalls

LEMMA KeepsChannels ==
  ASSUME TypeOK, ChannelsInv, Keeps
  PROVE  ChannelsInv'
<1>1. \A j \in Calls : /\ slot'[j].ssi = slot[j].ssi
                       /\ slot'[j].umt = slot[j].umt
                       /\ slot'[j].ts = slot[j].ts
  BY DEF Keeps, SameCall
<1>2. \A j \in Calls : InUse(j)' = InUse(j)
  BY <1>1 DEF InUse
<1>3. OneCallPerMobile'
  BY <1>1, <1>2 DEF ChannelsInv, OneCallPerMobile
<1>4. OneCallPerTimeslot'
  BY <1>1, <1>2 DEF ChannelsInv, OneCallPerTimeslot
<1>5. \A t : OnTs(t)' = OnTs(t)
  BY <1>1, <1>2 DEF OnTs
<1>6. AachFollowsCalls'
  BY <1>1, <1>2, <1>5 DEF ChannelsInv, AachFollowsCalls, Keeps
<1> QED
  BY <1>3, <1>4, <1>6 DEF ChannelsInv

LEMMA TakesChannels ==
  ASSUME TypeOK, ChannelsInv, NEW i \in Calls, NEW ms \in Issi, Takes(i, ms)
  PROVE  ChannelsInv'
<1>1. \A j \in Calls : /\ slot'[j].umt = slot[j].umt
                       /\ slot'[j].ts = slot[j].ts
                       /\ j # i => slot'[j].ssi = slot[j].ssi
  BY DEF Takes, SameCall
<1>2. slot'[i].ssi = ms /\ InUse(i) /\ ms # None
  BY DEF Takes
<1>3. \A j \in Calls : InUse(j)' = InUse(j)
  BY <1>1, <1>2 DEF InUse
<1>4. \A j \in Calls : InUse(j) => slot[j].ssi # ms
  BY DEF Takes, OwnedBy
<1>5. OneCallPerMobile'
  BY <1>1, <1>2, <1>3, <1>4 DEF ChannelsInv, OneCallPerMobile
<1>6. OneCallPerTimeslot'
  BY <1>1, <1>3 DEF ChannelsInv, OneCallPerTimeslot
<1>7. \A t : OnTs(t)' = OnTs(t)
  BY <1>1, <1>3 DEF OnTs
<1>8. AachFollowsCalls'
  BY <1>1, <1>3, <1>7 DEF ChannelsInv, AachFollowsCalls, Takes
<1> QED
  BY <1>5, <1>6, <1>8 DEF ChannelsInv

LEMMA OpensChannels ==
  ASSUME TypeOK, ChannelsInv,
         NEW i \in Calls, NEW ms \in Issi, NEW t \in VoiceTs, Opens(i, ms, t)
  PROVE  ChannelsInv'
<1>1. \A j \in Calls \ {i} : /\ slot'[j].ssi = slot[j].ssi
                             /\ slot'[j].umt = slot[j].umt
                             /\ slot'[j].ts = slot[j].ts
  BY DEF Opens, SameCall
<1>2. /\ slot'[i].ssi = ms /\ slot'[i].umt = nextUmt /\ slot'[i].ts = t
      /\ ~InUse(i) /\ ms # None /\ OnTs(t) = {}
      /\ aach' = [aach EXCEPT ![t] = nextUmt]
  BY DEF Opens, First, FreeTs
<1>3. /\ InUse(i)'
      /\ \A j \in Calls \ {i} : InUse(j)' = InUse(j)
  BY <1>1, <1>2 DEF InUse
<1>4. \A j \in Calls : InUse(j) => slot[j].ssi # ms /\ slot[j].ts # t
  BY <1>2 DEF Opens, OwnedBy, OnTs
<1>5. OneCallPerMobile'
  BY <1>1, <1>2, <1>3, <1>4 DEF ChannelsInv, OneCallPerMobile
<1>6. OneCallPerTimeslot'
  BY <1>1, <1>2, <1>3, <1>4 DEF ChannelsInv, OneCallPerTimeslot
<1>7. \A s \in AirTs : OnTs(s)' = {} => s # t /\ OnTs(s) = {}
  BY <1>1, <1>2, <1>3 DEF OnTs
<1>8. t \in AirTs /\ aach \in [AirTs -> {IdleAach} \cup Umt]
  BY DEF TypeOK, AirTs
<1>9. \A j \in Calls : InUse(j)' => aach'[slot'[j].ts] = slot'[j].umt
  <2> SUFFICES ASSUME NEW j \in Calls, InUse(j)'
               PROVE  aach'[slot'[j].ts] = slot'[j].umt
    OBVIOUS
  <2>1. CASE j = i
    BY <1>2, <1>8, <2>1
  <2>2. CASE j # i
    <3>1. InUse(j) /\ slot[j].ts # t /\ aach[slot[j].ts] = slot[j].umt
      BY <1>3, <1>4, <2>2 DEF ChannelsInv, AachFollowsCalls
    <3> QED
      BY <1>1, <1>2, <1>8, <2>2, <3>1 DEF ChannelsInv, OneCallPerTimeslot, AirTs
  <2> QED
    BY <2>1, <2>2
<1>10. AachFollowsCalls'
  BY <1>2, <1>7, <1>8, <1>9 DEF ChannelsInv, AachFollowsCalls
<1> QED
  BY <1>5, <1>6, <1>10 DEF ChannelsInv

LEMMA ClosesChannels ==
  ASSUME TypeOK, ChannelsInv, NEW i \in Calls, Closes(i)
  PROVE  ChannelsInv'
<1>1. \A j \in Calls \ {i} : /\ slot'[j].ssi = slot[j].ssi
                             /\ slot'[j].umt = slot[j].umt
                             /\ slot'[j].ts = slot[j].ts
  BY DEF Closes, SameCall
<1>2. /\ slot'[i].ssi = None /\ InUse(i)
      /\ aach' = [aach EXCEPT ![slot[i].ts] = IdleAach]
  BY DEF Closes, EmptySlot
<1>3. /\ ~InUse(i)'
      /\ \A j \in Calls \ {i} : InUse(j)' = InUse(j)
  BY <1>1, <1>2 DEF InUse
<1>4. \A j \in Calls \ {i} : InUse(j) => slot[j].ts # slot[i].ts
  BY <1>2 DEF ChannelsInv, OneCallPerTimeslot
<1>5. OneCallPerMobile'
  BY <1>1, <1>3 DEF ChannelsInv, OneCallPerMobile
<1>6. OneCallPerTimeslot'
  BY <1>1, <1>3 DEF ChannelsInv, OneCallPerTimeslot
<1>7. \A s \in AirTs : OnTs(s)' = {} => s = slot[i].ts \/ OnTs(s) = {}
  BY <1>1, <1>2, <1>3 DEF OnTs
<1>8. aach \in [AirTs -> {IdleAach} \cup Umt]
  BY DEF TypeOK
<1>9. \A j \in Calls : InUse(j)' => aach'[slot'[j].ts] = slot'[j].umt
  <2> SUFFICES ASSUME NEW j \in Calls, InUse(j)'
               PROVE  aach'[slot'[j].ts] = slot'[j].umt
    OBVIOUS
  <2>1. j # i /\ InUse(j) /\ slot[j].ts # slot[i].ts
    BY <1>3, <1>4
  <2>2. aach[slot[j].ts] = slot[j].umt /\ slot[j].ts \in AirTs
    BY <2>1 DEF ChannelsInv, AachFollowsCalls, OneCallPerTimeslot, AirTs
  <2> QED
    BY <1>1, <1>2, <1>8, <2>1, <2>2
<1>10. AachFollowsCalls'
  BY <1>2, <1>7, <1>8, <1>9 DEF ChannelsInv, AachFollowsCalls
<1> QED
  BY <1>5, <1>6, <1>10 DEF ChannelsInv

(* No mobile has two calls, no timeslot carries two calls, and the AACH    *)
(* registers advertise exactly the calls of the table, for any number of   *)
(* mobiles, slots and timeslots.                                           *)
THEOREM ChannelsCorrect ==
  Spec => [](OneCallPerMobile /\ OneCallPerTimeslot /\ AachFollowsCalls)
<1>1. Init => ChannelsInv
  BY DEF Init, ChannelsInv, OneCallPerMobile, OneCallPerTimeslot,
         AachFollowsCalls, InUse, EmptySlot
<1>2. TypeOK /\ ChannelsInv /\ [Next]_vars => ChannelsInv'
  <2> SUFFICES ASSUME TypeOK, ChannelsInv, [Next]_vars
               PROVE  ChannelsInv'
    OBVIOUS
  <2>1. Shaped
    BY StepShape DEF GoodStep
  <2> QED
    BY <2>1, KeepsChannels, TakesChannels, OpensChannels, ClosesChannels
    DEF Shaped
<1>3. ChannelsInv => OneCallPerMobile /\ OneCallPerTimeslot /\ AachFollowsCalls
  BY DEF ChannelsInv
<1> QED
  BY <1>1, <1>2, <1>3, TypeCorrect, PTL DEF Spec

(* find_slot acts on the only call its mobile has.                         *)
THEOREM OneCallPerMobileCorrect == Spec => []OneCallPerMobile
  BY ChannelsCorrect, PTL

(* The AACH registers never advertise a call that is over or on another    *)
(* timeslot, and never leave out one that is on.                           *)
THEOREM AachFollowsCallsCorrect == Spec => []AachFollowsCalls
  BY ChannelsCorrect, PTL

(* A call runs the setup sequence of its own kind.                         *)
THEOREM SequencesCorrect == Spec => []SequenceFitsCall
<1>1. Init => SequenceFitsCall
  BY DEF Init, SequenceFitsCall, EmptySlot
<1>2. TypeOK /\ SequenceFitsCall /\ [Next]_vars => SequenceFitsCall'
  <2> SUFFICES ASSUME TypeOK, SequenceFitsCall, [Next]_vars
               PROVE  SequenceFitsCall'
    OBVIOUS
  <2>1. FitsToo
    BY StepShape DEF GoodStep
  <2>2. \A j \in Calls : Fits(slot[j])
    BY DEF SequenceFitsCall, Fits
  <2>3. \A j \in Calls : Fits(slot'[j])
    BY <2>1, <2>2 DEF FitsToo
  <2> QED
    BY <2>3 DEF SequenceFitsCall, Fits
<1> QED
  BY <1>1, <1>2, TypeCorrect, PTL DEF Spec

-----------------------------------------------------------------------------
(* What a step never does.                                                 *)

(* A running call keeps its number, marker and timeslot, and the marker    *)
(* stays on the air.                                                       *)
THEOREM ChannelStaysCorrect == Spec => ChannelStays
<1> DEFINE Stays(i) ==
             InUse(i) /\ InUse(i)' =>
               /\ slot'[i].callId = slot[i].callId
               /\ slot'[i].umt = slot[i].umt
               /\ slot'[i].ts = slot[i].ts
               /\ aach'[slot[i].ts] = aach[slot[i].ts]
<1>1. TypeOK /\ ChannelsInv /\ [Next]_vars => \A i \in Calls : Stays(i)
  <2> SUFFICES ASSUME TypeOK, ChannelsInv, [Next]_vars, NEW i \in Calls,
                      InUse(i), InUse(i)'
               PROVE  Stays(i)
    OBVIOUS
  <2>1. aach \in [AirTs -> {IdleAach} \cup Umt] /\ slot[i].ts \in VoiceTs
    BY DEF TypeOK, ChannelsInv, OneCallPerTimeslot
  <2>2. CASE Keeps
    BY <2>2 DEF Keeps, SameCall
  <2>3. CASE \E k \in Calls, ms \in Issi : Takes(k, ms)
    BY <2>3 DEF Takes, SameCall
  <2>4. ASSUME NEW k \in Calls, NEW ms \in Issi, NEW t \in VoiceTs,
               Opens(k, ms, t)
        PROVE  Stays(i)
    <3>1. i # k /\ slot[i].ts # t /\ aach' = [aach EXCEPT ![t] = nextUmt]
      BY <2>4 DEF Opens, First, FreeTs, OnTs
    <3>2. SameCall(i)
      BY <2>4, <3>1 DEF Opens
    <3> QED
      BY <2>1, <3>1, <3>2 DEF SameCall, AirTs
  <2>5. ASSUME NEW k \in Calls, Closes(k)
        PROVE  Stays(i)
    <3>1. /\ i # k /\ slot[i].ts # slot[k].ts
          /\ aach' = [aach EXCEPT ![slot[k].ts] = IdleAach]
      BY <2>5 DEF Closes, EmptySlot, InUse, ChannelsInv, OneCallPerTimeslot
    <3>2. SameCall(i)
      BY <2>5, <3>1 DEF Closes
    <3> QED
      BY <2>1, <3>1, <3>2 DEF SameCall, AirTs
  <2> QED
    BY <2>2, <2>3, <2>4, <2>5, StepShape DEF GoodStep, Shaped
<1>2. Spec => []ChannelsInv
  BY ChannelsCorrect DEF ChannelsInv
<1>3. Spec => [][\A i \in Calls : Stays(i)]_vars
  BY <1>1, <1>2, TypeCorrect, PTL DEF Spec
<1> QED
  BY <1>3 DEF ChannelStays

(* A step that frees a call leaves every other call in use and its marker  *)
(* on the air.                                                             *)
THEOREM OthersUndisturbedCorrect == Spec => OthersUndisturbed
<1> DEFINE Apart(i, j) ==
             InUse(i) /\ ~InUse(i)' /\ j # i /\ InUse(j) =>
               InUse(j)' /\ aach'[slot[j].ts] = slot[j].umt
<1>1. TypeOK /\ ChannelsInv /\ [Next]_vars => \A i, j \in Calls : Apart(i, j)
  <2> SUFFICES ASSUME TypeOK, ChannelsInv, [Next]_vars,
                      NEW i \in Calls, NEW j \in Calls,
                      InUse(i), ~InUse(i)', j # i, InUse(j)
               PROVE  InUse(j)' /\ aach'[slot[j].ts] = slot[j].umt
    OBVIOUS
  <2>1. /\ aach \in [AirTs -> {IdleAach} \cup Umt] /\ slot[j].ts \in AirTs
        /\ slot[j].ts # slot[i].ts /\ aach[slot[j].ts] = slot[j].umt
    BY DEF TypeOK, ChannelsInv, OneCallPerTimeslot, AachFollowsCalls, AirTs
  <2>2. CASE Keeps
    BY <2>2 DEF Keeps, SameCall, InUse
  <2>3. CASE \E k \in Calls, ms \in Issi : Takes(k, ms)
    BY <2>3 DEF Takes, SameCall, InUse
  <2>4. CASE \E k \in Calls, ms \in Issi, t \in VoiceTs : Opens(k, ms, t)
    BY <2>4 DEF Opens, SameCall, InUse
  <2>5. ASSUME NEW k \in Calls, Closes(k)
        PROVE  InUse(j)' /\ aach'[slot[j].ts] = slot[j].umt
    <3>1. k = i
      BY <2>5 DEF Closes, SameCall, InUse
    <3>2. SameCall(j) /\ aach' = [aach EXCEPT ![slot[i].ts] = IdleAach]
      BY <2>5, <3>1 DEF Closes
    <3> QED
      BY <2>1, <3>2 DEF SameCall, InUse
  <2> QED
    BY <2>2, <2>3, <2>4, <2>5, StepShape DEF GoodStep, Shaped
<1>2. Spec => []ChannelsInv
  BY ChannelsCorrect DEF ChannelsInv
<1>3. Spec => [][\A i, j \in Calls : Apart(i, j)]_vars
  BY <1>1, <1>2, TypeCorrect, PTL DEF Spec
<1> QED
  BY <1>3 DEF OthersUndisturbed

-----------------------------------------------------------------------------
(* The refinement of VoiceChannels.  A timeslot shows the talker and the   *)
(* marker of the one call on it.                                           *)

Chan == [t \in VoiceTs |-> ChanOf(t)]
Air == [t \in VoiceTs |-> aach[t]]
Unused == [talker |-> None, marker |-> IdleAach]

ShowsCalls ==
  /\ \A i \in Calls : InUse(i) =>
       ChanOf(slot[i].ts) = [talker |-> slot[i].ssi, marker |-> slot[i].umt]
  /\ \A t \in VoiceTs : OnTs(t) = {} => ChanOf(t) = Unused
  /\ \A t \in VoiceTs : OnTs(t) = {} \/ \E i \in Calls : InUse(i) /\ slot[i].ts = t

LEMMA CallsShow == OneCallPerTimeslot => ShowsCalls
<1> SUFFICES ASSUME OneCallPerTimeslot PROVE ShowsCalls
  OBVIOUS
<1>1. ASSUME NEW i \in Calls, InUse(i)
      PROVE  ChanOf(slot[i].ts) =
               [talker |-> slot[i].ssi, marker |-> slot[i].umt]
  <2> DEFINE k == CHOOSE k \in OnTs(slot[i].ts) : TRUE
  <2>1. i \in OnTs(slot[i].ts)
    BY <1>1 DEF OnTs
  <2>2. k \in OnTs(slot[i].ts)
    BY <2>1
  <2>3. k = i
    BY <1>1, <2>2 DEF OnTs, OneCallPerTimeslot
  <2>4. OnTs(slot[i].ts) # {}
    BY <2>1
  <2>5. ChanOf(slot[i].ts) = [talker |-> slot[k].ssi, marker |-> slot[k].umt]
    BY <2>4 DEF ChanOf
  <2> QED
    BY <2>3, <2>5
<1>2. \A t \in VoiceTs : OnTs(t) = {} => ChanOf(t) = Unused
  BY DEF ChanOf, Unused
<1>3. \A t \in VoiceTs :
        OnTs(t) = {} \/ \E i \in Calls : InUse(i) /\ slot[i].ts = t
  BY DEF OnTs
<1> QED
  BY <1>1, <1>2, <1>3 DEF ShowsCalls

(* The timeslots that a step does not touch show what they showed.         *)
LEMMA ShowsSame ==
  ASSUME ShowsCalls, ShowsCalls', NEW t \in VoiceTs,
         \A j \in Calls : InUse(j) /\ slot[j].ts = t =>
           InUse(j)' /\ slot'[j].ts = t /\ slot'[j].ssi = slot[j].ssi
           /\ slot'[j].umt = slot[j].umt,
         \A j \in Calls : InUse(j)' /\ slot'[j].ts = t =>
           InUse(j) /\ slot[j].ts = t
  PROVE  ChanOf(t)' = ChanOf(t)
<1>1. CASE OnTs(t) = {}
  <2>1. OnTs(t)' = {}
    BY <1>1 DEF OnTs
  <2>2. ChanOf(t) = Unused /\ ChanOf(t)' = Unused
    BY <1>1, <2>1 DEF ShowsCalls, Unused
  <2> QED
    BY <2>2
<1>2. CASE OnTs(t) # {}
  <2>1. PICK j \in Calls : InUse(j) /\ slot[j].ts = t
    BY <1>2 DEF ShowsCalls
  <2>2. InUse(j)' /\ slot'[j].ts = t /\ slot'[j].ssi = slot[j].ssi
        /\ slot'[j].umt = slot[j].umt
    BY <2>1
  <2>3. ChanOf(t) = [talker |-> slot[j].ssi, marker |-> slot[j].umt]
    BY <2>1 DEF ShowsCalls
  <2>4. ChanOf(t)' = [talker |-> slot'[j].ssi, marker |-> slot'[j].umt]
    BY <2>2 DEF ShowsCalls
  <2> QED
    BY <2>2, <2>3, <2>4
<1> QED
  BY <1>1, <1>2

(* A mobile without a call talks on no channel.                            *)
LEMMA NotTalking ==
  ASSUME ShowsCalls, NEW ms \in Issi, OwnedBy(ms) = {}, NEW t \in VoiceTs
  PROVE  ChanOf(t).talker # ms
<1>1. CASE OnTs(t) = {}
  BY <1>1 DEF ShowsCalls, Unused
<1>2. CASE OnTs(t) # {}
  <2>1. PICK j \in Calls : InUse(j) /\ slot[j].ts = t
    BY <1>2 DEF ShowsCalls
  <2>2. ChanOf(t) = [talker |-> slot[j].ssi, marker |-> slot[j].umt]
    BY <2>1 DEF ShowsCalls
  <2>3. slot[j].ssi # ms
    BY <2>1 DEF OwnedBy
  <2> QED
    BY <2>2, <2>3
<1> QED
  BY <1>1, <1>2

LEMMA KeepsRefines ==
  ASSUME TypeOK, ShowsCalls, ShowsCalls', Keeps
  PROVE  Chan' = Chan /\ Air' = Air
<1>1. \A j \in Calls : /\ slot'[j].ssi = slot[j].ssi
                       /\ slot'[j].umt = slot[j].umt
                       /\ slot'[j].ts = slot[j].ts
                       /\ InUse(j)' = InUse(j)
  BY DEF Keeps, SameCall, InUse
<1>2. \A t \in VoiceTs : ChanOf(t)' = ChanOf(t)
  BY <1>1, ShowsSame
<1> QED
  BY <1>2 DEF Chan, Air, Keeps

LEMMA TakesRefines ==
  ASSUME TypeOK, ChannelsInv, ChannelsInv', ShowsCalls, ShowsCalls',
         NEW i \in Calls, NEW ms \in Issi, Takes(i, ms)
  PROVE  /\ slot[i].ts \in VoiceTs
         /\ Chan[slot[i].ts].talker # None
         /\ \A t \in VoiceTs : Chan[t].talker # ms
         /\ Chan' = [Chan EXCEPT ![slot[i].ts].talker = ms]
         /\ Air' = Air
<1>1. PICK here \in VoiceTs : InUse(i) /\ here = slot[i].ts
  BY DEF Takes, ChannelsInv, OneCallPerTimeslot
<1>2. Chan[here] = [talker |-> slot[i].ssi, marker |-> slot[i].umt]
  BY <1>1 DEF ShowsCalls, Chan
<1>3. \A t \in VoiceTs : Chan[t].talker # ms
  BY NotTalking DEF Takes, Chan
<1>4. InUse(i)' /\ slot'[i].ts = here /\ slot'[i].ssi = ms
      /\ slot'[i].umt = slot[i].umt
  BY <1>1 DEF Takes, InUse
<1>5. ChanOf(here)' = [talker |-> ms, marker |-> slot[i].umt]
  BY <1>4 DEF ShowsCalls
<1>6. \A j \in Calls \ {i} : /\ slot'[j].ssi = slot[j].ssi
                             /\ slot'[j].umt = slot[j].umt
                             /\ slot'[j].ts = slot[j].ts
                             /\ InUse(j)' = InUse(j)
  BY DEF Takes, SameCall, InUse
<1>7. ASSUME NEW t \in VoiceTs, t # here
      PROVE  ChanOf(t)' = ChanOf(t)
  BY <1>1, <1>4, <1>6, <1>7, ShowsSame
<1>8. Chan' = [Chan EXCEPT ![here].talker = ms]
  BY <1>1, <1>2, <1>5, <1>7 DEF Chan
<1>9. Air' = Air
  BY DEF Air, Takes
<1>10. slot[i].ssi # None
  BY <1>1 DEF InUse
<1> QED
  BY <1>1, <1>2, <1>3, <1>8, <1>9, <1>10

LEMMA OpensRefines ==
  ASSUME TypeOK, ChannelsInv, ChannelsInv', ShowsCalls, ShowsCalls',
         NEW i \in Calls, NEW ms \in Issi, NEW t \in VoiceTs, Opens(i, ms, t)
  PROVE  /\ nextUmt \in Umt
         /\ Chan[t].talker = None
         /\ \A s \in VoiceTs : s < t => Chan[s].talker # None
         /\ \A s \in VoiceTs : Chan[s].talker # ms
         /\ Chan' = [Chan EXCEPT ![t] = [talker |-> ms, marker |-> nextUmt]]
         /\ Air' = [Air EXCEPT ![t] = nextUmt]
<1>1. /\ ~InUse(i) /\ OnTs(t) = {} /\ slot'[i].ssi = ms
      /\ slot'[i].umt = nextUmt /\ slot'[i].ts = t
      /\ aach' = [aach EXCEPT ![t] = nextUmt]
  BY DEF Opens, First, FreeTs
<1>2. Chan[t].talker = None
  BY <1>1 DEF ShowsCalls, Chan, Unused
<1>3. ASSUME NEW s \in VoiceTs, s < t
      PROVE  Chan[s].talker # None
  <2>1. s \in Int /\ t \in Int
    OBVIOUS
  <2>2. OnTs(s) # {}
    BY <1>3, <2>1 DEF Opens, First, FreeTs
  <2>3. PICK j \in Calls : InUse(j) /\ slot[j].ts = s
    BY <2>2 DEF ShowsCalls
  <2>4. ChanOf(s) = [talker |-> slot[j].ssi, marker |-> slot[j].umt]
    BY <2>3 DEF ShowsCalls
  <2> QED
    BY <2>3, <2>4 DEF InUse, Chan
<1>4. \A s \in VoiceTs : Chan[s].talker # ms
  BY NotTalking DEF Opens, Chan
<1>5. InUse(i)'
  BY <1>1 DEF InUse
<1>6. ChanOf(t)' = [talker |-> ms, marker |-> nextUmt]
  BY <1>1, <1>5 DEF ShowsCalls
<1>7. \A j \in Calls \ {i} : /\ slot'[j].ssi = slot[j].ssi
                             /\ slot'[j].umt = slot[j].umt
                             /\ slot'[j].ts = slot[j].ts
                             /\ InUse(j)' = InUse(j)
  BY DEF Opens, SameCall, InUse
<1>8. ASSUME NEW s \in VoiceTs, s # t
      PROVE  ChanOf(s)' = ChanOf(s)
  BY <1>1, <1>7, <1>8, ShowsSame
<1>9. Chan' = [Chan EXCEPT ![t] = [talker |-> ms, marker |-> nextUmt]]
  BY <1>6, <1>8 DEF Chan
<1>10. Air' = [Air EXCEPT ![t] = nextUmt]
  BY <1>1 DEF Air, TypeOK, AirTs
<1> QED
  BY <1>2, <1>3, <1>4, <1>9, <1>10 DEF TypeOK

LEMMA ClosesRefines ==
  ASSUME TypeOK, ChannelsInv, ChannelsInv', ShowsCalls, ShowsCalls',
         NEW i \in Calls, Closes(i)
  PROVE  /\ slot[i].ts \in VoiceTs
         /\ Chan[slot[i].ts].talker # None
         /\ Chan' = [Chan EXCEPT ![slot[i].ts] = Unused]
         /\ Air' = [Air EXCEPT ![slot[i].ts] = IdleAach]
<1>1. PICK here \in VoiceTs : InUse(i) /\ here = slot[i].ts
  BY DEF Closes, ChannelsInv, OneCallPerTimeslot
<1>2. Chan[here] = [talker |-> slot[i].ssi, marker |-> slot[i].umt]
  BY <1>1 DEF ShowsCalls, Chan
<1>3. slot[i].ssi # None
  BY <1>1 DEF InUse
<1>4. /\ ~InUse(i)'
      /\ aach' = [aach EXCEPT ![here] = IdleAach]
  BY <1>1 DEF Closes, EmptySlot, InUse
<1>5. \A j \in Calls \ {i} : /\ slot'[j].ssi = slot[j].ssi
                             /\ slot'[j].umt = slot[j].umt
                             /\ slot'[j].ts = slot[j].ts
                             /\ InUse(j)' = InUse(j)
  BY DEF Closes, SameCall, InUse
<1>6. \A j \in Calls \ {i} : InUse(j) => slot[j].ts # here
  BY <1>1 DEF ChannelsInv, OneCallPerTimeslot
<1>7. ChanOf(here)' = Unused
  <2>1. OnTs(here)' = {}
    BY <1>4, <1>5, <1>6 DEF OnTs
  <2> QED
    BY <1>1, <2>1 DEF ShowsCalls, Unused
<1>8. ASSUME NEW t \in VoiceTs, t # here
      PROVE  ChanOf(t)' = ChanOf(t)
  BY <1>1, <1>4, <1>5, <1>8, ShowsSame
<1>9. Chan' = [Chan EXCEPT ![here] = Unused]
  BY <1>7, <1>8 DEF Chan, Unused
<1>10. Air' = [Air EXCEPT ![here] = IdleAach]
  BY <1>1, <1>4 DEF Air, TypeOK, AirTs
<1> QED
  BY <1>1, <1>2, <1>3, <1>9, <1>10

(* The call control implements the abstract voice channels.                *)
THEOREM Refinement == Spec => ImplementsVoiceChannels
<1>1. Init => VC!Init
  BY DEF Init, VC!Init, VC!Closed, VC!Channel, ChanOf, OnTs, InUse, EmptySlot,
         AirTs
<1>2. TypeOK /\ ChannelsInv /\ ChannelsInv' /\ [Next]_vars
        => [VC!Next]_<<Chan, Air>>
  <2> SUFFICES ASSUME TypeOK, ChannelsInv, ChannelsInv', [Next]_vars
               PROVE  [VC!Next]_<<Chan, Air>>
    OBVIOUS
  <2>1. ShowsCalls /\ ShowsCalls'
    <3>1. (OneCallPerTimeslot => ShowsCalls)'
      BY CallsShow, PTL
    <3> QED
      BY <3>1, CallsShow DEF ChannelsInv
  <2>2. CASE Keeps
    BY <2>1, <2>2, KeepsRefines
  <2>3. ASSUME NEW i \in Calls, NEW ms \in Issi, Takes(i, ms)
        PROVE  VC!Next
    <3>1. PICK t \in VoiceTs : t = slot[i].ts
      BY <2>1, <2>3, TakesRefines
    <3>2. VC!HandOver(t, ms)
      BY <2>1, <2>3, <3>1, TakesRefines
      DEF VC!HandOver, VC!IsOpen, VC!Silent, Chan, Air
    <3> QED
      BY <3>2 DEF VC!Next
  <2>4. ASSUME NEW i \in Calls, NEW ms \in Issi, NEW t \in VoiceTs,
               Opens(i, ms, t)
        PROVE  VC!Next
    <3>1. PICK u \in Umt : u = nextUmt
      BY DEF TypeOK
    <3>2. VC!Open(t, ms, u)
      BY <2>1, <2>4, <3>1, OpensRefines
      DEF VC!Open, VC!IsOpen, VC!Silent, VC!Channel, Chan, Air
    <3> QED
      BY <3>2 DEF VC!Next
  <2>5. ASSUME NEW i \in Calls, Closes(i)
        PROVE  VC!Next
    <3>1. PICK t \in VoiceTs : t = slot[i].ts
      BY <2>1, <2>5, ClosesRefines
    <3>2. VC!Close(t)
      BY <2>1, <2>5, <3>1, ClosesRefines
      DEF VC!Close, VC!IsOpen, VC!Closed, VC!Channel, Unused, Chan, Air
    <3> QED
      BY <3>2 DEF VC!Next
  <2> QED
    BY <2>2, <2>3, <2>4, <2>5, StepShape DEF GoodStep, Shaped
<1>3. Spec => []ChannelsInv
  BY ChannelsCorrect DEF ChannelsInv
<1>4. Spec => VC!Init /\ [][VC!Next]_<<Chan, Air>>
  BY <1>1, <1>2, <1>3, TypeCorrect, PTL DEF Spec
<1> QED
  BY <1>4, PTL DEF ImplementsVoiceChannels, VC!Spec, Chan, Air

-----------------------------------------------------------------------------
(* Granted channels.  A request that grants a channel sets its mask bit in *)
(* the same step.  The D-CONNECT that the tick repeats is covered by the   *)
(* mask of the end of the tick only if the call was heard or set up within *)
(* VoiceQuiet: the invariant follows the time of the setup sequence, and   *)
(* the rounds must be short enough for it.                                 *)

RoundsShort ==
  /\ VoiceQuiet <= CallStale
  /\ \A d \in Delays : SetupGap + d <= VoiceQuiet + 1

Talking(s) == s.ssi # None /\ s.state \in {"CONNECTED", "TALKER"}

Granting(m) == m.pdu \in {"D-CONNECT", "D-CONNECT-ACK", "D-TX-GRANTED"}

(* A slot that waits for the D-CONNECT of its setup sequence; no such slot *)
(* is overdue when the tick has gone past it.                              *)
Waits(s) == s.stage = 1 => Talking(s) /\ s.due # 0 /\ s.age + s.due <= SetupGap

Overdue(s) == s.stage = 1 /\ s.due = 0 /\ Talking(s) /\ s.age <= VoiceQuiet

InTime ==
  \A i \in Calls :
    Waits(slot[i]) \/ (pc = "tick" /\ cursor <= i /\ Overdue(slot[i]))

LoopStarts == pc # "tick" => cursor = 1

Live(i, m) ==
  /\ Talking(slot[i]) /\ slot[i].age <= VoiceQuiet
  /\ slot[i].ts = m.ts /\ slot[i].umt = m.umt

TickGrantsLive ==
  pc = "tick" => \A m \in out : Granting(m) => \E i \in Calls : Live(i, m)

GrantInv == InTime /\ LoopStarts /\ TickGrantsLive /\ GrantedOnLiveChannel

LEMMA PduFields ==
  ASSUME NEW s
  PROVE  /\ DConnect(s).ts = s.ts /\ DConnect(s).umt = s.umt
         /\ DConnectAck(s).ts = s.ts /\ DConnectAck(s).umt = s.umt
         /\ DTxGranted(s).ts = s.ts /\ DTxGranted(s).umt = s.umt
         /\ ~Granting(DSetup(s)) /\ ~Granting(DRelease(s))
         /\ ~Granting(DTxCeased(s))
         /\ \A to : ~Granting(Plain("AL-SETUP", to, s))
         /\ \A to : ~Granting(Plain("D-CALL-PROCEEDING", to, s))
         /\ \A to : ~Granting(Plain("D-ALERT", to, s))
  BY DEF Granting, DConnect, DConnectAck, DTxGranted, DSetup, DRelease,
         DTxCeased, OnChannel, Plain, Dl

LEMMA SendingsOnly ==
  ASSUME NEW pdus, NEW sent \in Sendings(pdus)
  PROVE  sent \subseteq pdus
  BY DEF Sendings

LEMMA MaskHas ==
  ASSUME NEW slots, NEW i \in Calls, Talking(slots[i]), slots[i].age <= VoiceQuiet
  PROVE  slots[i].ts \in VoiceMask(slots)
  BY DEF VoiceMask, Talking

LEMMA SetUpFields ==
  ASSUME NEW base \in Slot, NEW cp \in Party \cup {None}, NEW group \in BOOLEAN
  PROVE  LET s == SetUp(base, cp, group) IN
         /\ s.due = SetupGap /\ s.age = 0
         /\ s.state = IF group THEN "CONNECTED" ELSE "CONNECTING"
         /\ s.stage = IF group THEN 1 ELSE 11
  BY DEF SetUp, Slot

(* What a request leaves behind.                                           *)
Answers ==
  /\ \A j \in Calls : Waits(slot'[j])
  /\ \A m \in out' : Granting(m) =>
       /\ m.ts \in mask'
       /\ \E i \in Calls : /\ slot'[i].ssi # None
                           /\ slot'[i].ts = m.ts /\ slot'[i].umt = m.umt

LEMMA PlaceAnswers ==
  ASSUME TypeOK, \A j \in Calls : Waits(slot[j]),
         NEW i \in Calls, NEW base \in Slot, base.ssi # None,
         NEW cp \in Party \cup {None}, NEW group \in BOOLEAN,
         group => cp \in Gssi, Place(i, base, cp, group)
  PROVE  Answers
<1> DEFINE s == SetUp(base, cp, group)
<1>1. /\ s.due = SetupGap /\ s.age = 0 /\ s.ssi # None
      /\ s.state = IF group THEN "CONNECTED" ELSE "CONNECTING"
      /\ s.stage = IF group THEN 1 ELSE 11
  BY SetUpFields, SetUpType
<1>2. /\ slot' = [slot EXCEPT ![i] = s] /\ slot' \in [Calls -> Slot]
  BY PlaceStep
<1>3. IF group THEN out' \subseteq {DConnect(s)} /\ mask' = VoiceMask(slot')
      ELSE out' \subseteq {Plain("AL-SETUP", s.ssi, s),
                           Plain("D-CALL-PROCEEDING", s.ssi, s),
                           Plain("D-ALERT", s.ssi, s), DSetup(s)}
  BY SendingsOnly DEF Place, Staged
<1> HIDE DEF s
<1>4. /\ slot'[i] = s /\ \A j \in Calls \ {i} : slot'[j] = slot[j]
  BY <1>2 DEF TypeOK
<1>5. Waits(s)
  <2>1. s.stage = 1 => Talking(s)
    BY <1>1 DEF Talking
  <2>2. s.due # 0 /\ s.age + s.due <= SetupGap
    BY <1>1
  <2> QED
    BY <2>1, <2>2 DEF Waits
<1>6. \A j \in Calls : Waits(slot'[j])
  BY <1>4, <1>5
<1>7. ASSUME NEW m \in out', Granting(m)
      PROVE  m.ts \in mask' /\ m.ts = s.ts /\ m.umt = s.umt
  <2>1. group /\ m = DConnect(s) /\ mask' = VoiceMask(slot')
    BY <1>3, <1>7, PduFields
  <2>2. Talking(s) /\ s.age <= VoiceQuiet
    BY <1>1, <2>1 DEF Talking
  <2> QED
    BY <1>4, <2>1, <2>2, MaskHas, PduFields
<1> QED
  BY <1>1, <1>4, <1>6, <1>7 DEF Answers

LEMMA SetupAnswers ==
  ASSUME TypeOK, \A j \in Calls : Waits(slot[j]), NEW ms \in Issi,
         NEW cp \in Party \cup {None}, NEW p2mp \in BOOLEAN,
         \/ SetupOwn(ms, cp, p2mp) \/ SetupFloorTransfer(ms, cp, p2mp)
         \/ SetupNew(ms, cp, p2mp) \/ SetupRefused(ms, cp, p2mp)
  PROVE  Answers
<1>1. CASE SetupOwn(ms, cp, p2mp)
  <2>1. PICK i \in Calls : /\ First(i, OwnedBy(ms))
                           /\ Place(i, slot[i], cp, IsGroup(cp, p2mp))
    BY <1>1 DEF SetupOwn
  <2>2. slot[i] \in Slot /\ slot[i].ssi # None
    BY <2>1 DEF TypeOK, First, OwnedBy, InUse
  <2> QED
    BY <2>1, <2>2, PlaceAnswers, GroupIsBoolean
<1>2. CASE SetupFloorTransfer(ms, cp, p2mp)
  <2>1. PICK i \in Calls : Place(i, [slot[i] EXCEPT !.ssi = ms], cp, TRUE)
    BY <1>2 DEF SetupFloorTransfer
  <2>2. cp \in Gssi
    BY <1>2 DEF SetupFloorTransfer, IsGroup
  <2> DEFINE base == [slot[i] EXCEPT !.ssi = ms]
  <2>3. base \in Slot /\ base.ssi # None
    BY DEF TypeOK, Slot
  <2> HIDE DEF base
  <2> QED
    BY <2>1, <2>2, <2>3, PlaceAnswers DEF base
<1>3. CASE SetupNew(ms, cp, p2mp)
  <2>1. PICK i \in Calls, t \in VoiceTs :
          Place(i, NewSlot(ms, t), cp, IsGroup(cp, p2mp))
    BY <1>3 DEF SetupNew
  <2>2. NewSlot(ms, t) \in Slot /\ NewSlot(ms, t).ssi # None
    BY NewSlotType
  <2> QED
    BY <2>1, <2>2, PlaceAnswers, GroupIsBoolean
<1>4. CASE SetupRefused(ms, cp, p2mp)
  BY <1>4 DEF SetupRefused, Answers
<1> QED
  BY <1>1, <1>2, <1>3, <1>4

(* A request that gives slot i the value s and sends no grant, or grants   *)
(* for s only, with the mask computed anew.                                *)
LEMMA ChangeAnswers ==
  ASSUME TypeOK, \A j \in Calls : Waits(slot[j]), NEW i \in Calls, NEW s,
         slot' = [slot EXCEPT ![i] = s], Waits(s),
         \/ \A m \in out' : ~Granting(m)
         \/ /\ Talking(s) /\ s.age <= VoiceQuiet /\ mask' = VoiceMask(slot')
            /\ \A m \in out' : m.ts = s.ts /\ m.umt = s.umt
  PROVE  Answers
<1>1. slot'[i] = s /\ \A j \in Calls \ {i} : slot'[j] = slot[j]
  BY DEF TypeOK
<1>2. \A j \in Calls : Waits(slot'[j])
  BY <1>1
<1>3. CASE \A m \in out' : ~Granting(m)
  BY <1>2, <1>3 DEF Answers
<1>4. CASE /\ Talking(s) /\ s.age <= VoiceQuiet /\ mask' = VoiceMask(slot')
           /\ \A m \in out' : m.ts = s.ts /\ m.umt = s.umt
  <2>1. s.ts \in mask' /\ s.ssi # None
    BY <1>1, <1>4, MaskHas DEF Talking
  <2> QED
    BY <1>1, <1>2, <1>4, <2>1 DEF Answers
<1> QED
  BY <1>3, <1>4

LEMMA RequestAnswers ==
  ASSUME TypeOK, \A j \in Calls : Waits(slot[j]), NEW ms \in Issi,
         \/ \E c \in 0..MaxCallId : TxDemand(ms, c) \/ Connect(ms, c)
         \/ TxCeased(ms) \/ Release(ms)
  PROVE  Answers
<1>1. ASSUME NEW c \in 0..MaxCallId, TxDemand(ms, c)
      PROVE  Answers
  <2>1. PICK i \in Calls : /\ ActsOn(i, ms, c)
                           /\ slot' = [slot EXCEPT ![i] = Demand(i, ms)]
                           /\ Staged({DTxGranted(slot'[i])})
                           /\ mask' = VoiceMask(slot')
    BY <1>1 DEF TxDemand
  <2> DEFINE s == Demand(i, ms)
  <2>2. slot[i] \in Slot
    BY DEF TypeOK
  <2>3. s.ssi = ms /\ s.state = "TALKER" /\ s.age = 0 /\ s.due = slot[i].due
    BY <2>2 DEF Demand, Slot
  <2>4. s.stage = slot[i].stage
    BY <2>2 DEF Demand, Slot
  <2> HIDE DEF s
  <2>5. Talking(s) /\ s.age <= VoiceQuiet
    BY <2>3 DEF Talking
  <2>6. s.stage = 1 => s.due # 0 /\ s.age + s.due <= SetupGap
    <3>1. slot[i].due \in 0..SetupGap
      BY <2>2 DEF Slot
    <3>2. slot[i].stage = 1 => slot[i].due # 0
      BY DEF Waits
    <3> QED
      BY <2>3, <2>4, <3>1, <3>2
  <2>7. Waits(s)
    BY <2>5, <2>6 DEF Waits
  <2>8. slot'[i] = s
    BY <2>1 DEF TypeOK, s
  <2>9. \A m \in out' : m.ts = s.ts /\ m.umt = s.umt
    BY <2>1, <2>8, PduFields, SendingsOnly DEF Staged
  <2> QED
    BY <2>1, <2>5, <2>7, <2>9, ChangeAnswers DEF s
<1>2. ASSUME NEW c \in 0..MaxCallId, Connect(ms, c)
      PROVE  Answers
  <2>1. PICK i \in Calls :
          /\ ActsOn(i, ms, c)
          /\ slot' = [slot EXCEPT ![i].state = "CONNECTED", ![i].stage = 0,
                                  ![i].due = 0, ![i].age = 0]
          /\ Staged({DConnect(slot[i]), DConnectAck(slot[i])})
          /\ mask' = VoiceMask(slot')
    BY <1>2 DEF Connect
  <2> DEFINE s == [slot[i] EXCEPT !.state = "CONNECTED", !.stage = 0,
                                  !.due = 0, !.age = 0]
  <2>2. slot[i] \in Slot
    BY DEF TypeOK
  <2>3. /\ s.ssi = slot[i].ssi /\ s.state = "CONNECTED" /\ s.stage = 0
        /\ s.age = 0 /\ s.ts = slot[i].ts /\ s.umt = slot[i].umt
    BY <2>2 DEF Slot
  <2>4. slot' = [slot EXCEPT ![i] = s]
    BY <2>1, <2>2 DEF Slot, TypeOK
  <2> HIDE DEF s
  <2>5. slot[i].ssi # None
    BY <2>1 DEF ActsOn, First, OwnedBy, WithCallId, InUse
  <2>6. Talking(s) /\ s.age <= VoiceQuiet /\ Waits(s)
    BY <2>3, <2>5 DEF Talking, Waits
  <2>7. \A m \in out' : m.ts = s.ts /\ m.umt = s.umt
    BY <2>1, <2>3, PduFields, SendingsOnly DEF Staged
  <2> QED
    BY <2>1, <2>4, <2>6, <2>7, ChangeAnswers
<1>3. CASE TxCeased(ms)
  <2>1. PICK i \in Calls :
          /\ First(i, OwnedBy(ms))
          /\ slot' = [slot EXCEPT ![i].state = "CONNECTED", ![i].age = 0,
                                  ![i].ceased = TRUE]
          /\ Staged({DTxCeased(slot[i])})
    BY <1>3 DEF TxCeased
  <2> DEFINE s == [slot[i] EXCEPT !.state = "CONNECTED", !.age = 0,
                                  !.ceased = TRUE]
  <2>2. slot[i] \in Slot
    BY DEF TypeOK
  <2>3. /\ s.ssi = slot[i].ssi /\ s.state = "CONNECTED" /\ s.age = 0
        /\ s.stage = slot[i].stage /\ s.due = slot[i].due
    BY <2>2 DEF Slot
  <2>4. slot' = [slot EXCEPT ![i] = s]
    BY <2>1, <2>2 DEF Slot, TypeOK
  <2> HIDE DEF s
  <2>5. s.ssi # None
    BY <2>1, <2>3 DEF First, OwnedBy, InUse
  <2>6. s.stage = 1 => s.due # 0 /\ s.age + s.due <= SetupGap
    <3>1. slot[i].due \in 0..SetupGap
      BY <2>2 DEF Slot
    <3>2. slot[i].stage = 1 => slot[i].due # 0
      BY DEF Waits
    <3> QED
      BY <2>3, <3>1, <3>2
  <2>7. Waits(s)
    BY <2>3, <2>5, <2>6 DEF Talking, Waits
  <2>8. \A m \in out' : ~Granting(m)
    BY <2>1, PduFields, SendingsOnly DEF Staged
  <2> QED
    BY <2>4, <2>7, <2>8, ChangeAnswers
<1>4. CASE Release(ms)
  <2>1. PICK i \in Calls : Freed(i) /\ Staged({DRelease(slot[i])})
    BY <1>4 DEF Release
  <2>2. slot' = [slot EXCEPT ![i] = EmptySlot] /\ Waits(EmptySlot)
    BY <2>1 DEF Freed, Waits, EmptySlot
  <2>3. \A m \in out' : ~Granting(m)
    BY <2>1, PduFields, SendingsOnly DEF Staged
  <2> QED
    BY <2>2, <2>3, ChangeAnswers
<1> QED
  BY <1>1, <1>2, <1>3, <1>4

(* What visiting slot i does to the slots: a talking call that is not      *)
(* quiet stays, and the setup sequence of slot i has moved on.             *)
LEMMA StageStepped ==
  ASSUME NEW s \in Slot, StageStep(s).stage = 1
  PROVE  StageStep(s) = s /\ s.stage = 1 /\ s.due # 0
<1>1. CASE ~StageDue(s)
  BY <1>1 DEF StageStep, StageDue
<1>2. CASE StageDue(s)
  BY <1>2 DEF StageStep, Slot
<1> QED
  BY <1>1, <1>2

LEMMA StageKeepsAge ==
  ASSUME NEW s \in Slot
  PROVE  StageStep(s).age = s.age
  BY DEF StageStep, Slot

(* A slot of the table before and after a visit of slot i: as it was, or   *)
(* its sequence has made a step, or it was heard, or it is empty.          *)
Becomes(s, r) ==
  /\ r.ssi = s.ssi /\ r.state = s.state /\ r.ts = s.ts /\ r.umt = s.umt
  /\ r.age \in {0, s.age}
  /\ r.stage = 1 => s.stage = 1 /\ r.due = s.due

LEMMA RefreshBecomes ==
  ASSUME NEW slots \in [Calls -> Slot], NEW t, NEW j \in Calls
  PROVE  /\ Becomes(slots[j], Refresh(slots, t)[j])
         /\ Refresh(slots, t)[j].stage = slots[j].stage
<1>1. slots[j] \in Slot
  OBVIOUS
<1>2. /\ Becomes(slots[j], [slots[j] EXCEPT !.age = 0])
      /\ [slots[j] EXCEPT !.age = 0].stage = slots[j].stage
  BY <1>1 DEF Slot, Becomes
<1>3. Refresh(slots, t)[j] \in {slots[j], [slots[j] EXCEPT !.age = 0]}
  BY DEF Refresh
<1> QED
  BY <1>1, <1>2, <1>3 DEF Becomes

LEMMA VisitActiveBecomes ==
  ASSUME TypeOK, NEW i \in Calls, VisitActive(i)
  PROVE  /\ \A j \in Calls : Becomes(slot[j], slot'[j])
         /\ slot'[i].stage = 1 => slot[i].due # 0
<1> DEFINE stepped == [slot EXCEPT ![i] = StageStep(@)]
<1>1. slot[i] \in Slot
  BY DEF TypeOK
<1>2. /\ StageStep(slot[i]) \in Slot
      /\ Becomes(slot[i], StageStep(slot[i]))
      /\ StageStep(slot[i]).stage = 1 => slot[i].due # 0
  BY <1>1, StageStepType, StageStepped, StageKeepsAge DEF Becomes
<1>3. /\ stepped \in [Calls -> Slot]
      /\ stepped[i] = StageStep(slot[i])
      /\ \A j \in Calls \ {i} : stepped[j] = slot[j]
  BY <1>2 DEF TypeOK
<1> HIDE DEF stepped
<1>4. \A j \in Calls : Becomes(slot[j], slot[j])
  BY DEF Becomes
<1>5. /\ \A j \in Calls : Becomes(slot[j], stepped[j])
      /\ stepped[i].stage = 1 => slot[i].due # 0
  BY <1>2, <1>3, <1>4
<1>6. CASE slot' = stepped
  BY <1>5, <1>6
<1>7. ASSUME NEW t \in BurstTs, slot' = Refresh(stepped, t)
      PROVE  /\ \A j \in Calls : Becomes(slot[j], slot'[j])
             /\ slot'[i].stage = 1 => slot[i].due # 0
  <2>1. \A j \in Calls : /\ Becomes(stepped[j], slot'[j])
                         /\ slot'[j].stage = stepped[j].stage
    BY <1>3, <1>7, RefreshBecomes
  <2> QED
    BY <1>5, <2>1 DEF Becomes
<1> QED
  BY <1>6, <1>7 DEF VisitActive, stepped

LEMMA VisitBecomes ==
  ASSUME TypeOK, RoundsShort, InTime, NEW i \in Calls,
         \/ VisitEmpty(i) \/ VisitRinging(i) \/ RingTimeout(i) \/ Watchdog(i)
         \/ VisitActive(i)
  PROVE  /\ \A j \in Calls :
              Becomes(slot[j], slot'[j]) \/ (j = i /\ slot'[j] = EmptySlot)
         /\ slot'[i].stage = 1 => slot[i].due # 0
         /\ Talking(slot[i]) /\ slot[i].age <= VoiceQuiet => slot'[i] # EmptySlot
         /\ \A m \in out' : Granting(m) =>
              m \in out \/ (Overdue(slot[i]) /\ m = DConnect(slot[i]))
<1>1. slot[i] \in Slot /\ (Waits(slot[i]) \/ Overdue(slot[i]))
  BY DEF TypeOK, InTime
<1>2. \A j \in Calls : Becomes(slot[j], slot[j])
  BY DEF Becomes
<1>3. \A m \in StagePdus(slot[i]) :
        Granting(m) => Overdue(slot[i]) /\ m = DConnect(slot[i])
  <2>1. CASE ~StageDue(slot[i])
    BY <2>1 DEF StagePdus
  <2>2. CASE StageDue(slot[i]) /\ slot[i].stage = 1
    <3>1. StagePdus(slot[i]) = {DConnect(slot[i])}
      BY <2>2 DEF StagePdus
    <3>2. Overdue(slot[i])
      BY <1>1, <2>2 DEF StageDue, Waits, Overdue
    <3> QED
      BY <3>1, <3>2
  <2>3. CASE StageDue(slot[i]) /\ slot[i].stage # 1
    <3>1. StagePdus(slot[i]) \subseteq {DSetup(slot[i])}
      BY <2>3 DEF StagePdus
    <3> QED
      BY <3>1, PduFields
  <2> QED
    BY <2>1, <2>2, <2>3
<1>4. \A m \in out' : Granting(m) => m \in out \/ m \in StagePdus(slot[i])
  <2>1. CASE VisitEmpty(i)
    BY <2>1 DEF VisitEmpty
  <2>2. CASE VisitRinging(i) \/ Watchdog(i) \/ VisitActive(i)
    <3>1. StagedToo(StagePdus(slot[i]))
      BY <2>2 DEF VisitRinging, Watchdog, VisitActive
    <3> QED
      BY <3>1, SendingsOnly DEF StagedToo
  <2>3. CASE RingTimeout(i)
    <3>1. StagedToo(StagePdus(slot[i]) \cup {DRelease(slot[i])})
      BY <2>3 DEF RingTimeout
    <3> QED
      BY <3>1, SendingsOnly, PduFields DEF StagedToo
  <2> QED
    BY <2>1, <2>2, <2>3
<1>5. /\ \A j \in Calls :
           Becomes(slot[j], slot'[j]) \/ (j = i /\ slot'[j] = EmptySlot)
      /\ slot'[i].stage = 1 => slot[i].due # 0
      /\ Talking(slot[i]) /\ slot[i].age <= VoiceQuiet => slot'[i] # EmptySlot
  <2>1. CASE VisitEmpty(i)
    <3>1. slot' = slot /\ ~Talking(slot[i])
      BY <2>1 DEF VisitEmpty, InUse, Talking
    <3> QED
      BY <1>1, <1>2, <3>1 DEF Waits, Overdue
  <2>2. CASE VisitRinging(i)
    <3>1. slot' = [slot EXCEPT ![i] = StageStep(slot[i])] /\ ~Talking(slot[i])
      BY <2>2 DEF VisitRinging, Talking
    <3>2. slot'[i] = StageStep(slot[i]) /\ \A j \in Calls \ {i} : slot'[j] = slot[j]
      BY <3>1 DEF TypeOK
    <3>3. Becomes(slot[i], StageStep(slot[i]))
          /\ (StageStep(slot[i]).stage = 1 => slot[i].due # 0)
      BY <1>1, StageStepType, StageStepped, StageKeepsAge DEF Becomes, TypeOK
    <3> QED
      BY <1>2, <3>1, <3>2, <3>3
  <2>3. CASE RingTimeout(i) \/ Watchdog(i)
    <3>1. slot' = [slot EXCEPT ![i] = EmptySlot]
      BY <2>3 DEF RingTimeout, Watchdog, Freed
    <3>2. slot'[i] = EmptySlot /\ \A j \in Calls \ {i} : slot'[j] = slot[j]
      BY <3>1 DEF TypeOK
    <3>3. EmptySlot.stage # 1
      BY DEF EmptySlot
    <3>4. ~(Talking(slot[i]) /\ slot[i].age <= VoiceQuiet)
      <4>1. CASE RingTimeout(i)
        BY <4>1 DEF RingTimeout, Talking
      <4>2. CASE Watchdog(i)
        <5>1. slot[i].age > CallStale /\ slot[i].age \in 0..Oldest
          BY <4>2, <1>1 DEF Watchdog, TypeOK, Slot
        <5> QED
          BY <5>1, ConstantTypes DEF RoundsShort
      <4> QED
        BY <2>3, <4>1, <4>2
    <3> QED
      BY <1>2, <3>2, <3>3, <3>4
  <2>4. CASE VisitActive(i)
    <3>1. /\ \A j \in Calls : Becomes(slot[j], slot'[j])
          /\ slot'[i].stage = 1 => slot[i].due # 0
      BY <2>4, VisitActiveBecomes
    <3>2. Talking(slot[i]) => slot'[i] # EmptySlot
      BY <3>1 DEF Becomes, Talking, EmptySlot
    <3> QED
      BY <3>1, <3>2
  <2> QED
    BY <2>1, <2>2, <2>3, <2>4
<1> QED
  BY <1>3, <1>4, <1>5

(* The setup sequences stay in time.                                       *)
LEMMA InTimeVisit ==
  ASSUME TypeOK, RoundsShort, InTime, TickSlot
  PROVE  InTime'
<1>1. PICK i \in Calls :
        \/ VisitEmpty(i) \/ VisitRinging(i) \/ RingTimeout(i) \/ Watchdog(i)
        \/ VisitActive(i)
  BY DEF TickSlot
<1>2. pc = "tick" /\ pc' = "tick" /\ cursor = i /\ cursor' = i + 1
  BY <1>1 DEF VisitEmpty, VisitRinging, RingTimeout, Watchdog, VisitActive,
              Visit, NextSlot
<1>3. ASSUME NEW j \in Calls, Becomes(slot[j], slot'[j]),
             j = i /\ slot'[j].stage = 1 => slot[j].due # 0
      PROVE  Waits(slot'[j]) \/ (cursor' <= j /\ Overdue(slot'[j]))
  <2>1. Waits(slot[j]) \/ (cursor <= j /\ Overdue(slot[j]))
    BY DEF InTime
  <2>2. slot[j].age \in 0..Oldest /\ slot[j].due \in 0..SetupGap
    BY DEF TypeOK, Slot
  <2>3. Talking(slot[j]) => Talking(slot'[j])
    BY <1>3 DEF Becomes, Talking
  <2>4. CASE slot'[j].stage # 1
    BY <2>4 DEF Waits
  <2>5. CASE slot'[j].stage = 1 /\ Waits(slot[j])
    <3>1. /\ slot'[j].due = slot[j].due /\ slot'[j].age \in {0, slot[j].age}
          /\ slot[j].stage = 1
      BY <1>3, <2>5 DEF Becomes
    <3>2. slot'[j].due # 0 /\ slot'[j].age + slot'[j].due <= SetupGap
      BY <2>2, <2>5, <3>1, ConstantTypes DEF Waits
    <3> QED
      BY <2>3, <2>5, <3>1, <3>2 DEF Waits
  <2>6. CASE slot'[j].stage = 1 /\ cursor <= j /\ Overdue(slot[j])
    <3>1. /\ slot'[j].due = slot[j].due /\ slot'[j].age \in {0, slot[j].age}
      BY <1>3, <2>6 DEF Becomes
    <3>2. j # i /\ cursor' <= j
      BY <1>2, <1>3, <2>6, <3>1 DEF Overdue, Calls
    <3>3. slot'[j].age <= VoiceQuiet
      BY <2>6, <3>1 DEF Overdue
    <3> QED
      BY <2>3, <2>6, <3>1, <3>2, <3>3 DEF Overdue
  <2> QED
    BY <2>1, <2>4, <2>5, <2>6
<1>4. Waits(EmptySlot)
  BY DEF Waits, EmptySlot
<1>5. \A j \in Calls : \/ Becomes(slot[j], slot'[j])
                       \/ slot'[j] = EmptySlot
  BY <1>1, VisitBecomes
<1>6. slot'[i].stage = 1 => slot[i].due # 0
  BY <1>1, VisitBecomes
<1> QED
  BY <1>2, <1>3, <1>4, <1>5, <1>6 DEF InTime

LEMMA InTimeElapse ==
  ASSUME TypeOK, RoundsShort, InTime, LoopStarts, Elapse
  PROVE  InTime'
<1>1. PICK d \in Delays : slot' = [j \in Calls |-> Older(slot[j], d)]
  BY DEF Elapse
<1>2. pc = "sleep" /\ pc' = "tick" /\ cursor' = 1
  BY DEF Elapse, LoopStarts
<1>3. ASSUME NEW j \in Calls
      PROVE  Waits(slot'[j]) \/ Overdue(slot'[j])
  <2> DEFINE s == slot[j]
             r == Older(s, d)
  <2>1. s \in Slot /\ Waits(s) /\ slot'[j] = r
    BY <1>1, <1>2 DEF TypeOK, InTime
  <2>2. r.ssi = s.ssi /\ r.state = s.state /\ r.stage = s.stage
    BY <2>1, OlderType
  <2>3. CASE s.stage # 1 \/ s.ssi = None
    BY <2>1, <2>2, <2>3 DEF Waits, Talking
  <2>4. CASE s.stage = 1 /\ s.ssi # None
    <3>1. r.due = IF s.due <= d THEN 0 ELSE s.due - d
      BY <2>1, <2>4 DEF Older, Slot
    <3>2. r.age = IF s.age + d > Oldest THEN Oldest ELSE s.age + d
      BY <2>1, <2>4 DEF Older, Slot
    <3>3. s.age \in Nat /\ s.due \in Nat /\ d \in Nat /\ Oldest \in Nat
      <4>1. s.age \in 0..Oldest /\ s.due \in 0..SetupGap
        BY <2>1 DEF Slot
      <4> QED
        BY <4>1, ConstantTypes
    <3>4. Talking(s) /\ s.due # 0 /\ s.age + s.due <= SetupGap
      BY <2>1, <2>4 DEF Waits
    <3>5. r.age <= s.age + d
      <4> HIDE DEF s, r
      <4> QED
        BY <3>2, <3>3
    <3>6. Talking(r) /\ r.stage = 1
      BY <2>2, <2>4, <3>4 DEF Talking
    <3> HIDE DEF s, r
    <3>7. SetupGap + d <= VoiceQuiet + 1
      BY DEF RoundsShort
    <3>8. CASE s.due <= d
      <4>1. r.due = 0 /\ r.age <= VoiceQuiet
        <5>1. r.age \in Nat
          BY <3>2, <3>3
        <5> QED
          BY <3>1, <3>3, <3>4, <3>5, <3>7, <3>8, <5>1
      <4> QED
        BY <2>1, <3>6, <4>1 DEF Overdue
    <3>9. CASE ~(s.due <= d)
      <4>1. r.due # 0 /\ r.age + r.due <= SetupGap
        <5>1. r.age \in Nat
          BY <3>2, <3>3
        <5> QED
          BY <3>1, <3>3, <3>4, <3>5, <3>9, <5>1
      <4> QED
        BY <2>1, <3>6, <4>1 DEF Waits
    <3> QED
      BY <3>8, <3>9
  <2> QED
    BY <2>3, <2>4
<1> QED
  BY <1>2, <1>3 DEF InTime, Calls

LEMMA HandleAnswers ==
  ASSUME TypeOK, InTime, HandleCmce
  PROVE  Answers /\ pc' = "sleep" /\ cursor' = cursor
<1>1. \A j \in Calls : Waits(slot[j])
  BY DEF InTime, HandleCmce
<1>2. PICK ms \in Issi :
       \/ \E cp \in Party \cup {None}, p2mp \in BOOLEAN :
            \/ SetupOwn(ms, cp, p2mp)
            \/ SetupFloorTransfer(ms, cp, p2mp)
            \/ SetupNew(ms, cp, p2mp)
            \/ SetupRefused(ms, cp, p2mp)
       \/ \E c \in 0..MaxCallId : TxDemand(ms, c) \/ Connect(ms, c)
       \/ TxCeased(ms)
       \/ Release(ms)
  BY DEF HandleCmce
<1>3. Answers
  BY <1>1, <1>2, SetupAnswers, RequestAnswers
<1> QED
  BY <1>3 DEF HandleCmce

LEMMA GrantStep ==
  ASSUME TypeOK, ChannelsInv, ChannelsInv', RoundsShort, GrantInv, [Next]_vars
  PROVE  GrantInv'
<1>1. CASE TickSlot
  <2>1. PICK i \in Calls :
          \/ VisitEmpty(i) \/ VisitRinging(i) \/ RingTimeout(i) \/ Watchdog(i)
          \/ VisitActive(i)
    BY <1>1 DEF TickSlot
  <2>2. pc = "tick" /\ pc' = "tick"
    BY <2>1 DEF VisitEmpty, VisitRinging, RingTimeout, Watchdog, VisitActive,
                Visit
  <2>3. ASSUME NEW j \in Calls, NEW m, Live(j, m)
        PROVE  Live(j, m)'
    <3>1. Becomes(slot[j], slot'[j])
      BY <2>1, <2>3, VisitBecomes DEF GrantInv, Live
    <3>2. slot'[j].age <= VoiceQuiet
      BY <2>3, <3>1 DEF Becomes, Live
    <3> QED
      BY <2>3, <3>1, <3>2 DEF Becomes, Live, Talking
  <2>4. ASSUME NEW m \in out', Granting(m)
        PROVE  \E j \in Calls : Live(j, m)
    <3>1. CASE m \in out
      BY <2>2, <2>4, <3>1 DEF GrantInv, TickGrantsLive
    <3>2. CASE Overdue(slot[i]) /\ m = DConnect(slot[i])
      BY <3>2, PduFields DEF Overdue, Live
    <3> QED
      BY <2>1, <2>4, <3>1, <3>2, VisitBecomes DEF GrantInv
  <2>5. TickGrantsLive'
    BY <2>3, <2>4 DEF TickGrantsLive
  <2>6. InTime'
    BY <1>1, InTimeVisit DEF GrantInv
  <2> QED
    BY <2>2, <2>5, <2>6 DEF GrantInv, LoopStarts, GrantedOnLiveChannel
<1>2. CASE TickEnd
  <2>1. /\ pc = "tick" /\ pc' = "rx" /\ cursor' = 1 /\ cursor > MaxCalls
        /\ mask' = VoiceMask(slot) /\ UNCHANGED <<slot, aach, out>>
    BY <1>2 DEF TickEnd
  <2>2. InTime'
    BY <2>1 DEF GrantInv, InTime, Calls, TypeOK
  <2>3. ASSUME NEW m \in out, Granting(m)
        PROVE  m.ts \in mask' /\ aach[m.ts] = m.umt
    <3>1. PICK j \in Calls : Live(j, m)
      BY <2>1, <2>3 DEF GrantInv, TickGrantsLive
    <3>2. m.ts \in mask'
      BY <2>1, <3>1, MaskHas DEF Live
    <3>3. InUse(j)
      BY <3>1 DEF Live, Talking, InUse
    <3> QED
      BY <3>1, <3>2, <3>3 DEF Live, ChannelsInv, AachFollowsCalls
  <2>4. GrantedOnLiveChannel'
    BY <2>1, <2>3 DEF GrantedOnLiveChannel, Granting
  <2> QED
    BY <2>1, <2>2, <2>4 DEF GrantInv, LoopStarts, TickGrantsLive
<1>3. CASE HandleCmce
  <2>1. Answers /\ pc' = "sleep" /\ cursor' = 1
    BY <1>3, HandleAnswers DEF GrantInv, LoopStarts, HandleCmce
  <2>2. GrantedOnLiveChannel'
    <3> SUFFICES ASSUME NEW m \in out', Granting(m)
                 PROVE  m.ts \in mask' /\ aach'[m.ts] = m.umt
      BY DEF GrantedOnLiveChannel, Granting
    <3>1. PICK i \in Calls : /\ slot'[i].ssi # None
                             /\ slot'[i].ts = m.ts /\ slot'[i].umt = m.umt
      BY <2>1 DEF Answers
    <3> QED
      BY <2>1, <3>1 DEF Answers, ChannelsInv, AachFollowsCalls, InUse
  <2>3. InTime'
    BY <2>1 DEF Answers, InTime
  <2> QED
    BY <2>1, <2>2, <2>3 DEF GrantInv, LoopStarts, TickGrantsLive
<1>4. CASE NoCmce
  <2>1. /\ pc = "rx" /\ pc' = "sleep" /\ UNCHANGED <<cursor, slot>> /\ out' = {}
    BY <1>4 DEF NoCmce, NothingToDo
  <2> QED
    BY <2>1 DEF GrantInv, InTime, LoopStarts, TickGrantsLive,
                GrantedOnLiveChannel
<1>5. ASSUME NEW g \in Gssi, LateEntry(g)
      PROVE  GrantInv'
  <2>1. /\ pc = "rx" /\ UNCHANGED <<pc, cursor, slot>>
        /\ Staged({DSetup(slot[i]) : i \in {j \in WithGssi(g) :
                      slot[j].state \in {"CONNECTED", "TALKER"}}})
    BY <1>5 DEF LateEntry
  <2>2. \A m \in out' : ~Granting(m)
    BY <2>1, PduFields, SendingsOnly DEF Staged
  <2> QED
    BY <2>1, <2>2 DEF GrantInv, InTime, LoopStarts, TickGrantsLive,
                      GrantedOnLiveChannel, Granting
<1>6. CASE Elapse
  <2>1. pc' = "tick" /\ out' = {}
    BY <1>6 DEF Elapse
  <2>2. InTime'
    BY <1>6, InTimeElapse DEF GrantInv
  <2> QED
    BY <2>1, <2>2 DEF GrantInv, LoopStarts, TickGrantsLive,
                      GrantedOnLiveChannel
<1>7. CASE UNCHANGED vars
  BY <1>7 DEF vars, GrantInv, InTime, LoopStarts, TickGrantsLive, Live,
              GrantedOnLiveChannel
<1> QED
  BY <1>1, <1>2, <1>3, <1>4, <1>5, <1>6, <1>7 DEF Next

(* A mobile told to transmit finds its channel on the air, also when the   *)
(* PDU is the D-CONNECT that the tick repeats, as long as a round of the   *)
(* loop and the gap between two setup PDUs fit in the 300 ms after which a *)
(* call counts as quiet.                                                   *)
THEOREM GrantedOnLiveChannelCorrect ==
  ASSUME RoundsShort PROVE Spec => []GrantedOnLiveChannel
<1>1. Init => GrantInv
  BY DEF Init, GrantInv, InTime, Waits, LoopStarts, TickGrantsLive,
         GrantedOnLiveChannel, EmptySlot
<1>2. TypeOK /\ ChannelsInv /\ ChannelsInv' /\ GrantInv /\ [Next]_vars
        => GrantInv'
  BY GrantStep
<1>3. Spec => []ChannelsInv
  BY ChannelsCorrect DEF ChannelsInv
<1>4. GrantInv => GrantedOnLiveChannel
  BY DEF GrantInv
<1> QED
  BY <1>1, <1>2, <1>3, <1>4, TypeCorrect, PTL DEF Spec

-----------------------------------------------------------------------------
(* How long a call that nobody uses and a setup sequence can last.  Each   *)
(* has an upper bound on the rounds of the loop it has left: no step makes *)
(* it grow, and each round takes some of it.  The bound of a call is set   *)
(* anew only when the call is attended to, the bound of a sequence only    *)
(* when the call is set up again.                                          *)

(* The tick has been at slot i in this round.                              *)
Past(i) == pc # "tick" \/ cursor > i

Limit(s) == IF s.state = "CONNECTING" THEN AlertTimeout ELSE CallStale

(* What the tick has passed is within its limit, and its setup sequence    *)
(* waits for a time still to come; an empty slot has no sequence.          *)
WithinLimits ==
  \A i \in Calls :
    /\ InUse(i) /\ Past(i) => slot[i].age <= Limit(slot[i])
    /\ slot[i].stage # 0 => InUse(i) /\ (Past(i) => slot[i].due # 0)

(* The time that call s has left, and its setup sequence.                  *)
CallLeft(s) == IF s.age > Limit(s) THEN 0 ELSE Limit(s) + 1 - s.age

SetupLeft(s) ==
  IF s.stage = 0 THEN 0
  ELSE s.due + 1 + (IF s.stage = 1 THEN SetupGap + 1 ELSE 0)

SetAnew(s) == s.stage \in {1, 11} /\ s.due = SetupGap

(* A step leaves the time that is left alone, the sleep takes some of it.  *)
RunsOut(before, after) ==
  IF pc = "sleep" THEN after < before ELSE after <= before

CallRunsOut(i) ==
  InUse(i) /\ ~Attended(i) =>
    ~InUse(i)' \/ RunsOut(CallLeft(slot[i]), CallLeft(slot'[i]))

SetupRunsOut(i) ==
  slot[i].stage # 0 =>
    SetAnew(slot'[i]) \/ RunsOut(SetupLeft(slot[i]), SetupLeft(slot'[i]))

TimeRunsOut == [][\A i \in Calls : CallRunsOut(i) /\ SetupRunsOut(i)]_vars

(* A slot the tick is not at: as it was, or its timeslot was heard.        *)
Moved(s, r) ==
  /\ r.ssi = s.ssi /\ r.state = s.state
  /\ r.stage = s.stage /\ r.due = s.due
  /\ r.age \in {0, s.age}

LEMMA RefreshMoves ==
  ASSUME NEW slots \in [Calls -> Slot], NEW t, NEW j \in Calls
  PROVE  Moved(slots[j], Refresh(slots, t)[j])
<1>1. slots[j] \in Slot
  OBVIOUS
<1>2. Moved(slots[j], [slots[j] EXCEPT !.age = 0]) /\ Moved(slots[j], slots[j])
  BY <1>1 DEF Slot, Moved
<1>3. Refresh(slots, t)[j] \in {slots[j], [slots[j] EXCEPT !.age = 0]}
  BY DEF Refresh
<1> QED
  BY <1>2, <1>3

(* A step of the setup sequence takes the sequence nearer to its end.      *)
LEMMA StageRuns ==
  ASSUME NEW s \in Slot
  PROVE  /\ StageStep(s).ssi = s.ssi /\ StageStep(s).state = s.state
         /\ StageStep(s).age = s.age
         /\ StageStep(s).stage # 0 => s.stage # 0 /\ StageStep(s).due # 0
         /\ SetupLeft(StageStep(s)) <= SetupLeft(s)
<1>1. /\ s.stage \in {0, 1, 2, 11} /\ s.due \in Nat
      /\ SetupGap \in Nat \ {0}
  BY DEF Slot
<1>2. /\ StageStep(s).ssi = s.ssi /\ StageStep(s).state = s.state
      /\ StageStep(s).age = s.age
  BY StageStepType, StageKeepsAge
<1>3. CASE ~StageDue(s)
  <2>1. StageStep(s) = s
    BY <1>3 DEF StageStep
  <2> QED
    BY <1>1, <1>2, <1>3, <2>1 DEF StageDue, SetupLeft
<1>4. CASE StageDue(s)
  <2>1. /\ StageStep(s).stage = IF s.stage = 1 THEN 2 ELSE 0
        /\ StageStep(s).due = IF s.stage = 1 THEN SetupGap ELSE 0
    BY <1>4 DEF StageStep, Slot
  <2> QED
    BY <1>1, <1>2, <1>4, <2>1 DEF StageDue, SetupLeft
<1> QED
  BY <1>3, <1>4

LEMMA VisitMoves ==
  ASSUME TypeOK, NEW i \in Calls,
         \/ VisitEmpty(i) \/ VisitRinging(i) \/ RingTimeout(i) \/ Watchdog(i)
         \/ VisitActive(i)
  PROVE  /\ \A j \in Calls \ {i} : Moved(slot[j], slot'[j])
         /\ \/ slot'[i] = EmptySlot
            \/ ~InUse(i) /\ slot'[i] = slot[i]
            \/ /\ InUse(i) /\ slot[i].age <= Limit(slot[i])
               /\ Moved(StageStep(slot[i]), slot'[i])
<1>1. slot \in [Calls -> Slot]
  BY DEF TypeOK
<1>2. \A s : Moved(s, s)
  BY DEF Moved
<1>3. StageStep(slot[i]) \in Slot
  BY <1>1, StageStepType
<1>4. CASE VisitEmpty(i)
  BY <1>2, <1>4 DEF VisitEmpty
<1>5. CASE VisitRinging(i)
  <2>1. slot' = [slot EXCEPT ![i] = StageStep(slot[i])]
    BY <1>5 DEF VisitRinging
  <2>2. /\ slot'[i] = StageStep(slot[i])
        /\ \A j \in Calls \ {i} : slot'[j] = slot[j]
    BY <1>1, <2>1
  <2>3. InUse(i) /\ slot[i].age <= Limit(slot[i])
    BY <1>5 DEF VisitRinging, Limit
  <2> QED
    BY <1>2, <2>2, <2>3
<1>6. CASE RingTimeout(i) \/ Watchdog(i)
  <2>1. slot' = [slot EXCEPT ![i] = EmptySlot]
    BY <1>6 DEF RingTimeout, Watchdog, Freed
  <2>2. slot'[i] = EmptySlot /\ \A j \in Calls \ {i} : slot'[j] = slot[j]
    BY <1>1, <2>1
  <2> QED
    BY <1>2, <2>2
<1>7. CASE VisitActive(i)
  <2> DEFINE stepped == [slot EXCEPT ![i] = StageStep(@)]
  <2>1. /\ stepped \in [Calls -> Slot]
        /\ stepped[i] = StageStep(slot[i])
        /\ \A j \in Calls \ {i} : stepped[j] = slot[j]
    BY <1>1, <1>3
  <2>2. slot' = stepped \/ \E t \in BurstTs : slot' = Refresh(stepped, t)
    BY <1>7 DEF VisitActive
  <2> HIDE DEF stepped
  <2>3. \A j \in Calls : Moved(stepped[j], slot'[j])
    BY <1>2, <2>1, <2>2, RefreshMoves
  <2>4. InUse(i) /\ slot[i].age <= Limit(slot[i])
    BY <1>7 DEF VisitActive, Limit
  <2> QED
    BY <2>1, <2>3, <2>4
<1> QED
  BY <1>4, <1>5, <1>6, <1>7

(* Speech on the timeslot of a call is heard as that call, so the age of a *)
(* call that is not attended to stays.                                     *)
LEMMA HeardIsAttended ==
  ASSUME TypeOK, OneCallPerTimeslot, NEW k \in Calls, VisitActive(k),
         NEW i \in Calls, InUse(i), ~Attended(i)
  PROVE  slot'[i].age = slot[i].age
<1> DEFINE stepped == [slot EXCEPT ![k] = StageStep(@)]
<1>1. slot \in [Calls -> Slot]
  BY DEF TypeOK
<1>2. /\ stepped \in [Calls -> Slot]
      /\ stepped[i].age = slot[i].age /\ stepped[i].ts = slot[i].ts
  BY <1>1, StageStepType, StageKeepsAge
<1>3. CASE slot' = stepped
  BY <1>2, <1>3
<1>4. ASSUME NEW t \in BurstTs, slot' = Refresh(stepped, t),
             bank' = [Quieted(k) EXCEPT ![t] = Heard(t)]
      PROVE  slot'[i].age = slot[i].age
  <2>1. bank'[t] = Heard(t)
    BY <1>4, QuietedType DEF AirTs
  <2>2. slot[i].ts # t
    <3> SUFFICES ASSUME slot[i].ts = t PROVE FALSE
      OBVIOUS
    <3>1. i \in OnTs(t)
      BY DEF OnTs
    <3>2. (CHOOSE j \in OnTs(t) : TRUE) \in OnTs(t)
      BY <3>1
    <3>3. (CHOOSE j \in OnTs(t) : TRUE) = i
      BY <3>1, <3>2 DEF OnTs, OneCallPerTimeslot
    <3>4. Heard(t) = slot[i].callId
      BY <3>1, <3>3 DEF Heard
    <3>5. pc = "tick"
      BY DEF VisitActive, Visit
    <3> QED
      BY <2>1, <3>4, <3>5 DEF Attended
  <2> HIDE DEF stepped
  <2>3. slot'[i] = stepped[i]
    BY <1>2, <1>4, <2>2 DEF Refresh
  <2> QED
    BY <1>2, <2>3
<1> QED
  BY <1>3, <1>4 DEF VisitActive, stepped

(* A slot after a request: as it was, empty, or its call starts from age   *)
(* zero with its sequence ended, set anew or left alone.                   *)
Renewed(s, r) ==
  \/ r \in {s, EmptySlot}
  \/ /\ r.age = 0 /\ r.ssi # None
     /\ \/ r.stage = 0 \/ SetAnew(r)
        \/ s.ssi # None /\ r.stage = s.stage /\ r.due = s.due

LEMMA PlaceRenews ==
  ASSUME TypeOK, NEW i \in Calls, NEW base \in Slot, base.ssi # None,
         NEW cp \in Party \cup {None}, NEW group \in BOOLEAN,
         group => cp \in Gssi, Place(i, base, cp, group)
  PROVE  \A j \in Calls : Renewed(slot[j], slot'[j])
<1> DEFINE s == SetUp(base, cp, group)
<1>1. /\ s.due = SetupGap /\ s.age = 0 /\ s.ssi # None
      /\ s.stage = IF group THEN 1 ELSE 11
  BY SetUpFields, SetUpType
<1>2. slot' = [slot EXCEPT ![i] = s]
  BY PlaceStep
<1> HIDE DEF s
<1>3. /\ slot'[i] = s /\ \A j \in Calls \ {i} : slot'[j] = slot[j]
  BY <1>2 DEF TypeOK
<1> QED
  BY <1>1, <1>3 DEF Renewed, SetAnew

LEMMA SetupRenews ==
  ASSUME TypeOK, NEW ms \in Issi, NEW cp \in Party \cup {None},
         NEW p2mp \in BOOLEAN,
         \/ SetupOwn(ms, cp, p2mp) \/ SetupFloorTransfer(ms, cp, p2mp)
         \/ SetupNew(ms, cp, p2mp) \/ SetupRefused(ms, cp, p2mp)
  PROVE  \A j \in Calls : Renewed(slot[j], slot'[j])
<1>1. CASE SetupOwn(ms, cp, p2mp)
  <2>1. PICK i \in Calls : /\ First(i, OwnedBy(ms))
                           /\ Place(i, slot[i], cp, IsGroup(cp, p2mp))
    BY <1>1 DEF SetupOwn
  <2>2. slot[i] \in Slot /\ slot[i].ssi # None
    BY <2>1 DEF TypeOK, First, OwnedBy, InUse
  <2> QED
    BY <2>1, <2>2, PlaceRenews, GroupIsBoolean
<1>2. CASE SetupFloorTransfer(ms, cp, p2mp)
  <2>1. PICK i \in Calls : Place(i, [slot[i] EXCEPT !.ssi = ms], cp, TRUE)
    BY <1>2 DEF SetupFloorTransfer
  <2>2. cp \in Gssi
    BY <1>2 DEF SetupFloorTransfer, IsGroup
  <2> DEFINE base == [slot[i] EXCEPT !.ssi = ms]
  <2>3. base \in Slot /\ base.ssi # None
    BY DEF TypeOK, Slot
  <2> HIDE DEF base
  <2> QED
    BY <2>1, <2>2, <2>3, PlaceRenews DEF base
<1>3. CASE SetupNew(ms, cp, p2mp)
  <2>1. PICK i \in Calls, t \in VoiceTs :
          Place(i, NewSlot(ms, t), cp, IsGroup(cp, p2mp))
    BY <1>3 DEF SetupNew
  <2>2. NewSlot(ms, t) \in Slot /\ NewSlot(ms, t).ssi # None
    BY NewSlotType
  <2> QED
    BY <2>1, <2>2, PlaceRenews, GroupIsBoolean
<1>4. CASE SetupRefused(ms, cp, p2mp)
  BY <1>4 DEF SetupRefused, Renewed
<1> QED
  BY <1>1, <1>2, <1>3, <1>4

LEMMA RequestRenews ==
  ASSUME TypeOK, NEW ms \in Issi,
         \/ \E c \in 0..MaxCallId : TxDemand(ms, c) \/ Connect(ms, c)
         \/ TxCeased(ms) \/ Release(ms)
  PROVE  \A j \in Calls : Renewed(slot[j], slot'[j])
<1>1. ASSUME NEW i \in Calls, NEW s, slot' = [slot EXCEPT ![i] = s],
             Renewed(slot[i], s)
      PROVE  \A j \in Calls : Renewed(slot[j], slot'[j])
  <2>1. slot'[i] = s /\ \A j \in Calls \ {i} : slot'[j] = slot[j]
    BY <1>1 DEF TypeOK
  <2> QED
    BY <1>1, <2>1 DEF Renewed
<1>2. ASSUME NEW c \in 0..MaxCallId, TxDemand(ms, c)
      PROVE  \A j \in Calls : Renewed(slot[j], slot'[j])
  <2>1. PICK i \in Calls : /\ ActsOn(i, ms, c)
                           /\ slot' = [slot EXCEPT ![i] = Demand(i, ms)]
    BY <1>2 DEF TxDemand
  <2>2. slot[i] \in Slot /\ slot[i].ssi # None
    BY <2>1 DEF TypeOK, ActsOn, First, OwnedBy, WithCallId, InUse
  <2>3. /\ Demand(i, ms).ssi = ms /\ Demand(i, ms).age = 0
        /\ Demand(i, ms).stage = slot[i].stage
        /\ Demand(i, ms).due = slot[i].due
    BY <2>2 DEF Demand, Slot
  <2> QED
    BY <1>1, <2>1, <2>2, <2>3 DEF Renewed
<1>3. ASSUME NEW c \in 0..MaxCallId, Connect(ms, c)
      PROVE  \A j \in Calls : Renewed(slot[j], slot'[j])
  <2>1. PICK i \in Calls :
          /\ ActsOn(i, ms, c)
          /\ slot' = [slot EXCEPT ![i].state = "CONNECTED", ![i].stage = 0,
                                  ![i].due = 0, ![i].age = 0]
    BY <1>3 DEF Connect
  <2> DEFINE s == [slot[i] EXCEPT !.state = "CONNECTED", !.stage = 0,
                                  !.due = 0, !.age = 0]
  <2>2. slot[i] \in Slot /\ slot[i].ssi # None
    BY <2>1 DEF TypeOK, ActsOn, First, OwnedBy, WithCallId, InUse
  <2>3. s.ssi = slot[i].ssi /\ s.stage = 0 /\ s.age = 0
    BY <2>2 DEF Slot
  <2>4. slot' = [slot EXCEPT ![i] = s]
    BY <2>1, <2>2 DEF Slot, TypeOK
  <2> HIDE DEF s
  <2> QED
    BY <1>1, <2>2, <2>3, <2>4 DEF Renewed
<1>4. CASE TxCeased(ms)
  <2>1. PICK i \in Calls :
          /\ First(i, OwnedBy(ms))
          /\ slot' = [slot EXCEPT ![i].state = "CONNECTED", ![i].age = 0,
                                  ![i].ceased = TRUE]
    BY <1>4 DEF TxCeased
  <2> DEFINE s == [slot[i] EXCEPT !.state = "CONNECTED", !.age = 0,
                                  !.ceased = TRUE]
  <2>2. slot[i] \in Slot /\ slot[i].ssi # None
    BY <2>1 DEF TypeOK, First, OwnedBy, InUse
  <2>3. /\ s.ssi = slot[i].ssi /\ s.age = 0
        /\ s.stage = slot[i].stage /\ s.due = slot[i].due
    BY <2>2 DEF Slot
  <2>4. slot' = [slot EXCEPT ![i] = s]
    BY <2>1, <2>2 DEF Slot, TypeOK
  <2> HIDE DEF s
  <2> QED
    BY <1>1, <2>2, <2>3, <2>4 DEF Renewed
<1>5. CASE Release(ms)
  <2>1. PICK i \in Calls : slot' = [slot EXCEPT ![i] = EmptySlot]
    BY <1>5 DEF Release, Freed
  <2> QED
    BY <1>1, <2>1 DEF Renewed
<1> QED
  BY <1>2, <1>3, <1>4, <1>5

LEMMA HandleRenews ==
  ASSUME TypeOK, HandleCmce
  PROVE  \A j \in Calls : Renewed(slot[j], slot'[j])
<1>1. PICK ms \in Issi :
       \/ \E cp \in Party \cup {None}, p2mp \in BOOLEAN :
            \/ SetupOwn(ms, cp, p2mp)
            \/ SetupFloorTransfer(ms, cp, p2mp)
            \/ SetupNew(ms, cp, p2mp)
            \/ SetupRefused(ms, cp, p2mp)
       \/ \E c \in 0..MaxCallId : TxDemand(ms, c) \/ Connect(ms, c)
       \/ TxCeased(ms)
       \/ Release(ms)
  BY DEF HandleCmce
<1> QED
  BY <1>1, SetupRenews, RequestRenews

(* The numbers a slot's time is reckoned from.                             *)
LEMMA TimeNumbers ==
  ASSUME NEW s \in Slot
  PROVE  /\ s.age \in Nat /\ s.due \in 0..SetupGap
         /\ s.stage \in {0, 1, 2, 11}
         /\ Limit(s) \in Nat /\ Limit(s) < Oldest
  BY DEF Slot, Limit, Oldest

LEMMA TickRuns ==
  ASSUME TypeOK, OneCallPerTimeslot, WithinLimits, TickSlot
  PROVE  WithinLimits' /\ \A j \in Calls : CallRunsOut(j) /\ SetupRunsOut(j)
<1>1. PICK i \in Calls :
        \/ VisitEmpty(i) \/ VisitRinging(i) \/ RingTimeout(i) \/ Watchdog(i)
        \/ VisitActive(i)
  BY DEF TickSlot
<1>2. pc = "tick" /\ pc' = "tick" /\ cursor = i /\ cursor' = i + 1
  BY <1>1 DEF VisitEmpty, VisitRinging, RingTimeout, Watchdog, VisitActive,
              Visit, NextSlot
<1>3. /\ \A j \in Calls \ {i} : Moved(slot[j], slot'[j])
      /\ \/ slot'[i] = EmptySlot
         \/ ~InUse(i) /\ slot'[i] = slot[i]
         \/ /\ InUse(i) /\ slot[i].age <= Limit(slot[i])
            /\ Moved(StageStep(slot[i]), slot'[i])
  BY <1>1, VisitMoves
<1>4. \A j \in Calls : slot[j] \in Slot
  BY DEF TypeOK
<1>5. /\ EmptySlot.ssi = None /\ EmptySlot.stage = 0
  BY DEF EmptySlot
<1>6. \A j \in Calls \ {i} : Past(j)' <=> Past(j)
  BY <1>2 DEF Past, Calls
<1>7. WithinLimits'
  <2> SUFFICES ASSUME NEW j \in Calls
               PROVE  /\ InUse(j)' /\ Past(j)' => slot'[j].age <= Limit(slot'[j])
                      /\ slot'[j].stage # 0 =>
                           InUse(j)' /\ (Past(j)' => slot'[j].due # 0)
    BY DEF WithinLimits, Limit
  <2>1. CASE j # i
    BY <1>3, <1>4, <1>6, <2>1, TimeNumbers
    DEF WithinLimits, InUse, Moved, Limit
  <2>2. CASE j = i /\ slot'[i] = EmptySlot
    BY <1>5, <2>2 DEF InUse
  <2>3. CASE j = i /\ ~InUse(i) /\ slot'[i] = slot[i]
    BY <2>3 DEF WithinLimits, InUse
  <2>4. CASE /\ j = i /\ InUse(i) /\ slot[i].age <= Limit(slot[i])
             /\ Moved(StageStep(slot[i]), slot'[i])
    BY <1>4, <2>4, StageRuns, TimeNumbers DEF InUse, Moved, Limit
  <2> QED
    BY <1>3, <2>1, <2>2, <2>3, <2>4
<1>8. ASSUME NEW j \in Calls
      PROVE  CallRunsOut(j)
  <2> SUFFICES ASSUME InUse(j), ~Attended(j), InUse(j)'
               PROVE  CallLeft(slot'[j]) <= CallLeft(slot[j])
    BY <1>2 DEF CallRunsOut, RunsOut
  <2>1. slot'[j].age = slot[j].age
    <3>1. CASE VisitActive(i)
      BY <3>1, HeardIsAttended
    <3>2. CASE VisitEmpty(i)
      BY <3>2 DEF VisitEmpty
    <3>3. CASE VisitRinging(i)
      BY <1>4, <3>3, StageKeepsAge DEF VisitRinging, TypeOK
    <3>4. CASE RingTimeout(i) \/ Watchdog(i)
      <4>1. slot' = [slot EXCEPT ![i] = EmptySlot]
        BY <3>4 DEF RingTimeout, Watchdog, Freed
      <4>2. j # i
        BY <1>5, <4>1 DEF InUse, TypeOK
      <4> QED
        BY <4>1, <4>2 DEF TypeOK
    <3> QED
      BY <1>1, <3>1, <3>2, <3>3, <3>4
  <2>2. slot'[j].state = slot[j].state
    <3>1. CASE j # i
      BY <1>3, <3>1 DEF Moved
    <3>2. CASE j = i
      BY <1>3, <1>4, <1>5, <3>2, StageRuns DEF Moved, InUse
    <3> QED
      BY <3>1, <3>2
  <2>3. CallLeft(slot'[j]) = CallLeft(slot[j])
    BY <2>1, <2>2 DEF CallLeft, Limit
  <2>4. CallLeft(slot[j]) \in Nat
    BY <1>4, TimeNumbers DEF CallLeft
  <2> QED
    BY <2>3, <2>4
<1>9. ASSUME NEW j \in Calls
      PROVE  SetupRunsOut(j)
  <2> SUFFICES ASSUME slot[j].stage # 0
               PROVE  SetupLeft(slot'[j]) <= SetupLeft(slot[j])
    BY <1>2 DEF SetupRunsOut, RunsOut
  <2>1. SetupLeft(slot[j]) \in Nat
    BY <1>4, TimeNumbers DEF SetupLeft
  <2>2. \A s, r : Moved(s, r) => SetupLeft(r) = SetupLeft(s)
    BY DEF Moved, SetupLeft
  <2>3. SetupLeft(EmptySlot) = 0
    BY <1>5 DEF SetupLeft
  <2> QED
    BY <1>3, <1>4, <2>1, <2>2, <2>3, StageRuns
<1> QED
  BY <1>7, <1>8, <1>9

LEMMA HandleRuns ==
  ASSUME TypeOK, WithinLimits, HandleCmce
  PROVE  WithinLimits' /\ \A j \in Calls : CallRunsOut(j) /\ SetupRunsOut(j)
<1>1. pc = "rx" /\ pc' = "sleep"
  BY DEF HandleCmce
<1>2. \A j \in Calls : Renewed(slot[j], slot'[j])
  BY HandleRenews
<1>3. \A j \in Calls : /\ slot[j] \in Slot /\ slot'[j] \in Slot
                       /\ Past(j) /\ Past(j)'
  BY <1>1, HandleCmceStep DEF TypeOK, GoodStep, TablesTyped, Past
<1>4. /\ EmptySlot.ssi = None /\ EmptySlot.stage = 0
  BY DEF EmptySlot
<1>5. WithinLimits'
  <2> SUFFICES ASSUME NEW j \in Calls
               PROVE  /\ InUse(j)' => slot'[j].age <= Limit(slot'[j])
                      /\ slot'[j].stage # 0 => InUse(j)' /\ slot'[j].due # 0
    BY DEF WithinLimits, Limit
  <2>1. CASE slot'[j] = slot[j]
    BY <1>3, <2>1 DEF WithinLimits, InUse
  <2>2. CASE slot'[j] = EmptySlot
    BY <1>4, <2>2 DEF InUse
  <2>3. CASE /\ slot'[j].age = 0 /\ slot'[j].ssi # None
             /\ \/ slot'[j].stage = 0 \/ SetAnew(slot'[j])
                \/ /\ slot[j].ssi # None /\ slot'[j].stage = slot[j].stage
                   /\ slot'[j].due = slot[j].due
    <3>1. Limit(slot'[j]) \in Nat
      BY <1>3, TimeNumbers
    <3>2. slot[j].stage # 0 => slot[j].due # 0
      BY <1>3 DEF WithinLimits
    <3> QED
      BY <2>3, <3>1, <3>2 DEF InUse, SetAnew
  <2> QED
    BY <1>2, <2>1, <2>2, <2>3 DEF Renewed
<1>6. ASSUME NEW j \in Calls
      PROVE  CallRunsOut(j)
  <2> SUFFICES ASSUME InUse(j), ~Attended(j)
               PROVE  CallLeft(slot'[j]) <= CallLeft(slot[j])
    BY <1>1 DEF CallRunsOut, RunsOut
  <2>1. slot'[j] = slot[j]
    BY <1>1 DEF Attended
  <2>2. CallLeft(slot[j]) \in Nat
    BY <1>3, TimeNumbers DEF CallLeft
  <2> QED
    BY <2>1, <2>2
<1>7. ASSUME NEW j \in Calls
      PROVE  SetupRunsOut(j)
  <2> SUFFICES ASSUME slot[j].stage # 0, ~SetAnew(slot'[j])
               PROVE  SetupLeft(slot'[j]) <= SetupLeft(slot[j])
    BY <1>1 DEF SetupRunsOut, RunsOut
  <2>1. SetupLeft(slot[j]) \in Nat
    BY <1>3, TimeNumbers DEF SetupLeft
  <2>2. SetupLeft(slot'[j]) \in {0, SetupLeft(slot[j])}
    BY <1>2, <1>4 DEF Renewed, SetupLeft
  <2> QED
    BY <2>1, <2>2
<1> QED
  BY <1>5, <1>6, <1>7

LEMMA ElapseRuns ==
  ASSUME TypeOK, LoopStarts, WithinLimits, Elapse
  PROVE  WithinLimits' /\ \A j \in Calls : CallRunsOut(j) /\ SetupRunsOut(j)
<1>1. PICK d \in Delays : slot' = [j \in Calls |-> Older(slot[j], d)]
  BY DEF Elapse
<1>2. pc = "sleep" /\ pc' = "tick" /\ cursor' = 1
  BY DEF Elapse, LoopStarts
<1>3. \A j \in Calls : slot[j] \in Slot /\ slot'[j] = Older(slot[j], d)
  BY <1>1 DEF TypeOK
<1>4. \A j \in Calls : Past(j) /\ ~Past(j)'
  BY <1>2 DEF Past, Calls
<1>5. \A j \in Calls : /\ slot'[j].ssi = slot[j].ssi
                       /\ slot'[j].state = slot[j].state
                       /\ slot'[j].stage = slot[j].stage
  BY <1>3, OlderType
<1>6. WithinLimits'
  BY <1>4, <1>5 DEF WithinLimits, InUse
<1>7. ASSUME NEW j \in Calls, InUse(j)
      PROVE  /\ slot'[j].age = IF slot[j].age + d > Oldest THEN Oldest
                               ELSE slot[j].age + d
             /\ slot'[j].due = IF slot[j].due <= d THEN 0 ELSE slot[j].due - d
  <2> DEFINE s == slot[j]
  <2>1. s \in Slot /\ slot'[j] = Older(s, d) /\ s.ssi # None
    BY <1>3, <1>7 DEF InUse
  <2> HIDE DEF s
  <2>2. /\ Older(s, d).age = IF s.age + d > Oldest THEN Oldest ELSE s.age + d
        /\ Older(s, d).due = IF s.due <= d THEN 0 ELSE s.due - d
    BY <2>1 DEF Older, Slot
  <2> QED
    BY <2>1, <2>2 DEF s
<1>8. d \in Nat \ {0} /\ Oldest \in Nat
  BY ConstantTypes
<1>9. ASSUME NEW j \in Calls
      PROVE  CallRunsOut(j)
  <2> SUFFICES ASSUME InUse(j)
               PROVE  CallLeft(slot'[j]) < CallLeft(slot[j])
    BY <1>2 DEF CallRunsOut, RunsOut
  <2> DEFINE a == slot[j].age
             b == slot'[j].age
             lim == Limit(slot[j])
  <2>1. a \in Nat /\ lim \in Nat /\ lim < Oldest
    BY <1>3, TimeNumbers
  <2>2. a <= lim
    BY <1>4 DEF WithinLimits
  <2>3. b = IF a + d > Oldest THEN Oldest ELSE a + d
    BY <1>7
  <2>4. Limit(slot'[j]) = lim
    BY <1>5 DEF Limit
  <2>5. /\ CallLeft(slot[j]) = lim + 1 - a
        /\ CallLeft(slot'[j]) = IF b > lim THEN 0 ELSE lim + 1 - b
    <3> HIDE DEF a, b, lim
    <3>1. CallLeft(slot[j]) = IF a > lim THEN 0 ELSE lim + 1 - a
      BY DEF CallLeft, a, lim
    <3>2. CallLeft(slot'[j]) = IF b > lim THEN 0 ELSE lim + 1 - b
      BY <2>4 DEF CallLeft, b
    <3> QED
      BY <2>1, <2>2, <3>1, <3>2
  <2> HIDE DEF a, b, lim
  <2> QED
    BY <1>8, <2>1, <2>2, <2>3, <2>5
<1>10. ASSUME NEW j \in Calls
       PROVE  SetupRunsOut(j)
  <2> SUFFICES ASSUME slot[j].stage # 0
               PROVE  SetupLeft(slot'[j]) < SetupLeft(slot[j])
    BY <1>2 DEF SetupRunsOut, RunsOut
  <2>1. InUse(j) /\ slot[j].due # 0
    BY <1>4 DEF WithinLimits
  <2>2. slot'[j].due \in Nat /\ slot'[j].due < slot[j].due /\ slot[j].due \in Nat
    <3>1. slot[j].due \in Nat
      BY <1>3, TimeNumbers
    <3> QED
      BY <1>7, <1>8, <2>1, <3>1
  <2> QED
    BY <1>5, <2>2 DEF SetupLeft
<1> QED
  BY <1>6, <1>9, <1>10

(* A step that leaves the table alone and does not end a sleep.            *)
LEMMA SameRuns ==
  ASSUME TypeOK, WithinLimits, slot' = slot, pc # "sleep" \/ UNCHANGED pc,
         \A j \in Calls : Past(j)' => Past(j)
  PROVE  /\ WithinLimits'
         /\ pc # "sleep" =>
              \A j \in Calls : CallRunsOut(j) /\ SetupRunsOut(j)
<1>1. \A j \in Calls : slot[j] \in Slot
  BY DEF TypeOK
<1>2. WithinLimits'
  BY DEF WithinLimits, InUse
<1>3. \A j \in Calls : CallLeft(slot[j]) \in Nat /\ SetupLeft(slot[j]) \in Nat
  BY <1>1, TimeNumbers DEF CallLeft, SetupLeft
<1> QED
  BY <1>2, <1>3 DEF CallRunsOut, SetupRunsOut, RunsOut

LEMMA RunStep ==
  ASSUME TypeOK, OneCallPerTimeslot, LoopStarts, WithinLimits, Next
  PROVE  /\ LoopStarts' /\ WithinLimits'
         /\ \A j \in Calls : CallRunsOut(j) /\ SetupRunsOut(j)
<1>1. CASE TickSlot
  <2>1. LoopStarts'
    BY <1>1 DEF TickSlot, VisitEmpty, VisitRinging, RingTimeout, Watchdog,
                VisitActive, Visit, LoopStarts
  <2> QED
    BY <1>1, <2>1, TickRuns
<1>2. CASE TickEnd
  <2>1. /\ pc = "tick" /\ slot' = slot /\ LoopStarts'
        /\ \A j \in Calls : Past(j)
    BY <1>2 DEF TickEnd, LoopStarts, Past, Calls, TypeOK
  <2> QED
    BY <2>1, SameRuns
<1>3. CASE HandleCmce
  <2>1. LoopStarts'
    BY <1>3 DEF HandleCmce, LoopStarts
  <2> QED
    BY <1>3, <2>1, HandleRuns
<1>4. CASE NoCmce
  <2>1. pc = "rx" /\ slot' = slot /\ LoopStarts' /\ \A j \in Calls : Past(j)
    BY <1>4 DEF NoCmce, NothingToDo, LoopStarts, Past
  <2> QED
    BY <2>1, SameRuns
<1>5. CASE \E g \in Gssi : LateEntry(g)
  <2>1. pc = "rx" /\ slot' = slot /\ LoopStarts' /\ \A j \in Calls : Past(j)
    BY <1>5 DEF LateEntry, LoopStarts, Past
  <2> QED
    BY <2>1, SameRuns
<1>6. CASE Elapse
  <2>1. LoopStarts'
    BY <1>6 DEF Elapse, LoopStarts
  <2> QED
    BY <1>6, <2>1, ElapseRuns
<1> QED
  BY <1>1, <1>2, <1>3, <1>4, <1>5, <1>6 DEF Next

(* A call that nobody attends to is gone within CallStale + 1 milliseconds *)
(* of its last use (AlertTimeout + 1 while it rings) and the round they    *)
(* end in: once the tick has passed it, its age is within the limit, and   *)
(* every round takes away from what is left.  A setup sequence ends within *)
(* two setup gaps and two rounds in the same way.  No full table, no lost  *)
(* PDU and no other call puts it off: these are the countdowns behind      *)
(* AbandonedCallsEnd and SetupCompletes, for any number of calls and any   *)
(* lengths of the rounds.                                                  *)
THEOREM TimeRunsOutCorrect == Spec => []WithinLimits /\ TimeRunsOut
<1> DEFINE Inv == LoopStarts /\ WithinLimits
           Runs == \A i \in Calls : CallRunsOut(i) /\ SetupRunsOut(i)
<1>1. Init => Inv
  BY DEF Init, LoopStarts, WithinLimits, InUse, EmptySlot
<1>2. TypeOK /\ OneCallPerTimeslot /\ Inv /\ [Next]_vars
        => Inv' /\ [Runs]_vars
  <2>1. CASE UNCHANGED vars
    BY <2>1 DEF vars, LoopStarts, WithinLimits, InUse, Past
  <2> QED
    BY <2>1, RunStep
<1>3. Spec => []OneCallPerTimeslot
  BY ChannelsCorrect, PTL
<1>4. Inv => WithinLimits
  OBVIOUS
<1> HIDE DEF Inv, Runs
<1>5. Spec => []WithinLimits /\ [][Runs]_vars
  BY <1>1, <1>2, <1>3, <1>4, TypeCorrect, PTL DEF Spec
<1> QED
  BY <1>5 DEF TimeRunsOut, Runs
=============================================================================
