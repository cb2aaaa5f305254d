-------------------------- MODULE DownlinkSlot_proofs --------------------------
(***************************************************************************)
(* Theorems about the downlink signalling queue and the slot that reads    *)
(* it, for every depth of the queue, every set of PDUs and every shape of  *)
(* the frame: the queue implements the priority buffer, alone and under    *)
(* the slot clock, what a slot carries fits what it announces, and a PDU   *)
(* waits four slot pulses for each one that goes before it at most.        *)
(***************************************************************************)
EXTENDS DownlinkSlot, FiniteSetTheorems, WellFoundedInduction, TLAPS

-----------------------------------------------------------------------------
(* The arbiters choose an element: the CHOOSE operators of the queue have  *)
(* something to choose.                                                    *)

(* A nonempty set of natural numbers has a least element.                  *)
LEMMA NatMin ==
  ASSUME NEW S \in SUBSET Nat, S # {}
  PROVE  \E m \in S : \A n \in S : m <= n
<1> DEFINE Lt == {p \in Nat \X Nat : p[1] < p[2]}
<1>1. IsWellFoundedOn(Lt, Nat)
  BY NatLessThanWellFounded DEF OpToRel
<1> HIDE DEF Lt
<1>2. PICK m \in S : \A n \in S : <<n, m>> \notin Lt
  BY <1>1, WFMin
<1>3. \A n \in S : ~(n < m)
  BY <1>2 DEF Lt
<1>. QED
  BY <1>3

LEMMA PrioType == \A p : Prio(p) \in 0..2
  BY DEF Prio

(* The write arbiter serves the most urgent port.                          *)
LEMMA WinnerBest ==
  ASSUME NEW W, W # {}
  PROVE  Winner(W) \in W /\ \A q \in W : Prio(Winner(W)) <= Prio(q)
<1> DEFINE ranks == {Prio(p) : p \in W}
<1>1. ranks \in SUBSET Nat /\ ranks # {}
  BY PrioType
<1>2. PICK r \in ranks : \A s \in ranks : r <= s
  BY <1>1, NatMin
<1>3. PICK p \in W : Prio(p) = r
  BY <1>2
<1>4. \A q \in W : Prio(p) <= Prio(q)
  BY <1>2, <1>3
<1>. QED
  BY <1>4 DEF Winner

(* The free index is a free entry whenever there is one.                   *)
LEMMA FreeIdxFree == HaveFree => FreeIdx \in Slots \ Used
<1> SUFFICES ASSUME HaveFree PROVE FreeIdx \in Slots \ Used
  OBVIOUS
<1>1. Slots \ Used \in SUBSET Nat /\ Slots \ Used # {}
  BY DEF HaveFree, Used, Slots
<1>2. \E i \in Slots \ Used : \A j \in Slots \ Used : i <= j
  BY <1>1, NatMin
<1>. QED
  BY <1>2 DEF FreeIdx

(* The head is a valid entry, ahead of every other.                        *)
LEMMA HeadFirst ==
  ASSUME HeadValid
  PROVE  HeadIdx \in Used /\ \A j \in Used : Ahead(HeadIdx, j)
<1> DEFINE ranks == {Prio(entry[i]) : i \in Used}
<1>1. ranks \in SUBSET Nat /\ ranks # {}
  BY PrioType DEF HeadValid
<1>2. PICK r \in ranks : \A s \in ranks : r <= s
  BY <1>1, NatMin
<1> DEFINE ties == {i \in Used : Prio(entry[i]) = r}
<1>3. ties \in SUBSET Nat /\ ties # {}
  BY <1>2 DEF Used, Slots
<1>4. PICK i \in ties : \A j \in ties : i <= j
  BY <1>3, NatMin
<1>5. \A j \in Used : Ahead(i, j)
  <2> TAKE j \in Used
  <2>1. Prio(entry[j]) \in ranks /\ Prio(entry[i]) = r /\ r \in Nat
    BY <1>1, <1>2, <1>4
  <2>2. CASE Prio(entry[j]) = r
    BY <1>4, <2>1, <2>2 DEF Ahead
  <2>3. CASE Prio(entry[j]) # r
    BY <1>2, <2>1, <2>3, PrioType DEF Ahead
  <2>. QED
    BY <2>2, <2>3
<1>. QED
  BY <1>4, <1>5 DEF HeadIdx

-----------------------------------------------------------------------------
(* The queue.                                                              *)

QueueTypes ==
  /\ entry \in [Slots -> Pdus \cup {NoPdu}]
  /\ offered \subseteq Pdus /\ sent \subseteq Pdus /\ dropped \subseteq Pdus

(* No PDU is stored twice.                                                 *)
Distinct == \A i, j \in Used : entry[i] = entry[j] => i = j

(* What was offered waits, was sent or was dropped.                        *)
Accounted == offered = Queued \cup sent \cup dropped

QueueInv == QueueTypes /\ Distinct /\ Accounted

(* The queue is full exactly when as many PDUs wait as it has entries.     *)
LEMMA FullMeans ==
  ASSUME QueueTypes, Distinct
  PROVE  Cardinality(Queued) = Depth <=> ~HaveFree
<1> DEFINE f == [i \in Used |-> entry[i]]
<1>1. IsFiniteSet(Slots) /\ Cardinality(Slots) = Depth
  <2>1. Depth \in Nat \ {0} /\ Depth - 1 \in Int
    BY WidthAssumption
  <2>. QED
    BY <2>1, FS_Interval DEF Slots
<1>2. Used \in SUBSET Slots
  BY DEF Used
<1>3. IsFiniteSet(Used) /\ (Cardinality(Used) = Cardinality(Slots) => Used = Slots)
  BY <1>1, <1>2, FS_Subset
<1>4. f \in Bijection(Used, Queued)
  BY DEF Distinct, Queued, Bijection, Injection, Surjection, IsInjective
<1>5. Cardinality(Queued) = Cardinality(Used)
  BY <1>3, <1>4, FS_Bijection DEF ExistsBijection
<1>. QED
  BY <1>1, <1>3, <1>5 DEF HaveFree

Stored(W) == IF Accepted(W) THEN {Winner(W)} ELSE {}
Popped(pop) == IF pop /\ HeadValid THEN {Head} ELSE {}

(* A clock edge in terms of sets of PDUs: the head goes, the winner comes. *)
LEMMA CycleShape ==
  ASSUME QueueInv, NEW W \in Offers, NEW pop \in BOOLEAN, Cycle(W, pop)
  PROVE  /\ Queued' = (Queued \ Popped(pop)) \cup Stored(W)
         /\ offered' = offered \cup W
         /\ sent' = sent \cup Popped(pop)
         /\ dropped' = dropped \cup (W \ Stored(W))
         /\ QueueInv'
<1>1. W \subseteq Pdus \ offered
  BY DEF Offers
<1>2. Accepted(W) => Winner(W) \in W /\ FreeIdx \in Slots \ Used
  BY WinnerBest, FreeIdxFree DEF Accepted
<1>3. HeadValid => HeadIdx \in Used
  BY HeadFirst
<1>4. entry' \in [Slots -> Pdus \cup {NoPdu}]
  BY <1>1, <1>2 DEF Cycle, QueueInv, QueueTypes
<1>5. \A i \in Slots :
        entry'[i] = IF Accepted(W) /\ i = FreeIdx THEN Winner(W)
                    ELSE IF pop /\ HeadValid /\ i = HeadIdx THEN NoPdu
                    ELSE entry[i]
  BY DEF Cycle
<1>6. NoPdu \notin Pdus
  BY PduAssumption
<1>7. Used' = (Used \ (IF pop /\ HeadValid THEN {HeadIdx} ELSE {}))
              \cup (IF Accepted(W) THEN {FreeIdx} ELSE {})
  BY <1>1, <1>2, <1>3, <1>5, <1>6 DEF Used
<1>8. \A i \in Used : entry[i] \in Queued /\ entry[i] \in Pdus /\ i \in Slots
  BY DEF Used, Queued, QueueInv, QueueTypes
<1>9. Accepted(W) => Winner(W) \notin Queued
  BY <1>1, <1>2 DEF QueueInv, Accounted
<1>10. Distinct'
  <2> SUFFICES ASSUME NEW i \in Used', NEW j \in Used', entry'[i] = entry'[j]
               PROVE  i = j
    BY DEF Distinct
  <2>. QED
    BY <1>2, <1>3, <1>5, <1>7, <1>8, <1>9 DEF Distinct, QueueInv
<1>11. Queued' = (Queued \ Popped(pop)) \cup Stored(W)
  <2>1. ASSUME NEW p \in Queued'
        PROVE  p \in (Queued \ Popped(pop)) \cup Stored(W)
    <3>1. PICK i \in Used' : p = entry'[i]
      BY DEF Queued
    <3>. QED
      BY <3>1, <1>2, <1>3, <1>5, <1>7, <1>8, Zenon
      DEF Popped, Stored, Head, QueueInv, Distinct
  <2>2. ASSUME NEW p \in Queued, p \notin Popped(pop)
        PROVE  p \in Queued'
    <3>1. PICK i \in Used : p = entry[i]
      BY DEF Queued
    <3>2. i \in Used' /\ entry'[i] = p
      BY <3>1, <2>2, <1>2, <1>3, <1>5, <1>7, <1>8 DEF Popped, Head
    <3>. QED
      BY <3>2 DEF Queued
  <2>3. ASSUME NEW p \in Stored(W)
        PROVE  p \in Queued'
    <3>1. Accepted(W) /\ p = Winner(W)
      BY <2>3 DEF Stored
    <3>2. FreeIdx \in Used' /\ entry'[FreeIdx] = p
      BY <3>1, <1>2, <1>5, <1>7
    <3>. QED
      BY <3>2 DEF Queued
  <2>. QED
    BY <2>1, <2>2, <2>3
<1>12. /\ offered' = offered \cup W
       /\ sent' = sent \cup Popped(pop)
       /\ dropped' = dropped \cup (W \ Stored(W))
  BY DEF Cycle, Popped, Stored
<1>13. Popped(pop) \subseteq Queued /\ Stored(W) \subseteq W
  BY <1>2, <1>3, <1>8 DEF Popped, Stored, Head
<1>14. QueueTypes' /\ Accounted'
  <2>1. Queued \subseteq Pdus
    BY <1>8 DEF Queued
  <2>. QED
    BY <2>1, <1>1, <1>4, <1>11, <1>12, <1>13
    DEF QueueTypes, Accounted, QueueInv
<1>. QED
  BY <1>10, <1>11, <1>12, <1>14 DEF QueueInv

LEMMA QueueInit == Init => QueueInv
<1> SUFFICES ASSUME Init PROVE QueueInv
  OBVIOUS
<1>1. Used = {} /\ Queued = {}
  BY DEF Init, Used, Queued
<1>. QED
  BY <1>1 DEF Init, QueueInv, QueueTypes, Distinct, Accounted

LEMMA QueueStep == ASSUME QueueInv, [Next]_queueVars PROVE QueueInv'
<1>1. CASE Next
  BY <1>1, CycleShape DEF Next
<1>2. CASE UNCHANGED queueVars
  BY <1>2
  DEF queueVars, QueueInv, QueueTypes, Distinct, Accounted, Used, Queued
<1>. QED
  BY <1>1, <1>2

-----------------------------------------------------------------------------
(* The refinement.                                                         *)

LEMMA SameCardinality == \A S : Buffer!Cardinality(S) = Cardinality(S)
  BY DEF Cardinality, Buffer!Cardinality

LEMMA RankIsPrio == \A p : Buffer!Rank(p) = Prio(p)
  BY DEF Buffer!Rank, Prio

(* The head is one of the best that wait.                                  *)
LEMMA HeadIsBest ==
  ASSUME HeadValid
  PROVE  Head \in Queued /\ Buffer!Best(Head, Queued)
<1>1. HeadIdx \in Used /\ \A j \in Used : Prio(Head) <= Prio(entry[j])
  BY HeadFirst, PrioType DEF Ahead, Head
<1>2. Head \in Queued /\ \A q \in Queued : Prio(Head) <= Prio(q)
  BY <1>1 DEF Head, Queued
<1>. QED
  BY <1>2, RankIsPrio DEF Buffer!Best

(* Every clock edge is an exchange of the buffer.                          *)
LEMMA CycleRefines ==
  ASSUME QueueInv, NEW W \in Offers, NEW pop \in BOOLEAN, Cycle(W, pop)
  PROVE  Buffer!Next
<1>1. Buffer!Fresh = Pdus \ offered
  BY DEF Buffer!Fresh, Buffer!Known, QueueInv, Accounted, Pdus
<1>2. W \in Buffer!Arrivals
  BY <1>1, RankIsPrio DEF Buffer!Arrivals, Offers
<1>3. Buffer!Stores(W, Stored(W))
  <2> USE SameCardinality
  <2>1. CASE Accepted(W)
    <3>1. W # {} /\ Cardinality(Queued) # Depth
      BY <2>1, FullMeans DEF Accepted, QueueInv
    <3>2. Buffer!Best(Winner(W), W)
      BY <3>1, WinnerBest, RankIsPrio DEF Buffer!Best
    <3>. QED
      BY <2>1, <3>1, <3>2 DEF Buffer!Stores, Stored, Buffer!Best
  <2>2. CASE ~Accepted(W)
    BY <2>2, FullMeans DEF Accepted, QueueInv, Buffer!Stores, Stored
  <2>. QED
    BY <2>1, <2>2
<1>4. Buffer!Leaves(Popped(pop))
  BY HeadIsBest DEF Buffer!Leaves, Popped
<1>5. Stored(W) \in SUBSET Buffer!Fresh /\ Popped(pop) \in SUBSET Queued
  <2>1. Stored(W) \subseteq W
    BY WinnerBest DEF Stored, Accepted
  <2>. QED
    BY <2>1, <1>1, HeadIsBest DEF Popped, Offers
<1>6. Buffer!Exchange(W, Stored(W), Popped(pop))
  BY <1>3, <1>4, CycleShape DEF Buffer!Exchange
<1>. QED
  BY <1>2, <1>5, <1>6 DEF Buffer!Next

LEMMA InitRefines == Init => Buffer!Init
  BY DEF Init, Buffer!Init, Queued, Used

LEMMA StepRefines ==
  ASSUME QueueInv, [Next]_queueVars
  PROVE  [Buffer!Next]_<<Queued, sent, dropped>>
<1>1. CASE Next
  BY <1>1, CycleRefines DEF Next
<1>2. CASE UNCHANGED queueVars
  BY <1>2 DEF queueVars, Queued, Used
<1>. QED
  BY <1>1, <1>2

(* tetra_dl_signal_queue.v: the register array with its combinational      *)
(* arbiters is a bounded buffer with strict priority that stores at most   *)
(* the best of the PDUs offered in a cycle and drops the others, at any    *)
(* depth.                                                                  *)
THEOREM QueueRefinement == Spec => ImplementsPriorityBuffer
<1>1. Spec => []QueueInv
  BY QueueInit, QueueStep, PTL DEF Spec
<1>. QED
  BY <1>1, InitRefines, StepRefines, PTL
  DEF Spec, ImplementsPriorityBuffer, Buffer!Spec

-----------------------------------------------------------------------------
(* The slot.                                                               *)

(* Whatever the slot does, the queue sees a clock edge or nothing.         *)
LEMMA SlotDrivesQueue == ASSUME [SlotNext]_slotVars PROVE [Next]_queueVars
  BY DEF SlotNext, slotVars, Next, Write, SlotPulse, SetVoice, SetSds, SetBank,
         PokeGrant, Pops, queueVars, HeadValid

(* The queue's part of the slot is the queue.                              *)
THEOREM SlotHasQueue == SlotSpec => Spec /\ []QueueInv
<1>1. SlotInit => Init
  BY DEF SlotInit
<1>. QED
  BY <1>1, SlotDrivesQueue, QueueInit, QueueStep, PTL DEF Spec, SlotSpec

(* Written from three ports and read by the slot clock the queue is still  *)
(* the priority buffer, whatever the slots carry.                          *)
THEOREM SlotRefinement == SlotSpec => ImplementsPriorityBuffer
  BY SlotHasQueue, QueueRefinement, PTL

(* The next slot is another timeslot, so a pop of this pulse is not what   *)
(* the next pulse's AACH was encoded for.                                  *)
LEMMA NextSlotMoves ==
  ASSUME now \in SlotTimes
  PROVE  NextSlot(now) \in SlotTimes /\ NextSlot(now).tn # now.tn
<1> USE SlotAssumption DEF NextSlot, SlotOf, SlotTimes, Tns
<1>1. CASE now.tn = 3 /\ now.fn < TrafficFrames
  BY <1>1
<1>2. CASE now.tn = 3 /\ ~(now.fn < TrafficFrames)
  BY <1>2
<1>3. CASE now.tn # 3
  BY <1>3
<1>. QED
  BY <1>1, <1>2, <1>3

(* The encoder's promise for the coming slot: an AACH that announces       *)
(* signalling was prepared for the signalling timeslot while something     *)
(* waits, and waits still.                                                 *)
Promise == aach = "signalling" => HeadValid /\ now.tn = Mcch

SlotInv ==
  /\ QueueInv /\ now \in SlotTimes /\ Promise
  /\ PoppedIsCarried /\ SignallingHasPdu

LEMMA SlotInitial == SlotInit => SlotInv
<1> SUFFICES ASSUME SlotInit PROVE SlotInv
  OBVIOUS
<1>1. QueueInv
  BY QueueInit DEF SlotInit
<1>2. now \in SlotTimes
  BY SlotAssumption DEF SlotInit, SlotTimes, SlotOf, Tns
<1>3. air.popped = NoPdu /\ air.aach = "none" /\ aach = "none"
  BY DEF SlotInit, NoBurst
<1>. QED
  BY <1>1, <1>2, <1>3 DEF SlotInv, Promise, PoppedIsCarried, SignallingHasPdu

(* A write leaves what waits where it is.                                  *)
LEMMA WriteKeepsHead ==
  ASSUME QueueInv, NEW W \in Offers, Cycle(W, FALSE), HeadValid
  PROVE  HeadValid'
<1>1. Queued' = Queued \cup Stored(W)
  BY CycleShape DEF Popped
<1>. QED
  BY <1>1 DEF HeadValid, Queued

(* A step that leaves the burst, the position and the AACH alone.          *)
LEMMA QuietStep ==
  ASSUME SlotInv, QueueInv', UNCHANGED <<now, aach, air>>,
         HeadValid => HeadValid'
  PROVE  SlotInv'
  BY DEF SlotInv, Promise, PoppedIsCarried, SignallingHasPdu, Carried

(* The head is a PDU, told apart from no PDU.                              *)
LEMMA HeadIsPdu ==
  ASSUME QueueInv, HeadValid
  PROVE  Head \in Pdus /\ Head # NoPdu
  BY HeadFirst DEF Head, Used, QueueInv, QueueTypes

(* The pulse puts the head on the air whole, unless a bank, the anchor or  *)
(* the alignment is in the way.                                            *)
LEMMA BurstCarries ==
  ASSUME QueueInv, air' = Burst(now)
  PROVE  PoppedIsCarried'
<1>1. CASE Pops(now)
  <2>1. /\ air'.slot = now /\ air'.popped = Head /\ air'.filled = Filled(now)
        /\ air'.first = IF SyncBurst(now) /\ ~Filled(now) THEN "sb1" ELSE Body(now)[1]
        /\ air'.second = Body(now)[2]
    BY <1>1 DEF Burst
  <2>2. now.tn = Mcch /\ HeadValid
    BY <1>1 DEF Pops
  <2>3. ASSUME ~Filled(now), ~SyncBurst(now), Head \notin LsbAligned
        PROVE  air'.first = Head /\ (Head \in FullSlot => air'.second = Head)
    BY <2>1, <2>2, <2>3 DEF Body, Blk1, Blk2, UpperHalf, LowerHalf
  <2>. QED
    BY <2>1, <2>2, <2>3 DEF PoppedIsCarried, Carried
<1>2. CASE ~Pops(now)
  BY <1>2 DEF Burst, PoppedIsCarried
<1>. QED
  BY <1>1, <1>2

(* The pulse of slot `now' and what was prepared for it.                   *)
LEMMA PulseStep ==
  ASSUME SlotInv, NEW W \in Offers, SlotPulse(W)
  PROVE  SlotInv'
<1>1. QueueInv' /\ air' = Burst(now) /\ now' = NextSlot(now)
  BY CycleShape DEF SlotPulse, SlotInv, Pops, HeadValid
<1>2. PoppedIsCarried'
  BY <1>1, BurstCarries DEF SlotInv
<1>3. SignallingHasPdu'
  <2>1. CASE Pops(now)
    BY <1>1, <2>1, HeadIsPdu DEF Burst, SignallingHasPdu, SlotInv, Pops
  <2>2. CASE ~Pops(now)
    BY <1>1, <2>2 DEF Burst, SignallingHasPdu, SlotInv, Promise, Pops
  <2>. QED
    BY <2>1, <2>2
<1>4. now' \in SlotTimes /\ now'.tn # now.tn
  BY <1>1, NextSlotMoves DEF SlotInv
<1>5. Promise'
  <2> SUFFICES ASSUME aach' = "signalling"
               PROVE  HeadValid' /\ now'.tn = Mcch
    BY DEF Promise
  <2>1. HeadValid /\ now'.tn = Mcch
    BY <1>1 DEF SlotPulse, EncodeFor, Encode
  <2>2. ~Pops(now) /\ Cycle(W, Pops(now))
    BY <1>4, <2>1 DEF Pops, SlotPulse
  <2>3. Cycle(W, FALSE)
    BY <2>2 DEF Cycle
  <2>. QED
    BY <2>1, <2>3, WriteKeepsHead DEF SlotInv
<1>. QED
  BY <1>1, <1>2, <1>3, <1>4, <1>5 DEF SlotInv

LEMMA SlotStep == ASSUME SlotInv, [SlotNext]_slotVars PROVE SlotInv'
<1>1. QueueInv'
  BY SlotDrivesQueue, QueueStep DEF SlotInv
<1>2. ASSUME NEW W \in Offers, Write(W)
      PROVE  SlotInv'
  BY <1>1, <1>2, WriteKeepsHead, QuietStep DEF Write, SlotInv
<1>3. ASSUME NEW W \in Offers, SlotPulse(W)
      PROVE  SlotInv'
  BY <1>3, PulseStep
<1>4. ASSUME UNCHANGED <<queueVars, now, aach, air>>
      PROVE  SlotInv'
  BY <1>1, <1>4, QuietStep DEF queueVars, HeadValid, Used
<1>5. CASE \E v \in SUBSET VoiceTns : SetVoice(v)
  BY <1>4, <1>5 DEF SetVoice
<1>6. CASE \E g \in {"off", "on", "last"} : SetSds(g)
  BY <1>4, <1>6 DEF SetSds
<1>7. CASE \E t \in VoiceTns \cup {0}, full \in BOOLEAN : SetBank(t, full)
  BY <1>4, <1>7 DEF SetBank
<1>8. CASE PokeGrant
  BY <1>4, <1>8 DEF PokeGrant
<1>9. CASE UNCHANGED slotVars
  BY <1>4, <1>9 DEF slotVars, queueVars
<1>. QED
  BY <1>2, <1>3, <1>5, <1>6, <1>7, <1>8, <1>9 DEF SlotNext

(* What the slots carry fits what left the queue and what the AACH said.   *)
THEOREM SlotCorrect == SlotSpec => []SlotInv
  BY SlotInitial, SlotStep, PTL DEF SlotSpec

(* tetra_burst_dispatcher.v: a PDU leaves the queue only with a burst of   *)
(* the signalling timeslot, which carries it whole but for the exceptions  *)
(* the property names.                                                     *)
THEOREM PoppedIsCarriedCorrect == SlotSpec => []PoppedIsCarried
<1>1. SlotInv => PoppedIsCarried
  BY DEF SlotInv
<1>. QED
  BY <1>1, SlotCorrect, PTL

(* tetra_aach_encoder.v looks at the head a slot early: the PDU it         *)
(* announces is still there when its slot comes, whatever is popped or     *)
(* written in between.                                                     *)
THEOREM SignallingHasPduCorrect == SlotSpec => []SignallingHasPdu
<1>1. SlotInv => SignallingHasPdu
  BY DEF SlotInv
<1>. QED
  BY <1>1, SlotCorrect, PTL

-----------------------------------------------------------------------------
(* How long a PDU waits.                                                   *)

(* The PDUs that p may have to let go first, and p itself: those as urgent *)
(* as p or more so that were not sent yet, written already or not.         *)
Rivals(p) == {q \in Pdus \ sent : Prio(q) <= Prio(p)}

SlotsToMcch == IF now.tn <= Mcch THEN Mcch - now.tn ELSE Mcch + 4 - now.tn

(* The slot pulses until p is sent, at most.                               *)
PulsesLeft(p) == 4 * (Cardinality(Rivals(p)) - 1) + SlotsToMcch + 1

(* Between two pulses p waits; at every pulse it is sent or comes a slot   *)
(* nearer.                                                                 *)
ComesNearer(p) ==
  \/ p \in sent' /\ now' # now
  \/ /\ p \in Queued'
     /\ PulsesLeft(p)' = IF now' = now THEN PulsesLeft(p) ELSE PulsesLeft(p) - 1

WaitBounded == \A p \in Queued : PulsesLeft(p) \in 1..(4 * Cardinality(Pdus))
QueueMoves == [][\A p \in Queued : ComesNearer(p)]_slotVars

(* What waits was not sent yet.                                            *)
Unsent == Queued \cap sent = {}
WaitInv == QueueInv /\ Unsent /\ now \in SlotTimes

LEMMA UnsentStep ==
  ASSUME QueueInv, Unsent, NEW W \in Offers, NEW pop \in BOOLEAN, Cycle(W, pop)
  PROVE  Unsent'
<1>1. /\ Queued' = (Queued \ Popped(pop)) \cup Stored(W)
      /\ sent' = sent \cup Popped(pop)
  BY CycleShape
<1>2. Stored(W) \subseteq Pdus \ offered
  BY WinnerBest DEF Stored, Accepted, Offers
<1>3. Popped(pop) \subseteq Queued
  BY HeadIsBest DEF Popped
<1>4. Queued \cup sent \subseteq offered
  BY DEF QueueInv, Accounted
<1>. QED
  BY <1>1, <1>2, <1>3, <1>4 DEF Unsent

LEMMA RivalsCount ==
  ASSUME WaitInv, NEW p \in Queued
  PROVE  /\ IsFiniteSet(Rivals(p)) /\ p \in Rivals(p)
         /\ Cardinality(Rivals(p)) \in 1..Cardinality(Pdus) /\ Cardinality(Pdus) \in Nat
<1>1. IsFiniteSet(Pdus) /\ Rivals(p) \subseteq Pdus
  BY PduAssumption DEF Rivals
<1>2. IsFiniteSet(Rivals(p)) /\ Cardinality(Rivals(p)) <= Cardinality(Pdus)
  BY <1>1, FS_Subset
<1>3. p \in Rivals(p)
  BY PrioType DEF Rivals, WaitInv, Unsent, QueueInv, QueueTypes, Queued, Used
<1>4. Cardinality(Rivals(p)) \in Nat /\ Cardinality(Pdus) \in Nat
  BY <1>1, <1>2, FS_CardinalityType
<1>5. Cardinality(Rivals(p)) # 0
  BY <1>2, <1>3, FS_EmptySet
<1>. QED
  BY <1>2, <1>3, <1>4, <1>5

LEMMA SlotsType == now \in SlotTimes => SlotsToMcch \in 0..3
  BY SlotAssumption DEF SlotsToMcch, SlotTimes, Tns

LEMMA WaitBound == WaitInv => WaitBounded
<1> SUFFICES ASSUME WaitInv, NEW p \in Queued
             PROVE  PulsesLeft(p) \in 1..(4 * Cardinality(Pdus))
  BY DEF WaitBounded
<1>1. SlotsToMcch \in 0..3
  BY SlotsType DEF WaitInv
<1>. QED
  BY <1>1, RivalsCount DEF PulsesLeft

(* A pulse off the signalling timeslot is one slot nearer to it, a pulse   *)
(* on it three slots behind the next.                                      *)
LEMMA PulseTime ==
  ASSUME now \in SlotTimes, now' = NextSlot(now)
  PROVE  /\ now' \in SlotTimes /\ now' # now
         /\ SlotsToMcch' = IF now.tn = Mcch THEN 3 ELSE SlotsToMcch - 1
<1>1. now' \in SlotTimes /\ now' # now
  BY NextSlotMoves
<1>2. now'.tn = IF now.tn < 3 THEN now.tn + 1 ELSE 0
  BY DEF NextSlot, SlotOf, SlotTimes, Tns
<1>3. now.tn \in 0..3 /\ Mcch \in 0..3
  BY SlotAssumption DEF SlotTimes, Tns
<1>. QED
  BY <1>1, <1>2, <1>3 DEF SlotsToMcch

LEMMA PulseNears ==
  ASSUME WaitInv, NEW p \in Queued, NEW W \in Offers, SlotPulse(W)
  PROVE  ComesNearer(p)
<1>1. Cycle(W, Pops(now)) /\ Pops(now) \in BOOLEAN /\ now' = NextSlot(now)
  BY DEF SlotPulse, Pops, HeadValid
<1>2. /\ Queued' = (Queued \ Popped(Pops(now))) \cup Stored(W)
      /\ sent' = sent \cup Popped(Pops(now))
  BY <1>1, CycleShape DEF WaitInv
<1>3. /\ now' # now /\ SlotsToMcch \in 0..3
      /\ SlotsToMcch' = IF now.tn = Mcch THEN 3 ELSE SlotsToMcch - 1
  BY <1>1, PulseTime, SlotsType DEF WaitInv
<1>4. CASE now.tn # Mcch
  <2>1. Popped(Pops(now)) = {}
    BY <1>4 DEF Popped, Pops
  <2>2. Rivals(p)' = Rivals(p) /\ p \in Queued'
    BY <1>2, <2>1 DEF Rivals, Prio
  <2>3. PulsesLeft(p)' = PulsesLeft(p) - 1
    BY <1>3, <1>4, <2>2, RivalsCount DEF PulsesLeft
  <2>. QED
    BY <1>3, <2>2, <2>3 DEF ComesNearer
<1>5. CASE now.tn = Mcch
  <2>1. HeadValid /\ Popped(Pops(now)) = {Head}
    BY <1>5 DEF Popped, Pops, HeadValid, Queued
  <2>2. CASE p = Head
    BY <1>2, <1>3, <2>1, <2>2 DEF ComesNearer
  <2>3. CASE p # Head
    <3>1. Head \in Queued /\ Prio(Head) <= Prio(p)
      BY <2>1, HeadIsBest DEF Buffer!Best, Buffer!Rank, Prio
    <3>2. Head \in Rivals(p)
      BY <3>1 DEF Rivals, WaitInv, Unsent, QueueInv, QueueTypes, Queued, Used
    <3>3. Rivals(p)' = Rivals(p) \ {Head} /\ p \in Queued'
      BY <1>2, <2>1, <2>3 DEF Rivals, Prio
    <3>4. Cardinality(Rivals(p)') = Cardinality(Rivals(p)) - 1
      BY <3>2, <3>3, RivalsCount, FS_RemoveElement
    <3>5. SlotsToMcch = 0
      BY <1>5, SlotAssumption DEF SlotsToMcch, WaitInv, SlotTimes, Tns
    <3>6. PulsesLeft(p)' = PulsesLeft(p) - 1
      BY <1>3, <1>5, <3>4, <3>5, RivalsCount DEF PulsesLeft
    <3>. QED
      BY <1>3, <3>3, <3>6 DEF ComesNearer
  <2>. QED
    BY <2>2, <2>3
<1>. QED
  BY <1>4, <1>5

LEMMA WriteWaits ==
  ASSUME WaitInv, NEW p \in Queued, NEW W \in Offers, Write(W)
  PROVE  ComesNearer(p)
<1>1. Cycle(W, FALSE) /\ now' = now
  BY DEF Write
<1>2. Queued' = Queued \cup Stored(W) /\ sent' = sent
  BY <1>1, CycleShape DEF WaitInv, Popped
<1>3. PulsesLeft(p)' = PulsesLeft(p)
  BY <1>1, <1>2 DEF PulsesLeft, Rivals, Prio, SlotsToMcch
<1>. QED
  BY <1>1, <1>2, <1>3 DEF ComesNearer

LEMMA RestWaits ==
  ASSUME WaitInv, NEW p \in Queued, UNCHANGED <<queueVars, now>>
  PROVE  ComesNearer(p)
<1>1. Queued' = Queued /\ sent' = sent /\ now' = now
  BY DEF queueVars, Queued, Used
<1>2. PulsesLeft(p)' = PulsesLeft(p)
  BY <1>1 DEF PulsesLeft, Rivals, Prio, SlotsToMcch
<1>. QED
  BY <1>1, <1>2 DEF ComesNearer

(* The three kinds of steps: a pulse, a write and one that leaves the      *)
(* queue and the position alone.                                           *)
LEMMA StepKinds ==
  ASSUME [SlotNext]_slotVars
  PROVE  \/ \E W \in Offers : SlotPulse(W)
         \/ \E W \in Offers : Write(W)
         \/ UNCHANGED <<queueVars, now>>
  BY DEF SlotNext, slotVars, SetVoice, SetSds, SetBank, PokeGrant, queueVars

LEMMA WaitStep ==
  ASSUME WaitInv, [SlotNext]_slotVars
  PROVE  WaitInv' /\ \A p \in Queued : ComesNearer(p)
<1>1. QueueInv'
  BY SlotDrivesQueue, QueueStep DEF WaitInv
<1>2. CASE \E W \in Offers : SlotPulse(W)
  <2>1. PICK W \in Offers : SlotPulse(W)
    BY <1>2
  <2>2. Cycle(W, Pops(now)) /\ Pops(now) \in BOOLEAN /\ now' = NextSlot(now)
    BY <2>1 DEF SlotPulse, Pops, HeadValid
  <2>. QED
    BY <1>1, <2>1, <2>2, UnsentStep, PulseTime, PulseNears DEF WaitInv
<1>3. CASE \E W \in Offers : Write(W)
  <2>1. PICK W \in Offers : Write(W)
    BY <1>3
  <2>2. Cycle(W, FALSE) /\ now' = now
    BY <2>1 DEF Write
  <2>. QED
    BY <1>1, <2>1, <2>2, UnsentStep, WriteWaits DEF WaitInv
<1>4. CASE UNCHANGED <<queueVars, now>>
  <2>1. Unsent' /\ now' = now
    BY <1>4 DEF WaitInv, Unsent, queueVars, Queued, Used
  <2>. QED
    BY <1>1, <1>4, <2>1, RestWaits DEF WaitInv
<1>. QED
  BY <1>2, <1>3, <1>4, StepKinds

(* A PDU that waits is sent within four slot pulses for every PDU as       *)
(* urgent as itself or more: each pulse brings it a slot nearer, whatever  *)
(* is written, filled or announced meanwhile, and less urgent PDUs do not  *)
(* delay it.  With the slot clock running on, QueueDrains follows.         *)
THEOREM QueueMovesCorrect == SlotSpec => []WaitBounded /\ QueueMoves
<1>1. SlotInit => WaitInv
  BY SlotInitial DEF SlotInv, WaitInv, Unsent, SlotInit, Init
<1>2. WaitInv /\ [SlotNext]_slotVars => WaitInv'
  BY WaitStep
<1>3. WaitInv /\ [SlotNext]_slotVars => [\A p \in Queued : ComesNearer(p)]_slotVars
  BY WaitStep
<1>. QED
  BY <1>1, <1>2, <1>3, WaitBound, PTL DEF SlotSpec, QueueMoves
=============================================================================
