---------------------------- MODULE DLSignalQueue ----------------------------
(***************************************************************************)
(* The downlink signalling queue (rtl/lmac/tetra_dl_signal_queue.v): a     *)
(* register array of Depth entries with three write ports (MLE, CMCE and   *)
(* SDS, whose number is the priority of what they write), one pop port and *)
(* four drop counters.                                                     *)
(*                                                                         *)
(* One step is one clock edge.  Everything combinational (the arbiters,    *)
(* the free index, the head) is computed from the registers before the     *)
(* edge, so a write and a pop of the same cycle do not see each other.     *)
(*                                                                         *)
(* A PDU is an element of one of three sets, one for each port, and is     *)
(* offered once; offered, sent and dropped record what happened to it and  *)
(* are not part of the hardware.                                           *)
(*                                                                         *)
(* LowestIdx is a faulty variant that the model does not use.              *)
(***************************************************************************)
EXTENDS Integers, FiniteSets

CONSTANTS
  MlePdus, CmcePdus, SdsPdus,  \* the PDUs offered on each write port
  NoPdu,                       \* an entry whose valid bit is clear
  Depth,                       \* DEPTH
  AllMax,                      \* last value of the 16-bit drop counter
  OneMax                       \* last value of a producer's 8-bit counter

Pdus == MlePdus \cup CmcePdus \cup SdsPdus
Ports == 0..2

ASSUME PduAssumption ==
  /\ NoPdu \notin Pdus
  /\ MlePdus \cap CmcePdus = {}
  /\ MlePdus \cap SdsPdus = {}
  /\ CmcePdus \cap SdsPdus = {}
  /\ IsFiniteSet(Pdus)

ASSUME WidthAssumption ==
  /\ Depth \in Nat \ {0}
  /\ AllMax \in Nat \ {0}
  /\ OneMax \in Nat \ {0}

Slots == 0..(Depth - 1)

VARIABLES
  entry,      \* entry_valid and the payload registers
  dropCnt,    \* drop_cnt
  dropCntOf,  \* drop_cnt_mle, drop_cnt_cmce, drop_cnt_sds
  offered, sent, dropped

queueVars == <<entry, dropCnt, dropCntOf, offered, sent, dropped>>

-----------------------------------------------------------------------------
(* The combinational part.                                                 *)

Prio(p) == IF p \in MlePdus THEN 0 ELSE IF p \in CmcePdus THEN 1 ELSE 2

Used == {i \in Slots : entry[i] # NoPdu}
Queued == {entry[i] : i \in Used}

(* What the ports may present in one cycle: at most one PDU each.          *)
Offers ==
  {W \in SUBSET (Pdus \ offered) :
     \A p, q \in W : Prio(p) = Prio(q) => p = q}

Winner(W) == CHOOSE p \in W : \A q \in W : Prio(p) <= Prio(q)

HaveFree == Used # Slots

FreeIdx == IF HaveFree
           THEN CHOOSE i \in Slots \ Used : \A j \in Slots \ Used : i <= j
           ELSE 0

Accepted(W) == W # {} /\ HaveFree

LowestIdx(i, j) == i <= j

(* The head: strict priority, ties by the lower index.                     *)
Ahead(i, j) ==
  \/ Prio(entry[i]) < Prio(entry[j])
  \/ Prio(entry[i]) = Prio(entry[j]) /\ i <= j

HeadValid == Used # {}
HeadIdx == CHOOSE i \in Used : \A j \in Used : Ahead(i, j)
Head == entry[HeadIdx]

-----------------------------------------------------------------------------
(* The drop counters.                                                      *)

(* drop_losers + drop_full *)
DropThis(W) ==
  (IF W = {} THEN 0 ELSE Cardinality(W) - 1)
  + (IF W # {} /\ ~HaveFree THEN 1 ELSE 0)

(* The sum is truncated to the width of the counter. *)
CountUp(cnt, n) ==
  IF n # 0 /\ cnt # AllMax THEN (cnt + n) % (AllMax + 1) ELSE cnt

PortDrop(k, W) ==
  /\ \E p \in W : Prio(p) = k
  /\ ~(Accepted(W) /\ Prio(Winner(W)) = k)

PortCount(k, W) ==
  IF PortDrop(k, W) /\ dropCntOf[k] # OneMax
  THEN dropCntOf[k] + 1 ELSE dropCntOf[k]

-----------------------------------------------------------------------------
Init ==
  /\ entry = [i \in Slots |-> NoPdu]
  /\ dropCnt = 0
  /\ dropCntOf = [k \in Ports |-> 0]
  /\ offered = {} /\ sent = {} /\ dropped = {}

(* A clock edge with the PDUs W on the write ports and pop asserted or not. *)
Cycle(W, pop) ==
  /\ entry' = [i \in Slots |->
                 IF Accepted(W) /\ i = FreeIdx THEN Winner(W)
                 ELSE IF pop /\ HeadValid /\ i = HeadIdx THEN NoPdu
                 ELSE entry[i]]
  /\ dropCnt' = CountUp(dropCnt, DropThis(W))
  /\ dropCntOf' = [k \in Ports |-> PortCount(k, W)]
  /\ offered' = offered \cup W
  /\ sent' = IF pop /\ HeadValid THEN sent \cup {Head} ELSE sent
  /\ dropped' = dropped \cup (IF Accepted(W) THEN W \ {Winner(W)} ELSE W)

Next == \E W \in Offers, pop \in BOOLEAN : Cycle(W, pop)

Spec == Init /\ [][Next]_queueVars

-----------------------------------------------------------------------------
(* Properties.                                                             *)

(* The queue implements the abstract priority buffer: at most one PDU a    *)
(* cycle is stored, the best of those offered, and only if there was room  *)
(* before the cycle; what leaves is one of the best that wait.             *)
Buffer == INSTANCE PriorityBuffer WITH
  waiting <- Queued, gone <- sent, lost <- dropped

ImplementsPriorityBuffer == Buffer!Spec
=============================================================================
