----------------------------- MODULE DownlinkSlot -----------------------------
(***************************************************************************)
(* One downlink carrier slot by slot: the signalling queue (DLSignalQueue, *)
(* whose registers this module shares), the scheduler that pops it         *)
(* (tetra_dl_signal_scheduler.v), the burst dispatcher that chooses the    *)
(* body of the slot (tetra_burst_dispatcher.v), the encoder that prepares  *)
(* the access assignment (AACH) of the next slot (tetra_aach_encoder.v)    *)
(* and the multiplexer that replaces it by the one of the popped PDU       *)
(* (tetra_zynq_top.v).                                                     *)
(*                                                                         *)
(* The slot pulse of slot `now' captures the burst of `now', pops the      *)
(* queue and starts the AACH encoder for the slot after it; the encoder    *)
(* is done long before the next pulse.  Between two pulses producers write *)
(* to the queue and the software rewrites the filler banks, their gates    *)
(* and the grant hint.  A write may also fall on the pulse itself.         *)
(*                                                                         *)
(* A PDU's 432 coded bits are two halves.  A full-slot PDU (SCH/F) fills   *)
(* both; a half-slot PDU (SCH/HD) of an LSB-aligned producer has zeros in  *)
(* the upper half, of any other producer in the lower.                     *)
(*                                                                         *)
(* OneBasedSlot, PopsAnySlot and EncodeThisSlot are faulty variants that   *)
(* the model does not use.                                                 *)
(***************************************************************************)
EXTENDS DLSignalQueue

CONSTANTS
  Mcch,           \* cfg_mcch_tn: the timeslot all signalling is aimed at
  TrafficFrames,  \* frames 1..17 of a multiframe, before the control frame
  Multiframes,    \* multiframes told apart (4: mn modulo 4)
  VoiceTns,       \* timeslots that may carry a call
  FullSlot,       \* PDUs that are SCH/F
  LsbAligned,     \* PDUs whose producer pushes {216'd0, coded}
  Common,         \* PDUs with aach_pattern 0x0249 instead of 0x0009
  Reserving,      \* slot grants that reserve uplink slots (mm = 7)
  ResvFrames      \* frames such a grant reserves (3)

Tns == 0..3
ControlFrame == TrafficFrames
Anchor == 2       \* the multiframe whose control frame has the sync anchor

ASSUME SlotAssumption ==
  /\ Mcch \in Tns
  /\ TrafficFrames \in Nat \ {0}
  /\ Multiframes \in Nat \ {0}
  /\ VoiceTns \subseteq Tns \ {0}
  /\ FullSlot \subseteq Pdus /\ LsbAligned \subseteq Pdus \ FullSlot
  /\ Common \subseteq Pdus /\ Reserving \subseteq MlePdus
  /\ ResvFrames \in Nat

SlotOf(t, f, m) == [tn |-> t, fn |-> f, mn |-> m]
SlotTimes == [tn : Tns, fn : 0..TrafficFrames, mn : 0..(Multiframes - 1)]

Filling == "filler"
Aachs == {"none", "f18", "common", "signalling", "macEnd", "grant",
          "reserved", "call", "idle"}

VARIABLES
  now,     \* the slot of the next pulse
  aach,    \* aach_coded_sys: the pattern the encoder prepared for `now'
  hold,    \* resv_hold_sys
  grant,   \* grant_pending_sys
  voice,   \* voice_active_mask_sys
  sds,     \* sds_fill_active_sys[0], with "last" its sds_fill_last_sys
  valid,   \* vfill_valid_per_ts_sys, by timeslot
  air      \* the burst of the last pulse

slotVars == <<entry, dropCnt, dropCntOf, offered, sent, dropped,
              now, aach, hold, grant, voice, sds, valid, air>>

softVars == <<grant, voice, sds, valid>>

-----------------------------------------------------------------------------
(* The position in the frame structure.                                    *)

OneBasedSlot(s) ==
  IF s.tn < 3 THEN [s EXCEPT !.tn = @ + 1]
  ELSE IF s.fn < TrafficFrames THEN SlotOf(1, s.fn + 1, s.mn)
  ELSE SlotOf(1, 0, (s.mn + 1) % Multiframes)

NextSlot(s) ==
  IF s.tn < 3 THEN [s EXCEPT !.tn = @ + 1]
  ELSE IF s.fn < TrafficFrames THEN SlotOf(0, s.fn + 1, s.mn)
  ELSE SlotOf(0, 0, (s.mn + 1) % Multiframes)

(* The slots the schedule sends as synchronisation bursts: SB1 takes the   *)
(* place of the first half.                                                *)
SyncBurst(s) == s.tn # 0 \/ (s.fn = ControlFrame /\ s.mn = Anchor)

-----------------------------------------------------------------------------
(* The AACH encoder, on the pulse before slot s.                           *)

(* Which pattern, in the order of the branches. *)
Encode(s) ==
  LET signalling == HeadValid /\ s.tn = Mcch
  IN  IF s.fn = ControlFrame
      THEN IF s.tn = 0 /\ s.mn # Anchor THEN "common" ELSE "f18"
      ELSE IF s.tn # 0 THEN IF s.tn \in voice THEN "call" ELSE "idle"
      ELSE IF signalling THEN "signalling"
      ELSE IF grant THEN "grant"
      ELSE IF hold # 0 THEN "reserved"
      ELSE IF sds = "last" THEN "macEnd" ELSE "common"

EncodeThisSlot(s) == Encode([s EXCEPT !.tn = (@ + 3) % 4])

(* The encoder looks ahead to the slot its pattern is for. *)
EncodeFor(s) == Encode(s)

(* A grant that reserves reloads the hold in the cycle it is pushed. *)
HoldAfter(pattern, W) ==
  IF W \cap Reserving # {} THEN ResvFrames
  ELSE IF pattern = "reserved" THEN hold - 1 ELSE hold

-----------------------------------------------------------------------------
(* The scheduler and the dispatcher, on the pulse of slot s.               *)

PopsAnySlot(s) == HeadValid

Pops(s) == HeadValid /\ s.tn = Mcch

UpperHalf(p) == IF p \in LsbAligned THEN "zeros" ELSE p
LowerHalf(p) ==
  IF p \in FullSlot \cup LsbAligned THEN p ELSE "zeros"

Blk1(p) == UpperHalf(p)
Blk2(p) == IF p \in FullSlot THEN LowerHalf(p) ELSE "companion"

(* The voice filler path also carries long SDS messages on timeslot 0.     *)
Filled(s) ==
  /\ s.fn # ControlFrame
  /\ s.tn \in voice \/ (s.tn = 0 /\ sds # "off")
  /\ s.tn \in valid

(* The two halves the dispatcher captures. *)
Body(s) ==
  IF Filled(s) THEN <<Filling, Filling>>
  ELSE IF HeadValid /\ s.tn = Mcch THEN <<Blk1(Head), Blk2(Head)>>
  ELSE <<"static", "static">>

(* The burst as it is sent: a synchronisation burst has no first half.  A  *)
(* filled slot is always sent as a normal burst.                           *)
Burst(s) ==
  [slot   |-> s,
   popped |-> IF Pops(s) THEN Head ELSE NoPdu,
   first  |-> IF SyncBurst(s) /\ ~Filled(s) THEN "sb1" ELSE Body(s)[1],
   second |-> Body(s)[2],
   filled |-> Filled(s),
   aach   |-> IF HeadValid /\ s.tn = Mcch
              THEN IF Head \in Common THEN "common" ELSE "signalling"
              ELSE aach]

-----------------------------------------------------------------------------
NoBurst ==
  [slot |-> SlotOf(0, 0, 0), popped |-> NoPdu, first |-> "static",
   second |-> "static", filled |-> FALSE, aach |-> "none"]

SlotInit ==
  /\ Init
  /\ now = SlotOf(0, 0, 0) /\ aach = "none" /\ hold = 0
  /\ grant = FALSE /\ voice = {} /\ sds = "off" /\ valid = {}
  /\ air = NoBurst

(* A clock edge between two slot pulses on which PDUs are written. *)
Write(W) ==
  /\ W # {}
  /\ Cycle(W, FALSE)
  /\ hold' = HoldAfter("none", W)
  /\ UNCHANGED <<now, aach, air>> /\ UNCHANGED softVars

SlotPulse(W) ==
  LET next == NextSlot(now)
      pattern == EncodeFor(next)
  IN  /\ Cycle(W, Pops(now))
      /\ air' = Burst(now)
      /\ aach' = pattern
      /\ hold' = HoldAfter(pattern, W)
      /\ grant' = (grant /\ pattern # "grant")
      /\ now' = next
      /\ UNCHANGED <<voice, sds, valid>>

(* The software moves the gates and fills or clears a bank. *)
SetVoice(v) ==
  /\ voice' = v
  /\ UNCHANGED queueVars
  /\ UNCHANGED <<now, aach, hold, grant, sds, valid, air>>

SetSds(g) ==
  /\ sds' = g
  /\ UNCHANGED queueVars
  /\ UNCHANGED <<now, aach, hold, grant, voice, valid, air>>

SetBank(t, full) ==
  /\ valid' = IF full THEN valid \cup {t} ELSE valid \ {t}
  /\ UNCHANGED queueVars
  /\ UNCHANGED <<now, aach, hold, grant, voice, sds, air>>

(* The software hints at an uplink grant for the next idle slot. *)
PokeGrant ==
  /\ ~grant
  /\ grant' = TRUE
  /\ UNCHANGED queueVars
  /\ UNCHANGED <<now, aach, hold, voice, sds, valid, air>>

SlotNext ==
  \/ \E W \in Offers : Write(W)
  \/ \E W \in Offers : SlotPulse(W)
  \/ \E v \in SUBSET VoiceTns : SetVoice(v)
  \/ \E g \in {"off", "on", "last"} : SetSds(g)
  \/ \E t \in VoiceTns \cup {0}, full \in BOOLEAN : SetBank(t, full)
  \/ PokeGrant

SlotSpec == SlotInit /\ [][SlotNext]_slotVars

(* The slot clock runs on. *)
FairSlotSpec == SlotSpec /\ WF_slotVars(\E W \in Offers : SlotPulse(W))

-----------------------------------------------------------------------------
(* Properties.                                                             *)

Carried(b, p) == b.first = p /\ (p \in FullSlot => b.second = p)

(* A PDU leaves the queue only with the burst of the signalling timeslot,  *)
(* which carries it whole except where the slot is filled from a bank or   *)
(* is the synchronisation anchor, or the producer aligns the PDU to the    *)
(* lower half.                                                             *)
PoppedIsCarried ==
  air.popped # NoPdu =>
    /\ air.slot.tn = Mcch
    /\ \/ Carried(air, air.popped)
       \/ air.filled
       \/ SyncBurst(air.slot)
       \/ air.popped \in LsbAligned

(* An AACH that announces signalling is only sent with the PDU it was      *)
(* queued with: what the encoder saw at the previous pulse is still at the *)
(* head, or is replaced by something that brings its own pattern.          *)
SignallingHasPdu == air.aach = "signalling" => air.popped # NoPdu

(* Every PDU that was accepted is sent, also while the bank of its         *)
(* timeslot stays filled and its gate open.                                *)
QueueDrains == \A p \in Pdus : p \in Queued ~> p \in sent
=============================================================================
