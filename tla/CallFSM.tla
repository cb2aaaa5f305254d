------------------------------- MODULE CallFSM -------------------------------
(***************************************************************************)
(* The call control of the base station (sw/tetra_call_fsm.c): a table of  *)
(* call slots driven by the CMCE PDUs that the mobiles send (U-SETUP,      *)
(* U-TX-DEMAND, U-TX-CEASED, U-CONNECT, U-RELEASE, U-DISCONNECT), by the   *)
(* watchdog tick of the daemon's loop and by the speech bursts heard on    *)
(* the uplink.  Its outputs are the downlink PDUs it stages, the four      *)
(* SLOT_AACH registers, the voice mask and the four voice filler banks.    *)
(*                                                                         *)
(* The daemon is one thread.  A round of its loop is a tick, which visits  *)
(* the slots one after the other (cursor), then the late-entry requests of *)
(* the attach handlers and at most one CMCE PDU, then a sleep.  A speech   *)
(* burst can reach the uplink mailbox between two slots of one tick.       *)
(*                                                                         *)
(* Time is kept as what the code computes from its millisecond clock: the  *)
(* age of a slot and the time left until its next setup step.  The age is  *)
(* now - t_setup_arrived_ms while the call rings and                       *)
(* now - last_activity_poll_cnt afterwards: the code looks at no other age *)
(* in either phase, and every transition out of the ringing phase stamps   *)
(* last_activity_poll_cnt anew.  The 32-bit wrap of the clock is the       *)
(* subject of module CallClock.                                            *)
(*                                                                         *)
(* A few operators (FreeTsOfAnswered, NamedCallFirst, MaskOfTalkers, ...)  *)
(* are faulty variants of the operator they stand before: the model does   *)
(* not use them, they serve to see that a property fails on a plausible    *)
(* bug.                                                                    *)
(***************************************************************************)
EXTENDS Integers, FiniteSets

CONSTANTS
  Issi,          \* individual subscriber identities of the mobiles
  Gssi,          \* group identities registered in the entity database
  None,          \* the zero SSI: no subscriber, an empty slot
  MaxCalls,      \* CALL_FSM_MAX_CALLS
  VoiceTs,       \* timeslots TETRA_VOICE_TS_MIN..TETRA_VOICE_TS_MAX
  MaxCallId,     \* last call identifier before the counter wraps (16383)
  UmtMax,        \* last traffic usage marker of the pool (63)
  VoiceQuiet,    \* CALL_FSM_VOICE_QUIET_MS
  CallStale,     \* CALL_FSM_CALL_STALE_MS
  AlertTimeout,  \* CALL_FSM_ALERT_TIMEOUT_MS
  SetupGap,      \* the 113 ms between two setup PDUs
  Delays,        \* how long one round of the daemon's loop can take
  BurstTs,       \* timeslots on which speech bursts are heard
  LossyReply     \* can the reply path stay busy and lose a PDU?

UmtMin == 4

ASSUME IdentityAssumption ==
  /\ Issi \cap Gssi = {}
  /\ None \notin Issi \cup Gssi

ASSUME TableAssumption ==
  /\ MaxCalls \in Nat \ {0}
  /\ VoiceTs \subseteq 2..4
  /\ MaxCallId \in Nat \ {0}
  /\ UmtMax \in Nat /\ UmtMax >= UmtMin
  /\ BurstTs \subseteq {1} \cup VoiceTs

ASSUME TimeAssumption ==
  /\ VoiceQuiet \in Nat /\ CallStale \in Nat /\ AlertTimeout \in Nat
  /\ SetupGap \in Nat \ {0}
  /\ Delays \subseteq Nat \ {0}
  /\ LossyReply \in BOOLEAN

Calls == 1..MaxCalls
AirTs == {1} \cup VoiceTs
Party == Issi \cup Gssi
Umt == UmtMin..UmtMax
IdleAach == 0                  \* stands for the pattern 0x3000
NoVoice == -1                  \* a filler bank whose valid bit is clear
Oldest == 1 + (IF CallStale > AlertTimeout THEN CallStale ELSE AlertTimeout)

EmptySlot ==
  [ssi |-> None, gssi |-> None, issi |-> None, callId |-> 0, umt |-> 0,
   ts |-> 0, state |-> "IDLE", stage |-> 0, due |-> 0, age |-> 0,
   ceased |-> FALSE]

VARIABLES
  slot,        \* g_slots
  nextCallId,  \* g_next_call_id
  nextUmt,     \* g_next_umt
  aach,        \* REG_SLOT_AACH_TSn: a usage marker, or IdleAach
  mask,        \* REG_VOICE_ACTIVE_MASK and its cached copy
  bank,        \* filler banks: NoVoice, or the call heard (0: no call)
  out,         \* the downlink PDUs of the last tick or of the last request
  pc,          \* where the daemon's loop is: "tick", "rx" or "sleep"
  cursor       \* the slot the tick visits next

vars == <<slot, nextCallId, nextUmt, aach, mask, bank, out, pc, cursor>>

-----------------------------------------------------------------------------
(* Looking up a slot.  The code scans upwards and takes the first match.   *)

InUse(i) == slot[i].ssi # None

First(i, S) == i \in S /\ \A j \in S : i <= j

OwnedBy(ms) == {i \in Calls : InUse(i) /\ slot[i].ssi = ms}

WithCallId(c) == {i \in Calls : c # 0 /\ InUse(i) /\ slot[i].callId = c}

WithGssi(g) == {i \in Calls : g # None /\ InUse(i) /\ slot[i].gssi = g}

OnTs(t) == {i \in Calls : InUse(i) /\ slot[i].ts = t}

FreeTsOfAnswered ==
  {t \in VoiceTs : \A i \in OnTs(t) : slot[i].state = "CONNECTING"}

FreeTs == {t \in VoiceTs : OnTs(t) = {}}

NamedCallFirst(i, ms, c) ==
  \/ First(i, WithCallId(c))
  \/ WithCallId(c) = {} /\ First(i, OwnedBy(ms))

(* The slot a PDU about call c from mobile ms acts on: the mobile's own    *)
(* slot, else the slot of that call.                                       *)
ActsOn(i, ms, c) ==
  \/ First(i, OwnedBy(ms))
  \/ OwnedBy(ms) = {} /\ First(i, WithCallId(c))

(* The tag of speech heard on timeslot t: the call that owns t, 0 if none. *)
Heard(t) == IF OnTs(t) = {} THEN 0
            ELSE slot[CHOOSE i \in OnTs(t) : TRUE].callId

-----------------------------------------------------------------------------
(* Downlink PDUs.  OnChannel carries a channel allocation (umt and ts),    *)
(* Plain none.  Any submission can fail (the reply path stays busy): the   *)
(* PDU is lost and the call control goes on.                               *)

Dl(pdu, to, call, umt, ts, copies) ==
  [pdu |-> pdu, to |-> to, call |-> call, umt |-> umt, ts |-> ts,
   copies |-> copies]

OnChannel(pdu, to, s) == Dl(pdu, to, s.callId, s.umt, s.ts, 1)

Plain(pdu, to, s) == Dl(pdu, to, s.callId, 0, 0, 1)

DSetup(s) ==
  LET to == IF s.gssi # None THEN s.gssi
            ELSE IF s.issi # None THEN s.issi ELSE s.ssi
  IN  IF s.gssi = None /\ s.issi # None
      THEN Plain("D-SETUP", to, s) ELSE OnChannel("D-SETUP", to, s)

DConnect(s) == OnChannel("D-CONNECT", s.ssi, s)

DConnectAck(s) ==
  OnChannel("D-CONNECT-ACK", IF s.issi # None THEN s.issi ELSE s.ssi, s)

DTxGranted(s) == OnChannel("D-TX-GRANTED", s.ssi, s)

DTxCeased(s) ==
  Dl("D-TX-CEASED", IF s.gssi # None THEN s.gssi ELSE s.ssi,
     s.callId, s.umt, s.ts, IF s.ceased THEN 1 ELSE 3)

DRelease(s) == OnChannel("D-RELEASE", s.ssi, s)

Sendings(pdus) == IF LossyReply THEN SUBSET pdus ELSE {pdus}

Staged(pdus) == out' \in Sendings(pdus)

-----------------------------------------------------------------------------
(* The aggregated voice mask: timeslots of the answered calls that were    *)
(* heard within VoiceQuiet.  slots is the table the mask is computed from. *)

MaskOfTalkers(slots) ==
  {slots[i].ts : i \in {j \in Calls :
      slots[j].state = "TALKER" /\ slots[j].age <= VoiceQuiet}}

VoiceMask(slots) ==
  {slots[i].ts : i \in {j \in Calls :
      /\ slots[j].ssi # None
      /\ slots[j].state \notin {"IDLE", "CONNECTING", "RELEASING"}
      /\ slots[j].age <= VoiceQuiet}}

NoBanks == [t \in AirTs |-> NoVoice]

-----------------------------------------------------------------------------
(* Slot allocation.  A call identifier and a usage marker are consumed     *)
(* even when no voice timeslot is left and the slot is given back.         *)

NextCallId(c) == IF c = MaxCallId THEN 1 ELSE c + 1

NextUmt(u) == IF u + 1 > UmtMax THEN UmtMin ELSE u + 1

TakeNumbers ==
  /\ nextCallId' = NextCallId(nextCallId)
  /\ nextUmt' = NextUmt(nextUmt)

FreeCalls == {i \in Calls : ~InUse(i)}

NewSlot(ms, t) ==
  [EmptySlot EXCEPT !.ssi = ms, !.callId = nextCallId, !.umt = nextUmt,
                    !.ts = t]

FreedKeepingAach(i) ==
  slot' = [slot EXCEPT ![i] = EmptySlot] /\ UNCHANGED aach

FreedWithGroup(i) ==
  /\ slot' = [j \in Calls |->
                IF j = i \/ (slot[j].gssi # None /\ slot[j].gssi = slot[i].gssi)
                THEN EmptySlot ELSE slot[j]]
  /\ aach' = [aach EXCEPT ![slot[i].ts] = IdleAach]

(* free_slot: the AACH of the timeslot goes back to idle.                  *)
Freed(i) ==
  /\ slot' = [slot EXCEPT ![i] = EmptySlot]
  /\ aach' = [aach EXCEPT ![slot[i].ts] = IdleAach]

-----------------------------------------------------------------------------
(* U-SETUP.  base is the slot the call goes to (new, the caller's own, or  *)
(* a running group call whose floor the caller takes over).                *)

IsGroup(cp, p2mp) == p2mp /\ cp \in Gssi

SetUpOneSequence(base, cp, group) ==
  [base EXCEPT !.gssi = IF group THEN cp ELSE None,
               !.issi = IF group THEN None ELSE cp,
               !.state = IF group THEN "CONNECTED" ELSE "CONNECTING",
               !.stage = 1, !.due = SetupGap, !.age = 0, !.ceased = FALSE]

SetUp(base, cp, group) ==
  [base EXCEPT !.gssi = IF group THEN cp ELSE None,
               !.issi = IF group THEN None ELSE cp,
               !.state = IF group THEN "CONNECTED" ELSE "CONNECTING",
               !.stage = IF group THEN 1 ELSE 11,
               !.due = SetupGap, !.age = 0, !.ceased = FALSE]

(* What follows once the slot is known.  A group call is connected at once *)
(* and its mask bit set; an individual call only rings.                    *)
Place(i, base, cp, group) ==
  LET s == SetUp(base, cp, group) IN
  /\ slot' = [slot EXCEPT ![i] = s]
  /\ IF group
     THEN /\ Staged({DConnect(s)})
          /\ mask' = VoiceMask(slot')
          /\ bank' = NoBanks
     ELSE /\ Staged({Plain("AL-SETUP", s.ssi, s),
                     Plain("D-CALL-PROCEEDING", s.ssi, s),
                     Plain("D-ALERT", s.ssi, s), DSetup(s)})
          /\ UNCHANGED <<mask, bank>>

SetupOwn(ms, cp, p2mp) ==
  \E i \in Calls :
    /\ First(i, OwnedBy(ms))
    /\ Place(i, slot[i], cp, IsGroup(cp, p2mp))
    /\ UNCHANGED <<nextCallId, nextUmt, aach>>

SetupFloorTransfer(ms, cp, p2mp) ==
  \E i \in Calls :
    /\ OwnedBy(ms) = {} /\ IsGroup(cp, p2mp) /\ First(i, WithGssi(cp))
    /\ Place(i, [slot[i] EXCEPT !.ssi = ms], cp, TRUE)
    /\ UNCHANGED <<nextCallId, nextUmt, aach>>

NeedsSlotPerGroup(ms, cp, p2mp) == IsGroup(cp, p2mp) => WithGssi(cp) = {}

NeedsSlot(ms, cp, p2mp) ==
  OwnedBy(ms) = {} /\ (IsGroup(cp, p2mp) => WithGssi(cp) = {})

SetupNew(ms, cp, p2mp) ==
  \E i \in Calls, t \in VoiceTs :
    /\ NeedsSlot(ms, cp, p2mp) /\ First(i, FreeCalls) /\ First(t, FreeTs)
    /\ Place(i, NewSlot(ms, t), cp, IsGroup(cp, p2mp))
    /\ aach' = [aach EXCEPT ![t] = nextUmt]
    /\ TakeNumbers

SetupRefused(ms, cp, p2mp) ==
  /\ NeedsSlot(ms, cp, p2mp)
  /\ FreeCalls = {} \/ FreeTs = {}
  /\ IF FreeCalls = {} THEN UNCHANGED <<nextCallId, nextUmt>>
     ELSE TakeNumbers
  /\ out' = {}
  /\ UNCHANGED <<slot, aach, mask, bank>>

-----------------------------------------------------------------------------
(* The other requests.                                                     *)

DemandNewChannel(i, ms) ==
  [slot[i] EXCEPT !.ssi = ms, !.state = "TALKER", !.age = 0,
                  !.ts = CHOOSE t \in VoiceTs : t \in FreeTs \/ FreeTs = {}]

(* U-TX-DEMAND: a mobile without a slot takes over the floor of the call   *)
(* it names, whatever its kind and state; the channel stays.               *)
Demand(i, ms) ==
  [slot[i] EXCEPT !.ssi = ms, !.state = "TALKER", !.age = 0]

TxDemand(ms, c) ==
  \E i \in Calls :
    /\ ActsOn(i, ms, c)
    /\ slot' = [slot EXCEPT ![i] = Demand(i, ms)]
    /\ Staged({DTxGranted(slot'[i])})
    /\ mask' = VoiceMask(slot')
    /\ UNCHANGED <<nextCallId, nextUmt, aach, bank>>

(* U-TX-CEASED of the talker's own slot.  The mask is left to the tick.    *)
TxCeased(ms) ==
  \E i \in Calls :
    /\ First(i, OwnedBy(ms))
    /\ slot' = [slot EXCEPT ![i].state = "CONNECTED", ![i].age = 0,
                            ![i].ceased = TRUE]
    /\ Staged({DTxCeased(slot[i])})
    /\ UNCHANGED <<nextCallId, nextUmt, aach, mask, bank>>

(* U-CONNECT: the called mobile answers, found by the call it names.       *)
Connect(ms, c) ==
  \E i \in Calls :
    /\ ActsOn(i, ms, c)
    /\ slot' = [slot EXCEPT ![i].state = "CONNECTED", ![i].stage = 0,
                            ![i].due = 0, ![i].age = 0]
    /\ Staged({DConnect(slot[i]), DConnectAck(slot[i])})
    /\ mask' = VoiceMask(slot')
    /\ bank' = NoBanks
    /\ UNCHANGED <<nextCallId, nextUmt, aach>>

(* U-RELEASE and U-DISCONNECT, which the code treats alike.                *)
Release(ms) ==
  \E i \in Calls :
    /\ First(i, OwnedBy(ms))
    /\ Freed(i)
    /\ Staged({DRelease(slot[i])})
    /\ mask' = VoiceMask(slot')
    /\ bank' = IF mask' = {} THEN NoBanks ELSE bank
    /\ UNCHANGED <<nextCallId, nextUmt>>

(* A request that finds no slot, U-ALERT and every unsupported PDU.        *)
NothingToDo ==
  /\ out' = {}
  /\ UNCHANGED <<slot, nextCallId, nextUmt, aach, mask, bank>>

(* One round handles at most one CMCE PDU.                                 *)
HandleCmce ==
  /\ pc = "rx" /\ pc' = "sleep" /\ UNCHANGED cursor
  /\ \E ms \in Issi :
       \/ \E cp \in Party \cup {None}, p2mp \in BOOLEAN :
            \/ SetupOwn(ms, cp, p2mp)
            \/ SetupFloorTransfer(ms, cp, p2mp)
            \/ SetupNew(ms, cp, p2mp)
            \/ SetupRefused(ms, cp, p2mp)
       \/ \E c \in 0..MaxCallId : TxDemand(ms, c) \/ Connect(ms, c)
       \/ TxCeased(ms)
       \/ Release(ms)

NoCmce == pc = "rx" /\ pc' = "sleep" /\ NothingToDo /\ UNCHANGED cursor

(* tetra_call_fsm_notify_late_entry: a mobile attached to group g.         *)
LateEntry(g) ==
  /\ pc = "rx"
  /\ Staged({DSetup(slot[i]) : i \in {j \in WithGssi(g) :
                slot[j].state \in {"CONNECTED", "TALKER"}}})
  /\ UNCHANGED <<slot, nextCallId, nextUmt, aach, mask, bank, pc, cursor>>

-----------------------------------------------------------------------------
(* The tick.  First the setup sequencer of the slot, then its watchdog.    *)

StageDue(s) == s.stage # 0 /\ s.due = 0

StagePdus(s) ==
  IF ~StageDue(s) THEN {}
  ELSE CASE s.stage = 1 -> {DConnect(s)}
         [] s.stage = 2 /\ s.gssi = None /\ s.issi = None -> {}
         [] OTHER -> {DSetup(s)}

StageStuck(s) ==
  IF ~StageDue(s) THEN s
  ELSE [s EXCEPT !.stage = IF @ = 1 THEN 2 ELSE @,
                 !.due = IF s.stage = 1 THEN SetupGap ELSE 0]

StageStep(s) ==
  IF ~StageDue(s) THEN s
  ELSE [s EXCEPT !.stage = IF s.stage = 1 THEN 2 ELSE 0,
                 !.due = IF s.stage = 1 THEN SetupGap ELSE 0]

NextSlot == cursor' = cursor + 1

Visit(i) ==
  pc = "tick" /\ cursor = i /\ NextSlot /\ UNCHANGED <<nextCallId, nextUmt, pc>>

StagedToo(pdus) == \E sent \in Sendings(pdus) : out' = out \cup sent

VisitEmpty(i) ==
  /\ Visit(i) /\ ~InUse(i)
  /\ UNCHANGED <<slot, aach, mask, bank, out>>

(* A call that rings is only given up after the alert timeout.             *)
VisitRinging(i) ==
  /\ Visit(i) /\ InUse(i) /\ slot[i].state = "CONNECTING"
  /\ slot[i].age <= AlertTimeout
  /\ slot' = [slot EXCEPT ![i] = StageStep(@)]
  /\ StagedToo(StagePdus(slot[i]))
  /\ UNCHANGED <<aach, mask, bank>>

RingTimeout(i) ==
  /\ Visit(i) /\ InUse(i) /\ slot[i].state = "CONNECTING"
  /\ slot[i].age > AlertTimeout
  /\ Freed(i)
  /\ StagedToo(StagePdus(slot[i]) \cup {DRelease(slot[i])})
  /\ UNCHANGED <<mask, bank>>

(* A call that was not heard for CallStale is dropped, without D-RELEASE.  *)
Watchdog(i) ==
  /\ Visit(i) /\ InUse(i) /\ slot[i].state # "CONNECTING"
  /\ slot[i].age > CallStale
  /\ Freed(i)
  /\ bank' = [bank EXCEPT ![slot[i].ts] = NoVoice]
  /\ StagedToo(StagePdus(slot[i]))
  /\ UNCHANGED mask

RefreshAll(slots, t) ==
  [i \in Calls |->
     IF slots[i].ssi # None /\ slots[i].state # "CONNECTING"
     THEN [slots[i] EXCEPT !.age = 0] ELSE slots[i]]

(* Any other call: its bank is cleared when it is quiet, then the voice    *)
(* pipe relays the pending burst, if there is one, of whatever timeslot.   *)
(* A burst refreshes the activity of the call that owns its timeslot.      *)
Refresh(slots, t) ==
  [i \in Calls |->
     IF slots[i].ssi # None /\ slots[i].ts = t /\ slots[i].state # "CONNECTING"
     THEN [slots[i] EXCEPT !.age = 0] ELSE slots[i]]

Quieted(i) ==
  IF slot[i].age > VoiceQuiet THEN [bank EXCEPT ![slot[i].ts] = NoVoice]
  ELSE bank

VisitActive(i) ==
  /\ Visit(i) /\ InUse(i) /\ slot[i].state # "CONNECTING"
  /\ slot[i].age <= CallStale
  /\ StagedToo(StagePdus(slot[i]))
  /\ LET stepped == [slot EXCEPT ![i] = StageStep(@)] IN
     \/ /\ slot' = stepped
        /\ bank' = Quieted(i)
     \/ \E t \in BurstTs :
          /\ slot[i].gssi # None \/ slot[i].issi # None
          /\ slot' = Refresh(stepped, t)
          /\ bank' = [Quieted(i) EXCEPT ![t] = Heard(t)]
  /\ UNCHANGED <<aach, mask>>

TickSlot ==
  \E i \in Calls :
    \/ VisitEmpty(i) \/ VisitRinging(i) \/ RingTimeout(i) \/ Watchdog(i)
    \/ VisitActive(i)

TickEnd ==
  /\ pc = "tick" /\ cursor > MaxCalls
  /\ mask' = VoiceMask(slot)
  /\ pc' = "rx" /\ cursor' = 1
  /\ UNCHANGED <<slot, nextCallId, nextUmt, aach, bank, out>>

-----------------------------------------------------------------------------
(* A round of the loop takes d; ages saturate past the last threshold.     *)

Older(s, d) ==
  IF s.ssi = None THEN s
  ELSE [s EXCEPT !.age = IF @ + d > Oldest THEN Oldest ELSE @ + d,
                 !.due = IF @ <= d THEN 0 ELSE @ - d]

Elapse ==
  /\ pc = "sleep"
  /\ \E d \in Delays : slot' = [i \in Calls |-> Older(slot[i], d)]
  /\ out' = {}
  /\ pc' = "tick"
  /\ UNCHANGED <<nextCallId, nextUmt, aach, mask, bank, cursor>>

Init ==
  /\ slot = [i \in Calls |-> EmptySlot]
  /\ nextCallId = 1
  /\ nextUmt = UmtMin
  /\ aach = [t \in AirTs |-> IdleAach]
  /\ mask = {}
  /\ bank = NoBanks
  /\ out = {}
  /\ pc = "tick"
  /\ cursor = 1

Next ==
  \/ TickSlot
  \/ TickEnd
  \/ HandleCmce
  \/ NoCmce
  \/ \E g \in Gssi : LateEntry(g)
  \/ Elapse

(* The loop never stops: the tick, the skipped or handled request and the  *)
(* sleep always come.  What the mobiles send is not fair.                  *)
Fairness ==
  /\ WF_vars(TickSlot)
  /\ WF_vars(TickEnd)
  /\ WF_vars(NoCmce \/ HandleCmce)
  /\ WF_vars(Elapse)

Spec == Init /\ [][Next]_vars

FairSpec == Spec /\ Fairness

-----------------------------------------------------------------------------
(* Type invariant: the shape of the call table, of the registers and of    *)
(* the loop's position.                                                    *)

Slot ==
  [ssi : Issi \cup {None}, gssi : Gssi \cup {None}, issi : Party \cup {None},
   callId : 0..MaxCallId, umt : {0} \cup Umt, ts : {0} \cup VoiceTs,
   state : {"IDLE", "CONNECTING", "CONNECTED", "TALKER"},
   stage : {0, 1, 2, 11}, due : 0..SetupGap, age : 0..Oldest,
   ceased : BOOLEAN]

TypeOK ==
  /\ slot \in [Calls -> Slot]
  /\ nextCallId \in 1..MaxCallId
  /\ nextUmt \in Umt
  /\ aach \in [AirTs -> {IdleAach} \cup Umt]
  /\ mask \subseteq {0} \cup VoiceTs
  /\ bank \in [AirTs -> {NoVoice} \cup 0..MaxCallId]
  /\ pc \in {"tick", "rx", "sleep"}
  /\ cursor \in 1..MaxCalls + 1

(* No mobile has two calls: find_slot would act on one of them only, and   *)
(* the other could never be released by its owner.                         *)
OneCallPerMobile ==
  \A i, j \in Calls : InUse(i) /\ InUse(j) /\ slot[i].ssi = slot[j].ssi => i = j

(* No two calls share a voice timeslot and every call has one: two calls   *)
(* on one timeslot would hear each other.                                  *)
OneCallPerTimeslot ==
  /\ \A i \in Calls : InUse(i) => slot[i].ts \in VoiceTs
  /\ \A i, j \in Calls : InUse(i) /\ InUse(j) /\ slot[i].ts = slot[j].ts => i = j

(* The AACH registers tell the mobiles exactly the calls of the table: the *)
(* usage marker of the call on its timeslot, idle everywhere else.         *)
AachFollowsCalls ==
  /\ \A i \in Calls : InUse(i) => aach[slot[i].ts] = slot[i].umt
  /\ \A t \in AirTs : OnTs(t) = {} => aach[t] = IdleAach

(* A call that is set up as an individual call never runs the D-CONNECT    *)
(* sequence of a group call, and no group call repeats the ringing D-SETUP *)
(* ("KEIN D-CONNECT", tetra_call_fsm.c:765).                               *)
SequenceFitsCall ==
  \A i \in Calls :
    /\ slot[i].stage \in {1, 2} => slot[i].gssi # None /\ slot[i].state # "CONNECTING"
    /\ slot[i].stage = 11 => slot[i].gssi = None

(* A mobile told to transmit finds its channel on the air: once the round  *)
(* is over, the timeslot of every D-CONNECT, D-CONNECT-ACK and             *)
(* D-TX-GRANTED advertises the usage marker of the PDU and its mask bit is *)
(* set, even when the PDU is the one repeated by the tick.                 *)
GrantedOnLiveChannel ==
  pc # "tick" =>
    \A m \in out :
      m.pdu \in {"D-CONNECT", "D-CONNECT-ACK", "D-TX-GRANTED"} =>
        m.ts \in mask /\ aach[m.ts] = m.umt

(* The floor of a call changes hands, and the call is set up anew, without *)
(* moving: its number, usage marker and timeslot stay (tetra_call_fsm.c:   *)
(* 420, 523) for as long as the slot is in use.                            *)
ChannelStays ==
  [][\A i \in Calls :
       InUse(i) /\ InUse(i)' =>
         /\ slot'[i].callId = slot[i].callId
         /\ slot'[i].umt = slot[i].umt
         /\ slot'[i].ts = slot[i].ts
         /\ aach'[slot[i].ts] = aach[slot[i].ts]]_vars

(* No step takes away a call other than the one it is about: at most one   *)
(* slot is freed, and the markers of the other timeslots stay.             *)
OthersUndisturbed ==
  [][\A i, j \in Calls :
       InUse(i) /\ ~InUse(i)' /\ j # i /\ InUse(j) =>
         InUse(j)' /\ aach'[slot[j].ts] = slot[j].umt]_vars

(* A call is attended to when a request changes it or its own timeslot is  *)
(* heard; speech on another timeslot does not count.                       *)
Attended(i) ==
  /\ InUse(i)
  /\ \/ pc = "rx" /\ slot'[i] # slot[i]
     \/ pc = "tick" /\ bank'[slot[i].ts] = slot[i].callId

(* Every call that nobody uses any more is given up, ringing calls too     *)
(* (tetra_call_fsm.h:111): its slot is infinitely often empty unless the   *)
(* call is attended to again and again.                                    *)
AbandonedCallsEnd ==
  \A i \in Calls : []<><<Attended(i)>>_vars \/ []<>(~InUse(i))

(* The setup sequence of a call runs to its end unless the mobile sets the *)
(* call up again.                                                          *)
SetupCompletes ==
  \A i \in Calls :
    []<>(slot[i].stage = 0 \/ (slot[i].stage \in {1, 11} /\ slot[i].due = SetupGap))

(* The call table implements the voice channels: the talker of a channel   *)
(* is the owner of the slot on its timeslot.                               *)
ChanOf(t) ==
  IF OnTs(t) = {} THEN [talker |-> None, marker |-> IdleAach]
  ELSE LET i == CHOOSE i \in OnTs(t) : TRUE
       IN  [talker |-> slot[i].ssi, marker |-> slot[i].umt]

VC == INSTANCE VoiceChannels WITH
        Mobiles <- Issi, Timeslots <- VoiceTs, Markers <- Umt,
        Idle <- IdleAach, Nobody <- None,
        chan <- [t \in VoiceTs |-> ChanOf(t)],
        air <- [t \in VoiceTs |-> aach[t]]

(* Every step of the call control opens, hands over or closes one voice    *)
(* channel of the abstract specification, or none.                         *)
ImplementsVoiceChannels == VC!Spec
=============================================================================
