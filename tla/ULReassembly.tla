----------------------------- MODULE ULReassembly -----------------------------
(***************************************************************************)
(* The uplink demand path: a mobile station sends a demand as two bursts,  *)
(* a MAC-ACCESS with fragment 1 and, in a subslot the base station grants, *)
(* a MAC-END-HU with the rest.  The MAC-ACCESS parser keeps the address of *)
(* the last burst that had one (a MAC-END-HU has none), the two-slot       *)
(* reassembly joins the fragments, the pre-reply FSM answers a complete MM *)
(* demand with a BL-ACK and the one-place body mailbox hands it to the     *)
(* attach daemon.                                                          *)
(*                                                                         *)
(* One step is one burst of the control channel (two subslots a frame), a  *)
(* frame boundary, or a step of the daemon: the hardware is done with a    *)
(* burst long before the next one.  A burst that is not heard fails its    *)
(* CRC.  The mobile stations are the environment: a station sends          *)
(* fragment 1 at random, repeats it up to Tries times, sends MAC-END-HU in *)
(* the first subslot of the frame after its grant, and gives up only when  *)
(* no grant for it is under way.                                           *)
(*                                                                         *)
(* FreshSlotOnly, ShortT0 and OverwritingMailbox are faulty variants that  *)
(* the model does not use.                                                 *)
(***************************************************************************)
EXTENDS Integers, FiniteSets

CONSTANTS
  MS, NoMs,   \* the mobile stations
  Label,      \* an address field that holds an event label
  MaxPdu,     \* demands of each station
  Tries,      \* fragments 1 sent for one demand
  SdsPdus,    \* the demands that are CMCE and not MM
  T0Reg       \* REG_REASSEMBLY_T0, in frames; 0 selects the default

T0Default == 2

ASSUME StationAssumption ==
  /\ NoMs \notin MS /\ Label \notin MS /\ Label # NoMs
  /\ MaxPdu \in Nat \ {0} /\ Tries \in Nat \ {0} /\ T0Reg \in 0..15
  /\ SdsPdus \subseteq MS \X (1..MaxPdu)

Demands == MS \X (1..MaxPdu)
NoDemand == <<NoMs, 0>>
SlotIdx == {0, 1}

VARIABLES
  station,   \* [pdu, tries, sent]: the demand a station works on
  grants,    \* stations with a slot grant in the downlink queue
  due,       \* the station whose grant covers the next first subslot
  sub,       \* the next subslot of the frame; 3 at the frame boundary
  rxLocked,  \* the receive chain counts frames
  ulIssi,    \* ul_issi_sys
  contSsi,   \* ul_continuation_ssi_sys
  slot,      \* the two reassembly slots
  dropCnt,   \* drop_cnt_sys
  mailbox,   \* the body mailbox
  daemon,    \* where service_uldbod is
  heard,     \* last fragment 1 heard from each station and the frames since;
             \* 2 when more, or when the receive chain lost them
  joined,    \* every body put together
  served,    \* the bodies the daemon acted on, in a row
  ack        \* the last BL-ACK: the station it went to and the demand

stationVars == <<station, grants, due, sub, rxLocked>>
demandVars == <<ulIssi, contSsi, slot, dropCnt, mailbox, heard, joined, ack>>
vars == <<stationVars, demandVars, daemon, served>>

-----------------------------------------------------------------------------
(* The reassembly.                                                         *)

ShortT0 == IF T0Reg = 0 THEN 1 ELSE T0Reg

T0 == IF T0Reg = 0 THEN T0Default ELSE T0Reg

Holds(i, m) == slot[i].occ /\ slot[i].ssi = m

Free == {i \in SlotIdx : ~slot[i].occ}

Lowest(S) == {i \in S : \A j \in S : i <= j}

FreshSlotOnly(m) == Lowest(Free)

(* Where fragment 1 of m goes; empty when both slots serve other stations. *)
SlotForFrag(m) ==
  IF \E i \in SlotIdx : Holds(i, m)
  THEN Lowest({i \in SlotIdx : Holds(i, m)})
  ELSE Lowest(Free)

FragSlot(d) == [occ |-> TRUE, ssi |-> d[1], frag |-> d, left |-> T0]

(* Where the MAC-END-HU finds its fragment 1. *)
SlotForEnd == Lowest({i \in SlotIdx : Holds(i, contSsi)})

Expiring == {i \in SlotIdx : slot[i].occ /\ slot[i].left = 1}

(* A frame tick.  Both slots assign the counter, so it counts one. *)
TickSlots ==
  /\ slot' = [i \in SlotIdx |->
                IF ~slot[i].occ THEN slot[i]
                ELSE [slot[i] EXCEPT
                        !.occ = i \notin Expiring,
                        !.left = IF @ = 0 THEN 0 ELSE @ - 1]]
  /\ dropCnt' = dropCnt + (IF Expiring = {} THEN 0 ELSE 1)

OverwritingMailbox(b) ==
  [mailbox EXCEPT !.pending = TRUE, !.body = b]

(* The mailbox keeps what the daemon has not taken yet. *)
PushMailbox(b) ==
  IF mailbox.pending THEN [mailbox EXCEPT !.drops = @ + 1]
  ELSE [mailbox EXCEPT !.pending = TRUE, !.body = b]

(* The BL-ACK goes to the address of the last MAC-ACCESS burst. *)
AckDemand(b) ==
  IF b.frag \in SdsPdus THEN ack ELSE [to |-> ulIssi, for |-> b.frag]

-----------------------------------------------------------------------------
(* The bursts.                                                             *)

Demand(m) == <<m, station[m].pdu>>
Active(m) == station[m].pdu <= MaxPdu

(* The first subslot is for the station due if it has a demand under way;  *)
(* the other bursts find it open.                                          *)
Granted == due # NoMs /\ station[due].sent
Open == sub = 2 \/ (sub = 1 /\ ~Granted)

Pass == sub' = sub + 1 /\ UNCHANGED <<due, rxLocked>>

Silence ==
  /\ Open
  /\ Pass
  /\ UNCHANGED <<station, grants, demandVars, daemon, served>>

(* Fragment 1: the parser takes the address for the MAC-END-HU to come,    *)
(* the reassembly stores or drops it and a slot grant is queued.           *)
SendFrag(m, ok) ==
  /\ Open /\ Active(m) /\ due # m
  /\ station[m].tries < Tries
  /\ Pass
  /\ station' = [station EXCEPT ![m].tries = @ + 1, ![m].sent = TRUE]
  /\ IF ok
     THEN LET to == SlotForFrag(m) IN
          /\ ulIssi' = m /\ contSsi' = m
          /\ slot' = [i \in SlotIdx |->
                        IF i \in to THEN FragSlot(Demand(m)) ELSE slot[i]]
          /\ dropCnt' = dropCnt + (IF to = {} THEN 1 ELSE 0)
          /\ heard' = [heard EXCEPT ![m] = [frag |-> Demand(m), age |-> 0]]
          /\ grants' = grants \cup {m}
          /\ UNCHANGED <<mailbox, joined, ack>>
     ELSE UNCHANGED <<grants, demandVars>>
  /\ UNCHANGED <<daemon, served>>

(* A MAC-ACCESS that is complete in one burst, of any station. *)
SendAccess(a) ==
  /\ Open /\ a # ulIssi
  /\ Pass
  /\ ulIssi' = a
  /\ UNCHANGED <<station, grants, contSsi, slot, dropCnt, mailbox, heard,
                 joined, ack, daemon, served>>

(* MAC-END-HU of the station due. *)
SendEnd(ok) ==
  /\ sub = 1 /\ Granted
  /\ Pass
  /\ station' = [station EXCEPT
                   ![due] = [pdu |-> @.pdu + 1, tries |-> 0, sent |-> FALSE]]
  /\ IF ok /\ SlotForEnd # {}
     THEN \E i \in SlotForEnd :
            LET b == [frag |-> slot[i].frag, end |-> Demand(due)] IN
            /\ slot' = [slot EXCEPT ![i].occ = FALSE]
            /\ mailbox' = PushMailbox(b)
            /\ ack' = AckDemand(b)
            /\ joined' = joined \cup {b}
     ELSE UNCHANGED <<slot, mailbox, ack, joined>>
  /\ UNCHANGED <<grants, ulIssi, contSsi, dropCnt, heard, daemon,
                 served>>

(* The station gives up a demand for which it hears no grant. *)
GiveUp(m) ==
  /\ Active(m) /\ station[m].sent /\ station[m].tries = Tries
  /\ m \notin grants /\ due # m
  /\ station' = [station EXCEPT
                   ![m] = [pdu |-> @.pdu + 1, tries |-> 0, sent |-> FALSE]]
  /\ UNCHANGED <<grants, due, sub, rxLocked, demandVars, daemon, served>>

(* The frame boundary: one queued grant is transmitted, heard or not, and  *)
(* the reassembly ticks if the receive chain counts frames.                *)
FrameEnd ==
  /\ sub = 3 /\ sub' = 1
  /\ IF grants = {} THEN due' = NoMs /\ UNCHANGED grants
     ELSE \E m \in grants :
            grants' = grants \ {m} /\ due' \in {m, NoMs}
  /\ heard' = [m \in MS |->
                 [heard[m] EXCEPT !.age = IF @ = 2 THEN 2 ELSE @ + 1]]
  /\ IF rxLocked THEN TickSlots ELSE UNCHANGED <<slot, dropCnt>>
  /\ UNCHANGED <<station, rxLocked, ulIssi, contSsi, mailbox, joined, ack,
                 daemon, served>>

(* The receive chain finds the training sequence of a synchronisation      *)
(* burst, which no mobile station sends; it may also lose it.              *)
Lock ==
  /\ ~rxLocked /\ rxLocked' = TRUE
  /\ UNCHANGED <<station, grants, due, sub, demandVars, daemon, served>>

(* Losing it sets the frame number to 1, which ticks unless it was 1. *)
Unlock ==
  /\ rxLocked /\ rxLocked' = FALSE
  /\ TickSlots \/ UNCHANGED <<slot, dropCnt>>
  /\ heard' = [m \in MS |-> [heard[m] EXCEPT !.age = 2]]
  /\ UNCHANGED <<station, grants, due, sub, ulIssi, contSsi, mailbox, joined, ack, daemon, served>>

(* service_uldbod: read the body and answer it, then release the mailbox.  *)
Serve ==
  /\ daemon = "poll" /\ mailbox.pending
  /\ daemon' = "release"
  /\ served' = served \cup {mailbox.body}
  /\ ack' = IF mailbox.body.frag \in SdsPdus
            THEN [to |-> mailbox.body.frag[1], for |-> mailbox.body.frag]
            ELSE ack
  /\ UNCHANGED <<stationVars, ulIssi, contSsi, slot, dropCnt, mailbox, heard,
                 joined>>

Release ==
  /\ daemon = "release" /\ daemon' = "poll"
  /\ mailbox' = [mailbox EXCEPT !.pending = FALSE]
  /\ UNCHANGED <<stationVars, ulIssi, contSsi, slot, dropCnt, heard, joined,
                 ack, served>>

Init ==
  /\ station = [m \in MS |-> [pdu |-> 1, tries |-> 0, sent |-> FALSE]]
  /\ grants = {} /\ due = NoMs /\ sub = 1 /\ rxLocked = FALSE
  /\ ulIssi = NoMs /\ contSsi = NoMs
  /\ slot = [i \in SlotIdx |->
               [occ |-> FALSE, ssi |-> NoMs, frag |-> NoDemand, left |-> 0]]
  /\ dropCnt = 0
  /\ mailbox = [pending |-> FALSE, drops |-> 0,
                body |-> [frag |-> NoDemand, end |-> NoDemand]]
  /\ daemon = "poll"
  /\ heard = [m \in MS |-> [frag |-> NoDemand, age |-> 2]]
  /\ joined = {} /\ served = {}
  /\ ack = [to |-> NoMs, for |-> NoDemand]

Burst ==
  \/ Silence
  \/ \E m \in MS, ok \in BOOLEAN : SendFrag(m, ok)
  \/ \E a \in MS \cup {Label} : SendAccess(a)
  \/ \E ok \in BOOLEAN : SendEnd(ok)

Next ==
  \/ Burst
  \/ FrameEnd
  \/ \E m \in MS : GiveUp(m)
  \/ Lock \/ Unlock
  \/ Serve \/ Release

Spec == Init /\ [][Next]_vars

-----------------------------------------------------------------------------
(* Properties.                                                             *)

(* A body put together is served, waits in the mailbox or is counted by    *)
(* the mailbox as dropped; the daemon never acts on another one than the   *)
(* one that was announced, though bursts go on while it reads.             *)
BodiesConserved ==
  LET waiting == IF mailbox.pending THEN {mailbox.body} ELSE {}
  IN  /\ served \cup waiting \subseteq joined
      /\ Cardinality(joined)
           = Cardinality(served \cup waiting) + mailbox.drops
      /\ daemon = "release" => mailbox.pending /\ mailbox.body \in served

(* The two halves of a body are of one demand. *)
OwnBody == \A b \in joined : b.frag = b.end

Untouched(m) == station[m] = [pdu |-> 1, tries |-> 0, sent |-> FALSE]

(* With a single station on the air, whatever is lost and whatever demand  *)
(* it gives up half way, no body mixes two of its demands.                 *)
OwnBodyAlone == (\E m \in MS : \A o \in MS \ {m} : Untouched(o)) => OwnBody

(* A MAC-END-HU heard in the frame after its fragment 1 is joined, if the  *)
(* receive chain did not lose its lock and no other station was heard with *)
(* a fragment in between.  This is for a timeout of two frames or more and *)
(* for no more stations than slots: one frame is over before the answer,   *)
(* and a third station can find both slots taken.                          *)
PromptEndJoined ==
  [][SendEnd(TRUE) /\ contSsi = due
     /\ heard[due].frag = Demand(due) /\ heard[due].age = 1
       => \E b \in joined' : b.end = Demand(due)]_vars
=============================================================================
