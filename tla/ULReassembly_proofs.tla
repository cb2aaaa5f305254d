-------------------------- MODULE ULReassembly_proofs --------------------------
(***************************************************************************)
(* Theorems about the uplink demand path, for every number of stations,    *)
(* demands, repetitions and every timeout register: no body is lost        *)
(* between the reassembly and the daemon without being counted, a station  *)
(* alone on the air never has two of its demands mixed, and a prompt       *)
(* MAC-END-HU finds its fragment.                                          *)
(***************************************************************************)
EXTENDS ULReassembly, FiniteSetTheorems, TLAPS

Halves == (MS \cup {NoMs}) \X Nat
Bodies == [frag : Halves, end : Halves]
Stations == [pdu : Nat \ {0}, tries : Nat, sent : BOOLEAN]
Entries == [occ : BOOLEAN, ssi : MS \cup {NoMs}, frag : Halves, left : Nat]

TypeOK ==
  /\ station \in [MS -> Stations]
  /\ grants \subseteq MS /\ due \in MS \cup {NoMs} /\ sub \in 1..3
  /\ rxLocked \in BOOLEAN
  /\ ulIssi \in MS \cup {NoMs, Label} /\ contSsi \in MS \cup {NoMs}
  /\ slot \in [SlotIdx -> Entries] /\ dropCnt \in Nat
  /\ mailbox \in [pending : BOOLEAN, drops : Nat, body : Bodies]
  /\ daemon \in {"poll", "release"}
  /\ heard \in [MS -> [frag : Halves, age : 0..2]]
  /\ joined \subseteq Bodies /\ served \subseteq Bodies

LEMMA T0Type == T0 \in Nat \ {0}
  BY StationAssumption DEF T0, T0Default

(* What the two slots may be chosen from.                                  *)
LEMMA LowestOfSlots ==
  ASSUME NEW S \in SUBSET SlotIdx
  PROVE  /\ Lowest(S) \subseteq S
         /\ S # {} => Lowest(S) # {}
         /\ \A i, j \in Lowest(S) : i = j
  BY DEF Lowest, SlotIdx

LEMMA DemandType == TypeOK => \A m \in MS : Demand(m) \in Halves
  BY DEF TypeOK, Stations, Demand, Halves

LEMMA PushType ==
  ASSUME TypeOK, NEW b \in Bodies
  PROVE  PushMailbox(b) \in [pending : BOOLEAN, drops : Nat, body : Bodies]
<1>1. mailbox.drops + 1 \in Nat
  BY DEF TypeOK
<1>2. CASE mailbox.pending
  BY <1>1, <1>2 DEF TypeOK, PushMailbox
<1>3. CASE ~mailbox.pending
  BY <1>3 DEF TypeOK, PushMailbox
<1>. QED
  BY <1>2, <1>3

LEMMA TickType ==
  ASSUME TypeOK, TickSlots
  PROVE  slot' \in [SlotIdx -> Entries] /\ dropCnt' \in Nat
<1>1. dropCnt' \in Nat
  <2>1. dropCnt + 1 \in Nat /\ dropCnt + 0 \in Nat
    BY DEF TypeOK
  <2>. QED
    BY <2>1 DEF TickSlots
<1> DEFINE ticked(i) == [slot[i] EXCEPT
                           !.occ = i \notin Expiring,
                           !.left = IF @ = 0 THEN 0 ELSE @ - 1]
<1>2. ASSUME NEW i \in SlotIdx
      PROVE  ticked(i) \in Entries
  <2>1. slot[i] \in Entries
    BY DEF TypeOK
  <2>2. (IF slot[i].left = 0 THEN 0 ELSE slot[i].left - 1) \in Nat
    BY <2>1 DEF Entries
  <2>3. (i \notin Expiring) \in BOOLEAN
    OBVIOUS
  <2>. QED
    BY <2>1, <2>2, <2>3, Zenon DEF Entries
<1>3. \A i \in SlotIdx : slot[i] \in Entries
  BY DEF TypeOK
<1> HIDE DEF ticked
<1>4. slot' = [i \in SlotIdx |-> IF ~slot[i].occ THEN slot[i] ELSE ticked(i)]
  BY DEF TickSlots, ticked
<1>. QED
  BY <1>1, <1>2, <1>3, <1>4

(* The next demand.                                                        *)
LEMMA NextDemand ==
  ASSUME TypeOK, NEW m \in MS
  PROVE  /\ [station[m] EXCEPT !.tries = @ + 1, !.sent = TRUE] \in Stations
         /\ [pdu |-> station[m].pdu + 1, tries |-> 0, sent |-> FALSE] \in Stations
<1>1. station[m] \in Stations
  BY DEF TypeOK, Stations
<1>2. station[m].pdu + 1 \in Nat \ {0} /\ station[m].tries + 1 \in Nat
  BY <1>1 DEF Stations
<1>. QED
  BY <1>1, <1>2, Zenon DEF Stations

(* A MAC-END-HU that is joined: which slot, which body.                    *)
Joins(i) ==
  LET b == [frag |-> slot[i].frag, end |-> Demand(due)] IN
  /\ slot' = [slot EXCEPT ![i].occ = FALSE]
  /\ mailbox' = PushMailbox(b)
  /\ joined' = joined \cup {b}

LEMMA SendEndShape ==
  ASSUME TypeOK, NEW ok \in BOOLEAN, SendEnd(ok)
  PROVE  /\ due \in MS /\ station[due].sent /\ sub = 1 /\ sub' = 2
         /\ station' = [station EXCEPT
              ![due] = [pdu |-> @.pdu + 1, tries |-> 0, sent |-> FALSE]]
         /\ UNCHANGED <<grants, due, rxLocked, ulIssi, contSsi, dropCnt, heard,
                        daemon, served>>
         /\ \/ UNCHANGED <<slot, mailbox, joined>>
            \/ \E i \in SlotIdx : Holds(i, contSsi) /\ Joins(i)
<1>1. SlotForEnd \subseteq {i \in SlotIdx : Holds(i, contSsi)}
  BY LowestOfSlots DEF SlotForEnd
<1>2. \/ UNCHANGED <<slot, mailbox, joined>>
      \/ \E i \in SlotIdx : Holds(i, contSsi) /\ Joins(i)
  BY <1>1 DEF SendEnd, Joins
<1>3. due \in MS /\ station[due].sent
  BY DEF SendEnd, Granted, TypeOK
<1>. QED
  BY <1>2, <1>3 DEF SendEnd, Pass

LEMMA TypeInit == Init => TypeOK
<1> SUFFICES ASSUME Init PROVE TypeOK
  OBVIOUS
<1>1. NoDemand \in Halves
  BY DEF NoDemand, Halves
<1>2. /\ station \in [MS -> Stations]
      /\ slot \in [SlotIdx -> Entries]
  BY <1>1 DEF Init, Entries, Stations
<1>3. /\ mailbox \in [pending : BOOLEAN, drops : Nat, body : Bodies]
      /\ heard \in [MS -> [frag : Halves, age : 0..2]]
  BY <1>1 DEF Init, Bodies
<1>4. /\ grants \subseteq MS /\ due \in MS \cup {NoMs}
      /\ rxLocked \in BOOLEAN /\ ulIssi \in MS \cup {NoMs, Label}
      /\ contSsi \in MS \cup {NoMs}
  BY DEF Init
<1>5. sub \in 1..3 /\ dropCnt \in Nat
  BY DEF Init
<1>6. daemon \in {"poll", "release"} /\ joined \subseteq Bodies /\ served \subseteq Bodies
  BY DEF Init
<1>. QED
  BY <1>2, <1>3, <1>4, <1>5, <1>6 DEF TypeOK

LEMMA TypeFrag ==
  ASSUME TypeOK, NEW m \in MS, NEW ok \in BOOLEAN, SendFrag(m, ok)
  PROVE  TypeOK'
<1>1. station' \in [MS -> Stations]
  <2>1. station' = [station EXCEPT
          ![m] = [station[m] EXCEPT !.tries = @ + 1, !.sent = TRUE]]
    BY DEF SendFrag, TypeOK, Stations
  <2>. QED
    BY <2>1, NextDemand DEF TypeOK
<1>2. sub' \in 1..3
  BY DEF SendFrag, Open, Pass
<1>3. CASE ok
  <2>1. FragSlot(Demand(m)) \in Entries
    BY T0Type, DemandType DEF FragSlot, Entries, Demand
  <2>2. slot' \in [SlotIdx -> Entries]
    BY <1>3, <2>1 DEF SendFrag, TypeOK
  <2>3. heard' \in [MS -> [frag : Halves, age : 0..2]]
    BY <1>3, DemandType DEF SendFrag, TypeOK
  <2>. QED
    BY <1>1, <1>2, <1>3, <2>2, <2>3 DEF SendFrag, TypeOK, Pass
<1>4. CASE ~ok
  BY <1>1, <1>2, <1>4 DEF SendFrag, TypeOK, Pass, demandVars
<1>. QED
  BY <1>3, <1>4

LEMMA TypeEnd ==
  ASSUME TypeOK, NEW ok \in BOOLEAN, SendEnd(ok)
  PROVE  TypeOK'
<1>1. station' \in [MS -> Stations]
  BY SendEndShape, NextDemand DEF TypeOK
<1>2. CASE UNCHANGED <<slot, mailbox, joined>>
  BY <1>1, <1>2, SendEndShape DEF TypeOK
<1>3. ASSUME NEW i \in SlotIdx, Joins(i)
      PROVE  TypeOK'
  <2> DEFINE b == [frag |-> slot[i].frag, end |-> Demand(due)]
  <2>1. b \in Bodies
    BY SendEndShape, DemandType DEF TypeOK, Entries, Bodies
  <2>2. slot' \in [SlotIdx -> Entries]
    BY <1>3 DEF Joins, TypeOK, Entries
  <2>3. mailbox' \in [pending : BOOLEAN, drops : Nat, body : Bodies]
        /\ joined' \subseteq Bodies
    BY <1>3, <2>1, PushType DEF Joins, TypeOK
  <2>. QED
    BY <1>1, <2>2, <2>3, SendEndShape DEF TypeOK
<1>. QED
  BY <1>2, <1>3, SendEndShape

LEMMA TypeStep == ASSUME TypeOK, [Next]_vars PROVE TypeOK'
<1>1. CASE Silence
  BY <1>1 DEF Silence, Open, Pass, TypeOK, demandVars
<1>2. CASE \E m \in MS, ok \in BOOLEAN : SendFrag(m, ok)
  BY <1>2, TypeFrag
<1>3. CASE \E a \in MS \cup {Label} : SendAccess(a)
  BY <1>3 DEF SendAccess, Open, Pass, TypeOK
<1>4. CASE \E ok \in BOOLEAN : SendEnd(ok)
  BY <1>4, TypeEnd
<1>5. CASE FrameEnd
  <2>1. heard' \in [MS -> [frag : Halves, age : 0..2]]
    BY <1>5 DEF FrameEnd, TypeOK
  <2>2. slot' \in [SlotIdx -> Entries] /\ dropCnt' \in Nat
    BY <1>5, TickType DEF FrameEnd, TypeOK
  <2>3. grants' \subseteq MS /\ due' \in MS \cup {NoMs} /\ sub' \in 1..3
    BY <1>5 DEF FrameEnd, TypeOK
  <2>. QED
    BY <1>5, <2>1, <2>2, <2>3 DEF FrameEnd, TypeOK
<1>6. ASSUME NEW m \in MS, GiveUp(m)
      PROVE  TypeOK'
  <2>1. station' \in [MS -> Stations]
    BY <1>6, NextDemand DEF GiveUp, TypeOK
  <2>. QED
    BY <1>6, <2>1 DEF GiveUp, TypeOK, demandVars
<1>7. CASE Lock
  BY <1>7 DEF Lock, TypeOK, demandVars
<1>8. CASE Unlock
  <2>1. heard' \in [MS -> [frag : Halves, age : 0..2]]
    BY <1>8 DEF Unlock, TypeOK
  <2>2. slot' \in [SlotIdx -> Entries] /\ dropCnt' \in Nat
    BY <1>8, TickType DEF Unlock, TypeOK
  <2>. QED
    BY <1>8, <2>1, <2>2 DEF Unlock, TypeOK
<1>9. CASE Serve
  BY <1>9 DEF Serve, TypeOK, stationVars
<1>10. CASE Release
  BY <1>10 DEF Release, TypeOK, stationVars
<1>11. CASE UNCHANGED vars
  BY <1>11 DEF vars, stationVars, demandVars, TypeOK
<1>. QED
  BY <1>1, <1>2, <1>3, <1>4, <1>5, <1>6, <1>7, <1>8, <1>9, <1>10, <1>11
  DEF Next, Burst

(* The state of the demand path keeps its shape.                           *)
THEOREM TypeCorrect == Spec => []TypeOK
  BY TypeInit, TypeStep, PTL DEF Spec

-----------------------------------------------------------------------------
(* Bodies.                                                                 *)

Waiting == IF mailbox.pending THEN {mailbox.body} ELSE {}

(* A demand that was ended is not the one its station works on.            *)
Ended ==
  \A b \in joined : \E m \in MS, n \in Nat :
    b.end = <<m, n>> /\ n < station[m].pdu

Counted ==
  /\ served \cup Waiting \subseteq joined
  /\ Cardinality(joined) = Cardinality(served \cup Waiting) + mailbox.drops
  /\ daemon = "release" => mailbox.pending /\ mailbox.body \in served

BodyInv == IsFiniteSet(joined) /\ Ended /\ Counted

LEMMA BodyInit == Init => BodyInv
<1> SUFFICES ASSUME Init PROVE BodyInv
  OBVIOUS
<1>1. joined = {} /\ served \cup Waiting = {} /\ mailbox.drops = 0
  BY DEF Init, Waiting
<1>2. Cardinality({}) = 0 /\ IsFiniteSet({})
  BY FS_EmptySet
<1>3. Cardinality(joined) = Cardinality(served \cup Waiting) + mailbox.drops
  BY <1>1, <1>2
<1>. QED
  BY <1>1, <1>2, <1>3 DEF Init, BodyInv, Ended, Counted

(* A step that puts no body together.                                      *)
LEMMA BodyKept ==
  ASSUME BodyInv, TypeOK, joined' = joined,
         \A m \in MS : station[m].pdu <= station'[m].pdu,
         (served \cup Waiting)' = served \cup Waiting,
         mailbox'.drops = mailbox.drops,
         daemon' = "release" => mailbox'.pending /\ mailbox'.body \in served',
         TypeOK'
  PROVE  BodyInv'
<1>1. Ended'
  BY DEF BodyInv, Ended, TypeOK, Stations
<1>. QED
  BY <1>1 DEF BodyInv, Counted

(* A body put together is a new one; it goes to the mailbox, or the        *)
(* mailbox keeps the one that waits and counts this one.                   *)
LEMMA BodyJoined ==
  ASSUME BodyInv, TypeOK, TypeOK', NEW ok \in BOOLEAN, SendEnd(ok),
         NEW i \in SlotIdx, Joins(i)
  PROVE  BodyInv'
<1> DEFINE b == [frag |-> slot[i].frag, end |-> Demand(due)]
           mine == served \cup Waiting
<1>1. /\ due \in MS /\ joined' = joined \cup {b} /\ served' = served
      /\ daemon' = daemon
      /\ station' = [station EXCEPT
                       ![due] = [pdu |-> @.pdu + 1, tries |-> 0, sent |-> FALSE]]
  BY SendEndShape DEF Joins
<1>2. mailbox' = PushMailbox(b) /\ b.end = <<due, station[due].pdu>>
  BY DEF Joins, Demand
<1> HIDE DEF b
<1>3. station[due].pdu \in Nat /\ station'[due].pdu = station[due].pdu + 1
      /\ \A m \in MS : m # due => station'[m].pdu = station[m].pdu
  BY <1>1 DEF TypeOK, Stations
<1>4. b \notin joined
  BY <1>1, <1>2, <1>3 DEF BodyInv, Ended
<1>5. Ended'
  <2>1. \A m \in MS, n \in Nat : n < station[m].pdu => n < station'[m].pdu
    BY <1>1, <1>3 DEF TypeOK, Stations
  <2>2. station[due].pdu < station'[due].pdu
    BY <1>3
  <2>. QED
    BY <1>1, <1>2, <1>3, <2>1, <2>2 DEF BodyInv, Ended
<1>6. /\ IsFiniteSet(joined') /\ Cardinality(joined') = Cardinality(joined) + 1
      /\ Cardinality(joined) \in Nat
  BY <1>1, <1>4, FS_AddElement, FS_CardinalityType DEF BodyInv
<1>7. IsFiniteSet(mine) /\ Cardinality(mine) \in Nat
  BY FS_Subset, FS_CardinalityType DEF BodyInv, Counted
<1>8. Counted'
  <2>1. CASE mailbox.pending
    <3>1. /\ mailbox'.pending /\ mailbox'.body = mailbox.body
          /\ mailbox'.drops = mailbox.drops + 1 /\ mailbox.drops \in Nat
      BY <1>2, <2>1 DEF PushMailbox, TypeOK
    <3>2. (served \cup Waiting)' = mine
      BY <1>1, <2>1, <3>1 DEF Waiting
    <3>3. Cardinality(joined') = Cardinality(mine) + mailbox'.drops
      BY <1>6, <1>7, <3>1 DEF BodyInv, Counted
    <3>. QED
      BY <1>1, <3>1, <3>2, <3>3 DEF BodyInv, Counted
  <2>2. CASE ~mailbox.pending
    <3>1. /\ mailbox'.pending /\ mailbox'.body = b
          /\ mailbox'.drops = mailbox.drops /\ mailbox.drops \in Nat
      BY <1>2, <2>2 DEF PushMailbox, TypeOK
    <3>2. mine = served /\ (served \cup Waiting)' = mine \cup {b}
      BY <1>1, <2>2, <3>1 DEF Waiting
    <3>3. b \notin mine
      BY <1>4 DEF BodyInv, Counted
    <3>4. Cardinality((served \cup Waiting)') = Cardinality(mine) + 1
      BY <1>7, <3>2, <3>3, FS_AddElement
    <3>5. Cardinality(joined') = Cardinality((served \cup Waiting)') + mailbox'.drops
      BY <1>6, <1>7, <3>1, <3>4 DEF BodyInv, Counted
    <3>. QED
      BY <1>1, <2>2, <3>1, <3>2, <3>5 DEF BodyInv, Counted
  <2>. QED
    BY <2>1, <2>2
<1>. QED
  BY <1>5, <1>6, <1>8 DEF BodyInv

LEMMA BodyStep ==
  ASSUME BodyInv, TypeOK, [Next]_vars
  PROVE  BodyInv'
<1> DEFINE Later == \A m \in MS : station[m].pdu <= station'[m].pdu
<1>0. TypeOK'
  BY TypeStep
<1>1. ASSUME Later, UNCHANGED <<joined, served, mailbox, daemon>>
      PROVE  BodyInv'
  <2>1. (served \cup Waiting)' = served \cup Waiting
    BY <1>1 DEF Waiting
  <2>2. daemon' = "release" => mailbox'.pending /\ mailbox'.body \in served'
    BY <1>1 DEF BodyInv, Counted
  <2>. QED
    BY <1>0, <1>1, <2>1, <2>2, BodyKept
<1>2. station' = station => Later
  BY DEF TypeOK, Stations
<1>3. CASE Silence
  BY <1>1, <1>2, <1>3 DEF Silence, demandVars
<1>4. ASSUME NEW m \in MS, NEW ok \in BOOLEAN, SendFrag(m, ok)
      PROVE  BodyInv'
  <2>1. Later
    BY <1>4 DEF SendFrag, TypeOK, Stations
  <2>. QED
    BY <1>1, <1>4, <2>1 DEF SendFrag, demandVars
<1>5. CASE \E a \in MS \cup {Label} : SendAccess(a)
  BY <1>1, <1>2, <1>5 DEF SendAccess
<1>6. ASSUME NEW ok \in BOOLEAN, SendEnd(ok)
      PROVE  BodyInv'
  <2>1. Later
    BY <1>6, SendEndShape DEF TypeOK, Stations
  <2>. QED
    BY <1>0, <1>1, <1>6, <2>1, BodyJoined, SendEndShape
<1>7. CASE FrameEnd
  BY <1>1, <1>2, <1>7 DEF FrameEnd
<1>8. ASSUME NEW m \in MS, GiveUp(m)
      PROVE  BodyInv'
  <2>1. Later
    BY <1>8 DEF GiveUp, TypeOK, Stations
  <2>. QED
    BY <1>1, <1>8, <2>1 DEF GiveUp, demandVars
<1>9. CASE Lock \/ Unlock
  BY <1>1, <1>2, <1>9 DEF Lock, Unlock, demandVars
<1>10. CASE Serve
  <2>1. (served \cup Waiting)' = served \cup Waiting
    BY <1>10 DEF Serve, Waiting
  <2>. QED
    BY <1>0, <1>2, <1>10, <2>1, BodyKept DEF Serve, stationVars
<1>11. CASE Release
  <2>1. mailbox.body \in served /\ daemon' = "poll" /\ station' = station
    BY <1>11 DEF Release, BodyInv, Counted, stationVars
  <2>2. ~mailbox'.pending /\ mailbox'.drops = mailbox.drops
    BY <1>11 DEF Release, TypeOK
  <2>3. (served \cup Waiting)' = served \cup Waiting
    BY <1>11, <2>1, <2>2 DEF Release, Waiting
  <2>. QED
    BY <1>0, <1>2, <1>11, <2>1, <2>2, <2>3, BodyKept DEF Release
<1>12. CASE UNCHANGED vars
  BY <1>1, <1>2, <1>12 DEF vars, stationVars, demandVars
<1>. QED
  BY <1>3, <1>4, <1>5, <1>6, <1>7, <1>8, <1>9, <1>10, <1>11, <1>12
  DEF Next, Burst

(* The mailbox between the reassembly and service_uldbod: a body is served *)
(* once, waits, or is counted as dropped, though the daemon reads it in    *)
(* two steps while bursts go on.                                           *)
THEOREM BodiesConservedCorrect == Spec => []BodiesConserved
<1>1. BodyInv => BodiesConserved
  BY DEF BodyInv, Counted, Waiting, BodiesConserved
<1>. QED
  BY <1>1, BodyInit, BodyStep, TypeCorrect, PTL DEF Spec

-----------------------------------------------------------------------------
(* Grants, slots and what was heard.                                       *)

(* A grant under way is for a demand whose fragment was heard.             *)
GrantsTrue ==
  /\ due \notin grants
  /\ \A m \in grants : station[m].sent
  /\ \A m \in MS : m \in grants \/ (m = due /\ station[m].sent)
                     => heard[m].frag = Demand(m)

(* A station holds one slot at most, and that slot has the last fragment   *)
(* heard from it.                                                          *)
SlotsTrue ==
  /\ \A i, j \in SlotIdx :
       slot[i].occ /\ slot[j].occ /\ slot[i].ssi = slot[j].ssi => i = j
  /\ \A i \in SlotIdx :
       slot[i].occ => /\ slot[i].ssi \in MS /\ ~Untouched(slot[i].ssi)
                      /\ slot[i].frag = heard[slot[i].ssi].frag

OwnInv == GrantsTrue /\ SlotsTrue /\ OwnBodyAlone

(* A fragment heard in this frame has most of its time left, and one heard *)
(* in the frame before still has its slot when this frame begins.          *)
PromptInv ==
  \A m \in MS :
    /\ heard[m].age = 0 =>
         sub # 1 /\ \E i \in SlotIdx : Holds(i, m) /\ slot[i].left >= 2
    /\ heard[m].age = 1 /\ sub = 1 => \E i \in SlotIdx : Holds(i, m)

LEMMA OwnInit == Init => OwnInv
<1> SUFFICES ASSUME Init PROVE OwnInv
  OBVIOUS
<1>1. GrantsTrue
  BY StationAssumption DEF Init, GrantsTrue
<1>2. SlotsTrue /\ joined = {}
  BY DEF Init, SlotsTrue
<1>. QED
  BY <1>1, <1>2 DEF OwnInv, OwnBodyAlone, OwnBody

(* Who has sent something stays known for it.                              *)
LEMMA StaysTouched ==
  ASSUME TypeOK, [Next]_vars, NEW m \in MS, ~Untouched(m)
  PROVE  ~Untouched(m)'
<1>1. station[m] \in Stations
  BY DEF TypeOK
<1>2. ASSUME NEW o \in MS, NEW ok \in BOOLEAN, SendFrag(o, ok)
      PROVE  ~Untouched(m)'
  <2>1. CASE o = m
    <3>1. station'[m].tries = station[m].tries + 1
      BY <1>1, <1>2, <2>1 DEF SendFrag, TypeOK, Stations
    <3>. QED
      BY <1>1, <3>1 DEF Untouched, Stations
  <2>2. CASE o # m
    BY <1>2, <2>2 DEF SendFrag, TypeOK, Untouched
  <2>. QED
    BY <2>1, <2>2
<1>3. ASSUME NEW o \in MS, m \in MS,
             station' = [station EXCEPT
               ![o] = [pdu |-> @.pdu + 1, tries |-> 0, sent |-> FALSE]]
      PROVE  ~Untouched(m)'
  <2>1. CASE o = m
    <3>1. station'[m].pdu = station[m].pdu + 1
      BY <1>1, <1>3, <2>1 DEF TypeOK, Stations
    <3>. QED
      BY <1>1, <3>1 DEF Untouched, Stations
  <2>2. CASE o # m
    BY <1>3, <2>2 DEF TypeOK, Untouched
  <2>. QED
    BY <2>1, <2>2
<1>4. ASSUME station' = station
      PROVE  ~Untouched(m)'
  BY <1>4 DEF Untouched
<1>5. ASSUME NEW ok \in BOOLEAN, SendEnd(ok)
      PROVE  ~Untouched(m)'
  BY <1>3, <1>5, SendEndShape
<1>6. ASSUME NEW o \in MS, GiveUp(o)
      PROVE  ~Untouched(m)'
  BY <1>3, <1>6 DEF GiveUp
<1>. QED
  BY <1>2, <1>4, <1>5, <1>6
  DEF Next, Burst, Silence, SendAccess, FrameEnd, Lock, Unlock, Serve, Release,
      vars, stationVars

(* Slots that only empty or tick still tell what was heard.                *)
LEMMA SlotsFade ==
  ASSUME SlotsTrue, TypeOK, [Next]_vars,
         \A i \in SlotIdx :
           slot'[i].occ => slot[i].occ /\ slot'[i].ssi = slot[i].ssi
                                       /\ slot'[i].frag = slot[i].frag,
         \A m \in MS : heard'[m].frag = heard[m].frag
  PROVE  SlotsTrue'
<1>1. \A i \in SlotIdx : slot'[i].occ =>
        /\ slot'[i].ssi \in MS /\ slot'[i].frag = heard'[slot'[i].ssi].frag
        /\ ~Untouched(slot[i].ssi)
  BY DEF SlotsTrue
<1>2. \A m \in MS : ~Untouched(m) => ~Untouched(m)'
  BY StaysTouched
<1>3. \A i, j \in SlotIdx :
        slot'[i].occ /\ slot'[j].occ /\ slot'[i].ssi = slot'[j].ssi => i = j
  BY DEF SlotsTrue
<1>4. \A i \in SlotIdx : slot'[i].occ => ~Untouched(slot[i].ssi)'
  BY <1>1, <1>2 DEF SlotsTrue, Untouched
<1>. QED
  BY <1>1, <1>3, <1>4 DEF SlotsTrue, Untouched

LEMMA TickFades ==
  ASSUME TypeOK, TickSlots
  PROVE  \A i \in SlotIdx :
           /\ slot'[i].ssi = slot[i].ssi /\ slot'[i].frag = slot[i].frag
           /\ slot'[i].occ => slot[i].occ
<1> TAKE i \in SlotIdx
<1>1. slot[i] \in Entries
  BY DEF TypeOK
<1>2. slot'[i] = IF ~slot[i].occ THEN slot[i]
                 ELSE [slot[i] EXCEPT !.occ = i \notin Expiring,
                                      !.left = IF @ = 0 THEN 0 ELSE @ - 1]
  BY DEF TickSlots
<1>3. CASE slot[i].occ
  BY <1>1, <1>2, <1>3 DEF Entries
<1>4. CASE ~slot[i].occ
  BY <1>2, <1>4
<1>. QED
  BY <1>3, <1>4

(* A fragment heard goes to the slot of its station, or to a free one.     *)
LEMMA FragPlaced ==
  ASSUME TypeOK, SlotsTrue, NEW m \in MS
  PROVE  /\ \A i \in SlotForFrag(m) : i \in SlotIdx /\ (Holds(i, m) \/ ~slot[i].occ)
         /\ \A i, j \in SlotForFrag(m) : i = j
         /\ \A i \in SlotIdx : Holds(i, m) => i \in SlotForFrag(m)
<1> DEFINE mine == {i \in SlotIdx : Holds(i, m)}
<1>1. CASE mine # {}
  <2>1. SlotForFrag(m) = Lowest(mine)
    BY <1>1 DEF SlotForFrag
  <2>2. \A i, j \in mine : i = j
    BY DEF SlotsTrue, Holds
  <2>. QED
    BY <1>1, <2>1, <2>2, LowestOfSlots
<1>2. CASE mine = {}
  <2>1. SlotForFrag(m) = Lowest(Free)
    BY <1>2 DEF SlotForFrag
  <2>. QED
    BY <1>2, <2>1, LowestOfSlots DEF Free
<1>. QED
  BY <1>1, <1>2

LEMMA OwnFrag ==
  ASSUME TypeOK, GrantsTrue, SlotsTrue, NEW m \in MS, NEW ok \in BOOLEAN,
         SendFrag(m, ok)
  PROVE  GrantsTrue' /\ SlotsTrue' /\ UNCHANGED joined
<1>1. /\ station' = [station EXCEPT ![m].tries = @ + 1, ![m].sent = TRUE]
      /\ due' = due /\ due # m /\ joined' = joined
  BY DEF SendFrag, Pass, demandVars
<1>2. /\ \A o \in MS : station'[o].pdu = station[o].pdu
      /\ station'[m].sent
      /\ \A o \in MS : o # m => station'[o] = station[o]
  BY <1>1 DEF TypeOK, Stations
<1>3. \A o \in MS : Demand(o)' = Demand(o)
  BY <1>2 DEF Demand
<1>4. ~Untouched(m)'
  BY <1>2 DEF Untouched
<1>5. [Next]_vars
  BY DEF Next, Burst
<1>6. CASE ok
  <2>1. /\ grants' = grants \cup {m}
        /\ heard' = [heard EXCEPT ![m] = [frag |-> Demand(m), age |-> 0]]
        /\ slot' = [i \in SlotIdx |-> IF i \in SlotForFrag(m)
                                      THEN FragSlot(Demand(m)) ELSE slot[i]]
    BY <1>6 DEF SendFrag
  <2>2. /\ heard'[m].frag = Demand(m)
        /\ \A o \in MS : o # m => heard'[o] = heard[o]
    BY <2>1 DEF TypeOK
  <2>3. GrantsTrue'
    <3>1. due' \notin grants'
      BY <1>1, <2>1 DEF GrantsTrue
    <3>2. \A o \in grants' : station'[o].sent
      BY <1>2, <2>1 DEF GrantsTrue, TypeOK
    <3>3. \A o \in MS : o \in grants' \/ (o = due' /\ station'[o].sent)
                          => heard'[o].frag = Demand(o)'
      BY <1>1, <1>2, <1>3, <2>1, <2>2 DEF GrantsTrue
    <3>. QED
      BY <3>1, <3>2, <3>3 DEF GrantsTrue
  <2>4. \A i \in SlotIdx :
          IF i \in SlotForFrag(m)
          THEN slot'[i].ssi = m /\ slot'[i].frag = Demand(m)
          ELSE slot'[i] = slot[i] /\ (slot[i].occ => slot[i].ssi # m)
    BY <2>1, FragPlaced DEF FragSlot, Demand, Holds
  <2>5. \A i, j \in SlotIdx :
          slot'[i].occ /\ slot'[j].occ /\ slot'[i].ssi = slot'[j].ssi => i = j
    BY <2>4, FragPlaced DEF SlotsTrue
  <2>6. ASSUME NEW i \in SlotIdx, slot'[i].occ
        PROVE  /\ slot'[i].ssi \in MS
               /\ slot'[i].frag = heard'[slot'[i].ssi].frag
               /\ ~Untouched(slot[i].ssi)' \/ slot'[i].ssi = m
    <3>1. CASE i \in SlotForFrag(m)
      BY <2>2, <2>4, <3>1
    <3>2. CASE i \notin SlotForFrag(m)
      <4>1. /\ slot'[i] = slot[i] /\ slot[i].ssi # m /\ slot[i].ssi \in MS
            /\ ~Untouched(slot[i].ssi) /\ slot[i].frag = heard[slot[i].ssi].frag
        BY <2>4, <2>6, <3>2 DEF SlotsTrue
      <4>2. heard'[slot[i].ssi] = heard[slot[i].ssi]
            /\ station'[slot[i].ssi] = station[slot[i].ssi]
        BY <1>2, <2>2, <4>1
      <4>. QED
        BY <4>1, <4>2 DEF Untouched
    <3>. QED
      BY <3>1, <3>2
  <2>7. ASSUME NEW i \in SlotIdx, slot'[i].occ
        PROVE  station'[slot'[i].ssi] # [pdu |-> 1, tries |-> 0, sent |-> FALSE]
    <3>1. CASE slot'[i].ssi = m
      BY <1>4, <3>1 DEF Untouched
    <3>2. CASE slot'[i].ssi # m
      <4>1. slot'[i] = slot[i] /\ slot[i].ssi \in MS /\ ~Untouched(slot[i].ssi)
        BY <2>4, <2>7, <3>2 DEF SlotsTrue
      <4>. QED
        BY <1>2, <3>2, <4>1 DEF Untouched
    <3>. QED
      BY <3>1, <3>2
  <2>8. SlotsTrue'
    BY <2>5, <2>6, <2>7 DEF SlotsTrue, Untouched
  <2>. QED
    BY <1>1, <2>3, <2>8
<1>7. CASE ~ok
  <2>1. UNCHANGED <<grants, slot, heard>>
    BY <1>7 DEF SendFrag, demandVars
  <2>2. GrantsTrue'
    <3>1. due' \notin grants' /\ \A o \in grants' : station'[o].sent
      BY <1>1, <1>2, <2>1 DEF GrantsTrue, TypeOK
    <3>2. \A o \in MS : o \in grants' \/ (o = due' /\ station'[o].sent)
                          => heard'[o].frag = Demand(o)'
      BY <1>1, <1>2, <1>3, <2>1 DEF GrantsTrue
    <3>. QED
      BY <3>1, <3>2 DEF GrantsTrue
  <2>3. SlotsTrue'
    BY <1>5, <2>1, SlotsFade
  <2>. QED
    BY <1>1, <2>2, <2>3
<1>. QED
  BY <1>6, <1>7

(* A station that goes to its next demand has no grant under way for it.   *)
LEMMA MovesOn ==
  ASSUME TypeOK, GrantsTrue, NEW m \in MS, m \notin grants,
         station' = [station EXCEPT
           ![m] = [pdu |-> @.pdu + 1, tries |-> 0, sent |-> FALSE]],
         UNCHANGED <<grants, due, heard>>
  PROVE  GrantsTrue'
<1>1. ~station'[m].sent
  BY DEF TypeOK
<1>2. \A o \in MS : o # m => station'[o] = station[o]
  BY DEF TypeOK
<1>3. \A o \in MS : o # m => Demand(o)' = Demand(o)
  BY <1>2 DEF Demand
<1>4. due' \notin grants'
  BY DEF GrantsTrue
<1>5. \A o \in grants' : station'[o].sent
  BY <1>2 DEF GrantsTrue, TypeOK
<1>6. \A o \in MS : o \in grants' \/ (o = due' /\ station'[o].sent)
                      => heard'[o].frag = Demand(o)'
  <2> SUFFICES ASSUME NEW o \in MS, o \in grants \/ (o = due /\ station'[o].sent)
               PROVE  heard[o].frag = Demand(o)'
    OBVIOUS
  <2>1. o # m /\ station'[o] = station[o]
    BY <1>1, <1>2
  <2>. QED
    BY <1>3, <2>1 DEF GrantsTrue
<1>. QED
  BY <1>4, <1>5, <1>6 DEF GrantsTrue

LEMMA OwnSteps ==
  ASSUME TypeOK, GrantsTrue, SlotsTrue, [Next]_vars
  PROVE  GrantsTrue' /\ SlotsTrue'
<1>1. ASSUME UNCHANGED <<station, grants, due, heard, slot>>
      PROVE  GrantsTrue' /\ SlotsTrue'
  BY <1>1, SlotsFade DEF GrantsTrue, Demand
<1>2. ASSUME UNCHANGED <<station, grants, due>>,
             \A m \in MS : heard'[m].frag = heard[m].frag
      PROVE  GrantsTrue'
  BY <1>2 DEF GrantsTrue, Demand, TypeOK
<1>3. CASE \E m \in MS, ok \in BOOLEAN : SendFrag(m, ok)
  BY <1>3, OwnFrag
<1>4. ASSUME NEW ok \in BOOLEAN, SendEnd(ok)
      PROVE  GrantsTrue' /\ SlotsTrue'
  <2>1. GrantsTrue'
    BY <1>4, MovesOn, SendEndShape DEF GrantsTrue
  <2>2. \A i \in SlotIdx :
          slot'[i].occ => slot[i].occ /\ slot'[i].ssi = slot[i].ssi
                                      /\ slot'[i].frag = slot[i].frag
    <3>1. CASE slot' = slot
      BY <3>1
    <3>2. ASSUME NEW i \in SlotIdx, slot' = [slot EXCEPT ![i].occ = FALSE],
                 NEW j \in SlotIdx, slot'[j].occ
          PROVE  slot'[j] = slot[j]
      <4>1. slot[i] \in Entries /\ slot \in [SlotIdx -> Entries]
        BY DEF TypeOK
      <4>2. ~[slot[i] EXCEPT !.occ = FALSE].occ
        BY <4>1 DEF Entries
      <4>3. j # i
        BY <3>2, <4>1, <4>2
      <4>. QED
        BY <3>2, <4>1, <4>3
    <3>3. slot' = slot \/ \E i \in SlotIdx : slot' = [slot EXCEPT ![i].occ = FALSE]
      BY <1>4, SendEndShape DEF Joins
    <3>. QED
      BY <3>1, <3>2, <3>3
  <2>. QED
    BY <1>4, <2>1, <2>2, SlotsFade, SendEndShape
<1>5. CASE FrameEnd
  <2>1. \A m \in MS : heard'[m].frag = heard[m].frag
    BY <1>5 DEF FrameEnd, TypeOK
  <2>2. SlotsTrue'
    BY <1>5, <2>1, SlotsFade, TickFades DEF FrameEnd
  <2>3. /\ station' = station
        /\ \/ grants' = {} /\ due' = NoMs
           \/ \E m \in grants : grants' = grants \ {m} /\ due' \in {m, NoMs}
    BY <1>5 DEF FrameEnd
  <2>4. GrantsTrue'
    <3>1. due' \notin grants' /\ grants' \subseteq grants
      BY <2>3, StationAssumption DEF TypeOK
    <3>2. \A o \in MS : o \in grants' \/ o = due' => o \in grants
      BY <2>3, StationAssumption
    <3>3. \A o \in MS : Demand(o)' = Demand(o)
      BY <2>3 DEF Demand
    <3>4. \A o \in MS : o \in grants => heard'[o].frag = Demand(o)'
      BY <2>1, <3>3 DEF GrantsTrue
    <3>5. \A o \in grants' : station'[o].sent
      BY <2>3, <3>1 DEF GrantsTrue
    <3>. QED
      BY <3>1, <3>2, <3>4, <3>5 DEF GrantsTrue
  <2>. QED
    BY <2>2, <2>4
<1>6. ASSUME NEW m \in MS, GiveUp(m)
      PROVE  GrantsTrue' /\ SlotsTrue'
  BY <1>6, MovesOn, SlotsFade DEF GiveUp, demandVars
<1>7. CASE Unlock
  <2>1. \A m \in MS : heard'[m].frag = heard[m].frag
    BY <1>7 DEF Unlock, TypeOK
  <2>. QED
    BY <1>2, <1>7, <2>1, SlotsFade, TickFades DEF Unlock
<1>8. CASE Silence \/ Lock \/ Serve \/ Release
           \/ (\E a \in MS \cup {Label} : SendAccess(a)) \/ UNCHANGED vars
  <2>1. CASE Silence \/ (\E a \in MS \cup {Label} : SendAccess(a))
    BY <1>1, <2>1 DEF Silence, Pass, SendAccess, demandVars
  <2>2. CASE Lock \/ Serve \/ Release \/ UNCHANGED vars
    BY <1>1, <2>2 DEF Lock, Serve, Release, vars, stationVars, demandVars
  <2>. QED
    BY <1>8, <2>1, <2>2
<1>. QED
  BY <1>3, <1>4, <1>5, <1>6, <1>7, <1>8 DEF Next, Burst

LEMMA OwnStep ==
  ASSUME TypeOK, OwnInv, [Next]_vars
  PROVE  OwnInv'
<1>1. GrantsTrue' /\ SlotsTrue'
  BY OwnSteps DEF OwnInv
<1>2. ASSUME NEW m \in MS, \A o \in MS \ {m} : Untouched(o)'
      PROVE  OwnBody'
  <2>1. \A o \in MS \ {m} : Untouched(o)
    BY <1>2, StaysTouched
  <2>2. OwnBody
    BY <2>1 DEF OwnInv, OwnBodyAlone
  <2>3. CASE joined' = joined
    BY <2>2, <2>3 DEF OwnBody
  <2>4. CASE joined' # joined
    <3>1. PICK ok \in BOOLEAN : SendEnd(ok)
      BY <2>4, OwnFrag
      DEF Next, Burst, Silence, SendFrag, SendAccess, FrameEnd, GiveUp, Lock,
          Unlock, Serve, Release, vars, demandVars
    <3>2. due = m
      BY <2>1, <3>1, SendEndShape DEF Untouched
    <3>3. PICK i \in SlotIdx : Holds(i, contSsi) /\ Joins(i)
      BY <2>4, <3>1, SendEndShape
    <3>4. slot[i].ssi = m /\ slot[i].frag = heard[m].frag
      BY <2>1, <3>3 DEF Holds, OwnInv, SlotsTrue
    <3>5. slot[i].frag = Demand(due)
      BY <3>1, <3>2, <3>4, SendEndShape DEF OwnInv, GrantsTrue
    <3>. QED
      BY <2>2, <3>3, <3>5 DEF Joins, OwnBody
  <2>. QED
    BY <2>3, <2>4
<1>. QED
  BY <1>1, <1>2 DEF OwnInv, OwnBodyAlone

(* Whatever is lost and whatever demand it gives up half way, a station    *)
(* alone on the air never has two of its demands put together: no grant    *)
(* outlives the demand it is for, and its slot has its last fragment.      *)
THEOREM OwnBodyAloneCorrect == Spec => []OwnBodyAlone
<1>1. OwnInv => OwnBodyAlone
  BY DEF OwnInv
<1>. QED
  BY <1>1, OwnInit, OwnStep, TypeCorrect, PTL DEF Spec

-----------------------------------------------------------------------------
(* A prompt MAC-END-HU.  It takes a timeout of two frames at least, since  *)
(* the boundary between the two bursts counts one, and no more stations    *)
(* than slots, since two others could hold both slots.                     *)

SlotsSuffice ==
  T0 >= 2 /\ \A a, b, c \in MS : a = b \/ b = c \/ a = c

(* With no more stations than slots a fragment heard finds a slot.         *)
LEMMA FragFits ==
  ASSUME TypeOK, SlotsTrue, SlotsSuffice, NEW m \in MS
  PROVE  SlotForFrag(m) # {}
<1>1. CASE \E i \in SlotIdx : Holds(i, m)
  BY <1>1, LowestOfSlots DEF SlotForFrag
<1>2. CASE ~\E i \in SlotIdx : Holds(i, m)
  <2>1. SlotForFrag(m) = Lowest(Free)
    BY <1>2 DEF SlotForFrag
  <2>2. Free # {}
    <3>1. SUFFICES ASSUME slot[0].occ, slot[1].occ PROVE FALSE
      BY DEF Free, SlotIdx
    <3>2. slot[0].ssi \in MS \ {m} /\ slot[1].ssi \in MS \ {m}
      BY <1>2, <3>1 DEF SlotsTrue, Holds, SlotIdx
    <3>3. slot[0].ssi = slot[1].ssi
      BY <3>2 DEF SlotsSuffice
    <3>. QED
      BY <3>1, <3>3 DEF SlotsTrue, SlotIdx
  <2>. QED
    BY <2>1, <2>2, LowestOfSlots DEF Free
<1>. QED
  BY <1>1, <1>2

LEMMA PromptInit == Init => PromptInv
  BY DEF Init, PromptInv

LEMMA PromptFrag ==
  ASSUME TypeOK, SlotsTrue, SlotsSuffice, PromptInv,
         NEW m \in MS, NEW ok \in BOOLEAN, SendFrag(m, ok)
  PROVE  PromptInv'
<1>1. sub' # 1
  BY DEF SendFrag, Open, Pass
<1>2. CASE ~ok
  BY <1>1, <1>2 DEF SendFrag, demandVars, PromptInv, Open, Holds
<1>3. CASE ok
  <2>1. /\ heard' = [heard EXCEPT ![m] = [frag |-> Demand(m), age |-> 0]]
        /\ slot' = [i \in SlotIdx |-> IF i \in SlotForFrag(m)
                                      THEN FragSlot(Demand(m)) ELSE slot[i]]
    BY <1>3 DEF SendFrag
  <2>2. ASSUME NEW o \in MS, heard'[o].age = 0
        PROVE  \E i \in SlotIdx :
                 slot'[i].occ /\ slot'[i].ssi = o /\ slot'[i].left >= 2
    <3>1. CASE o = m
      <4>1. PICK i \in SlotIdx : i \in SlotForFrag(m)
        BY FragFits, FragPlaced
      <4>2. slot'[i] = FragSlot(Demand(m))
        BY <2>1, <4>1
      <4>. QED
        BY <3>1, <4>2 DEF FragSlot, Demand, SlotsSuffice
    <3>2. CASE o # m
      <4>1. heard[o].age = 0
        BY <2>1, <2>2, <3>2 DEF TypeOK
      <4>2. PICK i \in SlotIdx : Holds(i, o) /\ slot[i].left >= 2
        BY <4>1 DEF PromptInv
      <4>3. i \notin SlotForFrag(m)
        BY <3>2, <4>2, FragPlaced DEF Holds
      <4>. QED
        BY <2>1, <4>2, <4>3 DEF Holds
    <3>. QED
      BY <3>1, <3>2
  <2>. QED
    BY <1>1, <2>2 DEF PromptInv, Holds
<1>. QED
  BY <1>2, <1>3

LEMMA PromptFrame ==
  ASSUME TypeOK, PromptInv, FrameEnd
  PROVE  PromptInv'
<1>1. ASSUME NEW m \in MS
      PROVE  heard'[m].age # 0 /\ (heard'[m].age = 1 => heard[m].age = 0)
  BY DEF FrameEnd, TypeOK
<1>2. ASSUME NEW m \in MS, heard[m].age = 0
      PROVE  \E i \in SlotIdx : slot'[i].occ /\ slot'[i].ssi = m
  <2>1. PICK i \in SlotIdx : Holds(i, m) /\ slot[i].left >= 2
    BY <1>2 DEF PromptInv
  <2>2. slot[i] \in Entries /\ i \notin Expiring
    BY <2>1 DEF TypeOK, Expiring
  <2>3. CASE TickSlots
    <3>1. slot'[i] = [slot[i] EXCEPT !.occ = TRUE,
                                     !.left = IF @ = 0 THEN 0 ELSE @ - 1]
      BY <2>1, <2>2, <2>3 DEF TickSlots, Holds
    <3>. QED
      BY <2>1, <2>2, <3>1 DEF Holds, Entries
  <2>4. CASE slot' = slot
    BY <2>1, <2>4 DEF Holds
  <2>. QED
    BY <2>3, <2>4 DEF FrameEnd
<1>. QED
  BY <1>1, <1>2 DEF PromptInv, Holds

LEMMA PromptStep ==
  ASSUME TypeOK, SlotsTrue, SlotsSuffice, PromptInv, [Next]_vars
  PROVE  PromptInv'
<1>1. ASSUME UNCHANGED <<heard, slot>>, sub' = sub \/ sub' # 1
      PROVE  PromptInv'
  BY <1>1 DEF PromptInv, Holds
<1>2. CASE Silence \/ (\E a \in MS \cup {Label} : SendAccess(a))
  <2>1. sub' # 1 /\ UNCHANGED <<heard, slot>>
    BY <1>2 DEF Silence, SendAccess, Open, Pass, demandVars
  <2>. QED
    BY <1>1, <2>1
<1>3. CASE \E m \in MS, ok \in BOOLEAN : SendFrag(m, ok)
  BY <1>3, PromptFrag
<1>4. ASSUME NEW ok \in BOOLEAN, SendEnd(ok)
      PROVE  PromptInv'
  <2>1. sub = 1 /\ sub' = 2 /\ heard' = heard
    BY <1>4, SendEndShape
  <2>. QED
    BY <2>1 DEF PromptInv
<1>5. CASE FrameEnd
  BY <1>5, PromptFrame
<1>6. CASE Unlock
  <2>1. \A m \in MS : heard'[m].age = 2
    BY <1>6 DEF Unlock, TypeOK
  <2>. QED
    BY <2>1 DEF PromptInv
<1>7. CASE (\E m \in MS : GiveUp(m)) \/ Lock \/ Serve \/ Release
           \/ UNCHANGED vars
  <2>1. UNCHANGED <<heard, slot, sub>>
    BY <1>7 DEF GiveUp, Lock, Serve, Release, vars, stationVars, demandVars
  <2>. QED
    BY <1>1, <2>1
<1>. QED
  BY <1>2, <1>3, <1>4, <1>5, <1>6, <1>7 DEF Next, Burst

LEMMA PromptJoined ==
  ASSUME TypeOK, PromptInv, SendEnd(TRUE), contSsi = due, heard[due].age = 1
  PROVE  \E b \in joined' : b.end = Demand(due)
<1>1. due \in MS /\ sub = 1
  BY SendEndShape
<1>2. \E i \in SlotIdx : Holds(i, contSsi)
  BY <1>1 DEF PromptInv
<1>3. SlotForEnd # {}
  BY <1>2, LowestOfSlots DEF SlotForEnd
<1>4. PICK i \in SlotForEnd :
        joined' = joined \cup {[frag |-> slot[i].frag, end |-> Demand(due)]}
  BY <1>3, Zenon DEF SendEnd
<1>5. [frag |-> slot[i].frag, end |-> Demand(due)].end = Demand(due)
  OBVIOUS
<1>. QED
  BY <1>4, <1>5

(* A MAC-END-HU heard in the frame after its fragment 1, with the address  *)
(* of its own station latched, is joined: the slot filled then is neither  *)
(* taken by another station nor dropped by the one tick in between.        *)
THEOREM PromptEndJoinedCorrect == ASSUME SlotsSuffice PROVE Spec => PromptEndJoined
<1> DEFINE Prompt == SendEnd(TRUE) /\ contSsi = due
                       /\ heard[due].frag = Demand(due) /\ heard[due].age = 1
                         => \E b \in joined' : b.end = Demand(due)
           Inv == TypeOK /\ OwnInv /\ PromptInv
<1>1. Init => Inv
  BY TypeInit, OwnInit, PromptInit
<1>2. Inv /\ [Next]_vars => Inv'
  BY TypeStep, OwnStep, PromptStep DEF OwnInv
<1>3. Inv /\ [Next]_vars => [Prompt]_vars
  BY PromptJoined
<1> HIDE DEF Inv, Prompt
<1>4. Spec => [][Prompt]_vars
  BY <1>1, <1>2, <1>3, PTL DEF Spec
<1>. QED
  BY <1>4 DEF PromptEndJoined, Prompt
=============================================================================
