---------------------------- MODULE VoiceChannels ----------------------------
(***************************************************************************)
(* What the call control promises about the voice timeslots, without call  *)
(* slots, setup sequences or timers: a channel is closed or carries one    *)
(* talker, a mobile talks on one channel at a time, a channel keeps its    *)
(* usage marker from the moment it is opened until it is closed, and the   *)
(* marker is on the air for exactly that long.                             *)
(***************************************************************************)
EXTENDS Integers

CONSTANTS
  Mobiles, Timeslots, Markers,
  Idle,    \* what a timeslot without a call advertises
  Nobody   \* the talker of a closed channel

VARIABLES
  chan,  \* who talks on a timeslot and under which marker
  air    \* what the timeslot advertises

Channel(ms, u) == [talker |-> ms, marker |-> u]

Closed == Channel(Nobody, Idle)

IsOpen(t) == chan[t].talker # Nobody

Silent(ms) == \A t \in Timeslots : chan[t].talker # ms

Open(t, ms, u) ==
  /\ ~IsOpen(t) /\ Silent(ms)
  /\ \A s \in Timeslots : s < t => IsOpen(s)
  /\ chan' = [chan EXCEPT ![t] = Channel(ms, u)]
  /\ air' = [air EXCEPT ![t] = u]

HandOver(t, ms) ==
  /\ IsOpen(t) /\ Silent(ms)
  /\ chan' = [chan EXCEPT ![t].talker = ms]
  /\ UNCHANGED air

Close(t) ==
  /\ IsOpen(t)
  /\ chan' = [chan EXCEPT ![t] = Closed]
  /\ air' = [air EXCEPT ![t] = Idle]

Init ==
  /\ chan = [t \in Timeslots |-> Closed]
  /\ air = [t \in Timeslots |-> Idle]

Next ==
  \E t \in Timeslots :
    \/ \E ms \in Mobiles, u \in Markers : Open(t, ms, u)
    \/ \E ms \in Mobiles : HandOver(t, ms)
    \/ Close(t)

Spec == Init /\ [][Next]_<<chan, air>>
=============================================================================
