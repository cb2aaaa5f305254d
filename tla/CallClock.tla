------------------------------- MODULE CallClock -------------------------------
(***************************************************************************)
(* The timers of one call of the call control (sw/tetra_call_fsm.c) on     *)
(* their 32-bit millisecond clock, here modulo Wrap: the time of the next  *)
(* setup PDU, the age of a ringing call and the time since its last speech *)
(* burst.  Module CallFSM keeps what the code computes from them.          *)
(*                                                                         *)
(* A tick reads the clock once (now).  While it visits the slots before    *)
(* this one the voice pipe may stamp this call with a later time.          *)
(*                                                                         *)
(* Unsaturated and PlainOrder are faulty variants that the model does not  *)
(* use.                                                                    *)
(***************************************************************************)
EXTENDS Integers

CONSTANTS
  Wrap,          \* 2^32
  SetupGap,      \* 113 ms
  AlertTimeout,  \* CALL_FSM_ALERT_TIMEOUT_MS
  CallStale,     \* CALL_FSM_CALL_STALE_MS
  Round          \* the longest time from one tick to the next

ASSUME ClockAssumption ==
  /\ Wrap \in Nat /\ SetupGap \in Nat /\ AlertTimeout \in Nat
  /\ CallStale \in Nat /\ Round \in Nat \ {0}
  /\ 2 * (AlertTimeout + CallStale + SetupGap + Round) < Wrap
  /\ 4 * Round < Wrap

VARIABLES
  clock,   \* mono_ms_lo()
  now,     \* what the running tick has read
  ticking, \* whether one runs
  phase,   \* "free", "ringing" (CONNECTING) or "connected"
  pending, \* setup_stage > 0
  next,    \* setup_next_ms
  start,   \* t_setup_arrived_ms
  last,    \* last_activity_poll_cnt
  resting, \* the time since the last tick ended
  idle,    \* history: the true time since the last stamp
  rung,    \* history: the true time since the setup
  waiting  \* history: the true time since the setup PDU was planned

call == <<phase, pending, next, start, last>>
truth == <<idle, rung, waiting>>
vars == <<clock, now, ticking, resting, call, truth>>

Longest == AlertTimeout + CallStale + SetupGap + 2 * Round + 1
Longer(x) == IF x < Longest THEN x + 1 ELSE x

ModWrap(t) == t % Wrap

-----------------------------------------------------------------------------
(* What the tick computes.                                                 *)

Unsaturated(stamp) == (now - stamp) % Wrap
Age(stamp) == IF stamp > now THEN 0 ELSE now - stamp

PlainOrder == now >= next
Due == (now - next) % Wrap < Wrap \div 2

-----------------------------------------------------------------------------

Init ==
  /\ clock \in 0..(Wrap - 1) /\ now = clock /\ ticking = FALSE /\ resting = 0
  /\ phase = "free" /\ pending = FALSE /\ next = 0 /\ start = 0 /\ last = 0
  /\ idle = 0 /\ rung = 0 /\ waiting = 0

Elapse ==
  /\ resting < Round
  /\ clock' = ModWrap(clock + 1)
  /\ resting' = resting + 1
  /\ idle' = Longer(idle) /\ rung' = Longer(rung) /\ waiting' = Longer(waiting)
  /\ UNCHANGED <<now, ticking, call>>

(* U-SETUP: an individual call rings, a group call is connected; either    *)
(* sends its next PDU SetupGap later.                                      *)
Setup ==
  /\ ~ticking
  /\ phase' \in {"ringing", "connected"}
  /\ pending' = TRUE
  /\ next' = ModWrap(clock + SetupGap)
  /\ start' = clock /\ last' = clock
  /\ idle' = 0 /\ rung' = 0 /\ waiting' = 0
  /\ UNCHANGED <<clock, now, ticking, resting>>

(* U-CONNECT, which ends the setup sequence, or U-TX-DEMAND.               *)
Answer ==
  /\ ~ticking /\ phase # "free"
  /\ phase' = "connected"
  /\ pending' \in {pending, FALSE}
  /\ last' = clock /\ idle' = 0
  /\ UNCHANGED <<clock, now, ticking, resting, next, start, rung, waiting>>

(* U-RELEASE, U-DISCONNECT.                                                *)
Release ==
  /\ ~ticking /\ phase # "free"
  /\ phase' = "free"
  /\ pending' = FALSE
  /\ UNCHANGED <<clock, now, ticking, resting, next, start, last, truth>>

TickBegin ==
  /\ ~ticking
  /\ ticking' = TRUE
  /\ now' = clock
  /\ UNCHANGED <<clock, resting, call, truth>>

(* tetra_call_fsm_notify_ul_burst, from the tick of another slot.          *)
Burst ==
  /\ ticking /\ phase # "free"
  /\ last' = clock /\ idle' = 0
  /\ UNCHANGED <<clock, now, ticking, resting, phase, pending, next, start,
                 rung, waiting>>

Expired ==
  \/ phase = "ringing" /\ Age(start) > AlertTimeout
  \/ phase = "connected" /\ Age(last) > CallStale

(* The slot is visited and the tick ends.                                  *)
Visit ==
  /\ ticking
  /\ ticking' = FALSE /\ resting' = 0
  /\ pending' = (pending /\ phase # "free" /\ ~Due /\ ~Expired)
  /\ phase' = IF Expired THEN "free" ELSE phase
  /\ UNCHANGED <<clock, now, next, start, last, truth>>

Next == Elapse \/ Setup \/ Answer \/ Release \/ TickBegin \/ Burst \/ Visit

Spec == Init /\ [][Next]_vars

-----------------------------------------------------------------------------
(* Properties.                                                             *)

(* tetra_call_fsm_tick, "Saturating subtract": no call is given up for     *)
(* silence or for ringing too long before that time has really passed,     *)
(* though its stamp may be later than the time the tick goes by; but not   *)
(* if the clock wraps during the tick.                                     *)
GivenUp == ticking /\ phase # "free" /\ phase' = "free"
TooEarly == IF phase = "ringing" THEN rung <= AlertTimeout ELSE idle <= CallStale
NeverTooEarly == [][~(GivenUp /\ TooEarly /\ now <= clock)]_vars

(* setup_next_ms: a setup PDU is sent within a round and a tick of its     *)
(* time, across the wrap of the clock too.                                 *)
SetupOnTime == phase # "free" /\ pending => waiting <= SetupGap + 2 * Round + 1
=============================================================================
