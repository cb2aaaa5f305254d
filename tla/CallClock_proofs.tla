--------------------------- MODULE CallClock_proofs ---------------------------
(***************************************************************************)
(* Theorems about the timers of a call on the wrapping clock, for every    *)
(* width of the clock and every value of the time constants that           *)
(* ClockAssumption admits.                                                 *)
(*                                                                         *)
(* The argument replaces modular arithmetic by distances: as long as a     *)
(* history counter has not saturated, the clock is that far past the       *)
(* stamp, counted round the wrap.                                          *)
(***************************************************************************)
EXTENDS CallClock, TLAPS

Times == 0..(Wrap - 1)

(* How far a time is past a stamp, round the wrap.                         *)
Since(t, stamp) == IF stamp <= t THEN t - stamp ELSE t - stamp + Wrap

(* A time less than a wrap away, on the clock's face.                      *)
Face(t) == IF t < 0 THEN t + Wrap ELSE IF t < Wrap THEN t ELSE t - Wrap

Modes ==
  /\ ticking \in BOOLEAN /\ pending \in BOOLEAN
  /\ phase \in {"free", "ringing", "connected"}

Numbers ==
  /\ clock \in Times /\ now \in Times
  /\ next \in Times /\ start \in Times /\ last \in Times
  /\ resting \in 0..Round
  /\ idle \in 0..Longest /\ rung \in 0..Longest /\ waiting \in 0..Longest

(* The tick under way began within the round that resting counts.          *)
Young == Since(clock, now) <= resting
TickIsYoung == ticking => Young

(* The stamps are as old as the history says.                              *)
TrueAges ==
  /\ rung < Longest => Since(clock, start) = rung
  /\ idle < Longest => Since(clock, last) = idle
StampsTrue == phase # "free" => TrueAges

(* A planned PDU waits since the tick before last at most ...              *)
Planned ==
  /\ next = Face(clock - waiting + SetupGap)
  /\ waiting <= resting \/ waiting < SetupGap + Round + resting
PlanTrue == pending => phase # "free" /\ Planned

(* ... and the tick that visits it began after the setup.                  *)
PlannedBefore == Since(clock, now) <= waiting
TickSeesPlan == ticking /\ pending => PlannedBefore

ClockInv ==
  Modes /\ Numbers /\ TickIsYoung /\ StampsTrue /\ PlanTrue /\ TickSeesPlan

(* No true time that is still counted comes near the wrap.                 *)
LEMMA LongestFits == Longest \in Nat /\ Longest < Wrap
  BY ClockAssumption, SMT DEF Longest

(* The clock's modulus, for arguments less than a wrap away from its face. *)
LEMMA WrapIsFace ==
  ASSUME NEW t \in Int, -Wrap <= t, t < 2 * Wrap
  PROVE  t % Wrap = Face(t)
  BY ClockAssumption, SMT DEF Face

(* One millisecond later a stamp is one further behind, unless it is a     *)
(* whole wrap behind.                                                      *)
LEMMA SinceGrows ==
  ASSUME NEW t \in Times, NEW stamp \in Times, Since(t, stamp) < Wrap - 1
  PROVE  Since(ModWrap(t + 1), stamp) = Since(t, stamp) + 1
<1>1. ModWrap(t + 1) = Face(t + 1)
  BY ClockAssumption, WrapIsFace, SMT DEF Times, ModWrap
<1>. QED
  BY <1>1, ClockAssumption, SMT DEF Times, Face, Since

(* A stamp just written is 0 old.                                          *)
LEMMA SinceSame == ASSUME NEW t \in Times PROVE Since(t, t) = 0
  BY ClockAssumption, SMT DEF Times, Since

(* The tick finds a PDU due exactly when it has waited SetupGap by the     *)
(* time the tick goes by, whatever side of the wrap either lies on.        *)
LEMMA DueMeansWaited ==
  ASSUME Numbers, Young, Planned, PlannedBefore
  PROVE  Due <=> waiting - Since(clock, now) >= SetupGap
<1> DEFINE d == waiting - Since(clock, now) - SetupGap
<1>1. /\ Since(clock, now) \in 0..Round /\ waiting <= SetupGap + 2 * Round
      /\ now = Face(clock - Since(clock, now))
      /\ waiting \in Int /\ d \in Int /\ -SetupGap <= d
      /\ d <= Round \/ d < 2 * Round
  BY ClockAssumption, SMT
  DEF Numbers, Young, Planned, PlannedBefore, Times, Since, Face
<1>2. now - next = d \/ now - next = d - Wrap \/ now - next = d + Wrap
  BY <1>1, ClockAssumption, SMT DEF Numbers, Planned, Times, Face
<1>3. (now - next) % Wrap = Face(now - next)
  BY WrapIsFace, ClockAssumption, SMT DEF Numbers, Times
<1>4. (now - next) % Wrap = Face(d)
  BY <1>1, <1>2, <1>3, ClockAssumption, SMT DEF Numbers, Times, Face
<1>. QED
  BY <1>1, <1>4, ClockAssumption, SMT DEF Due, Face

LEMMA ClockInit == Init => ClockInv
<1>1. Init => Modes
  BY DEF Init, Modes
<1>2. Init => Numbers
  <2>1. Init => clock \in Times /\ now \in Times
    BY ClockAssumption, SMT DEF Init, Times
  <2>2. 0 \in Times /\ 0 \in 0..Round /\ 0 \in 0..Longest
    BY ClockAssumption, LongestFits, SMT DEF Times
  <2>. QED
    BY <2>1, <2>2 DEF Init, Numbers
<1>. QED
  BY <1>1, <1>2
  DEF Init, ClockInv, TickIsYoung, StampsTrue, PlanTrue, TickSeesPlan

(* Time passes: every distance and every true time grows by one.           *)
LEMMA ElapseKeeps ==
  ASSUME ClockInv, Elapse
  PROVE  ClockInv'
<1>1. /\ Numbers /\ resting < Round /\ resting' = resting + 1
      /\ clock' = ModWrap(clock + 1)
      /\ idle' = Longer(idle) /\ rung' = Longer(rung)
      /\ waiting' = Longer(waiting)
      /\ now' = now /\ next' = next /\ start' = start /\ last' = last
  BY DEF ClockInv, Elapse, call
<1>2. ticking' = ticking /\ phase' = phase /\ pending' = pending
  BY DEF Elapse, call
<1>3. clock' = Face(clock + 1) /\ clock' \in Times
  <2>1. clock' = Face(clock + 1)
    BY <1>1, ClockAssumption, WrapIsFace, SMT DEF ModWrap, Numbers, Times
  <2>. QED
    BY <1>1, <2>1, ClockAssumption, SMT DEF Face, Numbers, Times
<1>4. Numbers'
  BY <1>1, <1>3, ClockAssumption, LongestFits, SMT DEF Numbers, Longer
<1>5. ASSUME Young
      PROVE  Young' /\ Since(clock', now') = Since(clock, now) + 1
  <2>1. Since(clock, now) \in Times /\ Since(clock, now) < Wrap - 1
    BY <1>1, <1>5, ClockAssumption, SMT DEF Numbers, Young, Since, Times
  <2>2. Since(clock', now') = Since(clock, now) + 1
    BY <1>1, <2>1, SinceGrows DEF Numbers
  <2>. QED
    BY <1>1, <1>5, <2>1, <2>2, ClockAssumption, SMT DEF Young, Numbers, Times
<1>6. ASSUME TrueAges
      PROVE  TrueAges'
  <2>1. ASSUME rung' < Longest
        PROVE  Since(clock', start') = rung'
    <3>1. rung < Longest /\ rung' = rung + 1 /\ Since(clock, start) < Wrap - 1
      BY <1>1, <1>6, <2>1, LongestFits, ClockAssumption, SMT
      DEF Longer, Numbers, TrueAges
    <3>. QED
      BY <1>1, <1>6, <3>1, SinceGrows DEF Numbers, TrueAges
  <2>2. ASSUME idle' < Longest
        PROVE  Since(clock', last') = idle'
    <3>1. idle < Longest /\ idle' = idle + 1 /\ Since(clock, last) < Wrap - 1
      BY <1>1, <1>6, <2>2, LongestFits, ClockAssumption, SMT
      DEF Longer, Numbers, TrueAges
    <3>. QED
      BY <1>1, <1>6, <3>1, SinceGrows DEF Numbers, TrueAges
  <2>. QED
    BY <2>1, <2>2 DEF TrueAges, Longest
<1>7. ASSUME Planned
      PROVE  Planned' /\ waiting' = waiting + 1
  <2>1. waiting' = waiting + 1
    BY <1>1, <1>7, ClockAssumption, SMT DEF Longer, Longest, Numbers, Planned
  <2>. QED
    BY <1>1, <1>3, <1>7, <2>1, ClockAssumption, SMT
    DEF Numbers, Planned, Times, Face
<1>8. ASSUME Young, Planned, PlannedBefore
      PROVE  PlannedBefore'
  BY <1>1, <1>5, <1>7, <1>8, ClockAssumption, SMT
  DEF Numbers, PlannedBefore, Times, Since
<1>. QED
  BY <1>2, <1>4, <1>5, <1>6, <1>7, <1>8
  DEF ClockInv, Modes, TickIsYoung, StampsTrue, PlanTrue, TickSeesPlan

(* A setup stamps the call and plans its next PDU.                         *)
LEMMA SetupKeeps ==
  ASSUME ClockInv, Setup
  PROVE  ClockInv'
<1>1. /\ Numbers /\ next' = ModWrap(clock + SetupGap)
      /\ start' = clock /\ last' = clock
      /\ idle' = 0 /\ rung' = 0 /\ waiting' = 0
      /\ clock' = clock /\ now' = now /\ resting' = resting
  BY DEF ClockInv, Setup
<1>2. next' = Face(clock + SetupGap) /\ next' \in Times
  <2>1. next' = Face(clock + SetupGap)
    BY <1>1, WrapIsFace, ClockAssumption, SMT DEF ModWrap, Numbers, Times
  <2>. QED
    BY <1>1, <2>1, ClockAssumption, SMT DEF Face, Numbers, Times
<1>3. Numbers'
  BY <1>1, <1>2, LongestFits, SMT DEF Numbers
<1>4. TrueAges'
  BY <1>1, SinceSame DEF Numbers, TrueAges
<1>5. Planned'
  BY <1>1, <1>2, ClockAssumption, SMT DEF Numbers, Planned, Times
<1>. QED
  BY <1>3, <1>4, <1>5
  DEF Setup, ClockInv, Modes, TickIsYoung, StampsTrue, PlanTrue, TickSeesPlan

(* A sign of life, from a handler or from the voice pipe, stamps the call. *)
LEMMA StampKeeps ==
  ASSUME ClockInv, phase # "free", phase' # "free", Modes',
         last' = clock /\ idle' = 0,
         pending' => pending, ticking' = ticking,
         UNCHANGED <<clock, now, resting, next, start, rung, waiting>>
  PROVE  ClockInv'
<1>1. Numbers'
  BY LongestFits, SMT DEF ClockInv, Numbers
<1>2. TrueAges'
  BY SinceSame DEF ClockInv, Numbers, StampsTrue, TrueAges, Longest
<1>. QED
  BY <1>1, <1>2
  DEF ClockInv, TickIsYoung, StampsTrue, PlanTrue, TickSeesPlan, Young,
      Planned, PlannedBefore

(* A visit keeps a PDU pending only while it is not due.                   *)
LEMMA VisitKeeps ==
  ASSUME ClockInv, Visit
  PROVE  ClockInv'
<1>1. /\ Numbers /\ Young /\ resting' = 0
      /\ clock' = clock /\ now' = now /\ next' = next /\ start' = start
      /\ last' = last /\ idle' = idle /\ rung' = rung /\ waiting' = waiting
  BY DEF ClockInv, Visit, truth, TickIsYoung
<1>2. Numbers'
  BY <1>1, ClockAssumption, SMT DEF Numbers
<1>3. ASSUME pending'
      PROVE  phase' # "free" /\ Planned'
  <2>1. phase' # "free" /\ Planned /\ PlannedBefore /\ ~Due
    BY <1>3 DEF Visit, ClockInv, Modes, PlanTrue, TickSeesPlan
  <2>2. waiting - Since(clock, now) < SetupGap
    BY <1>1, <2>1, DueMeansWaited, ClockAssumption, SMT
    DEF Numbers, Times, Since
  <2>. QED
    BY <1>1, <2>1, <2>2, ClockAssumption, SMT
    DEF Numbers, Times, Since, Planned, Young
<1>4. phase' # "free" => TrueAges'
  BY <1>1 DEF Visit, ClockInv, StampsTrue, TrueAges, Longest
<1>. QED
  BY <1>2, <1>3, <1>4
  DEF ClockInv, Visit, Modes, TickIsYoung, StampsTrue, PlanTrue, TickSeesPlan

(* Every step keeps the stamps true.                                       *)
LEMMA ClockStep == ASSUME ClockInv, [Next]_vars PROVE ClockInv'
<1>1. CASE Elapse
  BY <1>1, ElapseKeeps
<1>2. CASE Setup
  BY <1>2, SetupKeeps
<1>3. CASE Answer
  <2>1. pending' => pending
    BY <1>3 DEF Answer
  <2>2. Modes'
    BY <1>3 DEF Answer, ClockInv, Modes
  <2>. QED
    BY <1>3, <2>1, <2>2, StampKeeps DEF Answer
<1>4. CASE Burst
  BY <1>4, StampKeeps DEF Burst, ClockInv, Modes
<1>5. CASE Visit
  BY <1>5, VisitKeeps
<1> USE DEF ClockInv, Modes, Numbers, TickIsYoung, StampsTrue, PlanTrue,
            TickSeesPlan, Young, TrueAges, Planned, PlannedBefore, Longest
<1>6. CASE Release
  BY <1>6, Zenon DEF Release, truth
<1>7. CASE TickBegin
  <2>1. clock \in Times /\ waiting \in 0..Longest /\ resting \in 0..Round
    BY Zenon
  <2>2. Since(clock, clock) <= waiting /\ Since(clock, clock) <= resting
    BY <2>1, SinceSame, LongestFits, ClockAssumption, SMT
  <2>. QED
    BY <1>7, <2>2, Zenon DEF TickBegin, call, truth
<1>8. CASE UNCHANGED vars
  BY <1>8, Zenon DEF vars, call, truth
<1>. QED
  BY <1>1, <1>2, <1>3, <1>4, <1>5, <1>6, <1>7, <1>8 DEF Next

(* The stamps of a call stay as old as its history says, and a planned PDU *)
(* waits since the tick before last at most.                               *)
THEOREM StampsCorrect == Spec => []ClockInv
  BY ClockInit, ClockStep, PTL DEF Spec

(* setup_next_ms: a setup PDU waits its 113 ms and no more than two rounds *)
(* and a tick longer, across the wrap of the clock too.                    *)
THEOREM SetupOnTimeCorrect == Spec => []SetupOnTime
<1>1. Numbers /\ Planned => waiting <= SetupGap + 2 * Round + 1
  BY ClockAssumption, SMT DEF Numbers, Planned
<1>2. ClockInv => SetupOnTime
  BY <1>1 DEF ClockInv, PlanTrue, SetupOnTime
<1>. QED
  BY <1>2, StampsCorrect, PTL

(* tetra_call_fsm_tick's saturating ages: no call is given up for silence  *)
(* or for ringing before that time has really passed, unless the clock     *)
(* wraps during the tick.                                                  *)
THEOREM NeverTooEarlyCorrect == Spec => NeverTooEarly
<1>1. ASSUME ClockInv, [Next]_vars
      PROVE  [~(GivenUp /\ TooEarly /\ now <= clock)]_vars
  <2> SUFFICES ASSUME GivenUp, TooEarly, now <= clock PROVE FALSE
    OBVIOUS
  <2>1. Expired
    BY <1>1 DEF Next, GivenUp, Elapse, Setup, Answer, Release, TickBegin,
                Burst, Visit, vars, call
  <2>2. Numbers /\ TrueAges
    BY <1>1 DEF GivenUp, ClockInv, StampsTrue
  <2>3. CASE phase = "ringing"
    BY <2>1, <2>2, <2>3, ClockAssumption, SMT
    DEF Numbers, TrueAges, Since, Times, TooEarly, Expired, Age, Longest
  <2>4. CASE phase = "connected"
    BY <2>1, <2>2, <2>4, ClockAssumption, SMT
    DEF Numbers, TrueAges, Since, Times, TooEarly, Expired, Age, Longest
  <2>. QED
    BY <1>1, <2>3, <2>4 DEF ClockInv, Modes, GivenUp
<1>. QED
  BY <1>1, StampsCorrect, PTL DEF Spec, NeverTooEarly
=============================================================================
