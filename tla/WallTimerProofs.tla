--------------------------- MODULE WallTimerProofs ---------------------------
(***************************************************************************)
(* Facts about WallTimer that the proofs of every mission node use.        *)
(***************************************************************************)
EXTENDS WallTimer, TLAPS

\* A period of the timer and a step of the clock keep the types, ...
LEMMA PeriodOK == ASSUME TimerOK, PeriodPasses PROVE TimerOK'
<1> USE ClockAssumption DEF ClockAssumption
<1>1. due' \in 0 .. MaxDelay /\ driven' \in 0 .. Horizon
  BY DEF PeriodPasses, TimerOK, UpTo
<1>2. elapsed' \in -slew .. Horizon
  BY DEF PeriodPasses, TimerOK, UpTo
<1>3. slew' = slew /\ timer_active' = timer_active
  BY DEF PeriodPasses
<1> QED BY <1>1, <1>2, <1>3 DEF TimerOK

LEMMA ClockSetOK ==
  ASSUME TimerOK, NEW step \in Int, ClockSet(step)
  PROVE  TimerOK'
<1> USE ClockAssumption DEF ClockAssumption
<1>1. slew' \in 0 .. MaxSlew
  BY DEF ClockSet, TimerOK
<1>2. elapsed' \in -slew' .. Horizon
  BY DEF ClockSet, TimerOK, UpTo
<1>3. driven' = driven /\ due' = due /\ timer_active' = timer_active
  BY DEF ClockSet
<1> QED BY <1>1, <1>2, <1>3 DEF TimerOK

LEMMA StepsAreInt == \A step \in ClockSteps : step \in Int
BY ClockAssumption DEF ClockAssumption

LEMMA CreatedOK == ASSUME TimerCreated PROVE TimerOK /\ Timely
BY ClockAssumption DEF ClockAssumption, TimerCreated, TimerOK, Timely

LEMMA FiredOK ==
  ASSUME TimerOK, TimerFires, RestartClock \/ UNCHANGED time,
         timer_active' \in BOOLEAN
  PROVE  TimerOK'
BY ClockAssumption DEF ClockAssumption, TimerFires, RestartClock, time, TimerOK

\* ... the relation of the two clocks, ...
LEMMA PeriodTimely == ASSUME TimerOK, Timely, PeriodPasses PROVE Timely'
<1>1. /\ slew' = slew /\ driven' <= driven + 1 /\ driven' <= Horizon
      /\ elapsed' = elapsed + 1 \/ elapsed' = Horizon
  BY ClockAssumption DEF ClockAssumption, PeriodPasses, UpTo, TimerOK
<1>2. elapsed \in Int /\ driven \in Int /\ slew \in Nat
      /\ driven' \in Int /\ elapsed' \in Int /\ Horizon \in Nat
  BY PeriodOK, ClockAssumption DEF TimerOK, ClockAssumption
<1>3. CASE elapsed' = Horizon
  BY <1>1, <1>2, <1>3 DEF Timely
<1>4. CASE elapsed' = elapsed + 1
  BY <1>1, <1>2, <1>4 DEF Timely
<1> QED BY <1>1, <1>3, <1>4

\* What a step of the clock takes from a reading, the slew gives back.
LEMMA SlewCovers ==
  \A d, e, s, step, t \in Int :
    d <= e + s /\ t >= s - step => d <= e + step + t
OBVIOUS

LEMMA SlackGrows == \A d, h, t \in Int : d <= h /\ t >= 0 => d <= h + t
OBVIOUS

LEMMA ClockSetTimely ==
  ASSUME TimerOK, Timely, NEW step \in Int, ClockSet(step)
  PROVE  Timely'
<1>1. TimerOK'
  BY ClockSetOK
<1>2. /\ slew' >= slew - step
      /\ driven' = driven
      /\ elapsed' = elapsed + step \/ elapsed' = Horizon
  BY ClockAssumption DEF ClockAssumption, ClockSet, UpTo, TimerOK
<1>3. elapsed \in Int /\ driven \in Int /\ slew \in Int
      /\ slew' \in Int /\ elapsed' \in Int /\ driven' \in Int
      /\ driven <= Horizon /\ slew' >= 0 /\ Horizon \in Int
  BY <1>1, ClockAssumption DEF ClockAssumption, TimerOK
<1>4. CASE elapsed' = Horizon
  <2>1. driven' <= Horizon + slew'
    BY <1>2, <1>3, SlackGrows
  <2> QED BY <1>4, <2>1 DEF Timely
<1>5. CASE elapsed' = elapsed + step
  <2>1. driven <= elapsed + slew
    BY DEF Timely
  <2>2. driven <= elapsed + step + slew'
    BY <1>2, <1>3, <2>1, SlewCovers, Zenon
  <2> QED BY <1>2, <1>5, <2>2 DEF Timely
<1> QED BY <1>2, <1>4, <1>5

\* ... and what the last tick established, aged by the periods since.
LEMMA PeriodWithin ==
  ASSUME TimerOK, PeriodPasses
  PROVE  \A limit \in Nat :
           Within(limit) => driven' <= limit - 1 + due' + slew'
<1>1. due' = due + 1 /\ slew' = slew /\ driven' <= driven + 1
  BY ClockAssumption DEF ClockAssumption, PeriodPasses, UpTo, TimerOK
<1>2. driven \in Int /\ driven' \in Int /\ due \in Int /\ slew \in Int
  BY PeriodOK DEF TimerOK
<1> QED BY <1>1, <1>2 DEF Within

LEMMA SlackWidens ==
  \A d, l, u, s, t \in Int :
    d <= l - 1 + u + s /\ t >= s => d <= l - 1 + u + t
OBVIOUS

LEMMA ClockSetWithin ==
  ASSUME TimerOK, NEW step \in Int, ClockSet(step)
  PROVE  \A limit \in Nat :
           Within(limit) => driven' <= limit - 1 + due' + slew'
<1>1. slew' >= slew /\ driven' = driven /\ due' = due
  BY ClockAssumption DEF ClockAssumption, ClockSet, TimerOK
<1>2. driven \in Int /\ due \in Int /\ slew \in Int /\ slew' \in Int
  BY ClockSetOK DEF TimerOK
<1> SUFFICES ASSUME NEW limit \in Nat, Within(limit)
             PROVE  driven <= limit - 1 + due + slew'
  BY <1>1
<1>3. limit \in Int /\ driven <= limit - 1 + due + slew
  BY DEF Within
<1> QED BY <1>1, <1>2, <1>3, SlackWidens, Zenon

\* A tick that restarts the clock, or finds the leg younger than its limit,
\* establishes the bound.
LEMMA FiredWithin ==
  ASSUME TimerOK, Timely, TimerFires, NEW limit \in Nat \ {0},
         RestartClock \/ (elapsed < limit /\ UNCHANGED time)
  PROVE  driven' <= limit - 1 + due' + slew'
<1>1. due' = 0
  BY DEF TimerFires
<1>2. CASE RestartClock
  BY <1>1, <1>2 DEF RestartClock
<1>3. CASE elapsed < limit /\ UNCHANGED time
  BY <1>1, <1>3 DEF time, Timely, TimerOK
<1> QED BY <1>2, <1>3

LEMMA FiredTimely ==
  ASSUME Timely, RestartClock \/ UNCHANGED time
  PROVE  Timely'
BY DEF Timely, RestartClock, time

=============================================================================
