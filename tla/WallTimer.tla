------------------------------ MODULE WallTimer ------------------------------
(***************************************************************************)
(* The wall timer of a mission node and the clock its timeouts are read    *)
(* from.  Every node creates a 100 ms wall timer, which runs on the steady *)
(* clock, and compares readings of this->now(), the system time, which may *)
(* be set.  Both are modelled; time is counted in periods of the timer.    *)
(***************************************************************************)
EXTENDS Integers

CONSTANTS
  MaxDelay,     \* bound: periods the executor may keep the timer waiting
  ClockSteps,   \* steps (+/-) the node's clock may make
  MaxSlew,      \* bound: sum of the backward clock steps of a leg
  Horizon       \* bound: elapsed times are told apart up to this value

ASSUME ClockAssumption ==
  /\ MaxDelay \in Nat \ {0}
  /\ ClockSteps \subseteq Int
  /\ MaxSlew \in Nat
  /\ Horizon \in Nat

VARIABLES
  elapsed,        \* this->now() - the start of the state
  due,            \* timer periods since timer_callback last ran
  timer_active,   \* timer_ has not been cancelled
  driven,         \* history: steady time since the start was set
  slew            \* history: backward clock steps since then, summed

time == <<elapsed, driven, slew>>

UpTo(bound, t) == IF t > bound THEN bound ELSE t

\* A timeout that every reading of the clock can tell from a longer time.
Measurable(limit) ==
  limit \in Nat \ {0} /\ limit + MaxDelay + MaxSlew <= Horizon

TimerCreated ==
  /\ elapsed = 0 /\ driven = 0 /\ slew = 0
  /\ due = 0
  /\ timer_active = TRUE

RestartClock == elapsed' = 0 /\ driven' = 0 /\ slew' = 0

\* A period passes on both clocks; the executor gets round to the timer within
\* MaxDelay of them, and periods missed meanwhile are skipped.
PeriodPasses ==
  /\ timer_active /\ due < MaxDelay
  /\ due' = due + 1
  /\ elapsed' = UpTo(Horizon, elapsed + 1)
  /\ driven' = UpTo(Horizon, driven + 1)
  /\ UNCHANGED <<slew, timer_active>>

\* The system clock is set (NTP): only this->now() notices.
ClockSet(step) ==
  /\ timer_active
  /\ slew' = slew + (IF step < 0 THEN -step ELSE 0)
  /\ slew' <= MaxSlew
  /\ elapsed' = UpTo(Horizon, elapsed + step)
  /\ UNCHANGED <<driven, due, timer_active>>

\* The executor calls timer_callback.
TimerFires == timer_active /\ due > 0 /\ due' = 0

-----------------------------------------------------------------------------
\* A clock reading stays between the backward slew of the leg and the horizon.
TimerOK ==
  /\ elapsed \in -slew .. Horizon
  /\ driven \in 0 .. Horizon
  /\ slew \in 0 .. MaxSlew
  /\ due \in 0 .. MaxDelay
  /\ timer_active \in BOOLEAN

\* The clock has not lost more time than it was set back.
Timely == driven <= elapsed + slew

\* At the last tick the leg was younger than limit by the clock.
Within(limit) == driven <= limit - 1 + due + slew

=============================================================================
