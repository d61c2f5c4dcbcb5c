----------------------------- MODULE B2Lifecycle -----------------------------
(***************************************************************************)
(* The life of the client of include/common/b2_base_client.hpp: its        *)
(* constructor starts a thread that spins an executor and waits up to half *)
(* a second for the service to appear; its destructor cancels the executor *)
(* and joins the thread.  rclcpp's executor is external: spin() sets its   *)
(* flag and runs until the flag is taken back, which is what cancel()      *)
(* does.  A cancel() that comes before spin() is therefore lost.           *)
(***************************************************************************)
EXTENDS Integers

CONSTANT MaxAttempts      \* max_attempts

VARIABLES
  main,         \* where the owner of the client is
  attempts,     \* i of WaitForConnection
  spinner,      \* spin_thread_
  spinning,     \* the flag of executor_
  connected,    \* the service's ends of both topics have been discovered
  handled       \* history: a response was handled before the destructor began

vars == <<main, attempts, spinner, spinning, connected, handled>>

Init ==
  /\ main = "new" /\ attempts = 0
  /\ spinner = "none" /\ spinning = FALSE
  /\ connected \in BOOLEAN /\ handled = FALSE

InitRosComm ==
  /\ main = "new"
  /\ main' = "waiting" /\ spinner' = "starting"
  /\ UNCHANGED <<attempts, spinning, connected, handled>>

\* WaitForConnection goes on ...
Connected ==
  /\ main = "waiting"
  /\ connected \/ attempts = MaxAttempts
  /\ main' = "ready"
  /\ UNCHANGED <<attempts, spinner, spinning, connected, handled>>

\* ... or sleeps for 50 ms, long enough for a thread to start.
Sleep ==
  /\ main = "waiting"
  /\ ~ connected /\ attempts < MaxAttempts
  /\ spinner # "starting"
  /\ attempts' = attempts + 1
  /\ UNCHANGED <<main, spinner, spinning, connected, handled>>

\* Wrong variant: the destructor joins without a cancel().
CancelForgotten ==
  /\ main = "ready"
  /\ main' = "joining"
  /\ UNCHANGED <<attempts, spinner, spinning, connected, handled>>

Cancel ==
  /\ main = "ready"
  /\ main' = "joining" /\ spinning' = FALSE
  /\ UNCHANGED <<attempts, spinner, connected, handled>>

Join ==
  /\ main = "joining" /\ spinner = "stopped"
  /\ main' = "destroyed"
  /\ UNCHANGED <<attempts, spinner, spinning, connected, handled>>

\* spin(): the flag is set, callbacks run while it stays, and then it returns.
Spin ==
  /\ spinner = "starting"
  /\ spinner' = "spinning" /\ spinning' = TRUE
  /\ UNCHANGED <<main, attempts, connected, handled>>

Handle ==
  /\ spinner = "spinning" /\ spinning /\ connected
  /\ handled' = (handled \/ main # "joining")
  /\ UNCHANGED <<main, attempts, spinner, spinning, connected>>

Stop ==
  /\ spinner = "spinning" /\ ~ spinning
  /\ spinner' = "stopped"
  /\ UNCHANGED <<main, attempts, spinning, connected, handled>>

Discover ==
  /\ ~ connected /\ connected' = TRUE
  /\ UNCHANGED <<main, attempts, spinner, spinning, handled>>

OwnerStep == InitRosComm \/ Connected \/ Sleep \/ Join

ThreadStep == Spin \/ Stop

Next == OwnerStep \/ Cancel \/ ThreadStep \/ Handle \/ Discover

\* Both threads run; the owner need not destroy the client, nor the service appear.
Fairness == WF_vars(OwnerStep) /\ WF_vars(ThreadStep)

FairSpec == Init /\ [][Next]_vars /\ Fairness

\* What that rests on: the cancel() of a destructor that began with the executor at
\* work is heard, so that join() waits for a thread that can only stop.
CancelHeard ==
  main = "joining" /\ (attempts > 0 \/ handled) =>
    spinner = "stopped" \/ (spinner = "spinning" /\ ~ spinning)

\* The destructor returns if the executor was spinning when it began: whenever
\* the constructor had to sleep for the service, or a response was handled.
\* A client that finds its service at once and is destroyed at once may hang.
DestructorReturns ==
  (main = "joining" /\ (attempts > 0 \/ handled)) ~> main = "destroyed"

=============================================================================
