--------------------------- MODULE MCB2BaseClient ---------------------------
(***************************************************************************)
(* Small instances of the clients: `part' says which of them a behaviour   *)
(* is about, the others rest in their initial states.  "b2" is             *)
(* B2BaseClient; "sport" is CallBySubscription as SportClient and          *)
(* RobotStateClient have it, one of the callers within a callback; "base"  *)
(* is the same as base_client.hpp has it; "life" is B2Lifecycle.           *)
(***************************************************************************)
EXTENDS B2BaseClient

VARIABLES
  part,
  at, mine, promise, inbox, running, open, sent, clock, outcome, broken,
  alike, crowd, late,                                   \* CallBySubscription
  main, attempts, spinner, spinning, connected, handled \* B2Lifecycle

Sport == INSTANCE CallBySubscription
  WITH pc <- at, Callers <- {"thread", "callback"}, InCallback <- {"callback"},
       Apis <- {"get", "set"}, ById <- FALSE, Timed <- FALSE, MaxRequests <- 3

Base == INSTANCE CallBySubscription
  WITH pc <- at, Callers <- {"thread", "callback"}, InCallback <- {"callback"},
       Apis <- {"get"}, ById <- TRUE, Timed <- TRUE, MaxRequests <- 2

Life == INSTANCE B2Lifecycle WITH MaxAttempts <- 10

callVars == <<at, mine, promise, inbox, running, open, sent, clock, outcome,
              broken, alike, crowd, late>>
lifeVars == <<main, attempts, spinner, spinning, connected, handled>>
allVars  == <<part, vars, callVars, lifeVars>>

PartInit ==
  /\ part \in {"b2", "sport", "base", "life"}
  /\ Init /\ Sport!Init /\ Life!Init

PartNext ==
  /\ UNCHANGED part
  /\ \/ part = "b2"    /\ Next       /\ UNCHANGED <<callVars, lifeVars>>
     \/ part = "sport" /\ Sport!Next /\ UNCHANGED <<vars, lifeVars>>
     \/ part = "base"  /\ Base!Next  /\ UNCHANGED <<vars, lifeVars>>
     \/ part = "life"  /\ Life!Next  /\ UNCHANGED <<vars, callVars>>

\* The fairness of the part at work; nothing is enabled in the others but the
\* steps that are named here with their part.
PartSpec ==
  /\ PartInit /\ [][PartNext]_allVars
  /\ Fairness
  /\ \A c \in {"thread", "callback"} :
       WF_callVars(broken = "no" /\ (Sport!CallStep(c) \/ (part = "base" /\ Base!TimeOut(c))))
  /\ WF_callVars(broken = "no" /\ (IF part = "base" THEN Base!ExecutorStep ELSE Sport!ExecutorStep))
  /\ WF_callVars(broken = "no" /\ part = "sport" /\ \E r \in open : Sport!Answer(r))
  /\ WF_lifeVars(part = "life" /\ Life!OwnerStep)
  /\ WF_lifeVars(Life!ThreadStep)

-----------------------------------------------------------------------------
\* Requests that can be told apart are not mixed up, and a promise is neither
\* set twice nor, before a timeout, after it is gone.
SeparateCallsUnmixed == Sport!SeparateCallsUnmixed

\* A Call from a callback never gets its response.
CallbackCallStarves == Sport!CallbackCallStarves

\* A Call whose request is alone under way returns; with a time limit, any Call.
LoneCallReturns ==
  \A c \in {"thread", "callback"} :
    at[c] = "subscribed" ~>
      \/ at[c] = "idle" \/ broken # "no"
      \/ part = "sport" /\ (crowd \/ c = "callback")

\* The destructor returns if the executor was spinning when it began.
DestructorReturns == Life!DestructorReturns

=============================================================================
