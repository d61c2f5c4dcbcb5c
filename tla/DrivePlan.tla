------------------------------ MODULE DrivePlan ------------------------------
(***************************************************************************)
(* What every mission node of the repository promises to the robot: the    *)
(* legs of a route are driven in order, each by one kind of motion; one    *)
(* motion is never followed by another without a stop between them, the    *)
(* next leg is begun only from a standstill, and a mission that is over    *)
(* has stopped the robot and asks it for nothing more.                     *)
(*                                                                         *)
(* feedback_based.cpp, state_machine_test.cpp and practice.cpp implement   *)
(* it with different routes.  Requests that repeat the last one are        *)
(* stuttering steps here.                                                  *)
(***************************************************************************)
EXTENDS Naturals, Sequences

CONSTANTS
  Route,      \* the motion of each leg, in order
  Exits       \* the legs on which the mission may end

VARIABLES
  leg,        \* the leg being driven, or Over
  motion,     \* what was last asked of the robot
  still       \* the robot is known to stand still

Over == 0

Init ==
  /\ leg = 1
  /\ motion = "none"
  /\ still \in BOOLEAN

\* The first request of the mission.
Start ==
  /\ leg = 1 /\ motion = "none"
  /\ motion' = Route[1]
  /\ UNCHANGED <<leg, still>>

Brake ==
  /\ leg # Over /\ motion # "stop"
  /\ motion' = "stop"
  /\ UNCHANGED <<leg, still>>

\* The next leg begins at rest.
Depart ==
  /\ leg \in 1 .. Len(Route) - 1
  /\ motion = "stop" /\ still
  /\ leg' = leg + 1
  /\ motion' = Route[leg + 1]
  /\ UNCHANGED still

Finish ==
  /\ leg \in Exits /\ motion # "stop"
  /\ leg' = Over
  /\ motion' = "stop"
  /\ UNCHANGED still

\* The robot reports that it moves, or that it does not.
Sense ==
  /\ still' = ~still
  /\ UNCHANGED <<leg, motion>>

Next == Start \/ Brake \/ Depart \/ Finish \/ Sense

Spec == Init /\ [][Next]_<<leg, motion, still>>

=============================================================================
