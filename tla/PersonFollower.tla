---------------------------- MODULE PersonFollower ----------------------------
(***************************************************************************)
(* The node of src/hailo_robot_control/src/go2_ai_controller.cpp: it walks *)
(* up to the first person in the latest list of detections, stops a metre  *)
(* away, and turns on the spot while the list has no person.               *)
(*                                                                         *)
(* One executor thread runs the 100 ms timer and the subscriptions to      *)
(* lf/sportmodestate and /vision_detections.  Nothing is timed: every tick *)
(* decides anew by the list it has, however old that is.                   *)
(***************************************************************************)
EXTENDS Integers, Sequences, FiniteSetsExt

CONSTANTS
  ClassNames,     \* what an object may be called in a list
  StopDistance,   \* 1.0 m, in mm
  Centre,         \* 640: the middle column of the image
  MaxDelay        \* bound: periods the executor may keep the timer waiting

ASSUME FollowerAssumption ==
  StopDistance \in Nat \ {0} /\ Centre \in Int /\ MaxDelay \in Nat \ {0}

VARIABLES
  current_state,        \* current_state_
  state_received,       \* state_received_; the state itself is never read
  latest_detections,    \* latest_detections_.detections
  request,              \* the last request given to sport_client_
  due                   \* timer periods since timer_callback last ran

follower == <<current_state, state_received, latest_detections, request, due>>

\* What the node reads of a detection; sure says that its score is above 0.5.
Detections ==
  [class_name : ClassNames, sure : BOOLEAN, distance : Nat, center_x : Int]

RobotState == {"SEARCHING", "APPROACHING", "STOPPED"}

NoRequest == [what |-> "none", error |-> 0]
Requests  == [what : {"stop", "search", "approach"}, error : Int]

Init ==
  /\ current_state = "SEARCHING"
  /\ state_received = FALSE
  /\ latest_detections = << >>
  /\ request = NoRequest
  /\ due = 0

-----------------------------------------------------------------------------
Wanted(det) == det.class_name = "person" /\ det.sure

People == {i \in DOMAIN latest_detections : Wanted(latest_detections[i])}

\* Wrong variant: the loop does not break at the first person.
TargetLast == latest_detections[Max(People)]

Target == latest_detections[Min(People)]

\* Wrong variant: the comparison turned round.
TooCloseInverted == Target.distance > StopDistance

TooClose == Target.distance < StopDistance

NextState ==
  CASE People = {} -> "SEARCHING"
    [] People # {} /\ TooClose -> "STOPPED"
    [] OTHER -> "APPROACHING"

\* StopMove; Move(0.3, 0, 0.0015 * error); Move(0, 0, 0.4).
Command(s) ==
  CASE s = "STOPPED"     -> [what |-> "stop", error |-> 0]
    [] s = "APPROACHING" -> [what |-> "approach",
                             error |-> Centre - Target.center_x]
    [] OTHER             -> [what |-> "search", error |-> 0]

Decide ==
  /\ current_state' = NextState
  /\ request' = Command(NextState)

\* Wrong variant: the early return is missing.
TimerCallbackUnheard ==
  /\ due > 0 /\ due' = 0
  /\ Decide
  /\ UNCHANGED <<state_received, latest_detections>>

TimerCallback ==
  /\ due > 0 /\ due' = 0
  /\ IF state_received THEN Decide ELSE UNCHANGED <<current_state, request>>
  /\ UNCHANGED <<state_received, latest_detections>>

StateCallback ==
  /\ state_received' = TRUE
  /\ UNCHANGED <<current_state, latest_detections, request, due>>

VisionCallback(msg) ==
  /\ latest_detections' = msg
  /\ UNCHANGED <<current_state, state_received, request, due>>

Advance ==
  /\ due < MaxDelay
  /\ due' = due + 1
  /\ UNCHANGED <<current_state, state_received, latest_detections, request>>

-----------------------------------------------------------------------------
\* Every variable keeps its type; the request is that of the state, and before
\* odometry there is none.
TypeOK ==
  /\ current_state \in RobotState
  /\ state_received \in BOOLEAN
  /\ latest_detections \in Seq(Detections)
  /\ request \in Requests \cup {NoRequest}
  /\ due \in 0 .. MaxDelay
  /\ request # NoRequest =>
       /\ state_received
       /\ request.what = CASE current_state = "STOPPED"     -> "stop"
                           [] current_state = "APPROACHING" -> "approach"
                           [] OTHER                         -> "search"

=============================================================================
