----------------------------- MODULE ClosedLoop -----------------------------
(***************************************************************************)
(* FeedbackMission with the robot it commands, and the two topics between  *)
(* them: /api/sport/request, to which SportClient publishes, and           *)
(* lf/sportmodestate, to which the node subscribes.  The robot and the     *)
(* transport are external, known from how the node uses them: requests are *)
(* obeyed in order, reports tell truly whether the robot moves, and both   *)
(* reach the other side within a bounded time.  Where the robot gets to    *)
(* while it moves is left open.                                            *)
(*                                                                         *)
(* The question is the one the node's 0.5 s dwell answers: a report that   *)
(* the robot stands still may be older than the requests under way.  The   *)
(* dwell is read off this->now(), a clock that may be set, while requests  *)
(* and reports take their time on the steady clock.                        *)
(***************************************************************************)
EXTENDS FeedbackMission, Sequences

CONSTANTS
  RequestLatency,   \* bound: periods a request may be under way
  ReportLatency     \* bound: periods a report may be under way

ASSUME LatencyAssumption == RequestLatency \in Nat /\ ReportLatency \in Nat

\* The dwell outlasts a request under way, a report under way, the period
\* between two reports and that of the tick: 0.5 s grants the two topics 0.3 s,
\* and what they leave of it is Spare.
ASSUME DwellAssumption == StopDwell >= RequestLatency + ReportLatency + 2

VARIABLES
  requests,     \* /api/sport/request: [what, age], oldest first
  reports,      \* lf/sportmodestate: [moving, age], oldest first
  quiet,        \* periods since the robot last reported
  doing,        \* the request the robot obeys
  moving,       \* the robot is in motion
  leapt         \* history: a stop state was cut short by the clock

robot    == <<doing, moving>>
topics   == <<requests, reports>>
loopVars == <<vars, topics, quiet, robot, leapt>>

\* What the dwell has over the two latencies and periods: the clock may run
\* ahead of steady time by so much in a stop state and do no harm.
Spare == StopDwell - (RequestLatency + ReportLatency + 2)

CutShort ==
  /\ current_state \in Stopping /\ current_state' # current_state
  /\ elapsed > driven + Spare

LoopInit ==
  /\ Init
  /\ requests = << >> /\ reports = << >>
  /\ quiet = 0
  /\ doing = "none" /\ moving = FALSE
  /\ leapt = FALSE

-----------------------------------------------------------------------------
\* Wrong variant: the handler does not wait for odometry to publish.
TickUnheard ==
  /\ TimerCallback
  /\ requests' = Append(requests, [what |-> request', age |-> 0])
  /\ leapt' = (leapt \/ CutShort)
  /\ UNCHANGED <<reports, quiet, robot>>

\* Each tick past the early return publishes one request.
Tick ==
  /\ TimerCallback
  /\ requests' = IF state_received
                 THEN Append(requests, [what |-> request', age |-> 0])
                 ELSE requests
  /\ leapt' = (leapt \/ CutShort)
  /\ UNCHANGED <<reports, quiet, robot>>

\* The robot takes the next request.
Obey ==
  /\ requests # << >>
  /\ doing' = Head(requests).what
  /\ requests' = Tail(requests)
  /\ UNCHANGED <<vars, reports, quiet, moving, leapt>>

\* It starts moving some time after a Move, and may get stuck and free itself.
Shift ==
  /\ doing \in Motions
  /\ moving' = ~moving
  /\ UNCHANGED <<vars, topics, quiet, doing, leapt>>

\* It comes to rest some time after a StopMove.
Halt ==
  /\ doing = "stop" /\ moving
  /\ moving' = FALSE
  /\ UNCHANGED <<vars, topics, quiet, doing, leapt>>

\* It reports once a period.
Report ==
  /\ quiet > 0
  /\ quiet' = 0
  /\ reports' = Append(reports, [moving |-> moving, age |-> 0])
  /\ UNCHANGED <<vars, requests, robot, leapt>>

Receive ==
  /\ reports # << >>
  /\ \E msg \in Readings :
       msg.moving = Head(reports).moving /\ StateCallback(msg)
  /\ reports' = Tail(reports)
  /\ UNCHANGED <<requests, quiet, robot, leapt>>

See ==
  /\ \E data \in BOOLEAN : ObstacleCallback(data)
  /\ UNCHANGED <<topics, quiet, robot, leapt>>

Aged(queue) == [i \in DOMAIN queue |-> [queue[i] EXCEPT !.age = @ + 1]]

\* A period passes, unless something is overdue.
Pass ==
  /\ \A i \in DOMAIN requests : requests[i].age < RequestLatency
  /\ \A i \in DOMAIN reports : reports[i].age < ReportLatency
  /\ quiet = 0
  /\ Advance
  /\ requests' = Aged(requests) /\ reports' = Aged(reports)
  /\ quiet' = 1
  /\ UNCHANGED <<robot, leapt>>

\* The system clock is set; the robot and the transport do not notice.
Set ==
  /\ \E step \in ClockSteps : StepClock(step)
  /\ UNCHANGED <<topics, quiet, robot, leapt>>

LoopNext ==
  Tick \/ Obey \/ Shift \/ Halt \/ Report \/ Receive \/ See \/ Pass \/ Set

LoopSpec == LoopInit /\ [][LoopNext]_loopVars

\* The transport delivers, the robot obeys, comes to rest when told to stop,
\* and goes on reporting; whether it ever gets anywhere is left open.
LoopFairSpec ==
  /\ LoopSpec
  /\ WF_loopVars(Tick) /\ WF_loopVars(Pass)
  /\ WF_loopVars(Obey) /\ WF_loopVars(Halt)
  /\ WF_loopVars(Report) /\ WF_loopVars(Receive)

-----------------------------------------------------------------------------
\* The topics carry what was published and nothing overdue; no request that
\* is none gets there.
LoopTypeOK ==
  /\ requests \in Seq([what : Motions \cup {"stop"}, age : 0 .. RequestLatency])
  /\ reports \in Seq([moving : BOOLEAN, age : 0 .. ReportLatency])
  /\ quiet \in 0 .. 1
  /\ doing \in Motions \cup {"none", "stop"} /\ moving \in BOOLEAN
  /\ leapt \in BOOLEAN

\* The robot itself never goes from one motion into another: when it takes up
\* a new Move it stands still.  The node sees only reports of the past, so
\* this takes both halves of its test, the dwell and is_robot_stopped: the
\* dwell outlasts the requests that were under way and the report that was.
\* A clock set back, or ahead by no more than Spare, does no harm; one set
\* further ahead in a stop state ends the dwell too early, and a report of
\* before the stop may then let the node start a motion on a moving robot.
MotionsFromRest ==
  [][ doing' \in Motions /\ doing' # doing => ~moving \/ leapt ]_loopVars

\* The robot ends at rest: the one StopMove of DONE gets there, nothing
\* published earlier overtakes it, and nothing comes after it.
EndsAtRest == <>[](~timer_active /\ doing = "stop" /\ ~moving)

=============================================================================
