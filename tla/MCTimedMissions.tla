--------------------------- MODULE MCTimedMissions ---------------------------
(***************************************************************************)
(* Small instances of the two nodes that drive by the clock alone: `part'  *)
(* says which of them a behaviour is about, "mission" OpenLoopMission or   *)
(* "practice" ForwardTest; the other rests in its initial state.  Both     *)
(* have a timer of their own, of the same period, and the same limit of    *)
(* three seconds for a Move forward.                                       *)
(***************************************************************************)
EXTENDS OpenLoopMission

CONSTANT PracticeSteps     \* steps the clock of practice.cpp may make

ASSUME PracticeAssumption == PracticeSteps \subseteq Int

VARIABLES part, stopped, request

Practice == INSTANCE ForwardTest WITH ClockSteps <- PracticeSteps

allVars == <<part, vars, stopped, request>>

PartInit == part \in {"mission", "practice"} /\ Init /\ Practice!Init

PartNext ==
  /\ UNCHANGED part
  /\ \/ part = "mission" /\ Next /\ UNCHANGED <<stopped, request>>
     \/ part = "practice" /\ Practice!Next /\ UNCHANGED <<current_state, sent>>

\* Either node has its timer served and time passing.
PartSpec ==
  /\ PartInit /\ [][PartNext]_allVars
  /\ WF_vars(part = "mission" /\ TimerCallback)
  /\ WF_vars(part = "mission" /\ Advance)
  /\ WF_Practice!vars(part = "practice" /\ Practice!TimerCallback)
  /\ WF_Practice!vars(part = "practice" /\ Practice!Advance)

\* The clock of the mission is set back by a second or two: set ahead, it ends a
\* leg early, which is what LegsInFull excludes.
SetBack == {-10, -20}

\* The clock of practice.cpp is set by a second either way, or by four ahead.
SetEitherWay == {-10, 10, 40}

-----------------------------------------------------------------------------
\* The one Move of practice.cpp is in force for at most three seconds, the
\* delay of the executor and the time the system clock was set back meanwhile.
PracticeBounded == Practice!MotionBounded

\* The StopMove of practice.cpp is its last request, also when the clock is set
\* back below three seconds once more.
PracticeFollowsPlan == Practice!FollowsPlan

\* The robot of practice.cpp is told to stop.
PracticeStops == part = "practice" => <>stopped

\* The mission ends by itself, also when the clock is set back a few times.
MissionEnds == part = "mission" => MissionCompletes

=============================================================================
