--------------------------- MODULE MCObstaclePath ---------------------------
(***************************************************************************)
(* Small instances of ObstaclePath, and of the two programs that look at a *)
(* camera of their own: `part' says which of them a behaviour is about,    *)
(* the others rest in their initial states.                                *)
(***************************************************************************)
EXTENDS ObstaclePath

\* Odometry of a robot that never turns: TURN_LEFT ends by its timeout.
StraightReadings ==
  [pos : {[x |-> 0, y |-> 0], [x |-> 1, y |-> 0]}, yaw : {0}, moving : BOOLEAN]

\* The clock is set back, and ahead.
BackAndAhead == {-1, 2}

\* On both sides of the threshold, and on it.
Brightness == {69, 70}

\* A unit whose picture cannot be used, and others of one size or of two.
CameraStreams == {<<720, 0, 720, 720>>, <<720, 480, 720>>}

-----------------------------------------------------------------------------
CONSTANTS
  Depth, HailoFrames,     \* see HailoPublisher
  UnitBytes, Streams      \* see CameraTest

ASSUME PartAssumption ==
  /\ Depth \in Nat /\ HailoFrames \in Nat
  /\ UnitBytes \in Nat \ {0} /\ Streams \subseteq Seq(Nat)

VARIABLES
  part,
  python, step, frame, jobs, buffer, failed, waited, published,
                                                          \* HailoPublisher
  sizes, decoder, position, data, assembling, packet, scaler, shown, lost, broken
                                                          \* CameraTest

Hailo  == INSTANCE HailoPublisher WITH MaxFrames <- HailoFrames
Camera == INSTANCE CameraTest

hailoVars  == <<python, step, frame, jobs, buffer, failed, waited, published>>
cameraVars == <<sizes, decoder, position, data, assembling, packet, scaler,
                shown, lost, broken>>

PartInit ==
  /\ part \in {"path", "hailo", "camera"}
  /\ PathInit /\ Hailo!Init /\ Camera!Init
  /\ part # "hailo" => ~python
  /\ part # "camera" => ~decoder

PartNext ==
  /\ UNCHANGED part
  /\ \/ part = "path"   /\ PathNext    /\ UNCHANGED <<hailoVars, cameraVars>>
     \/ part = "hailo"  /\ Hailo!Next  /\ UNCHANGED <<pathVars, cameraVars>>
     \/ part = "camera" /\ Camera!Next /\ UNCHANGED <<pathVars, hailoVars>>

PartSpec == PartInit /\ [][PartNext]_<<part, pathVars, hailoVars, cameraVars>>

\* The results published are those of the frame they are stamped with.
PublishesOwnResults == Hailo!PublishesOwnResults

\* Every unit of the stream that got through is shown, once and in order.
ShowsEveryUnit == Camera!ShowsEveryUnit

\* With a decoder, only a picture of another size breaks the node.
BreaksOnNewSize == Camera!BreaksOnNewSize

=============================================================================
