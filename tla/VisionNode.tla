------------------------------ MODULE VisionNode ------------------------------
(***************************************************************************)
(* The node of src/hailo_robot_control/src/go2_vision_node.cpp with its    *)
(* YOLOInferencer: every 50 ms it reads a frame, runs the network on it,   *)
(* which may take longer than that, and publishes what it found on         *)
(* /vision_detections.                                                     *)
(*                                                                         *)
(* A frame is the list of what is in it, in the order of the scores that   *)
(* NMSBoxes gives the network's results.  The network is external; what    *)
(* the node computes from its boxes is not.                                *)
(***************************************************************************)
EXTENDS Integers, Sequences

CONSTANTS
  ClassNames,     \* the class names the network tells apart, and "unknown"
  TallestBox      \* external: pixels of the tallest box the network reports

VARIABLES
  opened,         \* cap_.isOpened(); without it there is no timer either
  model,          \* inferencer_: "absent", without class names, or "named"
  frame,          \* the frame being processed: [scene, age], or Idle
  detections      \* /vision_detections: [list, age], oldest first

Idle == [scene |-> << >>, age |-> -1]

\* A missing network leaves inferencer_ empty; missing names are not noticed.
Init ==
  /\ opened \in BOOLEAN
  /\ model \in {"absent", "unnamed", "named"}
  /\ frame = Idle
  /\ detections = << >>

-----------------------------------------------------------------------------
\* External: what may be in a frame, gap mm away, with a score above 0.5 or not.
Objects == [name : ClassNames, gap : Nat \ {0}, center_x : Int, sure : BOOLEAN]

\* External: the objects are in the order of their scores.
Ranked(scene) ==
  \A i, j \in DOMAIN scene : i < j /\ scene[j].sure => scene[i].sure

FocalLength == 500

\* In mm, as the code takes it for a class.
RealHeight(name) ==
  CASE name = "person" -> 1700
    [] name = "bottle" -> 250
    [] OTHER           -> 500

AtLeastOne(n) == IF n < 1 THEN 1 ELSE n

\* In mm; below a number of whole mm exactly if the code's quotient is.
Distance(name, height) == (RealHeight(name) * FocalLength) \div AtLeastOne(height)

\* The rows an object takes up in the image, in whole pixels.
Rows(name, gap) == (RealHeight(name) * FocalLength) \div gap

BoxHeight(object) ==
  LET rows == Rows(object.name, object.gap)
  IN  IF rows > TallestBox THEN TallestBox ELSE rows

ClassName(object) == IF model = "named" THEN object.name ELSE "unknown"

Detection(object) ==
  [class_name |-> ClassName(object), sure |-> TRUE,
   distance |-> Distance(ClassName(object), BoxHeight(object)),
   center_x |-> object.center_x]

\* YOLOInferencer::infer: confidences up to 0.5 are left out.
Infer(scene) ==
  LET found == {i \in DOMAIN scene : scene[i].sure}
  IN  IF model = "absent" THEN << >> ELSE [i \in found |-> Detection(scene[i])]

\* timer_callback reads a frame ...
Capture(scene) ==
  /\ opened /\ frame = Idle
  /\ frame' = [scene |-> scene, age |-> 0]
  /\ UNCHANGED <<opened, model, detections>>

\* ... or returns early ...
CaptureFails == opened /\ frame = Idle /\ UNCHANGED <<opened, model, frame, detections>>

\* ... and publishes when the network is done.
Publish ==
  /\ frame # Idle
  /\ detections' = Append(detections, [list |-> Infer(frame.scene), age |-> 0])
  /\ frame' = Idle
  /\ UNCHANGED <<opened, model>>

=============================================================================
