--------------------------- MODULE PersonLoopProofs ---------------------------
(***************************************************************************)
(* Proofs about PersonFollower and PersonLoop, for every scene, network    *)
(* and topic, and every bound of theirs: the follower's types, that what   *)
(* the scene calls for is done within the reaction time, and that the      *)
(* robot does not walk on towards a person within reach.                   *)
(***************************************************************************)
EXTENDS PersonLoop, FiniteSetTheorems, TLAPS

-----------------------------------------------------------------------------
\* The first of the places where something is found, there being one: of all
\* intervals from 1 to such a place, one has no other within it.
LEMMA LeastOf ==
  ASSUME NEW n \in Nat, NEW S \in SUBSET (1 .. n), S # {}
  PROVE  Min(S) \in S /\ \A k \in S : Min(S) <= k
<1> DEFINE U == 1 .. n
           R == StrictSubsetOrdering(U)
           T == {1 .. k : k \in S}
<1>1. IsFiniteSet(U)
  BY FS_Interval
<1>2. IsWellFoundedOn(R, SUBSET U)
  BY <1>1, FS_StrictSubsetOrderingWellFounded, FS_FiniteSubsetsOfFinite
<1>3. T \subseteq SUBSET U /\ T # {}
  <2>1. \A k \in S : 1 .. k \subseteq U
    OBVIOUS
  <2> QED BY <2>1
<1> HIDE DEF R, T
<1>4. PICK x \in T : \A y \in T : ~ (<<y, x>> \in R)
  BY <1>2, <1>3, WFMin
<1>5. PICK m \in S : x = 1 .. m
  BY DEF T
<1>6. \A k \in S : m <= k
  <2> SUFFICES ASSUME NEW k \in S, k < m PROVE FALSE
    OBVIOUS
  <2>1. 1 .. k \in T /\ 1 .. k \subseteq 1 .. m /\ m \in 1 .. m /\ m \notin 1 .. k
    BY DEF T
  <2>2. <<1 .. k, 1 .. m>> \in R
    BY <2>1, <1>3 DEF R, StrictSubsetOrdering
  <2> QED BY <1>4, <1>5, <2>1, <2>2
<1> QED BY <1>6 DEF Min

\* Whole numbers of rows, and of mm.
LEMMA Quotient ==
  ASSUME NEW a \in Nat, NEW b \in Nat \ {0}
  PROVE  /\ a \div b \in Nat
         /\ b * (a \div b) <= a /\ a < b * ((a \div b) + 1)
OBVIOUS

LEMMA QuotientAtLeast ==
  ASSUME NEW a \in Nat, NEW b \in Nat \ {0}, NEW q \in Nat, b * q <= a
  PROVE  q <= a \div b
<1>1. PICK r \in Nat : r = a \div b /\ a < b * (r + 1)
  BY Quotient
<1>2. ASSUME r + 1 <= q PROVE b * (r + 1) <= b * q
  BY <1>2
<1> QED BY <1>1, <1>2

LEMMA QuotientFalls ==
  ASSUME NEW a \in Nat, NEW b \in Nat \ {0}, NEW c \in Nat \ {0}, c <= b
  PROVE  a \div b <= a \div c
<1>1. PICK q \in Nat : q = a \div b /\ b * q <= a
  BY Quotient
<1>2. c * q <= b * q
  OBVIOUS
<1> QED BY <1>1, <1>2, QuotientAtLeast

\* More rows than a person at some distance has tell a smaller distance.
LEMMA QuotientBelow ==
  ASSUME NEW a \in Nat, NEW d \in Nat \ {0}, NEW r \in Nat \ {0}, r > a \div d
  PROVE  a \div r < d
<1>1. PICK q \in Nat : q = a \div d /\ a < d * (q + 1)
  BY Quotient
<1>2. d * (q + 1) <= d * r
  BY <1>1
<1>3. PICK p \in Nat : p = a \div r /\ r * p <= a
  BY Quotient
<1>4. ASSUME d <= p PROVE r * d <= r * p
  BY <1>4
<1> QED BY <1>1, <1>2, <1>3, <1>4

-----------------------------------------------------------------------------
(***************************************************************************)
(* What the loop keeps.  Since the scene has called for the same request,  *)
(* a frame of the scene is first not taken yet, then in the network, then  *)
(* in a list under way with nothing but its like behind it, then heard,    *)
(* and from the next tick on obeyed.                                       *)
(***************************************************************************)
Viewed == {view \in Seq(Vision!Objects) : Vision!Ranked(view)}

Sent == [list : Seq(Detections), age : 0 .. ListLatency]

LoopType ==
  /\ model \in {"absent", "unnamed", "named"}
  /\ scene \in Viewed
  /\ frame \in [scene : Viewed, age : 0 .. InferTime] \cup {Vision!Idle}
  /\ detections \in Seq(Sent)
  /\ steady \in 0 .. Patience /\ near \in 0 .. Patience
  /\ steady > 0 => Watched
  /\ looked /\ frame # Vision!Idle => frame.age = 0

\* What a list has the follower do.
Picked(list) == {i \in DOMAIN list : Wanted(list[i])}

Bidden(list) ==
  IF Picked(list) = {} THEN [what |-> "search", error |-> 0]
  ELSE IF list[Min(Picked(list))].distance < StopDistance
       THEN [what |-> "stop", error |-> 0]
       ELSE [what |-> "approach", error |-> Centre - list[Min(Picked(list))].center_x]

TrueList(list) == Bidden(list) = Called(scene)

TrueFrame == frame # Vision!Idle => Called(frame.scene) = Called(scene)

TrueFrom(i) == \A j \in i .. Len(detections) : TrueList(detections[j].list)

Capturing == Vision!AtLeastOne(InferTime)

NotTaken ==
  \/ frame # Vision!Idle /\ steady <= frame.age
  \/ frame = Vision!Idle /\ steady <= Capturing /\ (looked => steady = 0)

InNetwork ==
  frame # Vision!Idle /\ TrueFrame /\ steady <= Capturing + frame.age

UnderWay(i) ==
  /\ TrueFrame /\ TrueFrom(i)
  /\ steady <= Capturing + InferTime + detections[i].age

Heard ==
  /\ TrueFrame /\ TrueFrom(1) /\ TrueList(latest_detections)
  /\ steady <= Capturing + InferTime + ListLatency + due
     \/ request = Called(scene)

Stage ==
  NotTaken \/ InNetwork \/ (\E i \in 1 .. Len(detections) : UnderWay(i)) \/ Heard

\* As long as the scene has had a person within reach it has called for a stop.
NearInv == BoxesTell => near <= steady /\ near <= Reaction

PersonInv == TypeOK /\ LoopType /\ Stage /\ NearInv

-----------------------------------------------------------------------------
\* What the vision node makes of a scene.
LEMMA Boxes ==
  ASSUME NEW object \in Vision!Objects
  PROVE  /\ \A name \in ClassNames : Vision!Rows(name, object.gap) \in Nat
         /\ Vision!BoxHeight(object) \in Nat
         /\ \A name \in ClassNames : Vision!Distance(name, Vision!BoxHeight(object)) \in Nat
<1>1. \A name \in ClassNames : Vision!RealHeight(name) * Vision!FocalLength \in Nat
  BY DEF Vision!RealHeight, Vision!FocalLength
<1>2. object.gap \in Nat \ {0} /\ object.name \in ClassNames
  BY DEF Vision!Objects
<1>3. \A name \in ClassNames : Vision!Rows(name, object.gap) \in Nat
  BY <1>1, <1>2, Quotient DEF Vision!Rows
<1>4. Vision!BoxHeight(object) \in Nat
  BY <1>2, <1>3, LoopAssumption DEF LoopAssumption, Vision!BoxHeight
<1>5. Vision!AtLeastOne(Vision!BoxHeight(object)) \in Nat \ {0}
  BY <1>4 DEF Vision!AtLeastOne
<1>6. \A name \in ClassNames : Vision!Distance(name, Vision!BoxHeight(object)) \in Nat
  BY <1>1, <1>5, Quotient DEF Vision!Distance
<1> QED BY <1>3, <1>4, <1>6

\* The objects that are sure are the first ones of a frame.
LEMMA SureFirst ==
  ASSUME NEW view \in Viewed
  PROVE  \E k \in 0 .. Len(view) : {i \in DOMAIN view : view[i].sure} = 1 .. k
<1> DEFINE U == {i \in DOMAIN view : ~ view[i].sure}
<1>1. view \in Seq(Vision!Objects) /\ Vision!Ranked(view)
  BY DEF Viewed
<1>2. DOMAIN view = 1 .. Len(view) /\ Len(view) \in Nat
  BY <1>1
<1>3. CASE U = {}
  <2>1. {i \in DOMAIN view : view[i].sure} = 1 .. Len(view)
    BY <1>2, <1>3
  <2> QED BY <1>2, <2>1
<1>4. CASE U # {}
  <2>1. PICK m \in U : \A k \in U : m <= k
    BY <1>2, <1>4, LeastOf
  <2>2. m \in 1 .. Len(view) /\ ~ view[m].sure
    BY <1>2
  <2>3. \A i \in 1 .. Len(view) : i < m => view[i].sure
    BY <1>2, <2>1
  <2>4. \A i \in 1 .. Len(view) : m < i => ~ view[i].sure
    BY <1>1, <1>2, <2>2 DEF Vision!Ranked
  <2>5. \A i \in 1 .. Len(view) : view[i].sure <=> i < m
    BY <2>2, <2>3, <2>4
  <2>6. {i \in DOMAIN view : view[i].sure} = 1 .. m - 1 /\ m - 1 \in 0 .. Len(view)
    BY <1>2, <2>2, <2>5
  <2> QED BY <2>6
<1> QED BY <1>3, <1>4

LEMMA InferLists ==
  ASSUME NEW view \in Viewed, model \in {"absent", "unnamed", "named"}
  PROVE  Vision!Infer(view) \in Seq(Detections)
<1>1. PICK k \in 0 .. Len(view) : {i \in DOMAIN view : view[i].sure} = 1 .. k
  BY SureFirst
<1>2. view \in Seq(Vision!Objects) /\ DOMAIN view = 1 .. Len(view) /\ Len(view) \in Nat
  BY DEF Viewed
<1>3. \A i \in 1 .. k : Vision!Detection(view[i]) \in Detections
  <2> TAKE i \in 1 .. k
  <2>1. view[i] \in Vision!Objects
    BY <1>1, <1>2
  <2>2. view[i].name \in ClassNames /\ view[i].center_x \in Int
    BY <2>1 DEF Vision!Objects
  <2>3. Vision!ClassName(view[i]) \in ClassNames
    <3>1. Vision!ClassName(view[i]) \in {view[i].name, "unknown"}
      BY DEF Vision!ClassName
    <3>2. "unknown" \in ClassNames
      BY LoopAssumption DEF LoopAssumption
    <3> QED BY <2>2, <3>1, <3>2
  <2>4. Vision!Distance(Vision!ClassName(view[i]), Vision!BoxHeight(view[i])) \in Nat
    BY <2>1, <2>3, Boxes
  <2> QED BY <2>2, <2>3, <2>4 DEF Vision!Detection, Detections
<1>4. [i \in 1 .. k |-> Vision!Detection(view[i])] \in Seq(Detections)
  BY <1>1, <1>2, <1>3
<1>5. CASE model = "absent"
  <2>1. Vision!Infer(view) = << >>
    BY <1>5 DEF Vision!Infer
  <2> QED BY <2>1
<1>6. CASE model # "absent"
  <2>1. Vision!Infer(view) = [i \in 1 .. k |-> Vision!Detection(view[i])]
    BY <1>1, <1>6 DEF Vision!Infer
  <2> QED BY <1>4, <2>1
<1> QED BY <1>5, <1>6

\* The follower does by the list of a scene what the scene calls for.
LEMMA InferBids ==
  ASSUME NEW view \in Viewed, model \in {"absent", "unnamed", "named"}
  PROVE  Bidden(Vision!Infer(view)) = Called(view)
<1> DEFINE list == Vision!Infer(view)
<1>2. view \in Seq(Vision!Objects) /\ DOMAIN view = 1 .. Len(view) /\ Len(view) \in Nat
  BY DEF Viewed
<1>3. CASE model # "named"
  <2>1. \A i \in DOMAIN list : list[i].class_name = "unknown"
    BY <1>3 DEF Vision!Infer, Vision!Detection, Vision!ClassName
  <2>2. Picked(list) = {}
    BY <2>1 DEF Picked, Wanted
  <2> QED BY <1>3, <2>2 DEF Bidden, Called
<1>4. CASE model = "named"
  <2>1. /\ DOMAIN list = {i \in DOMAIN view : view[i].sure}
        /\ \A i \in DOMAIN list : list[i] = Vision!Detection(view[i])
    BY <1>4 DEF Vision!Infer
  <2>2. \A object : /\ Vision!Detection(object).class_name = object.name
                    /\ Vision!Detection(object).sure = TRUE
                    /\ Vision!Detection(object).center_x = object.center_x
                    /\ Vision!Detection(object).distance =
                         Vision!Distance(object.name, Vision!BoxHeight(object))
    BY <1>4 DEF Vision!Detection, Vision!ClassName
  <2> HIDE DEF list
  <2>3. Picked(list) = InView(view)
    BY <2>1, <2>2 DEF Picked, InView, Wanted
  <2>4. CASE InView(view) = {}
    BY <2>3, <2>4 DEF Bidden, Called, list
  <2>5. CASE InView(view) # {}
    <3>1. PICK m \in InView(view) : m = Min(InView(view))
      BY <1>2, <2>5, LeastOf DEF InView
    <3>2. view[m].name = "person" /\ m \in DOMAIN list
      BY <2>1, <3>1 DEF InView
    <3>3. /\ list[m].distance = Vision!Distance("person", Vision!BoxHeight(view[m]))
          /\ list[m].center_x = view[m].center_x
      BY <2>1, <2>2, <3>2
    <3> QED BY <1>4, <2>3, <2>5, <3>1, <3>3 DEF Bidden, Called, Surest, list
  <2> QED BY <2>4, <2>5
<1> QED BY <1>3, <1>4

\* Only the model and the scene tell what is called for.
LEMMA CalledSame ==
  ASSUME UNCHANGED model, NEW view PROVE Called(view)' = Called(view)
BY DEF Called

\* A tick does what the latest list has the follower do.
LEMMA TickBids ==
  ASSUME TypeOK, TimerCallback
  PROVE  /\ TypeOK' /\ due' = 0 /\ UNCHANGED <<state_received, latest_detections>>
         /\ IF state_received THEN request' = Bidden(latest_detections)
            ELSE UNCHANGED request
<1>1. /\ due' = 0 /\ UNCHANGED <<state_received, latest_detections>>
      /\ MaxDelay \in Nat \ {0} /\ Centre \in Int
  BY FollowerAssumption DEF FollowerAssumption, TimerCallback
<1>2. CASE ~ state_received
  BY <1>1, <1>2 DEF TimerCallback, TypeOK
<1>3. CASE state_received
  <2>1. current_state' = NextState /\ request' = Command(NextState)
    BY <1>3 DEF TimerCallback, Decide
  <2>2. People = Picked(latest_detections)
    BY DEF People, Picked
  <2>3. request' = Bidden(latest_detections)
    BY <2>1, <2>2 DEF NextState, Command, Bidden, TooClose, Target
  <2>4. People # {} => Target.center_x \in Int
    <3> SUFFICES ASSUME People # {} PROVE Target.center_x \in Int
      OBVIOUS
    <3>1. latest_detections \in Seq(Detections)
      BY DEF TypeOK
    <3>2. DOMAIN latest_detections = 1 .. Len(latest_detections) /\ Len(latest_detections) \in Nat
      BY <3>1
    <3>3. Min(People) \in People
      BY <3>2, LeastOf DEF People
    <3>4. Target \in Detections
      BY <3>1, <3>2, <3>3 DEF Target, People
    <3> QED BY <3>4 DEF Detections
  <2>5. /\ NextState \in RobotState
        /\ Command(NextState) \in Requests
        /\ Command(NextState).what = CASE NextState = "STOPPED"     -> "stop"
                                       [] NextState = "APPROACHING" -> "approach"
                                       [] OTHER                     -> "search"
    BY <1>1, <2>4 DEF NextState, RobotState, Command, Requests
  <2>6. TypeOK'
    BY <1>1, <1>3, <2>1, <2>5 DEF TypeOK
  <2> QED BY <1>1, <1>3, <2>3, <2>6
<1> QED BY <1>2, <1>3

-----------------------------------------------------------------------------
LEMMA Bounds ==
  /\ InferTime \in Nat /\ ListLatency \in Nat /\ Patience \in Nat /\ Stride \in Nat
  /\ MaxDelay \in Nat \ {0} /\ Centre \in Int /\ StopDistance \in Nat \ {0}
  /\ Capturing \in Nat \ {0} /\ Capturing >= InferTime
  /\ Reaction = Capturing + InferTime + ListLatency + MaxDelay /\ Reaction \in Nat
BY LoopAssumption, FollowerAssumption
DEF LoopAssumption, FollowerAssumption, Capturing, Vision!AtLeastOne, Reaction

\* The lists under way.
LEMMA Lists ==
  ASSUME LoopType
  PROVE  /\ Len(detections) \in Nat /\ DOMAIN detections = 1 .. Len(detections)
         /\ \A i \in 1 .. Len(detections) :
              /\ detections[i] \in Sent
              /\ detections[i].list \in Seq(Detections)
              /\ detections[i].age \in 0 .. ListLatency
<1>1. detections \in Seq(Sent)
  BY DEF LoopType
<1>2. \A i \in 1 .. Len(detections) : detections[i] \in Sent
  BY <1>1
<1> QED BY <1>1, <1>2 DEF Sent

LEMMA Frame ==
  ASSUME LoopType, frame # Vision!Idle
  PROVE  frame.scene \in Viewed /\ frame.age \in 0 .. InferTime
BY DEF LoopType

LEMMA LoopStart == LoopInit => PersonInv
<1> SUFFICES ASSUME LoopInit PROVE PersonInv
  OBVIOUS
<1>1. /\ current_state = "SEARCHING" /\ state_received = FALSE /\ latest_detections = << >>
      /\ request = NoRequest /\ due = 0
      /\ frame = Vision!Idle /\ detections = << >> /\ model \in {"absent", "unnamed", "named"}
      /\ scene \in Scenes /\ looked = FALSE /\ steady = 0 /\ near = 0
  BY DEF LoopInit, Init, Vision!Init
<1>2. TypeOK
  <2>1. latest_detections \in Seq(Detections) /\ due \in 0 .. MaxDelay
    BY <1>1, Bounds
  <2>2. /\ current_state \in RobotState /\ state_received \in BOOLEAN
        /\ request \in Requests \cup {NoRequest} /\ ~ (request # NoRequest)
    BY <1>1 DEF RobotState
  <2> QED BY <2>1, <2>2 DEF TypeOK
<1>3. LoopType
  BY <1>1, Bounds, LoopAssumption DEF LoopAssumption, LoopType, Viewed
<1>4. Stage
  BY <1>1, Bounds DEF Stage, NotTaken
<1>5. NearInv
  BY <1>1, Bounds DEF NearInv
<1> QED BY <1>2, <1>3, <1>4, <1>5 DEF PersonInv

\* The scene calls for something anew, or the robot is not ready yet.
LEMMA ChangeKeeps ==
  ASSUME PersonInv, Change PROVE PersonInv'
<1>1. /\ UNCHANGED <<current_state, state_received, latest_detections, request, due>>
      /\ UNCHANGED <<opened, model, frame, detections, looked>>
      /\ scene' \in Scenes /\ steady' = 0 /\ near' = 0
  BY DEF Change, follower, vision
<1>2. TypeOK'
  BY <1>1 DEF PersonInv, TypeOK
<1>3. LoopType'
  BY <1>1, Bounds, LoopAssumption DEF LoopAssumption, PersonInv, LoopType, Viewed
<1>4. Stage'
  BY <1>1, Bounds, Frame DEF Stage, NotTaken, PersonInv
<1>5. NearInv'
  BY <1>1, Bounds DEF NearInv
<1> QED BY <1>2, <1>3, <1>4, <1>5 DEF PersonInv

LEMMA OdometryKeeps ==
  ASSUME PersonInv, Odometry PROVE PersonInv'
<1>1. /\ UNCHANGED <<current_state, latest_detections, request, due>>
      /\ UNCHANGED <<opened, model, frame, detections, scene, streaming, looked>>
      /\ state_received' = TRUE
      /\ (state_received /\ UNCHANGED <<steady, near>>) \/ (steady' = 0 /\ near' = 0)
  BY DEF Odometry, StateCallback, vision, world, history
<1>2. TypeOK'
  BY <1>1 DEF PersonInv, TypeOK
<1>3. LoopType'
  BY <1>1, Bounds DEF PersonInv, LoopType, Watched
<1>4. CASE steady' = 0 /\ near' = 0
  <2>1. Stage'
    BY <1>1, <1>4, Bounds, Frame DEF Stage, NotTaken, PersonInv
  <2>2. NearInv'
    BY <1>4, Bounds DEF NearInv
  <2> QED BY <1>2, <1>3, <2>1, <2>2 DEF PersonInv
<1>5. CASE state_received /\ UNCHANGED <<steady, near>>
  <2>1. state_received' = state_received
    BY <1>1, <1>5, <1>2 DEF PersonInv, TypeOK
  <2>2. Called(scene)' = Called(scene) /\ Called(frame.scene)' = Called(frame.scene)
    BY <1>1 DEF Called
  <2>3. Stage'
    BY <1>1, <1>5, <2>1, <2>2
    DEF PersonInv, Stage, NotTaken, InNetwork, UnderWay, Heard, TrueFrame, TrueFrom, TrueList
  <2>4. NearInv'
    BY <1>5 DEF PersonInv, NearInv
  <2> QED BY <1>2, <1>3, <2>3, <2>4 DEF PersonInv
<1> QED BY <1>1, <1>4, <1>5

\* A frame that is taken shows the scene as it is.
LEMMA LookKeeps ==
  ASSUME PersonInv, Look PROVE PersonInv'
<1>1. /\ UNCHANGED <<current_state, state_received, latest_detections, request, due>>
      /\ UNCHANGED <<scene, streaming, steady, near, opened, model, detections>>
      /\ frame = Vision!Idle /\ looked' = TRUE
      /\ \/ streaming /\ frame' = [scene |-> scene, age |-> 0]
         \/ ~ streaming /\ frame' = frame
  BY DEF Look, follower, world, history, Vision!Capture, Vision!CaptureFails
<1>2. TypeOK'
  BY <1>1 DEF PersonInv, TypeOK
<1>3. LoopType'
  BY <1>1, Bounds DEF PersonInv, LoopType, Watched
<1>4. Called(scene)' = Called(scene)
  BY <1>1 DEF Called
<1>5. NearInv'
  BY <1>1 DEF PersonInv, NearInv
<1>6. CASE ~ streaming
  <2>1. steady' = 0 /\ frame' = Vision!Idle
    BY <1>1, <1>6, Bounds DEF PersonInv, LoopType, Watched
  <2> QED BY <1>2, <1>3, <1>5, <2>1, Bounds DEF PersonInv, Stage, NotTaken
<1>7. CASE streaming
  <2>1. /\ frame' = [scene |-> scene, age |-> 0] /\ frame'.age = 0
        /\ frame'.scene = scene /\ frame' # Vision!Idle
    BY <1>1, <1>7 DEF Vision!Idle
  <2>2. Called(frame.scene)' = Called(scene)
    BY <1>1, <2>1 DEF Called
  <2>3. TrueFrame'
    BY <1>4, <2>2 DEF TrueFrame
  <2>4. CASE NotTaken
    <3>1. InNetwork'
      BY <1>1, <2>1, <2>3, <2>4, Bounds DEF NotTaken, InNetwork
    <3> QED BY <1>2, <1>3, <1>5, <3>1 DEF PersonInv, Stage
  <2>5. CASE \E i \in 1 .. Len(detections) : UnderWay(i)
    <3>1. (\E i \in 1 .. Len(detections) : UnderWay(i))'
      BY <1>1, <1>4, <2>3, <2>5 DEF UnderWay, TrueFrom, TrueList
    <3> QED BY <1>2, <1>3, <1>5, <3>1 DEF PersonInv, Stage
  <2>6. CASE Heard
    <3>1. Heard'
      BY <1>1, <1>4, <2>3, <2>6 DEF Heard, TrueFrom, TrueList
    <3> QED BY <1>2, <1>3, <1>5, <3>1 DEF PersonInv, Stage
  <2> QED BY <1>1, <2>4, <2>5, <2>6 DEF PersonInv, Stage, InNetwork
<1> QED BY <1>1, <1>6, <1>7

\* The list of a frame goes to the end of the queue.
LEMMA AnswerKeeps ==
  ASSUME PersonInv, Answer PROVE PersonInv'
<1> DEFINE v == [list |-> Vision!Infer(frame.scene), age |-> 0]
<1>1. /\ UNCHANGED <<current_state, state_received, latest_detections, request, due>>
      /\ UNCHANGED <<scene, streaming, steady, near, opened, model, looked>>
      /\ frame # Vision!Idle /\ frame' = Vision!Idle
      /\ detections' = Append(detections, v)
  BY DEF Answer, follower, world, history, Vision!Publish
<1>2. TypeOK'
  BY <1>1 DEF PersonInv, TypeOK
<1>3. /\ frame.scene \in Viewed /\ frame.age \in 0 .. InferTime
      /\ looked => frame.age = 0
  BY <1>1, Frame DEF PersonInv, LoopType
<1>4. v \in Sent /\ v.age = 0 /\ v.list = Vision!Infer(frame.scene)
  BY <1>3, Bounds, InferLists DEF Sent, PersonInv, LoopType
<1>5. Bidden(v.list) = Called(frame.scene)
  BY <1>3, <1>4, InferBids DEF PersonInv, LoopType
<1> HIDE DEF v
<1>6. /\ detections' \in Seq(Sent) /\ Len(detections') = Len(detections) + 1
      /\ detections'[Len(detections) + 1] = v
      /\ \A i \in 1 .. Len(detections) : detections'[i] = detections[i]
      /\ Len(detections) \in Nat
  BY <1>1, <1>4 DEF PersonInv, LoopType
<1>7. LoopType'
  BY <1>1, <1>6 DEF PersonInv, LoopType, Watched
<1>8. Called(scene)' = Called(scene)
  BY <1>1 DEF Called
<1>9. NearInv'
  BY <1>1 DEF PersonInv, NearInv
<1>10. TrueFrame'
  BY <1>1 DEF TrueFrame
<1>11. CASE NotTaken
  <2>1. steady <= frame.age /\ (looked => steady = 0)
    BY <1>1, <1>3, <1>11, Bounds DEF NotTaken, PersonInv, LoopType
  <2>2. NotTaken'
    BY <1>1, <1>3, <2>1, Bounds DEF NotTaken, PersonInv, LoopType
  <2> QED BY <1>2, <1>7, <1>9, <2>2 DEF PersonInv, Stage
<1>12. CASE InNetwork
  <2>1. TrueList(v.list)
    BY <1>1, <1>5, <1>12 DEF InNetwork, TrueFrame, TrueList
  <2>2. (\E i \in 1 .. Len(detections) : UnderWay(i))'
    <3>1. PICK n \in Nat : n = Len(detections) + 1 /\ n \in 1 .. Len(detections')
      BY <1>6
    <3>2. detections'[n] = v /\ Len(detections') = n
      BY <1>6, <3>1
    <3>3. (\A j \in n .. Len(detections) : TrueList(detections[j].list))'
      BY <1>8, <2>1, <3>2 DEF TrueList
    <3>4. steady' <= Capturing + InferTime + detections'[n].age
      BY <1>1, <1>3, <1>4, <1>12, <3>2, Bounds DEF InNetwork, PersonInv, LoopType
    <3>5. UnderWay(n)'
      BY <1>10, <3>3, <3>4 DEF UnderWay, TrueFrom
    <3> QED BY <3>1, <3>5
  <2> QED BY <1>2, <1>6, <1>7, <1>9, <2>2 DEF PersonInv, Stage
<1>13. ASSUME NEW i \in 1 .. Len(detections), UnderWay(i) PROVE PersonInv'
  <2>1. TrueList(v.list)
    BY <1>1, <1>5, <1>13 DEF UnderWay, TrueFrame, TrueList
  <2>2. (\A j \in i .. Len(detections) : TrueList(detections[j].list))'
    BY <1>6, <1>8, <1>13, <2>1 DEF UnderWay, TrueFrom, TrueList
  <2>3. UnderWay(i)' /\ i \in 1 .. Len(detections')
    BY <1>1, <1>6, <1>10, <1>13, <2>2 DEF UnderWay, TrueFrom
  <2> QED BY <1>2, <1>7, <1>9, <2>3 DEF PersonInv, Stage
<1>14. CASE Heard
  <2>1. TrueList(v.list)
    BY <1>1, <1>5, <1>14 DEF Heard, TrueFrame, TrueList
  <2>2. (\A j \in 1 .. Len(detections) : TrueList(detections[j].list))'
    BY <1>6, <1>8, <1>14, <2>1 DEF Heard, TrueFrom, TrueList
  <2>3. Heard'
    BY <1>1, <1>8, <1>10, <1>14, <2>2 DEF Heard, TrueFrom, TrueList
  <2> QED BY <1>2, <1>7, <1>9, <2>3 DEF PersonInv, Stage
<1> QED BY <1>11, <1>12, <1>13, <1>14 DEF PersonInv, Stage

LEMMA HearKeeps ==
  ASSUME PersonInv, Hear PROVE PersonInv'
<1>1. /\ UNCHANGED <<current_state, state_received, request, due>>
      /\ UNCHANGED <<scene, streaming, steady, near, opened, model, frame, looked>>
      /\ detections # << >> /\ detections' = Tail(detections)
      /\ latest_detections' = Head(detections).list
  BY DEF Hear, VisionCallback, world, history
<1>2. PICK n \in Nat \ {0} : n = Len(detections) /\ detections \in Seq(Sent)
  BY <1>1 DEF PersonInv, LoopType
<1>3. /\ detections' \in Seq(Sent) /\ Len(detections') = n - 1
      /\ \A i \in 1 .. n - 1 : detections'[i] = detections[i + 1]
      /\ Head(detections) = detections[1]
  BY <1>1, <1>2
<1>4. detections[1].list \in Seq(Detections) /\ detections[1].age \in 0 .. ListLatency
  BY <1>2, Lists DEF PersonInv
<1>5. TypeOK'
  BY <1>1, <1>3, <1>4 DEF PersonInv, TypeOK
<1>6. LoopType'
  BY <1>1, <1>3 DEF PersonInv, LoopType, Watched
<1>7. Called(scene)' = Called(scene) /\ Called(frame.scene)' = Called(frame.scene)
  BY <1>1 DEF Called
<1>8. NearInv'
  BY <1>1 DEF PersonInv, NearInv
<1>9. CASE NotTaken \/ InNetwork
  <2>1. Stage'
    BY <1>1, <1>7, <1>9 DEF Stage, NotTaken, InNetwork, TrueFrame
  <2> QED BY <1>5, <1>6, <1>8, <2>1 DEF PersonInv
<1>10. ASSUME TrueFrame, TrueFrom(1),
              steady <= Capturing + InferTime + ListLatency + due \/ request = Called(scene)
       PROVE  PersonInv'
  <2>1. TrueList(detections[1].list) /\ \A j \in 1 .. n : TrueList(detections[j].list)
    BY <1>2, <1>10 DEF TrueFrom
  <2>2. (\A j \in 1 .. Len(detections) : TrueList(detections[j].list))'
    BY <1>2, <1>3, <1>7, <2>1 DEF TrueList
  <2>3. Heard'
    BY <1>1, <1>3, <1>7, <1>10, <2>1, <2>2 DEF Heard, TrueFrame, TrueFrom, TrueList
  <2> QED BY <1>5, <1>6, <1>8, <2>3 DEF PersonInv, Stage
<1>11. ASSUME NEW i \in 1 .. Len(detections), UnderWay(i) PROVE PersonInv'
  <2>1. CASE i = 1
    <3>1. steady <= Capturing + InferTime + ListLatency + due
      <4>1. steady \in Nat /\ due \in Nat
        BY Bounds DEF PersonInv, LoopType, TypeOK
      <4>2. steady <= Capturing + InferTime + detections[1].age
        BY <1>11, <2>1 DEF UnderWay
      <4> QED BY <1>4, <4>1, <4>2, Bounds
    <3> QED BY <1>10, <1>11, <2>1, <3>1 DEF UnderWay
  <2>2. CASE i # 1
    <3>1. PICK k \in 1 .. n - 1 : i = k + 1
      BY <1>2, <2>2
    <3>2. detections'[k] = detections[i] /\ k \in 1 .. Len(detections')
      BY <1>3, <3>1
    <3>3. \A j \in i .. n : TrueList(detections[j].list)
      BY <1>2, <1>11 DEF UnderWay, TrueFrom
    <3>4. \A j \in k .. n - 1 : j + 1 \in i .. n /\ detections'[j] = detections[j + 1]
      BY <1>3, <3>1
    <3>5. (\A j \in k .. Len(detections) : TrueList(detections[j].list))'
      BY <1>3, <1>7, <3>3, <3>4 DEF TrueList
    <3>6. UnderWay(k)'
      BY <1>1, <1>7, <1>11, <3>2, <3>5 DEF UnderWay, TrueFrame, TrueFrom
    <3> QED BY <1>5, <1>6, <1>8, <3>2, <3>6 DEF PersonInv, Stage
  <2> QED BY <2>1, <2>2
<1>12. CASE Heard
  BY <1>10, <1>12 DEF Heard
<1> QED BY <1>9, <1>11, <1>12 DEF PersonInv, Stage

\* A tick that has heard of the scene obeys.
LEMMA TickKeeps ==
  ASSUME PersonInv, Tick PROVE PersonInv'
<1>1. /\ UNCHANGED <<scene, streaming, steady, near, opened, model, frame, detections, looked>>
      /\ TypeOK' /\ due' = 0 /\ UNCHANGED <<state_received, latest_detections>>
      /\ IF state_received THEN request' = Bidden(latest_detections) ELSE UNCHANGED request
  BY TickBids DEF Tick, vision, world, history, PersonInv
<1>2. LoopType'
  BY <1>1 DEF PersonInv, LoopType, Watched
<1>3. Called(scene)' = Called(scene) /\ Called(frame.scene)' = Called(frame.scene)
  BY <1>1 DEF Called
<1>4. NearInv'
  BY <1>1 DEF PersonInv, NearInv
<1>5. CASE ~ Heard
  <2>1. Stage'
    BY <1>1, <1>3, <1>5
    DEF PersonInv, Stage, NotTaken, InNetwork, UnderWay, TrueFrame, TrueFrom, TrueList
  <2> QED BY <1>1, <1>2, <1>4, <2>1 DEF PersonInv
<1>6. CASE Heard
  <2>1. CASE state_received
    <3>1. request' = Called(scene)'
      BY <1>1, <1>3, <1>6, <2>1 DEF Heard, TrueList
    <3>2. Heard'
      BY <1>1, <1>3, <1>6, <3>1 DEF Heard, TrueFrame, TrueFrom, TrueList
    <3> QED BY <1>1, <1>2, <1>4, <3>2 DEF PersonInv, Stage
  <2>2. CASE ~ state_received
    <3>1. steady = 0
      BY <2>2, Bounds DEF PersonInv, LoopType, Watched
    <3>2. NotTaken'
      BY <1>1, <3>1, Frame, Bounds DEF NotTaken, PersonInv
    <3> QED BY <1>1, <1>2, <1>4, <3>2 DEF PersonInv, Stage
  <2> QED BY <2>1, <2>2
<1> QED BY <1>5, <1>6

\* Walking brings what is in view nearer, and makes nobody else of it.
LEMMA WalkIn ==
  ASSUME LoopType
  PROVE  /\ [i \in DOMAIN scene |-> Closer(scene[i])] \in Viewed
         /\ InView([i \in DOMAIN scene |-> Closer(scene[i])]) = InView(scene)
         /\ \A i \in DOMAIN scene :
              Closer(scene[i]).gap \in Nat \ {0} /\ Closer(scene[i]).gap <= scene[i].gap
<1>1. /\ scene \in Seq(Vision!Objects) /\ Vision!Ranked(scene)
      /\ DOMAIN scene = 1 .. Len(scene) /\ Len(scene) \in Nat
  BY DEF LoopType, Viewed
<1>2. \A i \in DOMAIN scene :
        /\ Closer(scene[i]) \in Vision!Objects
        /\ Closer(scene[i]).name = scene[i].name /\ Closer(scene[i]).sure = scene[i].sure
        /\ Closer(scene[i]).gap \in Nat \ {0} /\ Closer(scene[i]).gap <= scene[i].gap
  <2> TAKE i \in DOMAIN scene
  <2>1. scene[i] \in Vision!Objects
    BY <1>1
  <2> QED BY <2>1, Bounds DEF Closer, Vision!Objects
<1> DEFINE after == [i \in DOMAIN scene |-> Closer(scene[i])]
<1>3. after \in Seq(Vision!Objects) /\ DOMAIN after = DOMAIN scene
  BY <1>1, <1>2
<1>4. Vision!Ranked(after)
  BY <1>1, <1>2, <1>3 DEF Vision!Ranked
<1>5. InView(after) = InView(scene)
  BY <1>2, <1>3 DEF InView
<1> QED BY <1>2, <1>3, <1>4, <1>5 DEF Viewed

\* Whoever is within reach by a row of the image is told to be, however near,
\* if boxes may be that tall.
LEMMA ReachStops ==
  ASSUME BoxesTell, NEW object \in Vision!Objects, object.name = "person",
         "person" \in ClassNames,
         Vision!Rows("person", object.gap) > Vision!Rows("person", StopDistance)
  PROVE  Vision!Distance("person", Vision!BoxHeight(object)) < StopDistance
<1> DEFINE k == Vision!RealHeight("person") * Vision!FocalLength
<1>1. k \in Nat
  BY DEF Vision!RealHeight, Vision!FocalLength
<1>2. PICK r \in Nat : r = Vision!Rows("person", object.gap)
  BY Boxes
<1>3. PICK s \in Nat : s = k \div StopDistance
  BY <1>1, Bounds, Quotient
<1>4. r > s /\ r \in Nat \ {0}
  BY <1>2, <1>3 DEF Vision!Rows
<1>5. CASE r > TallestBox
  <2>1. Vision!BoxHeight(object) = TallestBox
    BY <1>2, <1>5 DEF Vision!BoxHeight
  <2> QED BY <2>1 DEF BoxesTell
<1>6. CASE ~ (r > TallestBox)
  <2>1. Vision!BoxHeight(object) = r
    BY <1>2, <1>6 DEF Vision!BoxHeight
  <2>2. Vision!AtLeastOne(r) = r
    BY <1>4 DEF Vision!AtLeastOne
  <2>3. Vision!Distance("person", r) = k \div r
    BY <2>2 DEF Vision!Distance
  <2> HIDE DEF k
  <2>4. k \div r < StopDistance
    BY <1>1, <1>3, <1>4, Bounds, QuotientBelow
  <2> QED BY <2>1, <2>3, <2>4
<1> QED BY <1>5, <1>6

\* A scene with a person within reach calls for a stop, and still does after a
\* period in which the robot has walked on.
LEMMA ReachCalls ==
  ASSUME PersonInv, Pass, BoxesTell, WithinReach
  PROVE  /\ Called(scene) = [what |-> "stop", error |-> 0]
         /\ Called(scene)' = [what |-> "stop", error |-> 0]
<1>1. LoopType /\ model' = model /\ model = "named"
  BY DEF PersonInv, Pass, WithinReach
<1>2. scene \in Seq(Vision!Objects) /\ DOMAIN scene = 1 .. Len(scene) /\ Len(scene) \in Nat
  BY <1>1 DEF LoopType, Viewed
<1>3. PICK m \in InView(scene) : m = Min(InView(scene))
  BY <1>2, LeastOf DEF WithinReach, InView
<1>4. m \in DOMAIN scene /\ scene[m] \in Vision!Objects /\ scene[m].name = "person"
      /\ "person" \in ClassNames
  <2>1. m \in DOMAIN scene /\ scene[m].name = "person"
    BY <1>3 DEF InView
  <2>2. scene[m] \in Vision!Objects
    BY <1>2, <2>1
  <2>3. scene[m].name \in ClassNames
    BY <2>2 DEF Vision!Objects
  <2> QED BY <2>1, <2>2, <2>3
<1>5. Vision!Rows("person", scene[m].gap) > Vision!Rows("person", StopDistance)
  BY <1>3 DEF WithinReach, Surest
<1>6. Called(scene) = [what |-> "stop", error |-> 0]
  BY <1>1, <1>3, <1>4, <1>5, ReachStops DEF Called, Surest
<1> DEFINE after == [i \in DOMAIN scene |-> Closer(scene[i])]
<1>7. scene' = scene \/ scene' = after
  BY DEF Pass
<1>8. CASE scene' = scene
  BY <1>1, <1>6, <1>8 DEF Called
<1>9. CASE scene' = after
  <2>1. /\ after \in Viewed /\ InView(after) = InView(scene)
        /\ Closer(scene[m]).gap \in Nat \ {0} /\ Closer(scene[m]).gap <= scene[m].gap
    BY <1>1, <1>4, WalkIn
  <2>2. after[m] = Closer(scene[m]) /\ after[m].name = "person"
    BY <1>4 DEF Closer, Vision!Objects
  <2>3. after[m] \in Vision!Objects
    BY <1>2, <1>4, <2>1 DEF Viewed
  <2> HIDE DEF after
  <2>4. Vision!Rows("person", scene[m].gap) <= Vision!Rows("person", after[m].gap)
    <3>1. Vision!RealHeight("person") * Vision!FocalLength \in Nat
      BY DEF Vision!RealHeight, Vision!FocalLength
    <3>2. scene[m].gap \in Nat \ {0}
      BY <1>4 DEF Vision!Objects
    <3> QED BY <2>1, <2>2, <3>1, <3>2, QuotientFalls DEF Vision!Rows
  <2>5. Vision!Rows("person", after[m].gap) > Vision!Rows("person", StopDistance)
    <3>1. /\ Vision!Rows("person", scene[m].gap) \in Nat /\ Vision!Rows("person", after[m].gap) \in Nat
      BY <1>4, <2>3, Boxes
    <3>2. Vision!Rows("person", StopDistance) \in Nat
      BY Bounds, Quotient DEF Vision!Rows, Vision!RealHeight, Vision!FocalLength
    <3> QED BY <1>5, <2>4, <3>1, <3>2
  <2>6. Vision!Distance("person", Vision!BoxHeight(after[m])) < StopDistance
    BY <1>4, <2>2, <2>3, <2>5, ReachStops
  <2>7. Called(after) = [what |-> "stop", error |-> 0]
    BY <1>1, <1>3, <2>1, <2>6 DEF Called, Surest
  <2>8. Called(scene)' = Called(after)
    BY <1>1, <1>9 DEF Called
  <2> QED BY <1>6, <2>7, <2>8
<1> QED BY <1>6, <1>7, <1>8, <1>9

\* What is not obeyed yet is not older than the executor has kept the timer
\* waiting after the list has come.
LEMMA NotObeyed ==
  ASSUME PersonInv, request # Called(scene)
  PROVE  steady <= Capturing + InferTime + ListLatency + due
<1>1. steady \in Nat /\ due \in Nat /\ LoopType
  BY Bounds DEF PersonInv, LoopType, TypeOK
<1>2. CASE NotTaken
  BY <1>1, <1>2, Bounds, Frame DEF NotTaken
<1>3. CASE InNetwork
  BY <1>1, <1>3, Bounds, Frame DEF InNetwork
<1>4. ASSUME NEW i \in 1 .. Len(detections), UnderWay(i)
      PROVE  steady <= Capturing + InferTime + ListLatency + due
  <2>1. detections[i].age \in 0 .. ListLatency
    BY <1>1, Lists
  <2> QED BY <1>1, <1>4, <2>1, Bounds DEF UnderWay
<1>5. CASE Heard
  BY <1>1, <1>5, Bounds DEF Heard
<1> QED BY <1>2, <1>3, <1>4, <1>5 DEF PersonInv, Stage

\* A period passes: everything under way gets older by it.
LEMMA PassKeeps ==
  ASSUME PersonInv, Pass PROVE PersonInv'
<1>1. /\ UNCHANGED <<current_state, state_received, latest_detections, request>>
      /\ UNCHANGED <<opened, model, streaming>>
      /\ opened => looked \/ frame # Vision!Idle
      /\ frame.age < InferTime
      /\ \A i \in DOMAIN detections : detections[i].age < ListLatency
      /\ due < MaxDelay /\ due' = due + 1
      /\ scene' = scene \/ scene' = [i \in DOMAIN scene |-> Closer(scene[i])]
      /\ frame' = IF frame = Vision!Idle THEN frame ELSE [frame EXCEPT !.age = @ + 1]
      /\ detections' = [i \in DOMAIN detections |-> [detections[i] EXCEPT !.age = @ + 1]]
      /\ looked' = FALSE
  BY DEF Pass, Advance
<1>2. LoopType /\ TypeOK /\ steady \in 0 .. Patience /\ near \in 0 .. Patience /\ due \in Nat
  BY Bounds DEF PersonInv, LoopType, TypeOK
<1>3. TypeOK'
  BY <1>1, <1>2, Bounds DEF TypeOK
<1>4. scene' \in Viewed
  BY <1>1, <1>2, WalkIn DEF LoopType
<1>5. /\ steady' \in 0 .. Patience /\ steady' <= steady + 1
      /\ steady' > 0 => Watched /\ Called(scene') = Called(scene)
  BY <1>2, Bounds DEF Pass, UpTo
<1>6. near' \in 0 .. Patience
  BY <1>2, Bounds DEF Pass, UpTo
\* The lists, a period older.
<1>7. PICK n \in Nat : /\ n = Len(detections) /\ DOMAIN detections = 1 .. n
                       /\ \A i \in 1 .. n : detections[i] \in Sent
  BY <1>2, Lists
<1>8. \A i \in 1 .. n :
        /\ [detections[i] EXCEPT !.age = @ + 1] \in Sent
        /\ [detections[i] EXCEPT !.age = @ + 1].age = detections[i].age + 1
        /\ [detections[i] EXCEPT !.age = @ + 1].list = detections[i].list
  <2> TAKE i \in 1 .. n
  <2>1. PICK r \in Sent : r = detections[i] /\ r.age < ListLatency
    BY <1>1, <1>7
  <2>2. r.age \in 0 .. ListLatency /\ r.age + 1 \in 0 .. ListLatency
    BY <2>1, Bounds DEF Sent
  <2>3. [r EXCEPT !.age = @ + 1] = [list |-> r.list, age |-> r.age + 1]
    BY DEF Sent
  <2>4. [list |-> r.list, age |-> r.age + 1] \in Sent
    BY <2>2 DEF Sent
  <2> QED BY <2>1, <2>3, <2>4
<1>9. /\ detections' \in Seq(Sent) /\ Len(detections') = n
      /\ \A i \in 1 .. n :
           /\ detections'[i].age = detections[i].age + 1
           /\ detections'[i].list = detections[i].list
  <2>1. detections' = [i \in 1 .. n |-> [detections[i] EXCEPT !.age = @ + 1]]
    BY <1>1, <1>7
  <2>2. \A i \in 1 .. n : detections'[i] = [detections[i] EXCEPT !.age = @ + 1]
    BY <2>1
  <2>3. detections' \in Seq(Sent) /\ Len(detections') = n
    BY <1>8, <2>1
  <2> QED BY <1>8, <2>2, <2>3
\* The frame, too.
<1>10. frame # Vision!Idle =>
         /\ frame' \in [scene : Viewed, age : 0 .. InferTime] /\ frame' # Vision!Idle
         /\ frame'.age = frame.age + 1 /\ frame'.scene = frame.scene
  <2> SUFFICES ASSUME frame # Vision!Idle
               PROVE  /\ frame' \in [scene : Viewed, age : 0 .. InferTime]
                      /\ frame' # Vision!Idle
                      /\ frame'.age = frame.age + 1 /\ frame'.scene = frame.scene
    OBVIOUS
  <2>1. /\ frame \in [scene : Viewed, age : 0 .. InferTime]
        /\ frame' = [frame EXCEPT !.age = @ + 1] /\ frame.age < InferTime
    BY <1>1, <1>2 DEF LoopType
  <2>2. /\ frame' \in [scene : Viewed, age : 0 .. InferTime]
        /\ frame'.age = frame.age + 1 /\ frame'.scene = frame.scene
    BY <2>1, Bounds
  <2>3. frame'.age # -1
    BY <2>1, <2>2
  <2> QED BY <2>2, <2>3 DEF Vision!Idle
<1>11. LoopType'
  <2>1. frame' \in [scene : Viewed, age : 0 .. InferTime] \cup {Vision!Idle}
    BY <1>1, <1>10
  <2>2. /\ model' \in {"absent", "unnamed", "named"} /\ ~ looked'
        /\ steady' > 0 => Watched'
    BY <1>1, <1>2, <1>5 DEF LoopType, Watched
  <2> QED BY <1>4, <1>5, <1>6, <1>9, <2>1, <2>2 DEF LoopType
<1>12. Stage'
  <2>1. CASE steady' = 0
    <3>1. NotTaken'
      BY <1>1, <1>2, <1>10, <2>1, Bounds, Frame DEF NotTaken
    <3> QED BY <3>1 DEF Stage
  <2>2. CASE steady' > 0
    <3>1. Watched /\ Called(scene)' = Called(scene) /\ Called(frame.scene)' = Called(frame'.scene)
      BY <1>1, <1>5, <2>2 DEF Called
    <3>2. TrueFrame => TrueFrame'
      <4>1. CASE frame = Vision!Idle
        BY <1>1, <4>1 DEF TrueFrame
      <4>2. CASE frame # Vision!Idle
        BY <1>10, <3>1, <4>2 DEF TrueFrame
      <4> QED BY <4>1, <4>2
    <3>3. ASSUME NEW i \in 1 .. n, TrueFrom(i)
          PROVE  (\A j \in i .. Len(detections) : TrueList(detections[j].list))'
      BY <1>7, <1>9, <3>1, <3>3 DEF TrueFrom, TrueList
    <3>4. CASE NotTaken
      <4>1. NotTaken'
        BY <1>1, <1>2, <1>5, <1>10, <3>1, <3>4, Bounds, Frame DEF NotTaken, Watched
      <4> QED BY <4>1 DEF Stage
    <3>5. CASE InNetwork
      <4>1. InNetwork'
        BY <1>2, <1>5, <1>10, <3>2, <3>5, Bounds, Frame DEF InNetwork
      <4> QED BY <4>1 DEF Stage
    <3>6. ASSUME NEW i \in 1 .. Len(detections), UnderWay(i) PROVE Stage'
      <4>1. (\A j \in i .. Len(detections) : TrueList(detections[j].list))'
        BY <1>7, <3>3, <3>6 DEF UnderWay
      <4>2. steady' <= Capturing + InferTime + detections'[i].age
        <5>1. detections[i].age \in Nat /\ detections'[i].age = detections[i].age + 1
          BY <1>2, <1>7, <1>9, Lists
        <5> QED BY <1>2, <1>5, <3>6, <5>1, Bounds DEF UnderWay
      <4>3. UnderWay(i)' /\ i \in 1 .. Len(detections')
        BY <1>7, <1>9, <3>2, <3>6, <4>1, <4>2 DEF UnderWay, TrueFrom
      <4> QED BY <4>3 DEF Stage
    <3>7. CASE Heard
      <4>1. (\A j \in 1 .. Len(detections) : TrueList(detections[j].list))'
        BY <1>7, <1>9, <3>1, <3>7 DEF Heard, TrueFrom, TrueList
      <4>2. \/ steady' <= Capturing + InferTime + ListLatency + due'
            \/ request' = Called(scene)'
        BY <1>1, <1>2, <1>5, <3>1, <3>7, Bounds DEF Heard
      <4>3. Heard'
        BY <1>1, <3>1, <3>2, <3>7, <4>1, <4>2 DEF Heard, TrueFrom, TrueList
      <4> QED BY <4>3 DEF Stage
    <3> QED BY <3>4, <3>5, <3>6, <3>7 DEF PersonInv, Stage
  <2> QED BY <1>5, <2>1, <2>2
\* Walked towards somebody within reach: not obeyed yet.
<1>13. ASSUME BoxesTell PROVE near' <= steady' /\ near' <= Reaction
  <2>1. near <= steady /\ near <= Reaction
    BY <1>13 DEF PersonInv, NearInv
  <2>2. CASE ~ (Watched /\ WithinReach)
    <3>1. near' = 0
      BY <2>2 DEF Pass
    <3> QED BY <1>5, <3>1, Bounds
  <2>3. CASE Watched /\ WithinReach
    <3>1. /\ Called(scene) = [what |-> "stop", error |-> 0]
          /\ Called(scene)' = [what |-> "stop", error |-> 0]
      BY <1>13, <2>3, ReachCalls
    <3>2. Called(scene') = Called(scene)
      BY <1>1, <3>1 DEF Called
    <3>3. steady' = UpTo(Patience, steady + 1)
      BY <2>3, <3>2 DEF Pass
    <3>4. CASE request.what = "approach"
      <4>1. near' = UpTo(Patience, near + 1)
        BY <2>3, <3>4 DEF Pass
      <4>2. request # Called(scene)
        BY <3>1, <3>4
      <4>3. steady < Reaction
        BY <1>1, <1>2, <4>2, NotObeyed, Bounds
      <4> QED BY <1>2, <2>1, <3>3, <4>1, <4>3, Bounds DEF UpTo
    <3>5. CASE request.what # "approach"
      <4>1. near' = near
        BY <2>3, <3>5 DEF Pass
      <4> QED BY <1>2, <2>1, <3>3, <4>1, Bounds DEF UpTo
    <3> QED BY <3>4, <3>5
  <2> QED BY <2>2, <2>3
<1>14. NearInv'
  BY <1>13 DEF NearInv, BoxesTell
<1> QED BY <1>3, <1>11, <1>12, <1>14 DEF PersonInv

LEMMA LoopKeepsPerson == PersonInv /\ [LoopNext]_loopVars => PersonInv'
<1> SUFFICES ASSUME PersonInv, [LoopNext]_loopVars PROVE PersonInv'
  OBVIOUS
<1>1. CASE UNCHANGED loopVars
  <2>1. Called(scene)' = Called(scene) /\ Called(frame.scene)' = Called(frame.scene)
    BY <1>1 DEF loopVars, vision, world, Called
  <2> QED BY <1>1, <2>1
    DEF loopVars, follower, vision, world, history, PersonInv, TypeOK, LoopType, Watched,
        Stage, NotTaken, InNetwork, UnderWay, Heard, TrueFrame, TrueFrom, TrueList, NearInv
<1> QED BY <1>1, ChangeKeeps, LookKeeps, AnswerKeeps, HearKeeps, OdometryKeeps,
           TickKeeps, PassKeeps DEF LoopNext

LEMMA PersonKept == LoopSpec => []PersonInv
BY LoopStart, LoopKeepsPerson, PTL DEF LoopSpec

-----------------------------------------------------------------------------
\* The follower's variables keep their types, and its request is that of its
\* state, whatever is in the lists it gets.
THEOREM FollowerTypeCorrect == LoopSpec => []TypeOK
<1>1. PersonInv => TypeOK
  BY DEF PersonInv
<1> QED BY <1>1, PersonKept, PTL

\* For every network, topic and executor that keep their bounds, the robot does
\* what the scene calls for once it has called for it that long.
THEOREM FollowerAttends == LoopSpec => []Attentive
<1>1. PersonInv => Attentive
  <2> SUFFICES ASSUME PersonInv, steady > Reaction, request # Called(scene) PROVE FALSE
    BY DEF Attentive
  <2>1. steady <= Capturing + InferTime + ListLatency + due
    BY NotObeyed
  <2>2. steady \in Nat /\ due \in 0 .. MaxDelay
    BY Bounds DEF PersonInv, LoopType, TypeOK
  <2> QED BY <2>1, <2>2, Bounds
<1> QED BY <1>1, PersonKept, PTL

\* It does not walk on towards a person within its stop distance for longer than
\* its reaction takes, whatever the stride and however tall the boxes, as long
\* as they are tall enough to tell that distance.
THEOREM FollowerStops == LoopSpec => []KeepsDistance
<1>1. PersonInv => KeepsDistance
  BY DEF PersonInv, NearInv, KeepsDistance
<1> QED BY <1>1, PersonKept, PTL

===============================================================================
