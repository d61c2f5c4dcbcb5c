# Models of hailo_robot_control

TLA+ models of the ROS 2 package `src/src/hailo_robot_control`: nodes that
drive a Unitree Go2 over its sport API, nodes that look at what is ahead of it,
and the client classes they share. The models are checked with TLC on small
instances; what matters most is proved with TLAPS for all values of the
constants. `PROJECT.json` has the line-by-line map from definitions to source.

## 1. The system

Every node is a process of its own. Nodes share nothing but topics; inside a
node one executor thread runs all callbacks, so that a callback is atomic with
respect to the others and their order is open. The exception is
`b2_base_client.hpp`, which brings its own multi-threaded executor. The header
library `include/nlohmann` comes with the package; its clients use it to write
the parameters of a request and to read those of a response.

| component | state it keeps | operations | talks to |
|---|---|---|---|
| `feedback_based` (feedback_based.cpp) | mission state, start time, latest odometry, latest obstacle verdict, start yaw and two start positions with a flag each | `timer_callback` every 100 ms, `state_callback`, `obstacle_callback` | publishes `/api/sport/request`; subscribes `lf/sportmodestate`, `/obstacle_detected` |
| `state_machine` (state_machine_test.cpp) | mission state, start time | `timer_callback` | publishes `/api/sport/request` |
| `practice` (practice.cpp) | start time, `stopped_` | `timer_callback` | publishes `/api/sport/request` |
| `go2_stream_viewer` | the video capture | `timer_callback` every 30 ms | reads the camera, publishes `/obstacle_detected` |
| `b2_base_client.hpp` | expected identity (atomic), received response and ready flag (mutex), a mutex for the whole call, a condition variable, an executor and its thread | `Call`, `OnResponseReceived`, constructor, destructor | request and response topics of a service |
| `ros2_sport_client` | a publisher | one function per request, and a blocking `Call` | `/api/sport/request`, `/api/sport/response` |
| `ros2_robot_state_client.h` | a publisher | blocking `Call` | `/api/robot_state/*` |
| `base_client.hpp` | a publisher | `Call` with 5 s, a subscription per call | a service |
| `go2_ai_controller` | latest odometry, latest detections | `timer_callback` every 100 ms, two subscriptions | publishes `/api/sport/request`; subscribes `/vision_detections` |
| `go2_vision_node`, `YOLOInferencer` | capture, mask, network | `timer_callback` every 50 ms | publishes `/vision_detections` |
| `hailo_detection.cpp` / `.py` | camera, device, output buffer | inference loop | publishes `hailo_detections` |
| `hailo_subscriber` | nothing | logs a message | subscribes `hailo_detections` |
| `camera_test` | parser, decoder, scaling context | `video_callback` | subscribes `/frontvideostream` |
| `nlohmann/` (JSON library) | a tree of values per object; none of its own | parse, dump, five binary formats, access and change of values, pointers, patches | called by the clients |

What is hard here, and hard to test: the order in which odometry, obstacle
verdicts and ticks meet in one executor; sensors that fall silent while a Move
is in force; timeouts read off a clock that NTP may set; anchors (a start yaw,
a start position) that must belong to the leg they measure; reports that are
older than the requests under way; the two locks and the condition variable of
`Call` against handlers that run in other threads; promises on the stack of a
call that has gone; an output buffer shared by jobs that outlast their wait; a
stream cut at any byte. The JSON library is sequential; what is hard in it is
the size of its input space: numbers at the bounds of every width, the states of
UTF-8 and of number automata, containers of known and of open length, patches
that move what later steps name. `PROJECT.json` lists them one by one under
`hazards`, each at its line.

What makes each part correct: a mission drives its route leg by leg, stops
between any two motions, evades an obstacle, ends, and leaves the robot at
rest; no Move outlasts its time whatever the sensors do; a viewer's verdict
reaches the mission in bounded time; a `Call` returns, and returns the response
to its own request; inference results carry the stamp of their frame; every
access unit that got through is shown; a JSON text is accepted if and only if the
grammar has it, and read as what it means; what is written in any format is read
as the same value; `patch(diff)` leads from the one value to the other.

## 2. Modules

| module | models | checked by | proved in |
|---|---|---|---|
| `WallTimer` | the 100 ms wall timer and the clock of the timeouts, shared by all missions | with them | `WallTimerProofs` (lemmas) |
| `DrivePlan` | abstract: what every mission promises | as `FollowsPlan` of each mission | |
| `FeedbackMission` | `feedback_based` | `MCFeedbackMission` | `FeedbackMissionProofs` |
| `OpenLoopMission`, `ForwardTest` | `state_machine`, `practice` | `MCTimedMissions` | `TimedMissionsProofs` |
| `ClosedLoop` | `FeedbackMission` with the robot and both topics | `MCClosedLoop` | `FeedbackMissionProofs` |
| `HailoPublisher` | `hailo_detection.cpp` and `.py` | `MCObstaclePath` | `ObstaclePathProofs` |
| `CameraTest` | `camera_test` | `MCObstaclePath` | `ObstaclePathProofs` |
| `StreamViewer`, `ObstaclePath` | the viewer, and `FeedbackMission` with it, the camera and the topic | `MCObstaclePath` | `ObstaclePathProofs` |
| `PersonFollower`, `VisionNode`, `PersonLoop` | `go2_ai_controller`, `go2_vision_node` with `YOLOInferencer`, and the loop of both with camera, scene and robot | `MCPersonLoop` | `PersonLoopProofs` |
| `B2BaseClient` | `Call` and `OnResponseReceived` of `b2_base_client.hpp` | `MCB2BaseClient` | `B2BaseClientProofs` |
| `B2Lifecycle` | its constructor, `WaitForConnection`, its destructor | `MCB2BaseClient` | |
| `CallBySubscription` | `SportClient`, `RobotStateClient`, `base_client.hpp` | `MCB2BaseClient` | `CallBySubscriptionProofs`, and `B2BaseClientProofs` for the clients of the run |
| `JsonValue`, `JsonOps` | the values of the JSON library; their operations and order | `MCJson` | |
| `OrderedMap` | `ordered_map` beside a `std::map` under the same calls | `MCJson` | `JsonProofs` |
| `JsonUnicode` | how lexer, serializer and wide input adapters treat characters beyond ASCII | with `MCJson` | `JsonProofs` |
| `JsonLexer`, `JsonParser` | input adapters, lexer, parser, and the three handlers of its events | `MCJson` | |
| `JsonSerializer` | `dump`, and the digits of a double (Grisu2) | `MCJson` | |
| `JsonBytes`, `JsonPacked`, `JsonUbjson`, `JsonBson` | readers and writers of the binary formats (`JsonPacked` CBOR and MessagePack, `JsonUbjson` also BJData) | `MCJson` | |
| `Double`, `JsonGrammar` | reference: arithmetic of any length and IEEE 754; the grammar of RFC 8259 | with them | |
| `JsonDocument` | pointers, `flatten`, `patch`, `diff`, `merge_patch`, and a document that changes | `MCJson` | |
| `JsonText`, `JsonFormats` | texts, and values in every format, with their properties | `MCJson` | |

Components that do not interact share a run where their questions are of one
kind: the variable `part` of `MCB2BaseClient`, `MCObstaclePath`, `MCTimedMissions`
and `MCJson` says which of them a behaviour is about, and the variables of the others stay as they
are.

### Time

A tick comes from a wall timer, which runs on the steady clock; the timeouts
compare `this->now()`, the system time, with the start of the state. `WallTimer`
therefore has two clocks. `elapsed` is what the code computes. `driven`, a
history variable, is the steady time since the state began, and `slew` how far
the system clock was set back meanwhile. Time is counted in periods of the
timer. `PeriodPasses` advances both clocks, `ClockSet` only the first;
`due` counts the periods since the handler last ran, which the executor may let
grow to `MaxDelay`. Beyond `Horizon` times are not told apart; the assumptions
require every timeout to lie far enough below it.

### FeedbackMission

One action per handler. `TimerCallback` is the whole of `timer_callback`: either
the early return without odometry (`AwaitFeedback`) or `MissionTick`, one of
whose disjuncts is taken for each branch of the else-if chain (`LeaveForward1`
to `LeaveAvoidTurn`, or `Remain`), each of which includes what the rest of the
handler does in the new state (`Act`): latch a start, publish the request,
cancel the timer in DONE. The two branches that leave FORWARD1 (distance,
timeout) differ only in their log and are one action; likewise for the other
legs. The guard `Blocked` comes before arrival, as in the chain.
`StateCallback` and `ObstacleCallback` are the subscriptions, which deliver
anything at any time in this module. A position has integer coordinates and a
yaw an integer unit (30 degrees in the instances), which keeps the comparisons
of the code; velocities are reduced to what `is_robot_stopped` makes of them.
`request` is what was last published; the speeds of a Move are part of its
name, "forward", "turn" or "avoid_turn".

### OpenLoopMission and ForwardTest

The same with time alone. `sent` in `OpenLoopMission` is the sequence a tick
publishes, because DONE publishes two, StopMove and Damp.

### ClosedLoop

Puts around the node what its properties leave open: the requests travel in
order and arrive within `RequestLatency` periods, the robot obeys them, may get
stuck and free itself while a Move is in force, comes to rest some time after a
StopMove, and reports once a period whether it moves; reports arrive within
`ReportLatency`. Robot and transport are external to the repository; the transport
keeps the order and loses nothing. The system clock is set here as in
`FeedbackMission` (`Set`), while the latencies take steady time. `Spare` is what the
dwell has over the two latencies, the period between two reports and that of the tick;
`leapt`, a history variable, says that a stop state has ended with the clock ahead of
the steady time by more than that (`CutShort`).

### StreamViewer and ObstaclePath

A frame is the mean brightness of its middle 200 x 200 pixels, which is all the
code uses. `View` runs at least once a period of the mission timer (the viewer's
period is 30 ms), `Hear` delivers verdicts in order and in bounded time. `seen`
counts how long an obstacle has been in full view during the second leg.

### PersonFollower, VisionNode and PersonLoop

The follower decides every tick anew by the list of detections it has
(`Decide`): `People` are the places in the list that satisfy the condition of the
loop, `Target` the detection at the first of them, where the loop breaks.
The vision node is cut in two: `Capture` reads a frame, `Publish` sends what was
found in it up to `InferTime` periods later, because the scene, the robot and
the follower go on while the network runs. Its model may be missing (the
constructor goes on without) or without class names (then nothing is a
"person"). A scene is a list of objects by falling score (`Ranked`), the order
NMSBoxes leaves them in, so that those with too low a score come last; `Rows` and
`BoxHeight` are the external part, a pinhole camera with whole pixels and a network
whose boxes are at most `TallestBox` rows high, and `Distance` what the code makes
of them, in whole mm. In
`PersonLoop` the robot comes `Stride` nearer in each period in which it has been
told to approach. `steady` counts how long the same request has been called for
by the scene, `near` how long the robot has been walking towards a person nearer
than the stop distance by at least a row of the image (`WithinReach`): boxes have
whole rows, and a person at 999 mm fills as many as one at a metre, which is not
below it.

### B2BaseClient

`Call` is cut into steps where another thread may come between: `LockCall`, the
two halves of `ResetState` (the atomic, and what `response_mutex_` protects),
`Stamp`, `Publish`, `Wait`, `Wake`, `TimeOut`. A section under `response_mutex_`
is a single step. `OnResponseReceived` is `Compare`, `Store` (or `StoreEmpty`)
and `NotifyOne`. The service answers once, late or never, with JSON, garbage, an
error status or nothing; other clients of the topic may draw responses with the
default identity 0.

### B2Lifecycle

The constructor starts the thread that spins the executor and sleeps, 50 ms at a
time, until the service appears or ten attempts are over; the destructor cancels
and joins. rclcpp's executor is external: `cancel` takes the flag back that `spin`
sets, so a `cancel` that comes first is lost. `Sleep` assumes that 50 ms are enough for
the new thread to reach `spin`, which the code does not ensure.

### CallBySubscription

`Call` of the other three clients: `Subscribe`, `PublishRequest`, `GetResponse`,
`Return`, and `TimeOut` where there is one. The constants say which client it is:
`ById` (identities or `api_id`), `Timed`, and which callers run in a callback of
the only executor thread. The executor takes a message (`Take`) and then calls the
callback (`RunCallback`): `Call` may be over in between, and the promise gone.
`SetReportFreq` is every request nobody waits for.

### HailoPublisher and CameraTest

`HailoPublisher` is the inference loop in both languages: in C++ one output buffer
and a wait whose result is ignored, in Python a buffer per frame and an exception;
`python` says which it is and is chosen at the start, as is the stream (`sizes`) of
`CameraTest`, which is `video_callback`: a message is cut from the stream at any byte, may
be lost, may be damaged; parser and decoder are external.

### The JSON library

A byte is a number, a string or a text a sequence of bytes, a 64-bit integer a
sign and a magnitude of at most eight bytes, a double its eight bytes; TLC's own
integers have 32 bits. `Double` has the arithmetic on them, and what the C library
does (`strtod`, conversions between the precisions of IEEE 754, rounding to even).

*Reading.* `JsonLexer!Scan` returns the token after so many bytes and where it
ends, or an error and the byte it was noticed at. Numbers go through the automaton
of `scan_number`, strings through the ranges of `next_byte_in_range`, UTF-16 and
UTF-32 through their adapters. `JsonParser` makes of the tokens the sequence of
events that `sax_parse_internal` reports, with its stack of open containers;
`DomStep`, `CallbackStep` and `Accept` are the handlers. A pointer of a handler into
the value it builds is a path from the root. A callback is the set of what it
refuses.

*Writing.* `JsonSerializer` has the decoder of UTF-8 (the states of its table),
the three ways to treat what is not UTF-8, the escapes, and the layout with and
without indentation. Its first part is Grisu2 with its 64-bit products; the table of
cached powers is modelled by what its entries are. The automaton, the escapes, the
lexer's counterparts of both, and the adapters for wide strings are in `JsonUnicode`,
which does not recurse, so that it can be proved about.

*Binary formats.* A reader returns what it read and how far, or fails: the
handlers of both parsers are the same, so the events are left out. Lengths,
optimized containers, packed arrays, chunks of open length, tags and subtypes are
modelled for every width.

*Values.* `JsonOps` has the operations that read or change a value, the order, the
iterative `destroy`; an operation returns
the set of its results, the empty set where the code throws. `JsonDocument` does the
same for pointers and patches; `PatchInplace` keeps what the steps before a failing
one have done, `Patch` works on a copy. `OrderedMap` is `ordered_map` as a vector of
pairs, with a `std::map` beside it that undergoes the same calls; its constructors
from ranges and lists are left out, `insert` of a range is there.

## 3. What the runs check

| run | question | bounds |
|---|---|---|
| `feedback_drive` | every interleaving of ticks, odometry and obstacle messages: `LegsAnchored`, `AnchorOfItsLeg`, `ObstacleFirst`, refinement `FollowsPlan`; liveness `MovingStatesEnd`, `MissionCompletes` | 2 places, 4 yaws on both sides of the cut at pi, timeouts of 2 and 3 periods, delay up to 2 |
| `feedback_clock` | `MotionBounded` with the timeouts of the code (60, 60, 30, 5 periods) while the clock is set | backward steps of 1 s up to 2 s per leg, forward steps of 1 s and 2 s, a robot that hangs |
| `timed_missions` | of `state_machine`: `LegsInFull`, `MotionBounded`, `FollowsPlan`, `MissionEnds` with the times of the code | backward steps of 1 s and 2 s, delay up to 3 periods |
| `timed_missions`, the other part | of `practice`: `PracticeBounded`, `PracticeFollowsPlan`, `PracticeStops` with the three seconds of the code | steps of 1 s either way and 4 s ahead |
| `closed_loop` | `MotionsFromRest`: the robot takes up a new motion only at rest; `EndsAtRest`; `LoopTypeOK` | dwell 5 periods as in the code, latencies 1 and 1, so that 1 is spare; clock steps of 1 period back and 2 ahead, delay 1, timeouts of 2 periods |
| `obstacle_path` | `ReactsInTime`: an obstacle in full view ends the leg within 1 + latency + delay periods | latency 1, delay 1, brightness on and below the threshold, clock steps of 1 period back and 2 ahead |
| `obstacle_path`, other parts | `PublishesOwnResults`: a message holds the results of the frame it is stamped with; `ShowsEveryUnit`; `BreaksOnNewSize` | 4 frames, 2 jobs at a time, in both languages; 3 and 4 units of 2 bytes, of one size, of two, and an unusable one |
| `person_loop` | `Attentive`: the request is what the scene calls for within the reaction time; `KeepsDistance`; `TypeOK` | the stride and distances of the code, network, topic and delay of 1 period each, boxes of up to 1000 rows |
| `b2_client` | `ReturnsOwnResponse`, `NoLostWakeup`, `HonestTimeout`, `EveryCallReturns` | 2 callers, 2 handlers, 2 calls, 4 kinds of response |
| `b2_client`, other parts | `SeparateCallsUnmixed`, `CallbackCallStarves`, `LoneCallReturns` for the clients that subscribe per call; `DestructorReturns` | a thread and a callback, 2 kinds of request and 3 requests (2 with identities), ten attempts |
| `json` | `ParsesByGrammar`, `CallbackFilters`, `TextRoundTrip`, `BinaryRoundTrip`, `FlattenRestores`, `OrderIsTotal`, `PatchOfDiff`, `OrderedTwin` | see below |
| `feedback_half_turn` | violation: `TurnsHalfCircle` | as `feedback_drive` |
| `feedback_late_odometry` | violation: `Forward1HasStart` | as `feedback_drive` |
| `person_at_one_metre` | violation: `StopsAtOneMetre` | as `person_loop`, boxes of up to 720 rows |

Why the bounds are enough. The mission has eight states and one pass through
them: every state, every branch of the chain and every order of messages around
a tick occurs with timeouts of two or three periods; what depends on the length
of the timeouts has runs with those of the code. `closed_loop` uses the dwell of
the code. `DwellAssumption` (dwell >= both latencies + 2 periods) and `Spare` are
tight: with a dwell of a period less than that, or with the exception of
`MotionsFromRest` a period narrower, TLC finds a robot that is told to turn while it
still drives. The clock steps of the run are one ahead for which the dwell has no
room, and one back, with which it has. `Reaction` in
`ObstaclePath` and in `PersonLoop` is tight as well: with one period less TLC
finds a counterexample. In `b2_client` two calls
are the least in which a handler can be overtaken (see below), two handlers the
least in which an empty response undoes a stored one.

In the other parts of `b2_client` two requests are the least that can be mixed up
and three the least in which a response is dropped while another call waits. Two
jobs are the least in which one writes to the buffer another is published from.

`json` has texts of eleven kinds, each built from the fragments that matter for one
part of the lexer or the parser (structure, members, numbers, integers around
2^63 and 2^64, doubles on both sides of the largest and of the least one, UTF-8,
escapes and surrogates, comments, literals and the byte order mark, UTF-16, UTF-32; byte
0 among six of them), up to 5 to 23 units long; a text that is refused before its
end is extended no further beyond a few units, because nothing can make it a
text again. Integers and subtypes stand at both sides of every width of every format;
strings and containers at both sides of the short forms of their lengths, strings up to
256 bytes long, bytes of the lengths that have a code of their own in MessagePack and one
beside each. Longer ones, with lengths of two bytes and more, are not written, but for a
string of 256 bytes. Strings are UTF-8 or broken in each way the decoder tells apart, doubles are ordinary ones,
zeros, an infinity and NaN, packed arrays have two and three dimensions. Documents
have up to three elements or members and four values in all, and take any
operation, so that a patch meets every shape before and after. Callbacks refuse one
kind of event at one depth, or two.

`CHECK_DEADLOCK FALSE` is set for the two missions without subscriptions: once
the timer is cancelled, nothing happens any more; and for the other three runs with
parts, some of which come to their end: a client that is destroyed, a loop that has
read its frames, a stream that is over, a text of full length, a value that is
only looked at.

### Fairness

`FairSpec` of the missions: the executor keeps serving the timer
(`WF(TimerCallback)`) and time passes (`WF(Advance)`); nothing is assumed of
odometry or of the camera. `LoopFairSpec` adds that the transport delivers and
the robot obeys, comes to rest when told to and goes on reporting. `FairSpec` of
`B2BaseClient`: a thread that can run does, and five seconds do pass; no order of
`call_mutex_` and no answer of the service is assumed. With finitely many calls
nobody can be overtaken at the mutex for ever, and nothing is claimed beyond. A
`Call` without a time limit has to assume that the service answers; one with a limit
assumes only that time passes. `B2Lifecycle` assumes that both threads run, not
that the owner ever destroys the client or that the service appears.

### What the code does differently from its comments

* `feedback_based.cpp:120` says TURN_LEFT has turned 180 degrees or more; it ends
  at 2.6 rad, 149 degrees. `TurnsHalfCircle` is violated.
* `feedback_based.cpp:215` says the start position is initialized on entering
  FORWARD1. If the first odometry comes after the 6 s timeout, the node leaves
  FORWARD1 on the tick that would have recorded it, and never does.
  `Forward1HasStart` is violated.

* `go2_ai_controller.cpp:87` stops for people at 100 cm. The distance is 850 m px
  over the height of the box, so that this takes a box of more than 850 rows, and
  the frame has 720 (`go2_vision_node.cpp:28`): if boxes end where the frame ends,
  a person never seems nearer than 1.18 m and the robot walks on.
  `StopsAtOneMetre` is violated. `KeepsDistance` is the same with the premise that
  boxes may be tall enough, and holds for a network that extrapolates beyond the
  frame: the rest of the loop is in order.

### What the exceptions in the properties say

`ReturnsOwnResponse` and `HonestTimeout` name one exception each, and both are
reachable: a handler that compared identities in time may be held up at
`response_mutex_` until a later `Call` has reset the state; it then stores the
response to the earlier call, or, if it is empty, takes back `response_ready_`
after the right answer was stored. TLC finds both if the exception is removed.
The identity is compared outside the lock (`b2_base_client.hpp:138-143`).

`SeparateCallsUnmixed` has the premise that no two requests under way look alike:
otherwise one call gets the response of the other, and a second response sets a
promise that is set. Even so a response taken from the queue just before a timeout
reaches for a promise that is gone (`ros2_sport_client.h` has no timeout,
`base_client.hpp` has). `LoneCallReturns` has the premise that nothing else is under
way, for a queue of one message drops the older of two responses.
`DestructorReturns` has the premise that the executor was spinning: a client that is
destroyed before its thread has reached `spin` hangs in `join`.

`MotionsFromRest` excepts a robot whose stop state was cut short by the system clock
(`leapt`). The dwell is measured with `this->now()` (`feedback_based.cpp:60,108-109`):
once the clock is set ahead by more than the dwell has to spare, a report of before the
stop may start a Move on a robot that still drives, and TLC finds that if the exception
is removed. A clock set back, or ahead by no more, does no harm.

`ParsesByGrammar` takes a text up to the first byte 0 outside of a comment, which the
lexer reads as the end of the input, on purpose (`lexer.hpp:1584-1588`): `1` is read
from a `1`, a byte 0 and anything after it. A number beyond the largest double is
refused (`parser.hpp:268`), although the grammar has it; one below the least is zero.

`CallbackFilters` says what the handler leaves behind: a refused scalar or array
that is a member of an object stays there, discarded, until an object that ends
inside the same object takes the first such member with it
(`json_sax.hpp:448-482`); everything else is as the callback wanted. `FlattenRestores`
names what `flatten` forgets: an empty container becomes null, and an object whose
first key is "0" comes back as an array or not at all. `OrderIsTotal` is about values
without NaN, without an unsigned number beyond 2^63 beside a signed one, and without
an integer beyond 2^53 beside a double. The code converts the first of each pair to
the type of the second (`json.hpp:3641-3648`): the one becomes negative, the other is
rounded to a double that equals its neighbour, and then `<` has cycles, among numbers
in the first case and among arrays of them in the second. Two values that differ in
nothing but the subtypes of their binaries are neither less nor equal: `==` compares
subtypes (`byte_container_with_subtype.hpp:57-61`), `<` the bytes alone
(`json.hpp:3617-3618`). `BinaryRoundTrip` is up to the types a format has: signed and unsigned
integers are not told apart, UBJSON reads bytes as an array of numbers, BSON gives
bytes a subtype. A subtype has 64 bits, of which MessagePack and BSON write the lowest
eight (`binary_writer.hpp:684`, `:1155`): a value with subtype 300 comes back with 44 in
them. CBOR keeps all. No table of the run has the dimensions [1, n], which BJData reads
back as a plain array.

`MissionCompletes` has the premise that the robot ends up standing still: the
stop states have no timeout. `EndsAtRest` has no such premise: in the closed loop
a StopMove brings the robot to rest.

## 4. What is proved

All proofs are for arbitrary constants under the named assumptions of the
modules: finite bounds and sets of readings are not needed.

* `WallTimerProofs`: how each step of the timer and the clock preserves
  `TimerOK`, `Timely` (steady time never exceeds the clock's time by more than
  `slew`) and `Within(limit)` (the last tick saw less than `limit`, and at most
  `due` periods have passed since). From `ClockAssumption`.
* `FeedbackMissionProofs`. `TypeCorrect`: `TypeOK` is inductive.
  `LegsAreAnchored`: `SafeInv` = `TypeOK`, `RequestOfState` (the last request is
  that of the state, and nothing is asked or left before odometry) and
  `LegsAnchored`; the latter is not inductive alone, because FORWARD1 is entered
  at construction with no start. `MotionIsBounded`: `MotionInv` = `SafeInv`,
  `Timely` and `Within` of the current timeout while a Move is in force;
  `MotionBounded` itself says nothing of the time between a tick and the next
  and is not inductive. `AnchorsBelong` and `ObstacleComesFirst` are action
  properties that follow from one step. `ImplementsPlan`: every step is a step of
  `DrivePlan` or a stutter, under the mapping of mission states to legs.
* `TimedMissionsProofs`: type correctness, the bound on a Move and `DrivePlan` for
  the other two missions, of each for its own specification with its own timer and
  clock; a behaviour of either part of `MCTimedMissions` is one of that node
  (`PartIsMission`, `PartIsPractice`). `LegsAreFull`: the open-loop legs are not cut short, from `NotAhead` (no
  clock reading is ahead of the steady time), under the assumption that the clock is
  never set ahead.
* `ObstaclePathProofs`. `ObstacleStops`: an obstacle that stays in view goes
  through three stages, each with a bound on how long it has been in view: not
  looked at yet; in the queue, with nothing but its like behind it; heard, until
  the next tick. The obstacle flag itself is not inductive, because older verdicts
  may still clear it.
* `TypeOK` of the missions is proved and is not an invariant of their runs.
* `B2BaseClientProofs`, for any number of threads, handlers and calls.
  `TypeCorrect` includes mutual exclusion of `Call`. `OwnResponse`: `CallInv` says
  that a response a handler holds or the client keeps is for the current
  identity, was overtaken, or a call is between the two halves of `ResetState`.
  `WakeupsArrive`: `NoLostWakeup` is inductive with the types, because only one
  caller can be asleep. `TimeoutsAreHonest`: `TokenInv` says that the response to a
  request is in one place, on its way, held by one handler or stored; so only an
  overtaken empty response can undo a stored one.
* `CallBySubscriptionProofs`. `CallbackStarves`: the executor is free when a call
  from a callback begins, and takes no message after that. `SeparateCalls`: a
  response gets to a subscriber at most once (`ArrivalInv`), and while nothing under
  way is alike, what passes the condition of a callback is what it waits for
  (`MixInv`). `LoneResponseArrives` is the safety part of `LoneCallReturns`: while no
  second request is under way, the response to the request of a caller that waits is
  at the service, in its queue, with its callback or in its promise (`LoneInv`: one
  call at a time, the service has at most its request, and none before it is
  published). With several requests this is false: the queue of one message drops
  one response for another. Assumed: callbacks are callers, and `"none"` is not one.
* `B2BaseClientProofs` has at its end the same two facts for the two clients
  `MCB2BaseClient` puts beside each other, `PartsStarve` and `PartsUnmixed`: each is
  an instance of `CallBySubscriptionProofs`, and a step of the composition is a step
  or a stutter of the client it is about. That the composition is still the client of
  `b2_base_client.hpp` is `PartIsClient`.
  `DestructorIsHeard` is the safety part of `DestructorReturns`: who has slept for the
  service, or had a response, has an executor past the start of `spin` (`LifeInv`),
  so that `cancel` is not lost and `join` waits for a thread that can only stop.
* The closed loop, in `FeedbackMissionProofs`. `LoopTypeCorrect`: the requests and
  reports under way, their ages, and the robot. `MotionsStartFromRest`: `LoopInv`.
  `RequestInv` says that what the robot obeys and the requests under way hold one
  run of the same Move with StopMoves around it, that a Move which is next finds the
  robot at rest, and that the StopMoves behind a Move are as old as the stop state, so
  that they have been obeyed when it is older than `RequestLatency`; `ReportInv` that
  a robot which still moves then says so in every report. The age of the stop state is
  its steady time, `driven`, and the parts that depend on it hold until `leapt`. The
  mission asks for a motion after `StopDwell` periods of its own clock and a report of
  rest; unless `CutShort`, that is after at least both latencies and two periods of
  steady time (the definition of `Spare`), and because a report is made each period,
  that report was made after the stop was obeyed, so that the robot rests and nothing is
  left to set it moving.
* The obstacle path's other parts, in `ObstaclePathProofs`. `OwnResults`: the job of
  the frame at hand is the last one in the accelerator (`LastInv`), so none is left
  to write once it has ended (`EndedInv`). `EveryUnitShown` and
  `OnlyNewSizeBreaks`: `CameraInv` says that there is a byte `b` up to which the
  stream has been read, lost bytes apart (`ReadTo(b)`); what the parser holds are
  bytes of the unit `b` is in, and every earlier unit that got through whole has
  been shown or is the packet at hand. Neither property mentions the parser, and
  without it nothing keeps a unit from being put together wrongly. `ScalerInv`: the
  scaling context has the size of a unit, so only a stream with two sizes breaks it.
* `PersonLoopProofs`. `FollowerTypeCorrect`, `FollowerAttends` and `FollowerStops`,
  from `PersonInv`. Since the scene has called for what it calls for now, its frame
  is not taken yet (`NotTaken`), in the network (`InNetwork`), in a list with
  nothing different behind it (`UnderWay`), or heard (`Heard`); each stage bounds
  `steady`, and every step leaves it or goes on to the next. That the list tells
  the follower what the scene calls for (`InferBids`) rests on the order of scores
  and on a first match existing (`LeastOf`, by well-foundedness of finite sets).
  `NearInv`: a scene with a person within reach has called for a stop as long, so
  `near <= steady`; a person the robot walks towards comes no farther away, by the
  lemmas on whole quotients.
* `JsonProofs`, the parts of the JSON library that recurse over no data.
  `OrderedMapIsMap`: from `SameMembers` (each key once, and the twin's value beside
  it). Each call is shown to lead from one distinct vector to another with the twin's
  members, and to keep the order of those that stay; the two erases are one lemma on
  what is left when a range is closed. `MCJson` puts the container beside its other
  parts, whose steps leave it alone. The four about Unicode relate code that the
  library has in several places, each with a table or a formula of its own.
  `EscapesReadBack`: what `dump_escaped` writes for a character, one `\uxxxx` or a
  pair, is read back as its UTF-8, wherever it stands; from places of a number in
  base 16 and 1024. `AutomatonIsUtf8`: the serializer's automaton accepts exactly the
  encodings of characters, by a case for each first byte and the states after one,
  two and three bytes; in particular no overlong form and no surrogate passes.
  `LexerIsUtf8`: the lexer's ranges take exactly the same. `AdaptersAgree`: the
  adapters for UTF-32, and for pairs of UTF-16, write what the lexer writes. The
  reference in all four is the set of characters, 0 to 10FFFF without the surrogates,
  and the lexer's formula for their bytes, of which the proof shows that it is
  injective.

The inductive invariants of the closed loop, the camera, the accelerator, the
follower, `ordered_map` and the clients were checked by TLC on small instances
before they were proved.

Only model-checked:

* all liveness and fairness properties (`MovingStatesEnd`, `MissionCompletes`,
  `MissionEnds`, `PracticeStops`, `EndsAtRest`, `EveryCallReturns`,
  `LoneCallReturns`, `DestructorReturns`), which TLAPS does not treat here. Of the
  last three the safety part is proved: `WakeupsArrive`, `LoneResponseArrives` and
  `DestructorIsHeard` say that what the waiting thread waits for is not lost;
* of the JSON library what is computed by recursion over its input:
  `ParsesByGrammar`, `CallbackFilters`, `TextRoundTrip`, `BinaryRoundTrip`,
  `FlattenRestores`, `OrderIsTotal` and `PatchOfDiff`. Their proofs need induction
  over values and texts, which is out of the prover's reach. What they rest on where
  characters are concerned is proved.

## 5. Not modelled

`PROJECT.json` has a row per component. Left out for good: the log and the
display of every node, `hailo_subscriber` (no state), message definitions,
`ros2_b2_sport_client.h` (declarations without definitions), CRC and error-code
headers, and what OpenCV, FFmpeg, HailoRT and the network compute. Of the JSON
library: iterators, the conversions to and from C++ types, streams, the messages
of exceptions (that one is thrown is modelled), type traits, and
`thirdparty/hedley`, which is made of compiler macros.

Limits of the code that the models reproduce and no property forbids:
`patch` with "add" below a primitive ends in `JSON_ASSERT(false)`
(`json.hpp:4799-4808`), which is modelled as throwing; `patch_inplace` and `update`
leave a half-done value when a step throws; a CBOR or BJData length of 2^64 - 1
is taken for an open one; a CBOR negative beyond -2^63 wraps; the UTF-16 adapter
pairs a surrogate of either kind with whatever unit follows.

## 6. Plan

What is left, in this order:

1. `VisionMath`, pure operators against reference definitions: region of interest
   within the frame, letterbox fills its target, offsets into the output buffer
   of the network, boxes within the frame, `normalize_angle`; and their lemmas.
2. The iterators of the JSON library, and `from_json` of the containers.
