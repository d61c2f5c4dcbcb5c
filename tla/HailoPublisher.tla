--------------------------- MODULE HailoPublisher ---------------------------
(***************************************************************************)
(* The inference publisher in its two versions, src/hailo_detection.cpp    *)
(* and scripts/hailo_detection.py.  Each turn of the loop reads a frame,   *)
(* hands it to the accelerator as an asynchronous job, waits for the job   *)
(* for up to ten seconds and publishes what the output buffer holds.       *)
(*                                                                         *)
(* The C++ version has one output buffer for good and ignores the result   *)
(* of the wait; the Python version has a buffer per frame, gives the frame *)
(* up if the job reports an exception, and ends if the wait times out      *)
(* (the binding raises).  The accelerator is external: it works on jobs in *)
(* their order, accepts Depth at a time, and any of them may fail.         *)
(* Frames are numbered; a buffer holds the number of the frame its results *)
(* are of, or Torn while the accelerator writes to it.                     *)
(***************************************************************************)
EXTENDS Integers, Sequences

CONSTANTS
  Depth,        \* jobs the accelerator accepts
  MaxFrames     \* bound: frames read

Torn == -1

VARIABLES
  python,       \* which version it is, TRUE or FALSE
  step,         \* where the loop is
  frame,        \* the frame being worked on
  jobs,         \* jobs in the accelerator, oldest first, by their frame
  buffer,       \* output_buffer_; in Python that of each frame
  failed,       \* jobs that reported an error
  waited,       \* the last wait saw its job end
  published     \* the last message: [frame, content], or None

vars == <<python, step, frame, jobs, buffer, failed, waited, published>>

None == [frame |-> 0, content |-> 0]

Init ==
  /\ python \in BOOLEAN
  /\ step = "read" /\ frame = 0
  /\ jobs = << >> /\ failed = {}
  /\ buffer = [f \in 0 .. MaxFrames |-> 0]
  /\ waited = FALSE
  /\ published = None

\* The buffer that the job of a frame writes to.
BufferOf(f) == IF python THEN f ELSE 0

\* The accelerator holds or awaits the frame.
InWork(f) == \E i \in DOMAIN jobs : jobs[i] = f

\* What reading a buffer may give beside what it holds.
Tearing(f) == {Torn : i \in {j \in DOMAIN jobs : BufferOf(jobs[j]) = BufferOf(f)}}

-----------------------------------------------------------------------------
\* cap.read; a read that fails ends the turn in C++ and the program in Python.
Read ==
  /\ step = "read" /\ frame < MaxFrames
  /\ frame' = frame + 1 /\ step' = "submit"
  /\ waited' = FALSE
  /\ UNCHANGED <<jobs, buffer, failed, published>>

ReadFails ==
  /\ step = "read"
  /\ step' = IF python THEN "ended" ELSE "read"
  /\ UNCHANGED <<frame, jobs, buffer, failed, waited, published>>

\* wait_for_async_ready and run_async.
Submit ==
  /\ step = "submit" /\ Len(jobs) < Depth
  /\ jobs' = Append(jobs, frame)
  /\ step' = "wait"
  /\ UNCHANGED <<frame, buffer, failed, waited, published>>

\* The accelerator does not get ready in time, or refuses the job: C++ returns,
\* the Python binding raises.
SubmitFails ==
  /\ step = "submit"
  /\ step' = IF python THEN "ended" ELSE "read"
  /\ UNCHANGED <<frame, jobs, buffer, failed, waited, published>>

\* job->wait returns because the job has ended.  Python leaves a frame whose
\* job reported an exception.
WaitReturns ==
  /\ step = "wait" /\ ~ InWork(frame)
  /\ waited' = TRUE
  /\ step' = IF python /\ frame \in failed THEN "read" ELSE "publish"
  /\ UNCHANGED <<frame, jobs, buffer, failed, published>>

\* Wrong variant: the Python version goes on after the ten seconds too.
WaitGoesOn ==
  /\ step = "wait" /\ InWork(frame)
  /\ waited' = FALSE /\ step' = "publish"
  /\ UNCHANGED <<frame, jobs, buffer, failed, published>>

\* job->wait gives up after ten seconds.
WaitTimesOut ==
  /\ step = "wait" /\ InWork(frame)
  /\ waited' = FALSE
  /\ step' = IF python THEN "ended" ELSE "publish"
  /\ UNCHANGED <<frame, jobs, buffer, failed, published>>

\* The results are read, while the accelerator may be writing, and published
\* with the stamp of this frame.
Publish ==
  /\ step = "publish"
  /\ \E content \in {buffer[BufferOf(frame)]} \cup Tearing(frame) :
       published' = [frame |-> frame, content |-> content]
  /\ step' = "read"
  /\ UNCHANGED <<frame, jobs, buffer, failed, waited>>

-----------------------------------------------------------------------------
\* The accelerator ends the oldest job: its results are complete, or it failed.
Complete ==
  /\ jobs # << >>
  /\ buffer' = [buffer EXCEPT ![BufferOf(Head(jobs))] = Head(jobs)]
  /\ jobs' = Tail(jobs)
  /\ UNCHANGED <<step, frame, failed, waited, published>>

Fail ==
  /\ jobs # << >>
  /\ failed' = failed \cup {Head(jobs)}
  /\ jobs' = Tail(jobs)
  /\ UNCHANGED <<step, frame, buffer, waited, published>>

LoopStep ==
  Read \/ ReadFails \/ Submit \/ SubmitFails \/ WaitReturns \/ WaitTimesOut \/ Publish

Next == (LoopStep \/ Complete \/ Fail) /\ UNCHANGED python

Spec == Init /\ [][Next]_vars

-----------------------------------------------------------------------------
OwnResultsDue ==
  /\ frame > 0 /\ published.frame = frame
  /\ python \/ (waited /\ frame \notin failed)

\* A message carries the results of the frame it is stamped with.  In Python
\* always; in C++ if the wait saw the job of that frame end and the job did not
\* fail, however many jobs of earlier frames were late: those end before it.
PublishesOwnResults == OwnResultsDue => published.content = frame

=============================================================================
