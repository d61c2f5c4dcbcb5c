---------------------------- MODULE B2BaseClient ----------------------------
(***************************************************************************)
(* The request/response client of include/common/b2_base_client.hpp.       *)
(*                                                                         *)
(* Threads of the application call Call; threads of the client's own       *)
(* multi-threaded executor run OnResponseReceived, several at once because *)
(* the subscription's callback group is reentrant.  Call's steps under     *)
(* call_mutex_ are told apart here wherever a handler can run in between;  *)
(* a section under response_mutex_ is one step, so that mutex needs no     *)
(* variable.  A handler compares the identity of a response before it      *)
(* takes response_mutex_: those are two steps.                             *)
(*                                                                         *)
(* Identities are the calls in order, as the uptime in nanoseconds is.     *)
(* The service and other clients of its topics are external: a request is  *)
(* answered at most once, late or never, and answers to clients that leave *)
(* the identity at its default of 0 arrive as well.                        *)
(***************************************************************************)
EXTENDS Integers, FiniteSets

CONSTANTS
  Callers,      \* threads that use the client
  Handlers,     \* threads of the client's executor
  MaxCalls,     \* bound: calls made in all
  NoThread      \* nobody holds call_mutex_

ASSUME ThreadsAssumption == NoThread \notin Callers
ASSUME CallsAssumption   == MaxCalls \in Nat

Unset == 0              \* current_request_id_ while no call is under way

\* What a response is made of, as far as Call tells: valid JSON, something
\* that does not parse, an error status with data, or no data at all.
Bodies    == {"json", "garbage", "error", "empty"}
Responses == [id : Nat, body : Bodies]
NoResponse == [id |-> Unset, body |-> "none"]

VARIABLES
  pc,                   \* where each caller is in Call
  req,                  \* the identity of its request
  result,               \* what its last Call returned
  answer,               \* history: the response that result was taken from
  call_mutex,           \* holder of call_mutex_
  current_request_id,   \* current_request_id_
  received_response,    \* received_response_
  response_ready,       \* response_ready_
  signalled,            \* sleeping callers that response_cv_ has notified
  hpc,                  \* where each handler is in OnResponseReceived
  hmsg,                 \* the response it was given
  issued,               \* calls made so far; the last identity given out
  requests,             \* requests the service has not answered
  responses,            \* responses on their way to the client
  stored,               \* history: identities whose response was stored
  overtaken             \* history: responses whose handler had compared
                        \* identities before a later call reset the state

caller  == <<pc, req, result, answer>>
shared  == <<current_request_id, received_response, response_ready>>
handler == <<hpc, hmsg>>
network == <<requests, responses>>
history == <<stored, overtaken>>
vars    == <<caller, call_mutex, shared, signalled, handler, issued, network,
             history>>

Init ==
  /\ pc = [c \in Callers |-> "idle"]
  /\ req = [c \in Callers |-> Unset]
  /\ result = [c \in Callers |-> "none"]
  /\ answer = [c \in Callers |-> NoResponse]
  /\ call_mutex = NoThread
  /\ current_request_id = Unset
  /\ received_response = NoResponse
  /\ response_ready = FALSE
  /\ signalled = {}
  /\ hpc = [h \in Handlers |-> "idle"]
  /\ hmsg = [h \in Handlers |-> NoResponse]
  /\ issued = 0
  /\ requests = {} /\ responses = {}
  /\ stored = {} /\ overtaken = {}

-----------------------------------------------------------------------------
(***************************************************************************)
(* Call.                                                                   *)
(***************************************************************************)
Goto(c, label) == pc' = [pc EXCEPT ![c] = label]

Starting == {"lock", "clear_id", "clear_response", "stamp"}

StartCall(c) ==
  /\ pc[c] = "idle"
  /\ issued + Cardinality({d \in Callers : pc[d] \in Starting}) < MaxCalls
  /\ Goto(c, "lock")
  /\ UNCHANGED <<req, result, answer, call_mutex, shared, signalled, handler,
                 issued, network, history>>

MutexFree == call_mutex = NoThread

LockCall(c) ==
  /\ pc[c] = "lock" /\ MutexFree
  /\ call_mutex' = c
  /\ Goto(c, "clear_id")
  /\ UNCHANGED <<req, result, answer, shared, signalled, handler, issued,
                 network, history>>

\* ResetState, first half: from here on no response is expected.
ClearId(c) ==
  /\ pc[c] = "clear_id"
  /\ current_request_id' = Unset
  /\ Goto(c, "clear_response")
  /\ UNCHANGED <<req, result, answer, call_mutex, received_response,
                 response_ready, signalled, handler, issued, network, history>>

\* ResetState, second half, under response_mutex_.
ClearResponse(c) ==
  /\ pc[c] = "clear_response"
  /\ received_response' = NoResponse
  /\ response_ready' = FALSE
  /\ overtaken' = overtaken \cup {hmsg[h] : h \in {g \in Handlers :
                                                     hpc[g] = "store"}}
  /\ Goto(c, "stamp")
  /\ UNCHANGED <<req, result, answer, call_mutex, current_request_id,
                 signalled, handler, issued, network, stored>>

Stamp(c) ==
  /\ pc[c] = "stamp"
  /\ issued' = issued + 1
  /\ req' = [req EXCEPT ![c] = issued + 1]
  /\ current_request_id' = issued + 1
  /\ Goto(c, "publish")
  /\ UNCHANGED <<result, answer, call_mutex, received_response,
                 response_ready, signalled, handler, network, history>>

Publish(c) ==
  /\ pc[c] = "publish"
  /\ requests' = requests \cup {req[c]}
  /\ Goto(c, "wait")
  /\ UNCHANGED <<req, result, answer, call_mutex, shared, signalled, handler,
                 issued, responses, history>>

\* The code Call returns once it finds response_ready_ set.
Outcome ==
  CASE received_response = NoResponse      -> "unknown_error"
    [] received_response.body = "error"    -> "status"
    [] received_response.body = "json"     -> "success"
    [] OTHER                               -> "unknown_error"

\* Wrong variant: an early return that leaves call_mutex_ locked.
ReturnLocked(c, code, response) ==
  /\ result' = [result EXCEPT ![c] = code]
  /\ answer' = [answer EXCEPT ![c] = response]
  /\ call_mutex' = call_mutex
  /\ signalled' = signalled \ {c}
  /\ Goto(c, "idle")
  /\ UNCHANGED <<req, shared, handler, issued, network, history>>

\* Call returns, which gives up both mutexes.
Return(c, code, response) ==
  /\ result' = [result EXCEPT ![c] = code]
  /\ answer' = [answer EXCEPT ![c] = response]
  /\ call_mutex' = NoThread
  /\ signalled' = signalled \ {c}
  /\ Goto(c, "idle")
  /\ UNCHANGED <<req, shared, handler, issued, network, history>>

ReturnResponse(c) == response_ready /\ Return(c, Outcome, received_response)

\* The predicate is true when Call gets to wait_for, or Call goes to sleep.
Wait(c) ==
  /\ pc[c] = "wait"
  /\ \/ ReturnResponse(c)
     \/ /\ ~response_ready
        /\ Goto(c, "asleep")
        /\ UNCHANGED <<req, result, answer, call_mutex, shared, signalled,
                       handler, issued, network, history>>

\* A sleeping Call is notified, and looks again.
Wake(c) ==
  /\ pc[c] = "asleep" /\ c \in signalled
  /\ \/ ReturnResponse(c)
     \/ /\ ~response_ready
        /\ signalled' = signalled \ {c}
        /\ UNCHANGED <<caller, call_mutex, shared, handler, issued, network,
                       history>>

\* It may also wake for no reason, which matters only if it is ready.
WakeSpuriously(c) == pc[c] = "asleep" /\ c \notin signalled /\ ReturnResponse(c)

\* Wrong variant: wait_for without its predicate.
TimeOutBlind(c) == pc[c] = "asleep" /\ Return(c, "timeout", NoResponse)

\* Five seconds are over: wait_for returns what the predicate says then.
TimeOut(c) ==
  /\ pc[c] = "asleep"
  /\ \/ ReturnResponse(c)
     \/ ~response_ready /\ Return(c, "timeout", NoResponse)

CallStep(c) ==
  \/ LockCall(c) \/ ClearId(c) \/ ClearResponse(c) \/ Stamp(c) \/ Publish(c)
  \/ Wait(c) \/ Wake(c)

-----------------------------------------------------------------------------
(***************************************************************************)
(* OnResponseReceived.                                                     *)
(***************************************************************************)
\* Wrong variant: a response is not compared while no call is under way.
ExpectedAlways(m) == m.id = current_request_id

Expected(m) == current_request_id # Unset /\ m.id = current_request_id

\* The executor takes a response from the subscription for handler h, which
\* loads current_request_id_ and compares.
Compare(h, m) ==
  /\ hpc[h] = "idle" /\ m \in responses
  /\ responses' = responses \ {m}
  /\ IF Expected(m)
     THEN hpc' = [hpc EXCEPT ![h] = "store"] /\ hmsg' = [hmsg EXCEPT ![h] = m]
     ELSE UNCHANGED handler
  /\ UNCHANGED <<caller, call_mutex, shared, signalled, issued, requests,
                 history>>

\* Under response_mutex_: a response without data makes the client not ready.
StoreEmpty(h) ==
  /\ hpc[h] = "store" /\ hmsg[h].body = "empty"
  /\ response_ready' = FALSE
  /\ hpc' = [hpc EXCEPT ![h] = "idle"]
  /\ hmsg' = [hmsg EXCEPT ![h] = NoResponse]
  /\ UNCHANGED <<caller, call_mutex, current_request_id, received_response,
                 signalled, issued, network, history>>

\* Wrong variant: the condition variable is not notified.
StoreSilently(h) ==
  /\ hpc[h] = "store" /\ hmsg[h].body # "empty"
  /\ received_response' = hmsg[h]
  /\ response_ready' = TRUE
  /\ stored' = stored \cup {hmsg[h].id}
  /\ hpc' = [hpc EXCEPT ![h] = "idle"]
  /\ UNCHANGED <<caller, call_mutex, current_request_id, signalled, hmsg,
                 issued, network, overtaken>>

Store(h) ==
  /\ hpc[h] = "store" /\ hmsg[h].body # "empty"
  /\ received_response' = hmsg[h]
  /\ response_ready' = TRUE
  /\ stored' = stored \cup {hmsg[h].id}
  /\ hpc' = [hpc EXCEPT ![h] = "notify"]
  /\ UNCHANGED <<caller, call_mutex, current_request_id, signalled, hmsg,
                 issued, network, overtaken>>

\* notify_one: some thread asleep on response_cv_ is woken, if there is one.
NotifyOne(h) ==
  /\ hpc[h] = "notify"
  /\ IF \E c \in Callers : pc[c] = "asleep"
     THEN \E c \in Callers : pc[c] = "asleep"
                             /\ signalled' = signalled \cup {c}
     ELSE UNCHANGED signalled
  /\ hpc' = [hpc EXCEPT ![h] = "idle"]
  /\ hmsg' = [hmsg EXCEPT ![h] = NoResponse]
  /\ UNCHANGED <<caller, call_mutex, shared, issued, network, history>>

HandlerStep(h) ==
  \/ \E m \in responses : Compare(h, m)
  \/ StoreEmpty(h) \/ Store(h) \/ NotifyOne(h)

-----------------------------------------------------------------------------
(***************************************************************************)
(* The service, and the answers it gives to others on the same topic.      *)
(***************************************************************************)
Answer(id, body) ==
  /\ id \in requests
  /\ requests' = requests \ {id}
  /\ responses' = responses \cup {[id |-> id, body |-> body]}
  /\ UNCHANGED <<caller, call_mutex, shared, signalled, handler, issued,
                 history>>

AnswerOther ==
  /\ responses' = responses \cup {[id |-> Unset, body |-> "json"]}
  /\ UNCHANGED <<caller, call_mutex, shared, signalled, handler, issued,
                 requests, history>>

Service == (\E id \in requests, body \in Bodies : Answer(id, body)) \/ AnswerOther

Next ==
  \/ \E c \in Callers : StartCall(c) \/ CallStep(c) \/ WakeSpuriously(c) \/ TimeOut(c)
  \/ \E h \in Handlers : HandlerStep(h)
  \/ Service

Spec == Init /\ [][Next]_vars

\* A thread that can go on does, and five seconds do pass.  Nothing is assumed
\* of the service, nor of the order in which call_mutex_ is granted.
Fairness ==
  /\ \A c \in Callers : WF_vars(CallStep(c)) /\ WF_vars(TimeOut(c))
  /\ \A h \in Handlers : WF_vars(HandlerStep(h))

FairSpec == Spec /\ Fairness

-----------------------------------------------------------------------------
(***************************************************************************)
(* Properties.                                                             *)
(***************************************************************************)
Labels == Starting \cup {"idle", "publish", "wait", "asleep"}

Inside(c) == pc[c] \notin {"idle", "lock"}

\* Every variable keeps its type, and call_mutex_ is held by the one thread
\* that is inside Call.
TypeOK ==
  /\ pc \in [Callers -> Labels]
  /\ req \in [Callers -> Nat]
  /\ result \in [Callers -> {"none", "success", "status", "unknown_error",
                             "timeout"}]
  /\ answer \in [Callers -> Responses \cup {NoResponse}]
  /\ call_mutex \in Callers \cup {NoThread}
  /\ \A c \in Callers : Inside(c) <=> call_mutex = c
  /\ current_request_id \in Nat
  /\ received_response \in Responses \cup {NoResponse}
  /\ response_ready \in BOOLEAN
  /\ signalled \subseteq Callers
  /\ hpc \in [Handlers -> {"idle", "store", "notify"}]
  /\ hmsg \in [Handlers -> Responses \cup {NoResponse}]
  /\ \A h \in Handlers : hpc[h] # "idle" => hmsg[h] \in Responses
  /\ issued \in Nat
  /\ requests \subseteq Nat /\ responses \subseteq Responses
  /\ stored \subseteq Nat /\ overtaken \subseteq Responses

\* A Call that returns a response returns the response to its own request.
\* The only exception is a response whose handler had compared identities and
\* was then overtaken by a later call: never that of another client of the
\* topic, never one left behind by an earlier call.
ReturnsOwnResponse ==
  \A c \in Callers :
    pc[c] = "idle" /\ answer[c] # NoResponse =>
      answer[c].id = req[c] \/ answer[c] \in overtaken

\* A Call reports a timeout only if its answer did not get through, or if the
\* empty response to an earlier call was overtaken and then undid it.
HonestTimeout ==
  [][ \A c \in Callers :
        pc[c] = "asleep" /\ pc'[c] = "idle" /\ result'[c] = "timeout"
        /\ req[c] \in stored
          => \E m \in overtaken : m.body = "empty" ]_vars

\* A caller asleep on response_cv_ although a response is ready has been
\* notified or is about to be: it does not sit out the five seconds.
NoLostWakeup ==
  response_ready =>
    \A c \in Callers : pc[c] = "asleep" =>
      c \in signalled \/ \E h \in Handlers : hpc[h] = "notify"

\* Every Call returns, whatever the service does and whichever of the waiting
\* threads gets call_mutex_ next, as long as no thread calls for ever anew.
EveryCallReturns == \A c \in Callers : pc[c] # "idle" ~> pc[c] = "idle"

=============================================================================
