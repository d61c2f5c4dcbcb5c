------------------------- MODULE CallBySubscription -------------------------
(***************************************************************************)
(* Call of SportClient (include/common/ros2_sport_client.h), of            *)
(* RobotStateClient (ros2_robot_state_client.h) and of the BaseClient in   *)
(* base_client.hpp.  They subscribe to the response topic for the time of  *)
(* one call, with a queue of one message, and hand the callback a          *)
(* reference to a promise on the stack of Call.  The first two tell        *)
(* responses apart by api_id and wait without a limit; the third tells     *)
(* them apart by the identity it drew from the uptime and waits for five   *)
(* seconds.                                                                *)
(*                                                                         *)
(* One executor thread runs the callbacks.  It takes a message out of a    *)
(* queue and then calls the callback: Call may return in between.  The     *)
(* service is external and answers a request at most once.                 *)
(***************************************************************************)
EXTENDS Integers

CONSTANTS
  Callers,       \* threads that call; a thread makes one call at a time ...
  InCallback,    \* ... and those that call from within a callback
  Apis,          \* api_id of the requests
  ById,          \* responses are told apart by identity, not by api_id
  Timed,         \* Call waits for a limited time
  MaxRequests    \* bound: requests sent in all

\* A request; its response carries the same header.  `number' is not part of
\* the message: it tells which request a response answers.
Requests  == [number : Nat, api : Apis, id : Nat]
NoMessage == [number |-> 0, api |-> "none", id |-> 0]

VARIABLES
  pc,         \* where each caller is in Call
  mine,       \* its request
  promise,    \* response_promise: NoMessage until it is set
  inbox,      \* the queue of its subscription
  running,    \* the callback the executor is about to call, and the message
  open,       \* requests the service has not answered
  sent,       \* requests sent so far
  clock,      \* the uptime identities are drawn from
  outcome,    \* what the last call of each caller returned
  broken,     \* "threw": a promise was set twice; "dangling": one that is gone
  alike,      \* history: two requests under way that Call cannot tell apart
  crowd,      \* history: two requests under way at all
  late        \* history: a call timed out

call    == <<pc, mine, promise, outcome>>
topics  == <<inbox, open>>
history == <<alike, crowd, late>>
vars    == <<call, topics, running, sent, clock, broken, history>>

NotRunning == [caller |-> "none", request |-> NoMessage, response |-> NoMessage]

Init ==
  /\ pc = [c \in Callers |-> "idle"]
  /\ mine = [c \in Callers |-> NoMessage]
  /\ promise = [c \in Callers |-> NoMessage]
  /\ outcome = [c \in Callers |-> "none"]
  /\ inbox = [c \in Callers |-> NoMessage]
  /\ open = {} /\ sent = 0 /\ clock = 1
  /\ running = NotRunning
  /\ broken = "no"
  /\ alike = FALSE /\ crowd = FALSE /\ late = FALSE

-----------------------------------------------------------------------------
Subscribed(c) == pc[c] \in {"subscribed", "waiting", "answered"}

\* Wrong variant: any response is taken for an answer.
MatchesAlways(response, request) == response # request \/ TRUE

\* The condition of the callback.
Matches(response, request) ==
  IF ById THEN response.id = request.id ELSE response.api = request.api

\* Requests whose responses nothing tells apart.
Alike(r, s) == IF ById THEN r.id = s.id ELSE r.api = s.api

\* What is under way besides c: requests the service has, and calls.
UnderWay(c) == open \cup {mine[d] : d \in {e \in Callers \ {c} : Subscribed(e)}}

Note(c, request) ==
  /\ alike' = (alike \/ \E r \in UnderWay(c) : Alike(r, request))
  /\ crowd' = (crowd \/ UnderWay(c) # {})
  /\ UNCHANGED late

\* Wrong variant: the executor goes on while a callback of its own calls.
ExecutorAlways == running = NotRunning

\* Nothing else runs while a callback waits inside Call.
ExecutorFree == running = NotRunning /\ \A c \in InCallback : pc[c] = "idle"

\* The identity is drawn and the response topic subscribed to.
Subscribe(c, api) ==
  /\ pc[c] = "idle" /\ sent < MaxRequests
  /\ c \in InCallback => ExecutorFree
  /\ \E id \in {clock, clock + 1} :
       LET request == [number |-> sent + 1, api |-> api, id |-> id]
       IN  /\ mine' = [mine EXCEPT ![c] = request]
           /\ clock' = id
           /\ Note(c, request)
  /\ sent' = sent + 1
  /\ pc' = [pc EXCEPT ![c] = "subscribed"]
  /\ promise' = [promise EXCEPT ![c] = NoMessage]
  /\ UNCHANGED <<topics, running, outcome, broken>>

PublishRequest(c) ==
  /\ pc[c] = "subscribed"
  /\ open' = open \cup {mine[c]}
  /\ pc' = [pc EXCEPT ![c] = "waiting"]
  /\ UNCHANGED <<mine, promise, outcome, inbox, running, sent, clock, broken, history>>

\* response_future.get() returns.
GetResponse(c) ==
  /\ pc[c] = "waiting" /\ promise[c] # NoMessage
  /\ pc' = [pc EXCEPT ![c] = "answered"]
  /\ outcome' = [outcome EXCEPT ![c] =
       IF promise[c].number = mine[c].number THEN "own" ELSE "other"]
  /\ UNCHANGED <<mine, promise, topics, running, sent, clock, broken, history>>

\* The end of Call: the response is parsed, the subscription and the promise go.
Return(c) ==
  /\ pc[c] = "answered"
  /\ pc' = [pc EXCEPT ![c] = "idle"]
  /\ inbox' = [inbox EXCEPT ![c] = NoMessage]
  /\ UNCHANGED <<mine, promise, outcome, open, running, sent, clock, broken, history>>

\* Wrong variant: Call waits for ever, as its relatives do.
TimeOutNever(c) == pc[c] = "never" /\ UNCHANGED vars

TimeOut(c) ==
  /\ Timed /\ pc[c] = "waiting" /\ promise[c] = NoMessage
  /\ pc' = [pc EXCEPT ![c] = "idle"]
  /\ outcome' = [outcome EXCEPT ![c] = "timeout"]
  /\ inbox' = [inbox EXCEPT ![c] = NoMessage]
  /\ late' = TRUE
  /\ UNCHANGED <<mine, promise, open, running, sent, clock, broken, alike, crowd>>

-----------------------------------------------------------------------------
(***************************************************************************)
(* The executor.                                                           *)
(***************************************************************************)
Take(c) ==
  /\ ExecutorFree /\ inbox[c] # NoMessage
  /\ running' = [caller |-> c, request |-> mine[c], response |-> inbox[c]]
  /\ inbox' = [inbox EXCEPT ![c] = NoMessage]
  /\ UNCHANGED <<call, open, sent, clock, broken, history>>

\* The callback refers to the promise of the call that subscribed.
RunCallback ==
  LET c == running.caller
      gone == ~ Subscribed(c) \/ mine[c] # running.request
  IN  /\ running # NotRunning
      /\ running' = NotRunning
      /\ IF Matches(running.response, running.request)
         THEN IF ~ gone /\ promise[c] = NoMessage
              THEN /\ promise' = [promise EXCEPT ![c] = running.response]
                   /\ UNCHANGED broken
              ELSE /\ broken' = IF gone THEN "dangling" ELSE "threw"
                   /\ UNCHANGED promise
         ELSE UNCHANGED <<promise, broken>>
      /\ UNCHANGED <<pc, mine, outcome, topics, sent, clock, history>>

-----------------------------------------------------------------------------
\* A request that nobody here waits for: one of the requests without a
\* response to wait for, or that of another client of the topics.
SetReportFreq(api) ==
  /\ sent < MaxRequests
  /\ \E id \in {clock, clock + 1} :
       LET request == [number |-> sent + 1, api |-> api, id |-> id]
       IN  /\ open' = open \cup {request}
           /\ clock' = id
           /\ alike' = (alike \/ \E r \in UnderWay("none") : Alike(r, request))
           /\ crowd' = (crowd \/ UnderWay("none") # {})
  /\ sent' = sent + 1
  /\ UNCHANGED <<call, inbox, running, broken, late>>

\* The service answers; a queue of one keeps the newest response.
Answer(r) ==
  /\ open' = open \ {r}
  /\ inbox' = [c \in Callers |-> IF Subscribed(c) THEN r ELSE inbox[c]]
  /\ UNCHANGED <<call, running, sent, clock, broken, history>>

CallStep(c) == PublishRequest(c) \/ GetResponse(c) \/ Return(c)

ExecutorStep == (\E c \in Callers : Take(c)) \/ RunCallback

\* After undefined behaviour, or an exception out of the executor, nothing
\* more is said.
Next ==
  /\ broken = "no"
  /\ \/ \E c \in Callers : (\E a \in Apis : Subscribe(c, a)) \/ CallStep(c) \/ TimeOut(c)
     \/ ExecutorStep
     \/ \E a \in Apis : SetReportFreq(a)
     \/ \E r \in open : Answer(r)

Spec == Init /\ [][Next]_vars

\* Threads run and five seconds pass; of the service, a caller without a time
\* limit has to assume that it answers.
Fairness ==
  /\ \A c \in Callers : WF_vars(broken = "no" /\ (CallStep(c) \/ TimeOut(c)))
  /\ WF_vars(broken = "no" /\ ExecutorStep)
  /\ WF_vars(broken = "no" /\ ~ Timed /\ \E r \in open : Answer(r))

FairSpec == Spec /\ Fairness

-----------------------------------------------------------------------------
(***************************************************************************)
(* Properties.                                                             *)
(***************************************************************************)
Labels == {"idle", "subscribed", "waiting", "answered"}

TypeOK ==
  /\ pc \in [Callers -> Labels]
  /\ mine \in [Callers -> Requests \cup {NoMessage}]
  /\ promise \in [Callers -> Requests \cup {NoMessage}]
  /\ inbox \in [Callers -> Requests \cup {NoMessage}]
  /\ outcome \in [Callers -> {"none", "own", "other", "timeout"}]
  /\ open \subseteq Requests
  /\ sent \in Nat /\ clock \in Nat
  /\ broken \in {"no", "threw", "dangling"}
  /\ alike \in BOOLEAN /\ crowd \in BOOLEAN /\ late \in BOOLEAN

\* As long as no two requests that Call cannot tell apart are under way at once,
\* a call returns the response to its own request, the callback never sets a
\* promise twice, and it reaches for a promise that is gone only when a call has
\* timed out: with the message already taken from the queue, the reference
\* outlives the stack it points to.
SeparateCallsUnmixed ==
  ~ alike => /\ \A c \in Callers : outcome[c] # "other"
             /\ broken # "threw"
             /\ broken = "dangling" => late

\* What ros2_sport_client.h says of AutoRecoveryGet, "This function cannot be
\* used in ros2 callback": a call from a callback never gets its response.
CallbackCallStarves == \A c \in InCallback : pc[c] # "answered"

\* A call from outside a callback returns, if its request is the only one under
\* way: with a second one, the queue of one message may drop its response.
\* With a time limit every call returns, also from a callback.
LoneCallReturns ==
  \A c \in Callers :
    (pc[c] = "subscribed") ~>
      \/ pc[c] = "idle" \/ broken # "no"
      \/ ~ Timed /\ (crowd \/ c \in InCallback)

=============================================================================
