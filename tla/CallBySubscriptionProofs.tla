---------------------- MODULE CallBySubscriptionProofs ----------------------
(***************************************************************************)
(* Proofs about CallBySubscription, for every number of callers and of     *)
(* requests: a call from a callback starves, and calls that can be told    *)
(* apart are not mixed up.                                                 *)
(***************************************************************************)
EXTENDS CallBySubscription, TLAPS

-----------------------------------------------------------------------------
(***************************************************************************)
(* Proof that CallbackCallStarves holds for any number of callers: the     *)
(* executor is free when the call begins and takes no message after that,  *)
(* so that nobody sets the promise.                                        *)
(***************************************************************************)
StarvesInv ==
  /\ DOMAIN pc = Callers /\ DOMAIN promise = Callers
  /\ \A c \in InCallback :
       \/ pc[c] = "idle"
       \/ /\ pc[c] \in {"subscribed", "waiting"}
          /\ running = NotRunning /\ promise[c] = NoMessage

LEMMA StarvesInit == InCallback \subseteq Callers /\ Init => StarvesInv
BY DEF Init, StarvesInv

LEMMA StarvesStep == InCallback \subseteq Callers /\ StarvesInv /\ [Next]_vars => StarvesInv'
<1> SUFFICES ASSUME InCallback \subseteq Callers, StarvesInv, [Next]_vars
             PROVE  StarvesInv'
  OBVIOUS
<1> USE DEF StarvesInv
<1>1. ASSUME NEW d \in Callers, NEW a \in Apis, Subscribe(d, a) PROVE StarvesInv'
  <2>1. /\ pc' = [pc EXCEPT ![d] = "subscribed"] /\ running' = running
        /\ promise' = [promise EXCEPT ![d] = NoMessage]
        /\ d \in InCallback => running = NotRunning
    BY <1>1 DEF Subscribe, ExecutorFree
  <2> QED BY <2>1
<1>2. ASSUME NEW d \in Callers, CallStep(d) PROVE StarvesInv'
  <2>1. CASE PublishRequest(d)
    BY <2>1 DEF PublishRequest
  <2>2. CASE GetResponse(d)
    <3>1. d \notin InCallback
      BY <2>2 DEF GetResponse
    <3> QED BY <2>2, <3>1 DEF GetResponse
  <2>3. CASE Return(d)
    BY <2>3 DEF Return
  <2> QED BY <1>2, <2>1, <2>2, <2>3 DEF CallStep
<1>3. ASSUME NEW d \in Callers, TimeOut(d) PROVE StarvesInv'
  BY <1>3 DEF TimeOut
<1>4. ASSUME NEW d \in Callers, Take(d) PROVE StarvesInv'
  <2>1. \A c \in InCallback : pc[c] = "idle"
    BY <1>4 DEF Take, ExecutorFree
  <2> QED BY <1>4, <2>1 DEF Take, call
<1>5. CASE RunCallback
  <2>1. \A c \in InCallback : pc[c] = "idle"
    BY <1>5 DEF RunCallback
  <2>2. pc' = pc /\ DOMAIN promise' = DOMAIN promise
    BY <1>5 DEF RunCallback
  <2> QED BY <2>1, <2>2
<1>6. ASSUME NEW a \in Apis, SetReportFreq(a) PROVE StarvesInv'
  BY <1>6 DEF SetReportFreq, call
<1>7. ASSUME NEW r \in open, Answer(r) PROVE StarvesInv'
  BY <1>7 DEF Answer, call
<1>8. CASE UNCHANGED vars
  BY <1>8 DEF vars, call
<1> QED BY <1>1, <1>2, <1>3, <1>4, <1>5, <1>6, <1>7, <1>8 DEF Next, ExecutorStep

\* A call from a callback never gets its response, as the comment in
\* ros2_sport_client.h warns, whatever the others do and however the service
\* answers.
THEOREM CallbackStarves ==
  ASSUME InCallback \subseteq Callers
  PROVE  Spec => []CallbackCallStarves
<1>1. StarvesInv => CallbackCallStarves
  BY DEF StarvesInv, CallbackCallStarves
<1> QED BY <1>1, StarvesInit, StarvesStep, PTL DEF Spec

-----------------------------------------------------------------------------
(***************************************************************************)
(* Proof of SeparateCallsUnmixed for any number of callers and requests.   *)
(* Requests are numbered, and the response to one gets to each of its      *)
(* subscribers at most once; while nothing under way is alike, a response  *)
(* that passes the condition of a callback is the one that it waits for.   *)
(***************************************************************************)
Functions ==
  /\ DOMAIN pc = Callers /\ DOMAIN mine = Callers /\ DOMAIN promise = Callers
  /\ DOMAIN inbox = Callers /\ DOMAIN outcome = Callers

Given == 1 .. sent

Past(r) == r.number \in 0 .. sent

NumberInv ==
  /\ sent \in Nat
  /\ \A c \in Callers : Past(inbox[c]) /\ Past(promise[c])
  /\ Past(running.response)
  /\ \A r \in open : r.number \in Given
  /\ \A c \in Callers : Subscribed(c) => mine[c].number \in Given

NotArrived(r) ==
  /\ running.response # r
  /\ \A c \in Callers : inbox[c] # r /\ promise[c] # r

ArrivalInv ==
  /\ \A r \in open : NotArrived(r)
  /\ \A c \in Callers :
       /\ inbox[c] # NoMessage => Subscribed(c)
       /\ pc[c] = "subscribed" => mine[c] \notin open /\ NotArrived(mine[c])
       /\ pc[c] = "answered" => promise[c] # NoMessage
       /\ Subscribed(c) =>
            /\ \A d \in Callers : Subscribed(d) /\ d # c => mine[d] # mine[c]
            /\ inbox[c] = mine[c] \/ (running.caller = c /\ running.response = mine[c])
                 => promise[c] # mine[c]
            /\ inbox[c] = mine[c] => ~(running.caller = c /\ running.response = mine[c])

\* The callback that runs has passed its condition, or will not.
RunsFor(c) == pc[c] = "waiting" /\ mine[c] = running.request

MixInv ==
  ~ alike =>
    /\ \A c \in Callers : Subscribed(c) =>
         /\ \A d \in Callers : Subscribed(d) /\ d # c => ~ Alike(mine[d], mine[c])
         /\ \A r \in open : Alike(r, mine[c]) => r = mine[c]
         /\ inbox[c] # NoMessage /\ Alike(inbox[c], mine[c]) => inbox[c] = mine[c]
         /\ promise[c] # NoMessage => promise[c] = mine[c]
    /\ running # NotRunning /\ Alike(running.response, running.request) =>
         /\ running.response = running.request
         /\ running.caller \in Callers
         /\ late \/ RunsFor(running.caller)
    /\ running # NotRunning => running.caller \in Callers

UnmixedInv ==
  Functions /\ NumberInv /\ ArrivalInv /\ MixInv /\ SeparateCallsUnmixed

LEMMA UnmixedInit == Init => UnmixedInv
BY DEF Init, UnmixedInv, Functions, NumberInv, Past, ArrivalInv, MixInv,
       SeparateCallsUnmixed, Subscribed, NotRunning, NoMessage

LEMMA MatchesAlike == \A r, s : Matches(r, s) <=> Alike(r, s)
BY DEF Matches, Alike

LEMMA NewNumber ==
  ASSUME NumberInv, NEW r, r.number = sent + 1
  PROVE  /\ NotArrived(r) /\ r \notin open
         /\ \A c \in Callers : Subscribed(c) => mine[c] # r
         /\ \A s : Past(s) => s.number \in 0 .. sent + 1
         /\ sent + 1 \in 1 .. sent + 1
         /\ \A n \in Given : n \in 1 .. sent + 1
BY DEF NumberInv, NotArrived, Past, Given

\* A new request is unlike everything there is, by its number, and starts to
\* wait only if by its header it is too.
LEMMA SubscribeUnmixed ==
  ASSUME UnmixedInv, NEW c \in Callers, NEW api \in Apis, Subscribe(c, api)
  PROVE  UnmixedInv'
<1> USE DEF UnmixedInv
<1>1. PICK id \in {clock, clock + 1} :
        /\ mine' = [mine EXCEPT ![c] = [number |-> sent + 1, api |-> api, id |-> id]]
        /\ Note(c, [number |-> sent + 1, api |-> api, id |-> id])
  BY DEF Subscribe
<1> DEFINE r == [number |-> sent + 1, api |-> api, id |-> id]
<1>2. r.number = sent + 1
  OBVIOUS
<1>3. /\ pc[c] = "idle" /\ ~ Subscribed(c)
      /\ sent' = sent + 1
      /\ UNCHANGED <<open, inbox, running, outcome, broken, late>>
      /\ alike' = (alike \/ \E s \in UnderWay(c) : Alike(s, r))
  BY <1>1 DEF Subscribe, Subscribed, Note, topics
<1>4. \A d \in Callers :
        /\ pc'[d] = IF d = c THEN "subscribed" ELSE pc[d]
        /\ mine'[d] = IF d = c THEN r ELSE mine[d]
        /\ promise'[d] = IF d = c THEN NoMessage ELSE promise[d]
  BY <1>1 DEF Subscribe, Functions
<1>5. Functions'
  BY <1>1 DEF Subscribe, Functions, topics
<1> HIDE DEF r
<1>6. \A d \in Callers : Subscribed(d)' <=> (d = c \/ Subscribed(d))
  BY <1>4 DEF Subscribed
<1>7. /\ NotArrived(r) /\ r \notin open
      /\ \A d \in Callers : Subscribed(d) => mine[d] # r
      /\ \A s : Past(s) => Past(s)'
      /\ sent' \in Nat /\ sent + 1 \in Given' /\ \A n \in Given : n \in Given'
  BY <1>2, <1>3, NewNumber DEF NumberInv, Past, Given
<1>8. Past(NoMessage)'
  BY <1>7 DEF Past, NoMessage
<1>9. r # NoMessage
  BY <1>2 DEF NumberInv, NoMessage
<1>10. \A s : NotArrived(s) /\ s # NoMessage => NotArrived(s)'
  BY <1>3, <1>4 DEF NotArrived
<1>11. inbox[c] = NoMessage
  BY <1>3 DEF ArrivalInv
<1>12. /\ \A s \in open : s # NoMessage
       /\ \A d \in Callers : Subscribed(d) => mine[d] # NoMessage
  BY DEF NumberInv, Given, NoMessage
<1>13. NumberInv'
  BY <1>2, <1>3, <1>4, <1>6, <1>7, <1>8 DEF NumberInv, Past
<1>14. ArrivalInv'
  <2>1. \A s \in open' : NotArrived(s)'
    BY <1>3, <1>10, <1>12 DEF ArrivalInv
  <2>2. ASSUME NEW d \in Callers
        PROVE  /\ inbox'[d] # NoMessage => Subscribed(d)'
               /\ pc'[d] = "answered" => promise'[d] # NoMessage
    BY <1>3, <1>4, <1>6 DEF ArrivalInv
  <2>3. ASSUME NEW d \in Callers, pc'[d] = "subscribed"
        PROVE  mine'[d] \notin open' /\ NotArrived(mine[d])'
    <3>1. CASE d = c
      BY <1>3, <1>4, <1>7, <1>9, <1>10, <3>1 DEF NotArrived
    <3>2. CASE d # c
      <4>1. pc[d] = "subscribed" /\ mine'[d] = mine[d] /\ Subscribed(d)
        BY <1>4, <2>3, <3>2 DEF Subscribed
      <4> QED BY <1>3, <1>10, <1>12, <4>1 DEF ArrivalInv, NotArrived
    <3> QED BY <3>1, <3>2
  <2>4. ASSUME NEW d \in Callers, Subscribed(d)'
        PROVE  \A e \in Callers : Subscribed(e)' /\ e # d => mine'[e] # mine'[d]
    BY <1>4, <1>6, <1>7, <2>4 DEF ArrivalInv
  <2>5. ASSUME NEW d \in Callers, Subscribed(d)'
        PROVE  /\ inbox'[d] = mine'[d]
                    \/ (running'.caller = d /\ running'.response = mine'[d])
                    => promise'[d] # mine'[d]
               /\ inbox'[d] = mine'[d] =>
                    ~(running'.caller = d /\ running'.response = mine'[d])
    <3>1. CASE d = c
      BY <1>3, <1>4, <1>7, <3>1 DEF NotArrived
    <3>2. CASE d # c
      BY <1>3, <1>4, <1>6, <2>5, <3>2 DEF ArrivalInv
    <3> QED BY <3>1, <3>2
  <2> QED BY <2>1, <2>2, <2>3, <2>4, <2>5 DEF ArrivalInv
<1>15. MixInv'
  <2> SUFFICES ASSUME ~ alike' PROVE MixInv'
    BY DEF MixInv
  <2>1. ~ alike /\ \A s \in UnderWay(c) : ~ Alike(s, r)
    BY <1>3
  <2>2. /\ \A s \in open : ~ Alike(s, r)
        /\ \A d \in Callers : Subscribed(d) => ~ Alike(mine[d], r) /\ ~ Alike(r, mine[d])
    BY <1>3, <2>1 DEF UnderWay, Alike
  <2>3. ASSUME NEW d \in Callers, Subscribed(d)'
        PROVE  /\ \A e \in Callers : Subscribed(e)' /\ e # d => ~ Alike(mine[e], mine[d])'
               /\ \A s \in open' : Alike(s, mine'[d]) => s = mine'[d]
               /\ inbox'[d] # NoMessage /\ Alike(inbox'[d], mine'[d]) => inbox'[d] = mine'[d]
               /\ promise'[d] # NoMessage => promise'[d] = mine'[d]
    <3>1. CASE d = c
      BY <1>3, <1>4, <1>6, <1>11, <2>2, <3>1 DEF Alike
    <3>2. CASE d # c
      BY <1>3, <1>4, <1>6, <2>1, <2>2, <2>3, <3>2 DEF MixInv, Alike
    <3> QED BY <3>1, <3>2
  <2>4. \A d \in Callers : RunsFor(d) => RunsFor(d)'
    BY <1>3, <1>4 DEF RunsFor
  <2> QED BY <1>3, <2>1, <2>3, <2>4 DEF MixInv, Alike
<1>16. SeparateCallsUnmixed'
  BY <1>3 DEF SeparateCallsUnmixed
<1> QED BY <1>5, <1>13, <1>14, <1>15, <1>16

LEMMA CallUnmixed ==
  ASSUME UnmixedInv, NEW c \in Callers, CallStep(c) \/ TimeOut(c)
  PROVE  UnmixedInv'
<1> USE DEF UnmixedInv
<1>1. CASE PublishRequest(c)
  <2>1. /\ pc[c] = "subscribed" /\ open' = open \cup {mine[c]}
        /\ UNCHANGED <<mine, promise, outcome, inbox, running, sent, broken, alike, late>>
        /\ \A d \in Callers : pc'[d] = IF d = c THEN "waiting" ELSE pc[d]
    BY <1>1 DEF PublishRequest, Functions, history
  <2>2. Functions'
    BY <1>1 DEF PublishRequest, Functions
  <2>3. \A d \in Callers : Subscribed(d)' <=> Subscribed(d)
    BY <2>1 DEF Subscribed
  <2>4. Subscribed(c)
    BY <2>1 DEF Subscribed
  <2>5. NumberInv'
    BY <2>1, <2>3, <2>4 DEF NumberInv, Past, Given
  <2>6. \A r : NotArrived(r)' <=> NotArrived(r)
    BY <2>1 DEF NotArrived
  <2>7. ASSUME NEW d \in Callers, pc'[d] = "subscribed"
        PROVE  mine'[d] \notin open' /\ NotArrived(mine[d])'
    <3>1. d # c /\ pc[d] = "subscribed" /\ Subscribed(d)
      BY <2>1, <2>7 DEF Subscribed
    <3>2. mine[d] # mine[c] /\ mine[d] \notin open /\ NotArrived(mine[d])
      BY <2>4, <3>1 DEF ArrivalInv
    <3> QED BY <2>1, <3>2 DEF NotArrived
  <2>8. \A r \in open' : NotArrived(r)'
    BY <2>1, <2>6 DEF ArrivalInv
  <2>9. ArrivalInv'
    BY <2>1, <2>3, <2>7, <2>8 DEF ArrivalInv
  <2>10. MixInv'
    <3>1. \A d \in Callers : RunsFor(d) => RunsFor(d)'
      BY <2>1 DEF RunsFor
    <3> QED BY <2>1, <2>3, <2>4, <3>1 DEF MixInv, Alike
  <2> QED BY <2>1, <2>2, <2>5, <2>9, <2>10 DEF SeparateCallsUnmixed
<1>2. CASE GetResponse(c)
  <2>1. /\ pc[c] = "waiting" /\ promise[c] # NoMessage
        /\ UNCHANGED <<mine, promise, inbox, open, running, sent, broken, alike, late>>
        /\ \A d \in Callers : pc'[d] = IF d = c THEN "answered" ELSE pc[d]
        /\ \A d \in Callers : outcome'[d] =
             IF d = c THEN IF promise[c].number = mine[c].number THEN "own" ELSE "other"
                      ELSE outcome[d]
    BY <1>2 DEF GetResponse, Functions, history, topics
  <2>2. Functions'
    BY <1>2 DEF GetResponse, Functions, topics
  <2>3. \A d \in Callers : Subscribed(d)' <=> Subscribed(d)
    BY <2>1 DEF Subscribed
  <2>4. Subscribed(c)
    BY <2>1 DEF Subscribed
  <2>5. NumberInv'
    BY <2>1, <2>3 DEF NumberInv, Past, Given
  <2>6. ArrivalInv'
    BY <2>1, <2>3 DEF ArrivalInv, NotArrived
  <2>7. ASSUME ~ alike PROVE promise[c] = mine[c]
    BY <2>1, <2>4, <2>7 DEF MixInv
  <2>8. MixInv'
    <3> SUFFICES ASSUME ~ alike PROVE MixInv'
      BY <2>1 DEF MixInv
    <3>1. ASSUME running # NotRunning, Alike(running.response, running.request)
          PROVE  late \/ RunsFor(running.caller)'
      <4>1. CASE running.caller = c /\ RunsFor(c)
        <5>1. running.response = mine[c]
          BY <3>1, <4>1 DEF MixInv, RunsFor
        <5> QED BY <2>4, <2>7, <4>1, <5>1 DEF ArrivalInv
      <4>2. CASE running.caller # c \/ ~ RunsFor(c)
        BY <2>1, <3>1, <4>2 DEF MixInv, RunsFor
      <4> QED BY <4>1, <4>2
    <3> QED BY <2>1, <2>3, <3>1 DEF MixInv, Alike
  <2>9. SeparateCallsUnmixed'
    BY <2>1, <2>7 DEF SeparateCallsUnmixed
  <2> QED BY <2>2, <2>5, <2>6, <2>8, <2>9
<1>3. CASE Return(c) \/ TimeOut(c)
  <2>1. /\ UNCHANGED <<mine, promise, open, running, sent, broken, alike>>
        /\ \A d \in Callers : pc'[d] = IF d = c THEN "idle" ELSE pc[d]
        /\ \A d \in Callers : inbox'[d] = IF d = c THEN NoMessage ELSE inbox[d]
        /\ late => late'
        /\ pc[c] = "answered" \/ late'
        /\ \A d \in Callers : outcome'[d] = outcome[d] \/ outcome'[d] = "timeout"
    BY <1>3 DEF Return, TimeOut, Functions, history
  <2>2. Functions'
    BY <1>3 DEF Return, TimeOut, Functions
  <2>3. \A d \in Callers : Subscribed(d)' <=> Subscribed(d) /\ d # c
    BY <2>1 DEF Subscribed, Return, TimeOut
  <2>4. NumberInv'
    BY <2>1, <2>3 DEF NumberInv, Past, Given, NoMessage
  <2>5. \A r : NotArrived(r) /\ r # NoMessage => NotArrived(r)'
    BY <2>1 DEF NotArrived
  <2>6. /\ \A r \in open : r # NoMessage
        /\ \A d \in Callers : Subscribed(d) => mine[d] # NoMessage
    BY DEF NumberInv, Given, NoMessage
  <2>7. ASSUME NEW d \in Callers, pc'[d] = "subscribed"
        PROVE  mine'[d] \notin open' /\ NotArrived(mine[d])'
    <3>1. pc[d] = "subscribed" /\ Subscribed(d) /\ mine'[d] = mine[d]
      BY <2>1, <2>7 DEF Subscribed
    <3> QED BY <2>1, <2>5, <2>6, <3>1 DEF ArrivalInv, NotArrived
  <2>8. \A r \in open' : NotArrived(r)'
    BY <2>1, <2>5, <2>6 DEF ArrivalInv
  <2>9. ArrivalInv'
    BY <2>1, <2>3, <2>7, <2>8 DEF ArrivalInv
  <2>10. MixInv'
    <3>1. \A d \in Callers : RunsFor(d) => RunsFor(d)' \/ late'
      BY <2>1 DEF RunsFor
    <3> QED BY <2>1, <2>3, <3>1 DEF MixInv, Alike
  <2>11. SeparateCallsUnmixed'
    BY <2>1 DEF SeparateCallsUnmixed
  <2> QED BY <2>2, <2>4, <2>9, <2>10, <2>11
<1> QED BY <1>1, <1>2, <1>3 DEF CallStep

LEMMA ExecutorUnmixed ==
  ASSUME "none" \notin Callers, UnmixedInv, ExecutorStep
  PROVE  UnmixedInv'
<1> USE DEF UnmixedInv
<1>1. ASSUME NEW c \in Callers, Take(c) PROVE UnmixedInv'
  <2>1. /\ running = NotRunning /\ inbox[c] # NoMessage
        /\ running'.caller = c /\ running'.request = mine[c]
        /\ running'.response = inbox[c]
        /\ UNCHANGED <<pc, mine, promise, outcome, open, sent, broken, alike, late>>
        /\ \A d \in Callers : inbox'[d] = IF d = c THEN NoMessage ELSE inbox[d]
    BY <1>1 DEF Take, ExecutorFree, Functions, call, history
  <2>2. Functions'
    BY <1>1 DEF Take, Functions, call
  <2>3. Subscribed(c) /\ \A d \in Callers : Subscribed(d)' <=> Subscribed(d)
    BY <2>1 DEF ArrivalInv, Subscribed
  <2>4. NumberInv'
    BY <2>1, <2>3 DEF NumberInv, Past, Given, NoMessage
  <2>5. \A r : NotArrived(r) /\ r # NoMessage => NotArrived(r)'
    BY <2>1 DEF NotArrived
  <2>6. /\ \A r \in open : r # NoMessage
        /\ \A d \in Callers : Subscribed(d) => mine[d] # NoMessage
    BY DEF NumberInv, Given, NoMessage
  <2>7. ASSUME NEW d \in Callers, pc'[d] = "subscribed"
        PROVE  mine'[d] \notin open' /\ NotArrived(mine[d])'
    <3>1. pc[d] = "subscribed" /\ Subscribed(d) /\ mine'[d] = mine[d]
      BY <2>1, <2>7 DEF Subscribed
    <3> QED BY <2>1, <2>5, <2>6, <3>1 DEF ArrivalInv, NotArrived
  <2>8. \A r \in open' : NotArrived(r)'
    BY <2>1, <2>5, <2>6 DEF ArrivalInv
  <2>9. ArrivalInv'
    BY <2>1, <2>3, <2>6, <2>7, <2>8 DEF ArrivalInv
  <2>10. MixInv'
    <3> SUFFICES ASSUME ~ alike PROVE MixInv'
      BY <2>1 DEF MixInv
    <3>1. ASSUME Alike(inbox[c], mine[c])
          PROVE  inbox[c] = mine[c] /\ pc[c] = "waiting"
      <4>1. inbox[c] = mine[c]
        BY <2>1, <2>3, <3>1 DEF MixInv
      <4>2. pc[c] # "subscribed"
        BY <4>1 DEF ArrivalInv, NotArrived
      <4>3. pc[c] # "answered"
        BY <2>3, <4>1 DEF ArrivalInv, MixInv
      <4> QED BY <2>3, <4>1, <4>2, <4>3 DEF Subscribed
    <3> QED BY <2>1, <2>3, <3>1 DEF MixInv, Alike, RunsFor
  <2> QED BY <2>1, <2>2, <2>4, <2>9, <2>10 DEF SeparateCallsUnmixed
<1>2. CASE RunCallback
  <2> DEFINE c == running.caller
             gone == ~ Subscribed(c) \/ mine[c] # running.request
             sets == Alike(running.response, running.request)
                     /\ ~ gone /\ promise[c] = NoMessage
  <2>1. /\ running # NotRunning /\ running' = NotRunning
        /\ UNCHANGED <<pc, mine, outcome, inbox, open, sent, alike, late>>
        /\ sets => promise' = [promise EXCEPT ![c] = running.response] /\ broken' = broken
        /\ ~ sets => promise' = promise
        /\ Alike(running.response, running.request) /\ ~ sets =>
             broken' = IF gone THEN "dangling" ELSE "threw"
        /\ ~ Alike(running.response, running.request) => broken' = broken
    BY <1>2, MatchesAlike DEF RunCallback, topics, history
  <2>2. Functions'
    BY <2>1 DEF Functions
  <2>3. \A d \in Callers : Subscribed(d)' <=> Subscribed(d)
    BY <2>1 DEF Subscribed
  <2>4. \A d \in Callers :
          promise'[d] = IF sets /\ d = c THEN running.response ELSE promise[d]
    BY <2>1 DEF Functions
  <2>5. running'.response = NoMessage /\ running'.caller = "none"
    BY <2>1 DEF NotRunning
  <2>6. NumberInv'
    <3>1. \A d \in Callers : Past(promise[d])'
      BY <2>1, <2>4 DEF NumberInv, Past
    <3> QED BY <2>1, <2>3, <2>5, <3>1 DEF NumberInv, Past, Given, NoMessage
  <2>7. \A r : NotArrived(r) /\ r # NoMessage => NotArrived(r)'
    BY <2>1, <2>4, <2>5 DEF NotArrived
  <2>8. /\ \A r \in open : r # NoMessage
        /\ \A d \in Callers : Subscribed(d) => mine[d] # NoMessage
    BY DEF NumberInv, Given, NoMessage
  <2>9. \A d \in Callers : pc'[d] = "subscribed" =>
          mine'[d] \notin open' /\ NotArrived(mine[d])'
    <3> SUFFICES ASSUME NEW d \in Callers, pc'[d] = "subscribed"
                 PROVE  mine'[d] \notin open' /\ NotArrived(mine[d])'
      OBVIOUS
    <3>1. pc[d] = "subscribed" /\ Subscribed(d) /\ mine'[d] = mine[d]
      BY <2>1 DEF Subscribed
    <3> QED BY <2>1, <2>7, <2>8, <3>1 DEF ArrivalInv, NotArrived
  <2>10. \A r \in open' : NotArrived(r)'
    BY <2>1, <2>7, <2>8 DEF ArrivalInv
  <2>11. ASSUME NEW d \in Callers, pc'[d] = "answered" PROVE promise'[d] # NoMessage
    <3>1. promise[d] # NoMessage
      BY <2>1, <2>11 DEF ArrivalInv
    <3> QED BY <2>4, <3>1
  <2>12. ASSUME NEW d \in Callers, Subscribed(d)
         PROVE  /\ inbox'[d] = mine'[d]
                     \/ (running'.caller = d /\ running'.response = mine'[d])
                     => promise'[d] # mine'[d]
                /\ inbox'[d] = mine'[d] =>
                     ~(running'.caller = d /\ running'.response = mine'[d])
    BY <2>1, <2>4, <2>5, <2>12 DEF ArrivalInv
  <2>13. ArrivalInv'
    BY <2>1, <2>3, <2>9, <2>10, <2>11, <2>12 DEF ArrivalInv
  <2>14. MixInv'
    <3> SUFFICES ASSUME ~ alike PROVE MixInv'
      BY <2>1 DEF MixInv
    <3>1. \A d \in Callers : Subscribed(d) /\ promise'[d] # NoMessage => promise'[d] = mine[d]
      BY <2>1, <2>4 DEF MixInv
    <3> QED BY <2>1, <2>3, <3>1 DEF MixInv, Alike
  <2>15. SeparateCallsUnmixed'
    <3> SUFFICES ASSUME ~ alike
                 PROVE  broken' # "threw" /\ (broken' = "dangling" => late)
      BY <2>1 DEF SeparateCallsUnmixed
    <3>1. CASE Alike(running.response, running.request)
      <4>1. /\ running.response = running.request /\ c \in Callers
            /\ late \/ RunsFor(c)
        BY <2>1, <3>1 DEF MixInv
      <4>2. CASE gone
        <5>1. late
          BY <4>1, <4>2 DEF RunsFor, Subscribed
        <5>2. broken' = "dangling"
          BY <2>1, <3>1, <4>2
        <5> QED BY <5>1, <5>2
      <4>3. CASE ~ gone
        <5>1. running.response = mine[c] /\ promise[c] = NoMessage
          BY <4>1, <4>3 DEF ArrivalInv, MixInv
        <5> QED BY <2>1, <3>1, <4>3, <5>1 DEF SeparateCallsUnmixed
      <4> QED BY <4>2, <4>3
    <3>2. CASE ~ Alike(running.response, running.request)
      BY <2>1, <3>2 DEF SeparateCallsUnmixed
    <3> QED BY <3>1, <3>2
  <2> QED BY <2>2, <2>6, <2>13, <2>14, <2>15
<1> QED BY <1>1, <1>2 DEF ExecutorStep

LEMMA OthersUnmixed ==
  ASSUME "none" \notin Callers, UnmixedInv, NEW api \in Apis, SetReportFreq(api)
  PROVE  UnmixedInv'
<1> USE DEF UnmixedInv
<1>1. PICK id \in {clock, clock + 1} :
        /\ open' = open \cup {[number |-> sent + 1, api |-> api, id |-> id]}
        /\ alike' = (alike \/ \E r \in UnderWay("none") :
                                Alike(r, [number |-> sent + 1, api |-> api, id |-> id]))
  BY DEF SetReportFreq
<1> DEFINE r == [number |-> sent + 1, api |-> api, id |-> id]
<1>2. r.number = sent + 1
  OBVIOUS
<1> HIDE DEF r
<1>3. /\ sent' = sent + 1
      /\ UNCHANGED <<pc, mine, promise, outcome, inbox, running, broken, late>>
      /\ open' = open \cup {r}
      /\ alike' = (alike \/ \E s \in UnderWay("none") : Alike(s, r))
  BY <1>1 DEF r, SetReportFreq, call
<1>4. Functions'
  BY <1>3 DEF Functions
<1>5. \A d \in Callers : Subscribed(d)' <=> Subscribed(d)
  BY <1>3 DEF Subscribed
<1>6. /\ NotArrived(r) /\ r \notin open
      /\ \A d \in Callers : Subscribed(d) => mine[d] # r
      /\ \A s : Past(s) => Past(s)'
      /\ sent' \in Nat /\ sent + 1 \in Given' /\ \A n \in Given : n \in Given'
  BY <1>2, <1>3, NewNumber DEF NumberInv, Past, Given
<1>7. NumberInv'
  BY <1>2, <1>3, <1>5, <1>6 DEF NumberInv, Past
<1>8. ArrivalInv'
  <2>1. \A d \in Callers : pc'[d] = "subscribed" =>
          mine'[d] \notin open' /\ NotArrived(mine[d])'
    BY <1>3, <1>6 DEF ArrivalInv, NotArrived, Subscribed
  <2>2. \A s \in open' : NotArrived(s)'
    BY <1>3, <1>6 DEF ArrivalInv, NotArrived
  <2> QED BY <1>3, <1>5, <2>1, <2>2 DEF ArrivalInv
<1>9. MixInv'
  <2> SUFFICES ASSUME ~ alike' PROVE MixInv'
    BY DEF MixInv
  <2>1. ~ alike /\ \A s \in UnderWay("none") : ~ Alike(s, r)
    BY <1>3
  <2>2. \A d \in Callers : Subscribed(d) => ~ Alike(r, mine[d])
    BY <2>1 DEF UnderWay, Alike
  <2> QED BY <1>3, <1>5, <2>1, <2>2 DEF MixInv, Alike, RunsFor
<1>10. SeparateCallsUnmixed'
  BY <1>3 DEF SeparateCallsUnmixed
<1> QED BY <1>4, <1>7, <1>8, <1>9, <1>10

LEMMA AnswerUnmixed ==
  ASSUME UnmixedInv, NEW r \in open, Answer(r)
  PROVE  UnmixedInv'
<1> USE DEF UnmixedInv
<1>1. /\ UNCHANGED <<pc, mine, promise, outcome, running, sent, broken, alike, late>>
      /\ open' = open \ {r}
      /\ \A d \in Callers : inbox'[d] = IF Subscribed(d) THEN r ELSE inbox[d]
      /\ Functions'
  BY DEF Answer, Functions, call, history
<1>2. \A d \in Callers : Subscribed(d)' <=> Subscribed(d)
  BY <1>1 DEF Subscribed
<1>3. NotArrived(r) /\ Past(r)
  BY DEF ArrivalInv, NumberInv, Past, Given
<1>4. \A s : NotArrived(s) /\ s # r => NotArrived(s)'
  BY <1>1 DEF NotArrived
<1>5. NumberInv'
  BY <1>1, <1>2, <1>3 DEF NumberInv, Past, Given
<1>6. ArrivalInv'
  <2>1. \A d \in Callers : pc'[d] = "subscribed" =>
          mine'[d] \notin open' /\ NotArrived(mine[d])'
    <3> SUFFICES ASSUME NEW d \in Callers, pc'[d] = "subscribed"
                 PROVE  mine'[d] \notin open' /\ NotArrived(mine[d])'
      OBVIOUS
    <3>1. mine[d] \notin open /\ NotArrived(mine[d]) /\ mine'[d] = mine[d]
      BY <1>1 DEF ArrivalInv
    <3> QED BY <1>1, <1>4, <3>1 DEF NotArrived
  <2>2. \A s \in open' : NotArrived(s)'
    BY <1>1, <1>4 DEF ArrivalInv
  <2> QED BY <1>1, <1>2, <1>3, <2>1, <2>2 DEF ArrivalInv, NotArrived
<1>7. MixInv'
  BY <1>1, <1>2 DEF MixInv, Alike, RunsFor
<1> QED BY <1>1, <1>5, <1>6, <1>7 DEF SeparateCallsUnmixed

LEMMA UnmixedStep ==
  "none" \notin Callers /\ UnmixedInv /\ [Next]_vars => UnmixedInv'
<1> SUFFICES ASSUME "none" \notin Callers, UnmixedInv, [Next]_vars
             PROVE  UnmixedInv'
  OBVIOUS
<1>1. CASE UNCHANGED vars
  <2>1. UNCHANGED <<pc, mine, promise, outcome, inbox, open, running, sent, broken,
                    alike, late>>
    BY <1>1 DEF vars, call, topics, history
  <2> QED BY <2>1
          DEF UnmixedInv, Functions, NumberInv, Past, Given, ArrivalInv, NotArrived,
              MixInv, RunsFor, Subscribed, Alike, SeparateCallsUnmixed
<1> QED BY <1>1, SubscribeUnmixed, CallUnmixed, ExecutorUnmixed, OthersUnmixed,
           AnswerUnmixed DEF Next

\* As long as no two requests that Call cannot tell apart are under way at once,
\* calls are not mixed up, no promise is set twice, and one that is gone is
\* reached for only after a timeout: for any number of callers and requests.
THEOREM SeparateCalls ==
  ASSUME "none" \notin Callers
  PROVE  Spec => []SeparateCallsUnmixed
<1>1. UnmixedInv => SeparateCallsUnmixed
  BY DEF UnmixedInv
<1> QED BY <1>1, UnmixedInit, UnmixedStep, PTL DEF Spec

-----------------------------------------------------------------------------
(***************************************************************************)
(* The safety part of LoneCallReturns, for any number of callers: the      *)
(* response to a request that is alone cannot be lost.  A second response  *)
(* would overwrite it in the queue of one message, but the service has no  *)
(* other request; and whoever begins to wait does so with nothing under    *)
(* way.                                                                    *)
(***************************************************************************)

\* Where the response to the request of c may be.
OnItsWay(c) ==
  \/ mine[c] \in open
  \/ inbox[c] = mine[c]
  \/ running.caller = c /\ running.request = mine[c] /\ running.response = mine[c]
  \/ promise[c] = mine[c]

ResponseOnItsWay ==
  ~ crowd /\ broken = "no" => \A c \in Callers : pc[c] = "waiting" => OnItsWay(c)

\* One call at a time, and nothing else for the service to answer.
Alone(c) ==
  /\ \A d \in Callers : Subscribed(d) => d = c
  /\ open \subseteq {mine[c]}
  /\ pc[c] = "subscribed" => open = {}
  /\ pc[c] = "waiting" => OnItsWay(c)

LoneInv == ~ crowd /\ broken = "no" => \A c \in Callers : Subscribed(c) => Alone(c)

LEMMA LoneInit == Init => LoneInv
BY DEF Init, LoneInv, Subscribed

LEMMA SubscribeAlone ==
  ASSUME Functions, LoneInv, NEW c \in Callers, NEW api \in Apis, Subscribe(c, api)
  PROVE  LoneInv'
<1> SUFFICES ASSUME ~ crowd', broken' = "no" PROVE \A d \in Callers : Subscribed(d)' => Alone(d)'
  BY DEF LoneInv
<1>1. /\ UNCHANGED open
      /\ \A d \in Callers : pc'[d] = IF d = c THEN "subscribed" ELSE pc[d]
      /\ UnderWay(c) = {}
  BY DEF Subscribe, topics, Note, Functions
<1>2. open = {} /\ \A d \in Callers : Subscribed(d) => d = c
  BY <1>1 DEF UnderWay
<1>3. \A d \in Callers : Subscribed(d)' => d = c
  BY <1>1, <1>2 DEF Subscribed
<1> QED BY <1>1, <1>2, <1>3 DEF Alone

LEMMA CallAlone ==
  ASSUME Functions, LoneInv, broken = "no", NEW c \in Callers, CallStep(c) \/ TimeOut(c)
  PROVE  LoneInv'
<1> SUFFICES ASSUME ~ crowd', NEW d \in Callers, Subscribed(d)' PROVE Alone(d)'
  BY DEF LoneInv
<1>1. /\ UNCHANGED <<mine, promise, running, crowd>>
      /\ \A e \in Callers : e # c => pc'[e] = pc[e] /\ inbox'[e] = inbox[e]
  BY DEF CallStep, PublishRequest, GetResponse, Return, TimeOut, Functions, topics, history
<1>2. Subscribed(c) /\ Alone(c)
  BY <1>1 DEF CallStep, PublishRequest, GetResponse, Return, TimeOut, Subscribed, LoneInv
<1>3. d = c /\ \A e \in Callers : Subscribed(e)' => e = c
  BY <1>1, <1>2 DEF Alone, Subscribed
<1>4. CASE PublishRequest(c)
  <2>1. open' = {mine[c]} /\ pc'[c] = "waiting"
    BY <1>2, <1>4 DEF PublishRequest, Alone, Functions
  <2> QED BY <1>1, <1>3, <2>1 DEF Alone, OnItsWay
<1>5. CASE GetResponse(c)
  <2>1. UNCHANGED open /\ pc'[c] = "answered"
    BY <1>5 DEF GetResponse, Functions, topics
  <2> QED BY <1>1, <1>2, <1>3, <2>1 DEF Alone
<1>6. CASE Return(c) \/ TimeOut(c)
  <2>1. ~ Subscribed(c)'
    BY <1>6 DEF Return, TimeOut, Functions, Subscribed
  <2> QED BY <1>3, <2>1
<1> QED BY <1>4, <1>5, <1>6 DEF CallStep

\* What the executor takes goes on, and what it delivers is there.
LEMMA ExecutorAlone ==
  ASSUME "none" \notin Callers, Functions, NumberInv, LoneInv, broken = "no", ExecutorStep
  PROVE  LoneInv'
<1> SUFFICES ASSUME ~ crowd', broken' = "no", NEW c \in Callers, Subscribed(c)'
             PROVE  Alone(c)'
  BY DEF LoneInv
<1>1. UNCHANGED <<pc, mine, open, crowd>>
  BY DEF ExecutorStep, Take, RunCallback, call, topics, history
<1>2. Subscribed(c) /\ Alone(c) /\ \A d \in Callers : Subscribed(d)' <=> Subscribed(d)
  BY <1>1 DEF Subscribed, LoneInv
<1>3. ASSUME pc[c] = "waiting" PROVE OnItsWay(c)'
  <2>1. OnItsWay(c)
    BY <1>2, <1>3 DEF Alone
  <2>2. ASSUME NEW d \in Callers, Take(d) PROVE OnItsWay(c)'
    <3>1. /\ running.caller = "none" /\ UNCHANGED promise
          /\ running'.caller = d /\ running'.request = mine[d] /\ running'.response = inbox[d]
          /\ c # d => inbox'[c] = inbox[c]
      BY <2>2 DEF Take, ExecutorFree, NotRunning, call, Functions
    <3> QED BY <1>1, <2>1, <3>1 DEF OnItsWay
  <2>3. CASE RunCallback
    <3>1. /\ UNCHANGED inbox /\ mine[c] # NoMessage
          /\ promise[c] # NoMessage \/ running.caller # c => promise'[c] = promise[c]
      BY <1>2, <2>3 DEF RunCallback, Functions, topics, NumberInv, Given, NoMessage
    <3>2. ASSUME running.caller = c, running.request = mine[c], running.response = mine[c]
          PROVE  promise'[c] = mine[c]
      <4>1. Matches(running.response, running.request)
        BY <3>2 DEF Matches
      <4> QED BY <1>2, <2>3, <3>2, <4>1 DEF RunCallback, Functions
    <3> QED BY <1>1, <2>1, <3>1, <3>2 DEF OnItsWay
  <2> QED BY <2>2, <2>3 DEF ExecutorStep
<1> QED BY <1>1, <1>2, <1>3 DEF Alone

LEMMA OthersAlone ==
  ASSUME "none" \notin Callers, NEW api \in Apis, SetReportFreq(api)
  PROVE  LoneInv'
<1> SUFFICES ASSUME ~ crowd' PROVE \A c \in Callers : ~ Subscribed(c)'
  BY DEF LoneInv
<1>1. UNCHANGED pc /\ UnderWay("none") = {}
  BY DEF SetReportFreq, call
<1> QED BY <1>1 DEF UnderWay, Subscribed

LEMMA AnswerAlone ==
  ASSUME Functions, LoneInv, broken = "no", NEW r \in open, Answer(r)
  PROVE  LoneInv'
<1> SUFFICES ASSUME ~ crowd', NEW c \in Callers, Subscribed(c)' PROVE Alone(c)'
  BY DEF LoneInv
<1>1. /\ UNCHANGED <<pc, mine, promise, running, crowd>>
      /\ open' = open \ {r}
      /\ \A d \in Callers : Subscribed(d) => inbox'[d] = r
  BY DEF Answer, call, history
<1>2. Subscribed(c) /\ Alone(c) /\ \A d \in Callers : Subscribed(d)' <=> Subscribed(d)
  BY <1>1 DEF Subscribed, LoneInv
<1>3. r = mine[c]
  BY <1>2 DEF Alone
<1> QED BY <1>1, <1>2, <1>3 DEF Alone, OnItsWay

LEMMA LoneStep ==
  "none" \notin Callers /\ UnmixedInv /\ LoneInv /\ [Next]_vars => LoneInv'
<1> SUFFICES ASSUME "none" \notin Callers, UnmixedInv, LoneInv, [Next]_vars
             PROVE  LoneInv'
  OBVIOUS
<1>1. CASE UNCHANGED vars
  <2>1. UNCHANGED <<pc, mine, promise, inbox, open, running, broken, crowd>>
    BY <1>1 DEF vars, call, topics, history
  <2> QED BY <2>1 DEF LoneInv, Alone, OnItsWay, Subscribed
<1> QED BY <1>1, SubscribeAlone, CallAlone, ExecutorAlone, OthersAlone, AnswerAlone
        DEF Next, UnmixedInv

\* As long as no second request is under way, the response to the request of a
\* caller that waits in Call is at the service, in the queue of its subscription,
\* with the callback that is about to set its promise, or in the promise: it is
\* never lost, for any number of callers.  That it arrives is then fairness.
THEOREM LoneResponseArrives ==
  ASSUME "none" \notin Callers
  PROVE  Spec => []ResponseOnItsWay
<1>1. LoneInv => ResponseOnItsWay
  BY DEF LoneInv, Alone, ResponseOnItsWay, Subscribed
<1> QED BY <1>1, UnmixedInit, UnmixedStep, LoneInit, LoneStep, PTL DEF Spec

=============================================================================
