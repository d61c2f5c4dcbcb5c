------------------------- MODULE B2BaseClientProofs -------------------------
(***************************************************************************)
(* Proofs about B2BaseClient, for every number of callers, handlers and    *)
(* calls: type correctness with the exclusion that call_mutex_ provides,   *)
(* and that responses reach the calls they answer unless overtaken; and    *)
(* about the clients checked beside it in MCB2BaseClient.                  *)
(***************************************************************************)
EXTENDS MCB2BaseClient, TLAPS

USE DEF Bodies, Starting, Labels, Unset

LEMMA ResponseTypes ==
  /\ NoResponse \notin Responses
  /\ \A m \in Responses : m.id \in Nat
<1>1. ASSUME NoResponse \in Responses PROVE FALSE
  <2>1. NoResponse.body \in Bodies
    BY <1>1 DEF Responses
  <2> QED BY <2>1 DEF NoResponse
<1>2. \A m \in Responses : m.id \in Nat
  BY DEF Responses
<1> QED BY <1>1, <1>2

LEMMA TypeInit == Init => TypeOK
<1> SUFFICES ASSUME Init PROVE TypeOK
  OBVIOUS
<1>1. \A c \in Callers : Inside(c) <=> call_mutex = c
  BY ThreadsAssumption DEF ThreadsAssumption, Init, Inside
<1>2. NoResponse \in Responses \cup {NoResponse}
  OBVIOUS
<1> QED BY <1>1, <1>2 DEF Init, TypeOK

\* Call gives back the mutex it holds; nothing else of the type changes.
LEMMA ReturnType ==
  ASSUME TypeOK, NEW c \in Callers, Inside(c),
         NEW code \in {"success", "status", "unknown_error", "timeout"},
         NEW m \in Responses \cup {NoResponse}, Return(c, code, m)
  PROVE  TypeOK'
<1>1. /\ pc' \in [Callers -> Labels]
      /\ result' \in [Callers -> {"none", "success", "status",
                                  "unknown_error", "timeout"}]
      /\ answer' \in [Callers -> Responses \cup {NoResponse}]
      /\ signalled' \subseteq Callers
  BY DEF Return, Goto, TypeOK
<1>2. call_mutex' = NoThread /\ \A d \in Callers : ~Inside(d)'
  BY DEF Return, Goto, TypeOK, Inside
<1>3. UNCHANGED <<req, current_request_id, received_response, response_ready,
                  hpc, hmsg, issued, requests, responses, stored, overtaken>>
  BY DEF Return, shared, handler, network, history
<1> QED BY <1>1, <1>2, <1>3, ThreadsAssumption DEF TypeOK

\* A step of a caller that stays inside Call.
LEMMA LabelType ==
  ASSUME TypeOK, NEW c \in Callers, Inside(c), NEW label \in Labels,
         label \notin {"idle", "lock"}, Goto(c, label), UNCHANGED call_mutex
  PROVE  /\ pc' \in [Callers -> Labels]
         /\ \A d \in Callers : Inside(d)' <=> call_mutex' = d
BY DEF Goto, TypeOK, Inside

LEMMA TypeStep == TypeOK /\ [Next]_vars => TypeOK'
<1> SUFFICES ASSUME TypeOK, [Next]_vars PROVE TypeOK'
  OBVIOUS
<1>0. Outcome \in {"success", "status", "unknown_error", "timeout"}
  BY DEF Outcome
<1>1. ASSUME NEW c \in Callers, StartCall(c) PROVE TypeOK'
  BY <1>1 DEF StartCall, Goto, TypeOK, Inside, shared, handler, network,
              history
<1>2. ASSUME NEW c \in Callers, LockCall(c) PROVE TypeOK'
  <2>1. /\ pc' \in [Callers -> Labels] /\ call_mutex' = c
        /\ \A d \in Callers : Inside(d)' <=> call_mutex' = d
    BY <1>2, ThreadsAssumption
    DEF LockCall, MutexFree, Goto, TypeOK, Inside
  <2> QED BY <1>2, <2>1 DEF LockCall, TypeOK, shared, handler, network, history
<1>3. ASSUME NEW c \in Callers, ClearId(c) PROVE TypeOK'
  <2>1. Inside(c) /\ Goto(c, "clear_response") /\ UNCHANGED call_mutex
    BY <1>3 DEF ClearId, Inside
  <2>2. /\ pc' \in [Callers -> Labels]
        /\ \A d \in Callers : Inside(d)' <=> call_mutex' = d
    BY <2>1, LabelType
  <2> QED BY <1>3, <2>2 DEF ClearId, TypeOK, handler, network, history
<1>4. ASSUME NEW c \in Callers, ClearResponse(c) PROVE TypeOK'
  <2>1. Inside(c) /\ Goto(c, "stamp") /\ UNCHANGED call_mutex
    BY <1>4 DEF ClearResponse, Inside
  <2>2. /\ pc' \in [Callers -> Labels]
        /\ \A d \in Callers : Inside(d)' <=> call_mutex' = d
    BY <2>1, LabelType
  <2>3. overtaken' \subseteq Responses
    BY <1>4 DEF ClearResponse, TypeOK
  <2> QED BY <1>4, <2>2, <2>3 DEF ClearResponse, TypeOK, handler, network
<1>5. ASSUME NEW c \in Callers, Stamp(c) PROVE TypeOK'
  <2>1. Inside(c) /\ Goto(c, "publish") /\ UNCHANGED call_mutex
    BY <1>5 DEF Stamp, Inside
  <2>2. /\ pc' \in [Callers -> Labels]
        /\ \A d \in Callers : Inside(d)' <=> call_mutex' = d
    BY <2>1, LabelType
  <2>3. req' \in [Callers -> Nat] /\ current_request_id' \in Nat
        /\ issued' \in Nat
    BY <1>5 DEF Stamp, TypeOK
  <2>4. UNCHANGED <<result, answer, call_mutex, received_response,
                    response_ready, signalled, handler, network, history>>
    BY <1>5 DEF Stamp
  <2> QED BY <2>2, <2>3, <2>4 DEF TypeOK, handler, network, history
<1>6. ASSUME NEW c \in Callers, Publish(c) PROVE TypeOK'
  <2>1. Inside(c) /\ Goto(c, "wait") /\ UNCHANGED call_mutex
    BY <1>6 DEF Publish, Inside
  <2>2. /\ pc' \in [Callers -> Labels]
        /\ \A d \in Callers : Inside(d)' <=> call_mutex' = d
    BY <2>1, LabelType
  <2> QED BY <1>6, <2>2 DEF Publish, TypeOK, shared, handler, history
<1>7. ASSUME NEW c \in Callers, Inside(c), ReturnResponse(c) PROVE TypeOK'
  <2>1. received_response \in Responses \cup {NoResponse}
    BY DEF TypeOK
  <2> QED BY <1>0, <1>7, <2>1, ReturnType DEF ReturnResponse
<1>8. ASSUME NEW c \in Callers, Wait(c) PROVE TypeOK'
  <2>1. Inside(c)
    BY <1>8 DEF Wait, Inside
  <2>2. CASE ReturnResponse(c)
    BY <1>7, <2>1, <2>2
  <2>3. CASE ~ReturnResponse(c)
    <3>1. Goto(c, "asleep") /\ UNCHANGED call_mutex
      BY <1>8, <2>3 DEF Wait
    <3>2. /\ pc' \in [Callers -> Labels]
          /\ \A d \in Callers : Inside(d)' <=> call_mutex' = d
      BY <2>1, <3>1, LabelType
    <3> QED BY <1>8, <2>3, <3>2
            DEF Wait, TypeOK, shared, handler, network, history
  <2> QED BY <2>2, <2>3
<1>9. ASSUME NEW c \in Callers, Wake(c) \/ WakeSpuriously(c) \/ TimeOut(c)
      PROVE  TypeOK'
  <2>1. Inside(c)
    BY <1>9 DEF Wake, WakeSpuriously, TimeOut, Inside
  <2>2. CASE ReturnResponse(c)
    BY <1>7, <2>1, <2>2
  <2>3. CASE Return(c, "timeout", NoResponse)
    BY <2>1, <2>3, ReturnType
  <2>4. CASE /\ signalled' = signalled \ {c}
             /\ UNCHANGED <<caller, call_mutex, shared, handler, issued,
                            network, history>>
    BY <2>4 DEF TypeOK, Inside, caller, shared, handler, network, history
  <2> QED BY <1>9, <2>2, <2>3, <2>4 DEF Wake, WakeSpuriously, TimeOut
<1>10. ASSUME NEW h \in Handlers, NEW m \in responses, Compare(h, m)
       PROVE  TypeOK'
  <2>1. m \in Responses
    BY DEF TypeOK
  <2>2. /\ hpc' \in [Handlers -> {"idle", "store", "notify"}]
        /\ hmsg' \in [Handlers -> Responses \cup {NoResponse}]
        /\ \A g \in Handlers : hpc'[g] # "idle" => hmsg'[g] \in Responses
    BY <1>10, <2>1 DEF Compare, TypeOK, handler
  <2> QED BY <1>10, <2>2
          DEF Compare, TypeOK, Inside, caller, shared, history
<1>11. ASSUME NEW h \in Handlers, StoreEmpty(h) PROVE TypeOK'
  <2>1. /\ hpc' \in [Handlers -> {"idle", "store", "notify"}]
        /\ hmsg' \in [Handlers -> Responses \cup {NoResponse}]
        /\ \A g \in Handlers : hpc'[g] # "idle" => hmsg'[g] \in Responses
    BY <1>11 DEF StoreEmpty, TypeOK
  <2> QED BY <1>11, <2>1
          DEF StoreEmpty, TypeOK, Inside, caller, network, history
<1>12. ASSUME NEW h \in Handlers, Store(h) PROVE TypeOK'
  <2>1. hmsg[h] \in Responses /\ hmsg[h].id \in Nat
    BY <1>12, ResponseTypes DEF Store, TypeOK
  <2>2. /\ hpc' \in [Handlers -> {"idle", "store", "notify"}]
        /\ \A g \in Handlers : hpc'[g] # "idle" => hmsg[g] \in Responses
    BY <1>12, <2>1 DEF Store, TypeOK
  <2> QED BY <1>12, <2>1, <2>2
          DEF Store, TypeOK, Inside, caller, network
<1>13. ASSUME NEW h \in Handlers, NotifyOne(h) PROVE TypeOK'
  <2>1. signalled' \subseteq Callers
    BY <1>13 DEF NotifyOne, TypeOK
  <2>2. /\ hpc' \in [Handlers -> {"idle", "store", "notify"}]
        /\ hmsg' \in [Handlers -> Responses \cup {NoResponse}]
        /\ \A g \in Handlers : hpc'[g] # "idle" => hmsg'[g] \in Responses
    BY <1>13 DEF NotifyOne, TypeOK
  <2> QED BY <1>13, <2>1, <2>2
          DEF NotifyOne, TypeOK, Inside, caller, shared, network, history
<1>14. CASE Service
  <2>1. requests' \subseteq Nat /\ responses' \subseteq Responses
    <3>1. ASSUME NEW id \in requests, NEW body \in Bodies, Answer(id, body)
          PROVE  requests' \subseteq Nat /\ responses' \subseteq Responses
      <4>1. [id |-> id, body |-> body] \in Responses
        BY DEF TypeOK, Responses
      <4> QED BY <3>1, <4>1 DEF Answer, TypeOK
    <3>2. CASE AnswerOther
      <4>1. [id |-> Unset, body |-> "json"] \in Responses
        BY DEF Responses
      <4> QED BY <3>2, <4>1 DEF AnswerOther, TypeOK
    <3> QED BY <1>14, <3>1, <3>2 DEF Service
  <2>2. UNCHANGED <<caller, call_mutex, shared, signalled, handler, issued,
                    history>>
    BY <1>14 DEF Service, Answer, AnswerOther
  <2> QED BY <2>1, <2>2
          DEF TypeOK, Inside, caller, shared, handler, history
<1>15. CASE UNCHANGED vars
  BY <1>15 DEF vars, TypeOK, Inside, caller, shared, handler, network, history
<1> QED BY <1>1, <1>2, <1>3, <1>4, <1>5, <1>6, <1>8, <1>9, <1>10, <1>11,
           <1>12, <1>13, <1>14, <1>15 DEF Next, CallStep, HandlerStep

\* Types, and at most one thread inside Call: the one that holds call_mutex_.
THEOREM TypeCorrect == Spec => []TypeOK
<1> QED BY TypeInit, TypeStep, PTL DEF Spec

-----------------------------------------------------------------------------
(***************************************************************************)
(* Responses and calls.  A response a handler holds, or the client keeps,  *)
(* is for the call whose identity is current, unless it was overtaken; in  *)
(* the middle of ResetState, between its two halves, neither need hold.    *)
(***************************************************************************)
Clearing == \E c \in Callers : pc[c] = "clear_response"

Fresh(m) == \/ m.id = current_request_id /\ m.id # Unset
            \/ m \in overtaken
            \/ Clearing

CallInv ==
  /\ \A c \in Callers :
       /\ pc[c] \in {"publish", "wait", "asleep"} => current_request_id = req[c]
       /\ pc[c] \in {"clear_response", "stamp"} => current_request_id = Unset
  /\ \A h \in Handlers : hpc[h] = "store" => Fresh(hmsg[h])
  /\ received_response # NoResponse => Fresh(received_response)
  /\ ReturnsOwnResponse

ResponseInv == TypeOK /\ CallInv

LEMMA OneInside ==
  ASSUME TypeOK, NEW c \in Callers, NEW d \in Callers, Inside(c), Inside(d)
  PROVE  c = d
BY DEF TypeOK

LEMMA ResponseInit == Init => ResponseInv
BY TypeInit DEF ResponseInv, CallInv, ReturnsOwnResponse, Init

\* A Call that returns what was received returns its own response.
LEMMA ReturnKeeps ==
  ASSUME ResponseInv, NEW c \in Callers, pc[c] \in {"wait", "asleep"},
         NEW code, NEW m,
         m = received_response \/ m = NoResponse, Return(c, code, m)
  PROVE  CallInv'
<1>0. TypeOK /\ Inside(c)
  BY DEF ResponseInv, Inside
<1>1. ~Clearing
  BY <1>0, OneInside DEF Clearing, Inside
<1>2. /\ \A d \in Callers : pc'[d] = IF d = c THEN "idle" ELSE pc[d]
      /\ \A d \in Callers : answer'[d] = IF d = c THEN m ELSE answer[d]
  BY <1>0 DEF Return, Goto, TypeOK
<1>3. UNCHANGED <<req, current_request_id, received_response, hpc, hmsg,
                  overtaken>>
  BY DEF Return, shared, handler, history
<1>4. ~Clearing'
  BY <1>1, <1>2 DEF Clearing
<1>5. current_request_id = req[c]
  BY DEF ResponseInv, CallInv
<1>6. m # NoResponse => m.id = req[c] \/ m \in overtaken
  BY <1>1, <1>5 DEF ResponseInv, CallInv, Fresh
<1>7. ReturnsOwnResponse'
  BY <1>2, <1>3, <1>6 DEF ResponseInv, CallInv, ReturnsOwnResponse
<1> QED BY <1>1, <1>2, <1>3, <1>4, <1>7 DEF ResponseInv, CallInv, Fresh

LEMMA ResponseStep == ResponseInv /\ [Next]_vars => ResponseInv'
<1> SUFFICES ASSUME ResponseInv, [Next]_vars PROVE CallInv'
  BY TypeStep DEF ResponseInv
<1>0. TypeOK
  BY DEF ResponseInv
<1>1. ASSUME NEW c \in Callers, NEW label \in Labels, Goto(c, label),
             label \notin {"idle", "clear_response", "stamp"},
             label \in {"publish", "wait", "asleep"} =>
               pc[c] \in {"publish", "wait", "asleep"},
             pc[c] # "clear_response",
             UNCHANGED <<req, answer, current_request_id, received_response,
                         hpc, hmsg, overtaken>>
      PROVE  CallInv'
  <2>1. \A d \in Callers : pc'[d] = IF d = c THEN label ELSE pc[d]
    BY <1>0, <1>1 DEF Goto, TypeOK
  <2>2. Clearing' <=> Clearing
    BY <1>1, <2>1 DEF Clearing
  <2> QED BY <1>1, <2>1, <2>2
          DEF ResponseInv, CallInv, Fresh, ReturnsOwnResponse
<1>2. ASSUME NEW c \in Callers, StartCall(c) \/ LockCall(c) PROVE CallInv'
  BY <1>1, <1>2 DEF StartCall, LockCall, shared, handler, history
<1>3. ASSUME NEW c \in Callers, Publish(c) PROVE CallInv'
  BY <1>1, <1>3 DEF Publish, shared, handler, history
<1>4. ASSUME NEW c \in Callers, ClearId(c) PROVE CallInv'
  <2>1. \A d \in Callers : pc'[d] = IF d = c THEN "clear_response" ELSE pc[d]
    BY <1>0, <1>4 DEF ClearId, Goto, TypeOK
  <2>2. Clearing'
    BY <2>1 DEF Clearing
  <2>3. \A d \in Callers : d # c => ~Inside(d)
    BY <1>0, <1>4, OneInside DEF ClearId, Inside
  <2>4. current_request_id' = Unset
    BY <1>4 DEF ClearId
  <2>5. ReturnsOwnResponse'
    BY <1>4, <2>1 DEF ClearId, ResponseInv, CallInv, ReturnsOwnResponse,
                      history
  <2> QED BY <2>1, <2>2, <2>3, <2>4, <2>5 DEF CallInv, Fresh, Inside
<1>5. ASSUME NEW c \in Callers, ClearResponse(c) PROVE CallInv'
  <2>1. \A d \in Callers : pc'[d] = IF d = c THEN "stamp" ELSE pc[d]
    BY <1>0, <1>5 DEF ClearResponse, Goto, TypeOK
  <2>2. current_request_id = Unset /\ UNCHANGED <<current_request_id, hpc, hmsg>>
    BY <1>5 DEF ClearResponse, ResponseInv, CallInv, handler
  <2>3. \A h \in Handlers : hpc[h] = "store" => hmsg[h] \in overtaken'
    BY <1>5 DEF ClearResponse
  <2>4. received_response' = NoResponse
    BY <1>5 DEF ClearResponse
  <2>5. ReturnsOwnResponse'
    BY <1>5, <2>1 DEF ClearResponse, ResponseInv, CallInv, ReturnsOwnResponse
  <2>6. \A d \in Callers : d # c => ~Inside(d)
    BY <1>0, <1>5, OneInside DEF ClearResponse, Inside
  <2> QED BY <2>1, <2>2, <2>3, <2>4, <2>5, <2>6 DEF CallInv, Fresh, Inside
<1>6. ASSUME NEW c \in Callers, Stamp(c) PROVE CallInv'
  <2>0. Inside(c)
    BY <1>6 DEF Stamp, Inside
  <2>1. \A d \in Callers : d # c => ~Inside(d)
    BY <1>0, <2>0, OneInside
  <2>2. /\ \A d \in Callers : pc'[d] = IF d = c THEN "publish" ELSE pc[d]
        /\ \A d \in Callers : req'[d] = IF d = c THEN issued + 1 ELSE req[d]
    BY <1>0, <1>6 DEF Stamp, Goto, TypeOK
  <2>3. /\ current_request_id = Unset /\ current_request_id' = issued + 1
        /\ UNCHANGED <<answer, received_response, hpc, hmsg, overtaken>>
    BY <1>6 DEF Stamp, ResponseInv, CallInv, handler, history
  <2>4. ~Clearing
    BY <1>6, <2>1 DEF Clearing, Inside, Stamp
  <2>5. /\ \A h \in Handlers : hpc[h] = "store" => hmsg[h] \in overtaken
        /\ received_response # NoResponse => received_response \in overtaken
    BY <2>3, <2>4 DEF ResponseInv, CallInv, Fresh
  <2>6. ReturnsOwnResponse'
    BY <2>2, <2>3 DEF ResponseInv, CallInv, ReturnsOwnResponse
  <2> QED BY <2>1, <2>2, <2>3, <2>5, <2>6 DEF CallInv, Fresh, Inside
<1>7. ASSUME NEW c \in Callers, Wait(c) PROVE CallInv'
  <2>1. CASE ReturnResponse(c)
    BY <1>7, <2>1, ReturnKeeps DEF ReturnResponse, Wait
  <2>2. CASE ~ReturnResponse(c)
    BY <1>1, <1>7, <2>2 DEF Wait, shared, handler, history
  <2> QED BY <2>1, <2>2
<1>8. ASSUME NEW c \in Callers, Wake(c) \/ WakeSpuriously(c) \/ TimeOut(c)
      PROVE  CallInv'
  <2>1. CASE ReturnResponse(c) \/ Return(c, "timeout", NoResponse)
    BY <1>8, <2>1, ReturnKeeps
    DEF ReturnResponse, Wake, WakeSpuriously, TimeOut
  <2>2. CASE UNCHANGED <<caller, shared, handler, history>>
    BY <2>2 DEF ResponseInv, CallInv, Fresh, Clearing, ReturnsOwnResponse,
                caller, shared, handler, history
  <2> QED BY <1>8, <2>1, <2>2 DEF Wake, WakeSpuriously, TimeOut
<1>9. ASSUME NEW h \in Handlers, NEW m \in responses, Compare(h, m)
      PROVE  CallInv'
  <2>1. UNCHANGED <<caller, shared, overtaken>>
    BY <1>9 DEF Compare, history
  <2>2. Clearing' <=> Clearing
    BY <2>1 DEF Clearing, caller
  <2>3. \A g \in Handlers : hpc'[g] = "store" =>
          \/ hpc[g] = "store" /\ hmsg'[g] = hmsg[g]
          \/ hmsg'[g] = m /\ Expected(m)
    BY <1>0, <1>9 DEF Compare, handler, TypeOK
  <2> QED BY <2>1, <2>2, <2>3
          DEF ResponseInv, CallInv, Fresh, Expected, ReturnsOwnResponse,
              caller, shared
<1>10. ASSUME NEW h \in Handlers, StoreEmpty(h) \/ NotifyOne(h) PROVE CallInv'
  <2>1. UNCHANGED <<caller, current_request_id, received_response, overtaken>>
    BY <1>10 DEF StoreEmpty, NotifyOne, shared, history
  <2>2. Clearing' <=> Clearing
    BY <2>1 DEF Clearing, caller
  <2>3. \A g \in Handlers : hpc'[g] = "store" =>
          hpc[g] = "store" /\ hmsg'[g] = hmsg[g]
    BY <1>0, <1>10 DEF StoreEmpty, NotifyOne, TypeOK
  <2> QED BY <2>1, <2>2, <2>3
          DEF ResponseInv, CallInv, Fresh, ReturnsOwnResponse, caller
<1>11. ASSUME NEW h \in Handlers, Store(h) PROVE CallInv'
  <2>1. UNCHANGED <<caller, current_request_id, hmsg, overtaken>>
    BY <1>11 DEF Store
  <2>2. Clearing' <=> Clearing
    BY <2>1 DEF Clearing, caller
  <2>3. \A g \in Handlers : hpc'[g] = "store" => hpc[g] = "store"
    BY <1>0, <1>11 DEF Store, TypeOK
  <2>4. received_response' = hmsg[h] /\ Fresh(hmsg[h])
    BY <1>11 DEF Store, ResponseInv, CallInv
  <2> QED BY <2>1, <2>2, <2>3, <2>4
          DEF ResponseInv, CallInv, Fresh, ReturnsOwnResponse, caller
<1>12. CASE Service \/ UNCHANGED vars
  <2>1. UNCHANGED <<caller, shared, handler, history>>
    BY <1>12 DEF Service, Answer, AnswerOther, vars
  <2> QED BY <2>1 DEF ResponseInv, CallInv, Fresh, Clearing,
                      ReturnsOwnResponse, caller, shared, handler, history
<1> QED BY <1>2, <1>3, <1>4, <1>5, <1>6, <1>7, <1>8, <1>9, <1>10, <1>11,
           <1>12 DEF Next, CallStep, HandlerStep

\* A Call returns the response to its own request, or one whose handler a
\* later call overtook: for any number of threads, calls and responses.
THEOREM OwnResponse == Spec => []ReturnsOwnResponse
<1>1. ResponseInv => ReturnsOwnResponse
  BY DEF ResponseInv, CallInv
<1> QED BY <1>1, ResponseInit, ResponseStep, PTL DEF Spec

-----------------------------------------------------------------------------
(***************************************************************************)
(* Wake-ups.  Storing, testing the predicate and going to sleep are each   *)
(* one section under response_mutex_, and only one caller can be asleep.   *)
(***************************************************************************)
WakeInv == TypeOK /\ NoLostWakeup

LEMMA WakeStep == WakeInv /\ [Next]_vars => WakeInv'
<1> SUFFICES ASSUME WakeInv, [Next]_vars PROVE NoLostWakeup'
  BY TypeStep DEF WakeInv
<1>0. TypeOK
  BY DEF WakeInv
<1>1. ASSUME NEW c \in Callers, NEW label, Goto(c, label), label # "asleep",
             UNCHANGED hpc,
             response_ready' => response_ready,
             signalled' = signalled \/ signalled' = signalled \ {c}
      PROVE  NoLostWakeup'
  <2>1. \A d \in Callers : pc'[d] = IF d = c THEN label ELSE pc[d]
    BY <1>0, <1>1 DEF Goto, TypeOK
  <2> QED BY <1>1, <2>1 DEF WakeInv, NoLostWakeup
<1>2. ASSUME NEW c \in Callers,
             \/ StartCall(c) \/ LockCall(c) \/ ClearId(c)
             \/ ClearResponse(c) \/ Stamp(c) \/ Publish(c)
      PROVE  NoLostWakeup'
  BY <1>1, <1>2 DEF StartCall, LockCall, ClearId, ClearResponse, Stamp,
                    Publish, shared, handler
<1>3. ASSUME NEW c \in Callers, NEW code, NEW m, Return(c, code, m)
      PROVE  NoLostWakeup'
  BY <1>1, <1>3 DEF Return, shared, handler
<1>4. ASSUME NEW c \in Callers,
             Wait(c) \/ Wake(c) \/ WakeSpuriously(c) \/ TimeOut(c)
      PROVE  NoLostWakeup'
  <2>1. CASE ReturnResponse(c) \/ Return(c, "timeout", NoResponse)
    BY <1>3, <2>1 DEF ReturnResponse
  <2>2. CASE ~response_ready /\ UNCHANGED shared
    BY <2>2 DEF NoLostWakeup, shared
  <2> QED BY <1>4, <2>1, <2>2 DEF Wait, Wake, WakeSpuriously, TimeOut
<1>5. ASSUME NEW h \in Handlers, NEW m \in responses, Compare(h, m)
      PROVE  NoLostWakeup'
  <2>1. \A g \in Handlers : hpc[g] = "notify" => hpc'[g] = "notify"
    BY <1>0, <1>5 DEF Compare, handler, TypeOK
  <2> QED BY <1>5, <2>1 DEF WakeInv, NoLostWakeup, Compare, caller, shared
<1>6. ASSUME NEW h \in Handlers, StoreEmpty(h) PROVE NoLostWakeup'
  BY <1>6 DEF StoreEmpty, NoLostWakeup
<1>7. ASSUME NEW h \in Handlers, Store(h) PROVE NoLostWakeup'
  <2>1. hpc'[h] = "notify"
    BY <1>0, <1>7 DEF Store, TypeOK
  <2> QED BY <2>1 DEF NoLostWakeup
<1>8. ASSUME NEW h \in Handlers, NotifyOne(h) PROVE NoLostWakeup'
  <2>1. \A c \in Callers : pc[c] = "asleep" => c \in signalled'
    BY <1>0, <1>8, OneInside DEF NotifyOne, Inside
  <2> QED BY <1>8, <2>1 DEF NotifyOne, NoLostWakeup, caller
<1>9. CASE Service \/ UNCHANGED vars
  <2>1. UNCHANGED <<caller, shared, signalled, handler>>
    BY <1>9 DEF Service, Answer, AnswerOther, vars
  <2> QED BY <2>1 DEF WakeInv, NoLostWakeup, caller, shared, handler
<1> QED BY <1>2, <1>4, <1>5, <1>6, <1>7, <1>8, <1>9
        DEF Next, CallStep, HandlerStep

\* No caller sleeps beside a ready response that nobody will tell it about.
THEOREM WakeupsArrive == Spec => []NoLostWakeup
<1>1. Init => WakeInv
  BY TypeInit DEF Init, WakeInv, NoLostWakeup
<1>2. WakeInv => NoLostWakeup
  BY DEF WakeInv
<1> QED BY <1>1, <1>2, WakeStep, PTL DEF Spec

-----------------------------------------------------------------------------
(***************************************************************************)
(* Timeouts.  A request is answered once, so that the response to it is in *)
(* one place: on its way, held by one handler, or stored.  Nothing but an  *)
(* empty response of an earlier call can then undo a stored one.           *)
(***************************************************************************)
Awaits(c) == pc[c] \in {"publish", "wait", "asleep"}

Holds(h, id) == hpc[h] = "store" /\ hmsg[h].id = id

\* No response to the request id has been sent yet.
Unanswered(id) ==
  /\ id \in 1 .. issued /\ id \notin stored
  /\ \A m \in responses : m.id # id
  /\ \A h \in Handlers : ~Holds(h, id)

TokenInv ==
  /\ \A id \in requests : Unanswered(id)
  /\ \A c \in Callers : pc[c] = "publish" => Unanswered(req[c]) /\ req[c] \notin requests
  /\ \A m \in responses : m.id # Unset =>
       /\ m.id \in 1 .. issued /\ m.id \notin stored
       /\ \A n \in responses : n.id = m.id => n = m
       /\ \A h \in Handlers : ~Holds(h, m.id)
  /\ \A h \in Handlers : hpc[h] = "store" =>
       /\ hmsg[h].id \in 1 .. issued /\ hmsg[h].id \notin stored
       /\ \A g \in Handlers : Holds(g, hmsg[h].id) => g = h
  /\ stored \subseteq 1 .. issued

EmptyOvertaken == \E m \in overtaken : m.body = "empty"

StoredInv ==
  \A c \in Callers :
    Awaits(c) /\ req[c] \in stored => response_ready \/ EmptyOvertaken

HonestInv == ResponseInv /\ TokenInv /\ StoredInv

LEMMA HonestInit == Init => HonestInv
BY ResponseInit DEF Init, HonestInv, TokenInv, StoredInv, Awaits, Holds

\* A step that neither sends, handles nor answers anything.
LEMMA TokenRests ==
  ASSUME TokenInv, UNCHANGED <<req, hpc, hmsg, issued, requests, responses, stored>>,
         \A c \in Callers : pc'[c] = "publish" => pc[c] = "publish"
  PROVE  TokenInv'
BY DEF TokenInv, Unanswered, Holds

LEMMA TokenStep == HonestInv /\ [Next]_vars => TokenInv'
<1> SUFFICES ASSUME HonestInv, [Next]_vars PROVE TokenInv'
  OBVIOUS
<1>0. TypeOK /\ TokenInv /\ issued \in Nat
  BY DEF HonestInv, ResponseInv, TypeOK
<1>1. ASSUME NEW c \in Callers, NEW label, Goto(c, label), label # "publish",
             UNCHANGED <<req, hpc, hmsg, issued, requests, responses, stored>>
      PROVE  TokenInv'
  <2>1. \A d \in Callers : pc'[d] = "publish" => pc[d] = "publish"
    BY <1>0, <1>1 DEF Goto, TypeOK
  <2> QED BY <1>0, <1>1, <2>1, TokenRests
<1>2. ASSUME NEW c \in Callers,
             StartCall(c) \/ LockCall(c) \/ ClearId(c) \/ ClearResponse(c)
      PROVE  TokenInv'
  BY <1>1, <1>2 DEF StartCall, LockCall, ClearId, ClearResponse,
                    handler, network, history
<1>3. ASSUME NEW c \in Callers,
             Wait(c) \/ Wake(c) \/ WakeSpuriously(c) \/ TimeOut(c)
      PROVE  TokenInv'
  <2>1. ASSUME NEW code, NEW m, Return(c, code, m) PROVE TokenInv'
    BY <1>1, <2>1 DEF Return, handler, network, history
  <2>2. CASE Goto(c, "asleep") /\ UNCHANGED <<req, handler, issued, network, history>>
    BY <1>1, <2>2 DEF handler, network, history
  <2>3. CASE UNCHANGED <<caller, handler, issued, network, history>>
    BY <1>0, <2>3, TokenRests DEF caller, handler, network, history
  <2> QED BY <1>3, <2>1, <2>2, <2>3
          DEF Wait, Wake, WakeSpuriously, TimeOut, ReturnResponse
<1>4. ASSUME NEW c \in Callers, Stamp(c) PROVE TokenInv'
  <2>1. \A d \in Callers : d # c => pc[d] # "publish"
    BY <1>0, <1>4, OneInside DEF Stamp, Inside
  <2>2. /\ \A d \in Callers : pc'[d] = IF d = c THEN "publish" ELSE pc[d]
        /\ \A d \in Callers : req'[d] = IF d = c THEN issued + 1 ELSE req[d]
        /\ issued' = issued + 1
        /\ UNCHANGED <<hpc, hmsg, requests, responses, stored>>
    BY <1>0, <1>4 DEF Stamp, Goto, TypeOK, handler, network, history
  <2>3. \A id \in 1 .. issued : id \in 1 .. issued + 1 /\ id # issued + 1
    BY <1>0
  <2>4. issued + 1 \in 1 .. issued + 1
    BY <1>0
  <2>5. /\ \A id \in requests : Unanswered(id)'
        /\ stored' \subseteq 1 .. issued'
    BY <1>0, <2>2, <2>3 DEF TokenInv, Unanswered, Holds
  <2>6. Unanswered(req[c])' /\ req'[c] \notin requests'
    <3>1. issued + 1 \notin stored /\ issued + 1 \notin requests
      BY <1>0, <2>3 DEF TokenInv, Unanswered
    <3>2. \A m \in responses : m.id # issued + 1
      BY <1>0, <2>3 DEF TokenInv
    <3>3. \A h \in Handlers : ~Holds(h, issued + 1)
      BY <1>0, <2>3 DEF TokenInv, Holds
    <3>4. req'[c] = issued + 1
      BY <2>2
    <3> QED BY <2>2, <2>4, <3>1, <3>2, <3>3, <3>4 DEF Unanswered, Holds
  <2> QED BY <1>0, <2>1, <2>2, <2>3, <2>5, <2>6 DEF TokenInv, Holds
<1>5. ASSUME NEW c \in Callers, Publish(c) PROVE TokenInv'
  <2>1. \A d \in Callers : pc'[d] # "publish"
    <3>1. \A d \in Callers : d # c => pc[d] # "publish"
      BY <1>0, <1>5, OneInside DEF Publish, Inside
    <3> QED BY <1>0, <1>5, <3>1 DEF Publish, Goto, TypeOK
  <2>2. UNCHANGED <<req, hpc, hmsg, issued, responses, stored>>
    BY <1>5 DEF Publish, handler, history
  <2>3. \A id \in requests' : Unanswered(id)
    BY <1>0, <1>5 DEF Publish, TokenInv
  <2> QED BY <1>0, <2>1, <2>2, <2>3 DEF TokenInv, Unanswered, Holds
<1>6. ASSUME NEW h \in Handlers, NEW m \in responses, Compare(h, m) PROVE TokenInv'
  <2>1. /\ UNCHANGED <<pc, req, issued, requests, stored>>
        /\ responses' = responses \ {m}
    BY <1>6 DEF Compare, caller, history
  <2>2. CASE ~Expected(m)
    BY <1>0, <1>6, <2>1, <2>2 DEF Compare, handler, TokenInv, Unanswered, Holds
  <2>3. CASE Expected(m)
    <3>1. \A g \in Handlers :
            /\ hpc'[g] = IF g = h THEN "store" ELSE hpc[g]
            /\ hmsg'[g] = IF g = h THEN m ELSE hmsg[g]
      BY <1>0, <1>6, <2>3 DEF Compare, TypeOK
    <3>2. /\ m.id \in 1 .. issued /\ m.id \notin stored
          /\ \A n \in responses' : n.id # m.id
          /\ \A g \in Handlers : ~Holds(g, m.id)
      BY <1>0, <2>1, <2>3 DEF Expected, TokenInv
    <3>3. \A id : (\A n \in responses : n.id # id) => id # m.id
      OBVIOUS
    <3>4. \A id : Unanswered(id) => Unanswered(id)'
      BY <2>1, <3>1, <3>3 DEF Unanswered, Holds
    <3>5. /\ \A id \in requests' : Unanswered(id)'
          /\ \A c \in Callers : pc'[c] = "publish" =>
               Unanswered(req[c])' /\ req'[c] \notin requests'
          /\ stored' \subseteq 1 .. issued'
      BY <1>0, <2>1, <3>4 DEF TokenInv
    <3>6. ASSUME NEW n \in responses', n.id # Unset
          PROVE  /\ n.id \in 1 .. issued' /\ n.id \notin stored'
                 /\ \A k \in responses' : k.id = n.id => k = n
                 /\ \A g \in Handlers : ~Holds(g, n.id)'
      <4>1. n.id # m.id
        BY <3>2
      <4> QED BY <1>0, <2>1, <3>1, <3>6, <4>1 DEF TokenInv, Holds
    <3>7. ASSUME NEW g \in Handlers, hpc'[g] = "store"
          PROVE  /\ hmsg'[g].id \in 1 .. issued' /\ hmsg'[g].id \notin stored'
                 /\ \A k \in Handlers : Holds(k, hmsg[g].id)' => k = g
      BY <1>0, <2>1, <3>1, <3>2, <3>7 DEF TokenInv, Holds
    <3> QED BY <3>5, <3>6, <3>7 DEF TokenInv
  <2> QED BY <2>2, <2>3
<1>7. ASSUME NEW h \in Handlers, StoreEmpty(h) \/ NotifyOne(h) PROVE TokenInv'
  <2>1. UNCHANGED <<pc, req, issued, requests, responses, stored>>
    BY <1>7 DEF StoreEmpty, NotifyOne, caller, network, history
  <2>2. \A g \in Handlers : hpc'[g] = "store" => hpc[g] = "store" /\ hmsg'[g] = hmsg[g]
    BY <1>0, <1>7 DEF StoreEmpty, NotifyOne, TypeOK
  <2> QED BY <1>0, <2>1, <2>2 DEF TokenInv, Unanswered, Holds
<1>8. ASSUME NEW h \in Handlers, Store(h) PROVE TokenInv'
  <2>1. /\ UNCHANGED <<pc, req, issued, requests, responses, hmsg>>
        /\ stored' = stored \cup {hmsg[h].id}
    BY <1>8 DEF Store, caller, network
  <2>2. \A g \in Handlers : hpc'[g] = "store" => hpc[g] = "store" /\ g # h
    BY <1>0, <1>8 DEF Store, TypeOK
  <2>3. Holds(h, hmsg[h].id) /\ hmsg[h].id \in 1 .. issued
    BY <1>0, <1>8 DEF Store, Holds, TokenInv
  <2>4. \A id : Unanswered(id) => Unanswered(id)'
    BY <2>1, <2>2, <2>3 DEF Unanswered, Holds
  <2>5. ASSUME NEW g \in Handlers, hpc'[g] = "store" PROVE hmsg[g].id # hmsg[h].id
    BY <1>0, <1>8, <2>2, <2>5 DEF Store, TokenInv, Holds
  <2>6. \A m \in responses : m.id # Unset => m.id # hmsg[h].id
    BY <1>0, <2>3 DEF TokenInv, Holds
  <2>7. /\ \A id \in requests' : Unanswered(id)'
        /\ \A c \in Callers : pc'[c] = "publish" =>
             Unanswered(req[c])' /\ req'[c] \notin requests'
    BY <1>0, <2>1, <2>4 DEF TokenInv
  <2> QED BY <1>0, <2>1, <2>2, <2>3, <2>5, <2>6, <2>7 DEF TokenInv, Holds
<1>9. CASE Service
  <2>1. UNCHANGED <<pc, req, hpc, hmsg, issued, stored>>
    BY <1>9 DEF Service, Answer, AnswerOther, caller, handler, history
  <2>2. ASSUME NEW id \in requests, NEW body \in Bodies, Answer(id, body)
        PROVE  TokenInv'
    <3>1. /\ requests' = requests \ {id}
          /\ responses' = responses \cup {[id |-> id, body |-> body]}
      BY <2>2 DEF Answer
    <3>2. Unanswered(id)
      BY <1>0 DEF TokenInv
    <3>3. \A n : n \in responses' <=> n \in responses \/ n = [id |-> id, body |-> body]
      BY <3>1
    <3>4. \A i : Unanswered(i) /\ i # id => Unanswered(i)'
      BY <2>1, <3>3 DEF Unanswered, Holds
    <3>5. /\ \A i \in requests' : Unanswered(i)'
          /\ \A c \in Callers : pc'[c] = "publish" =>
               Unanswered(req[c])' /\ req'[c] \notin requests'
          /\ stored' \subseteq 1 .. issued'
      BY <1>0, <2>1, <3>1, <3>4 DEF TokenInv
    <3>6. ASSUME NEW n \in responses', n.id # Unset
          PROVE  /\ n.id \in 1 .. issued' /\ n.id \notin stored'
                 /\ \A k \in responses' : k.id = n.id => k = n
                 /\ \A g \in Handlers : ~Holds(g, n.id)'
      BY <1>0, <2>1, <3>2, <3>3, <3>6 DEF TokenInv, Unanswered, Holds
    <3>7. ASSUME NEW g \in Handlers, hpc'[g] = "store"
          PROVE  /\ hmsg'[g].id \in 1 .. issued' /\ hmsg'[g].id \notin stored'
                 /\ \A k \in Handlers : Holds(k, hmsg[g].id)' => k = g
      BY <1>0, <2>1, <3>7 DEF TokenInv, Holds
    <3> QED BY <3>5, <3>6, <3>7 DEF TokenInv
  <2>3. CASE AnswerOther
    <3>1. /\ requests' = requests
          /\ responses' = responses \cup {[id |-> Unset, body |-> "json"]}
      BY <2>3 DEF AnswerOther
    <3>2. \A id \in 1 .. issued : id # Unset
      BY <1>0
    <3>3. \A n \in responses' : n.id # Unset => n \in responses
      BY <3>1
    <3>4. \A id : Unanswered(id) => Unanswered(id)'
      BY <2>1, <3>1, <3>2 DEF Unanswered, Holds
    <3>5. /\ \A i \in requests' : Unanswered(i)'
          /\ \A c \in Callers : pc'[c] = "publish" =>
               Unanswered(req[c])' /\ req'[c] \notin requests'
          /\ stored' \subseteq 1 .. issued'
      BY <1>0, <2>1, <3>1, <3>4 DEF TokenInv
    <3>6. ASSUME NEW n \in responses', n.id # Unset
          PROVE  /\ n.id \in 1 .. issued' /\ n.id \notin stored'
                 /\ \A k \in responses' : k.id = n.id => k = n
                 /\ \A g \in Handlers : ~Holds(g, n.id)'
      BY <1>0, <2>1, <3>3, <3>6 DEF TokenInv, Holds
    <3>7. ASSUME NEW g \in Handlers, hpc'[g] = "store"
          PROVE  /\ hmsg'[g].id \in 1 .. issued' /\ hmsg'[g].id \notin stored'
                 /\ \A k \in Handlers : Holds(k, hmsg[g].id)' => k = g
      BY <1>0, <2>1, <3>7 DEF TokenInv, Holds
    <3> QED BY <3>5, <3>6, <3>7 DEF TokenInv
  <2> QED BY <1>9, <2>2, <2>3 DEF Service
<1>10. CASE UNCHANGED vars
  BY <1>0, <1>10, TokenRests DEF vars, caller, handler, network, history
<1> QED BY <1>2, <1>3, <1>4, <1>5, <1>6, <1>7, <1>8, <1>9, <1>10
        DEF Next, CallStep, HandlerStep

LEMMA StoredStep == HonestInv /\ [Next]_vars => StoredInv'
<1> SUFFICES ASSUME HonestInv, [Next]_vars PROVE StoredInv'
  OBVIOUS
<1>0. TypeOK /\ TokenInv /\ StoredInv /\ CallInv /\ issued \in Nat
  BY DEF HonestInv, ResponseInv, TypeOK
<1>1. ASSUME \A c \in Callers : Awaits(c)' => Awaits(c),
             UNCHANGED <<req, response_ready, overtaken, stored>>
      PROVE  StoredInv'
  BY <1>0, <1>1 DEF StoredInv, EmptyOvertaken
<1>2. ASSUME NEW c \in Callers, NEW label, Goto(c, label),
             label \in {"publish", "wait", "asleep"} => Awaits(c),
             UNCHANGED <<req, response_ready, overtaken, stored>>
      PROVE  StoredInv'
  <2>1. \A d \in Callers : Awaits(d)' => Awaits(d)
    BY <1>0, <1>2 DEF Goto, TypeOK, Awaits
  <2> QED BY <1>1, <1>2, <2>1
<1>3. ASSUME NEW c \in Callers,
             StartCall(c) \/ LockCall(c) \/ ClearId(c) \/ Publish(c)
      PROVE  StoredInv'
  BY <1>2, <1>3 DEF StartCall, LockCall, ClearId, Publish, Awaits, shared, history
<1>4. ASSUME NEW c \in Callers, ClearResponse(c) \/ Stamp(c) PROVE StoredInv'
  <2>1. \A d \in Callers : d # c => ~Awaits(d)
    BY <1>0, <1>4, OneInside DEF ClearResponse, Stamp, Inside, Awaits
  <2>2. CASE ClearResponse(c)
    <3>1. \A d \in Callers : ~Awaits(d)'
      BY <1>0, <2>1, <2>2 DEF ClearResponse, Goto, TypeOK, Awaits
    <3> QED BY <3>1 DEF StoredInv
  <2>3. CASE Stamp(c)
    <3>1. /\ \A d \in Callers : d # c => ~Awaits(d)'
          /\ req'[c] = issued + 1 /\ stored' = stored
      BY <1>0, <2>1, <2>3 DEF Stamp, Goto, TypeOK, Awaits, history
    <3>2. issued + 1 \notin stored
      BY <1>0 DEF TokenInv
    <3> QED BY <3>1, <3>2 DEF StoredInv
  <2> QED BY <1>4, <2>2, <2>3
<1>5. ASSUME NEW c \in Callers,
             Wait(c) \/ Wake(c) \/ WakeSpuriously(c) \/ TimeOut(c)
      PROVE  StoredInv'
  <2>1. ASSUME NEW code, NEW m, Return(c, code, m) PROVE StoredInv'
    BY <1>2, <2>1 DEF Return, shared, history
  <2>2. CASE Goto(c, "asleep") /\ Awaits(c) /\ UNCHANGED <<req, shared, history>>
    BY <1>2, <2>2 DEF shared, history
  <2>3. CASE UNCHANGED <<caller, shared, history>>
    BY <1>1, <2>3 DEF caller, shared, history, Awaits
  <2> QED BY <1>5, <2>1, <2>2, <2>3
          DEF Wait, Wake, WakeSpuriously, TimeOut, ReturnResponse, Awaits
<1>6. ASSUME NEW h \in Handlers, StoreEmpty(h) PROVE StoredInv'
  <2>1. UNCHANGED <<caller, stored, overtaken>>
    BY <1>6 DEF StoreEmpty, history
  <2>2. ASSUME NEW c \in Callers, Awaits(c), req[c] \in stored PROVE EmptyOvertaken
    <3>1. ~Clearing /\ current_request_id = req[c]
      BY <1>0, <2>2, OneInside DEF Clearing, Awaits, Inside, CallInv
    <3>2. hmsg[h].id \notin stored
      BY <1>0, <1>6 DEF StoreEmpty, TokenInv
    <3>3. hmsg[h] \in overtaken
      BY <1>0, <1>6, <2>2, <3>1, <3>2 DEF StoreEmpty, CallInv, Fresh
    <3> QED BY <1>6, <3>3 DEF StoreEmpty, EmptyOvertaken
  <2> QED BY <2>1, <2>2 DEF StoredInv, EmptyOvertaken, Awaits, caller
<1>7. ASSUME NEW h \in Handlers, Store(h) PROVE StoredInv'
  BY <1>7 DEF Store, StoredInv
<1>8. ASSUME NEW h \in Handlers, NEW m \in responses, Compare(h, m) PROVE StoredInv'
  BY <1>1, <1>8 DEF Compare, caller, shared, history, Awaits
<1>9. ASSUME NEW h \in Handlers, NotifyOne(h) PROVE StoredInv'
  BY <1>1, <1>9 DEF NotifyOne, caller, shared, history, Awaits
<1>10. CASE Service \/ UNCHANGED vars
  <2>1. UNCHANGED <<caller, shared, history>>
    BY <1>10 DEF Service, Answer, AnswerOther, vars
  <2> QED BY <1>1, <2>1 DEF caller, shared, history, Awaits
<1> QED BY <1>3, <1>4, <1>5, <1>6, <1>7, <1>8, <1>9, <1>10
        DEF Next, CallStep, HandlerStep

\* A Call reports a timeout in spite of a stored response only if an empty
\* response to an earlier call was overtaken and undid it, for any number of
\* threads, calls and responses.
THEOREM TimeoutsAreHonest == Spec => HonestTimeout
<1>1. HonestInv /\ [Next]_vars => HonestInv'
  BY ResponseStep, TokenStep, StoredStep DEF HonestInv
<1>2. ASSUME HonestInv, [Next]_vars, NEW c \in Callers, pc[c] = "asleep",
             pc'[c] = "idle", result'[c] = "timeout", req[c] \in stored
      PROVE  \E m \in overtaken : m.body = "empty"
  <2>0. TypeOK /\ StoredInv
    BY <1>2 DEF HonestInv, ResponseInv
  <2>1. SUFFICES ~response_ready
    BY <1>2, <2>0, <2>1 DEF StoredInv, Awaits, EmptyOvertaken
  <2>2. ASSUME NEW d \in Callers, ReturnResponse(d) PROVE ~response_ready
    <3>1. Outcome # "timeout"
      BY DEF Outcome
    <3>2. d # c
      BY <1>2, <2>0, <2>2, <3>1 DEF ReturnResponse, Return, TypeOK
    <3> QED BY <1>2, <2>0, <2>2, <3>2 DEF ReturnResponse, Return, Goto, TypeOK
  <2>3. ASSUME NEW d \in Callers, StartCall(d) \/ CallStep(d), ~ReturnResponse(d)
        PROVE  FALSE
    BY <1>2, <2>0, <2>3
    DEF StartCall, CallStep, LockCall, ClearId, ClearResponse, Stamp, Publish,
        Wait, Wake, Goto, TypeOK, caller
  <2>4. ASSUME NEW d \in Callers, TimeOut(d), ~ReturnResponse(d) PROVE ~response_ready
    BY <2>4 DEF TimeOut
  <2>5. CASE (\E h \in Handlers : HandlerStep(h)) \/ Service \/ UNCHANGED vars
    <3>1. pc' = pc
      BY <2>5 DEF HandlerStep, Compare, StoreEmpty, Store, NotifyOne, Service,
                  Answer, AnswerOther, vars, caller
    <3> QED BY <1>2, <3>1
  <2> QED BY <1>2, <2>2, <2>3, <2>4, <2>5 DEF Next, WakeSpuriously
<1>3. HonestInv /\ [Next]_vars =>
        [ \A c \in Callers :
            pc[c] = "asleep" /\ pc'[c] = "idle" /\ result'[c] = "timeout"
            /\ req[c] \in stored
              => \E m \in overtaken : m.body = "empty" ]_vars
  BY <1>2
<1> QED BY <1>1, <1>3, HonestInit, PTL DEF Spec, HonestTimeout

-----------------------------------------------------------------------------
(***************************************************************************)
(* The clients of the other parts: what CallBySubscriptionProofs proves    *)
(* for any callers holds for those of the instances, too, each of which    *)
(* makes the steps of its own.                                             *)
(***************************************************************************)
SportProofs == INSTANCE CallBySubscriptionProofs
  WITH pc <- at, Callers <- {"thread", "callback"}, InCallback <- {"callback"},
       Apis <- {"get", "set"}, ById <- FALSE, Timed <- FALSE, MaxRequests <- 3

BaseProofs == INSTANCE CallBySubscriptionProofs
  WITH pc <- at, Callers <- {"thread", "callback"}, InCallback <- {"callback"},
       Apis <- {"get"}, ById <- TRUE, Timed <- TRUE, MaxRequests <- 2

\* The part "base" tells responses apart by identity, the others by api_id.
CallsInv ==
  IF part = "base" THEN BaseProofs!UnmixedInv /\ BaseProofs!StarvesInv
  ELSE SportProofs!UnmixedInv /\ SportProofs!StarvesInv

LEMMA SportSteps == [Sport!Next]_callVars => [SportProofs!Next]_(SportProofs!vars)
BY DEF callVars, SportProofs!vars, Sport!vars, Sport!Next, SportProofs!Next,
       Sport!NoMessage, SportProofs!NoMessage, Sport!NotRunning, SportProofs!NotRunning,
       Sport!call, SportProofs!call, Sport!topics, SportProofs!topics,
       Sport!history, SportProofs!history, Sport!Subscribed, SportProofs!Subscribed,
       Sport!Matches, SportProofs!Matches, Sport!Alike, SportProofs!Alike,
       Sport!UnderWay, SportProofs!UnderWay, Sport!Note, SportProofs!Note,
       Sport!ExecutorFree, SportProofs!ExecutorFree, Sport!Subscribe, SportProofs!Subscribe,
       Sport!PublishRequest, SportProofs!PublishRequest,
       Sport!GetResponse, SportProofs!GetResponse, Sport!Return, SportProofs!Return,
       Sport!TimeOut, SportProofs!TimeOut, Sport!Take, SportProofs!Take,
       Sport!RunCallback, SportProofs!RunCallback,
       Sport!SetReportFreq, SportProofs!SetReportFreq, Sport!Answer, SportProofs!Answer,
       Sport!CallStep, SportProofs!CallStep, Sport!ExecutorStep, SportProofs!ExecutorStep

LEMMA BaseSteps == [Base!Next]_callVars => [BaseProofs!Next]_(BaseProofs!vars)
BY DEF callVars, BaseProofs!vars, Base!vars, Base!Next, BaseProofs!Next,
       Base!NoMessage, BaseProofs!NoMessage, Base!NotRunning, BaseProofs!NotRunning,
       Base!call, BaseProofs!call, Base!topics, BaseProofs!topics,
       Base!history, BaseProofs!history, Base!Subscribed, BaseProofs!Subscribed,
       Base!Matches, BaseProofs!Matches, Base!Alike, BaseProofs!Alike,
       Base!UnderWay, BaseProofs!UnderWay, Base!Note, BaseProofs!Note,
       Base!ExecutorFree, BaseProofs!ExecutorFree, Base!Subscribe, BaseProofs!Subscribe,
       Base!PublishRequest, BaseProofs!PublishRequest,
       Base!GetResponse, BaseProofs!GetResponse, Base!Return, BaseProofs!Return,
       Base!TimeOut, BaseProofs!TimeOut, Base!Take, BaseProofs!Take,
       Base!RunCallback, BaseProofs!RunCallback,
       Base!SetReportFreq, BaseProofs!SetReportFreq, Base!Answer, BaseProofs!Answer,
       Base!CallStep, BaseProofs!CallStep, Base!ExecutorStep, BaseProofs!ExecutorStep

\* Of the client of these proofs, every part makes the steps, or none.
LEMMA PartIsClient == PartSpec => Spec
<1>1. PartInit => Init
  BY DEF PartInit
<1>2. [PartNext]_allVars => [Next]_vars
  BY DEF PartNext, allVars
<1> QED BY <1>1, <1>2, PTL DEF PartSpec, Spec

LEMMA CallsStart == PartInit => CallsInv
<1> SUFFICES ASSUME PartInit PROVE CallsInv
  OBVIOUS
<1>1. SportProofs!Init /\ BaseProofs!Init
  BY DEF PartInit, Sport!Init, SportProofs!Init, BaseProofs!Init,
         Sport!NoMessage, SportProofs!NoMessage, BaseProofs!NoMessage,
         Sport!NotRunning, SportProofs!NotRunning, BaseProofs!NotRunning
<1>2. {"callback"} \subseteq {"thread", "callback"}
  OBVIOUS
<1> QED BY <1>1, <1>2, SportProofs!UnmixedInit, SportProofs!StarvesInit,
           BaseProofs!UnmixedInit, BaseProofs!StarvesInit DEF CallsInv

LEMMA CallsKeep == CallsInv /\ [PartNext]_allVars => CallsInv'
<1> SUFFICES ASSUME CallsInv, [PartNext]_allVars PROVE CallsInv'
  OBVIOUS
<1>1. "none" \notin {"thread", "callback"} /\ {"callback"} \subseteq {"thread", "callback"}
  OBVIOUS
<1>2. part' = part
  BY DEF PartNext, allVars
<1>3. CASE part = "base"
  <2>1. [BaseProofs!Next]_(BaseProofs!vars)
    BY <1>3, BaseSteps DEF PartNext, allVars
  <2> QED BY <1>1, <1>2, <1>3, <2>1, BaseProofs!UnmixedStep, BaseProofs!StarvesStep
          DEF CallsInv
<1>4. CASE part # "base"
  <2>1. [SportProofs!Next]_(SportProofs!vars)
    BY <1>4, SportSteps DEF PartNext, allVars
  <2> QED BY <1>1, <1>2, <1>4, <2>1, SportProofs!UnmixedStep, SportProofs!StarvesStep
          DEF CallsInv
<1> QED BY <1>3, <1>4

LEMMA CallsKept == PartSpec => []CallsInv
BY CallsStart, CallsKeep, PTL DEF PartSpec

\* In every part of the run, requests that can be told apart are not mixed up.
THEOREM PartsUnmixed == PartSpec => []SeparateCallsUnmixed
<1>1. CallsInv => SeparateCallsUnmixed
  BY DEF CallsInv, SeparateCallsUnmixed, Sport!SeparateCallsUnmixed,
         SportProofs!UnmixedInv, SportProofs!SeparateCallsUnmixed,
         BaseProofs!UnmixedInv, BaseProofs!SeparateCallsUnmixed
<1> QED BY <1>1, CallsKept, PTL

\* In every part of the run, a Call from a callback never gets its response.
THEOREM PartsStarve == PartSpec => []CallbackCallStarves
<1>1. CallsInv => CallbackCallStarves
  BY DEF CallsInv, CallbackCallStarves, Sport!CallbackCallStarves,
         SportProofs!StarvesInv, BaseProofs!StarvesInv
<1> QED BY <1>1, CallsKept, PTL

-----------------------------------------------------------------------------
(***************************************************************************)
(* B2Lifecycle: who has slept for the service, or had a response, has an   *)
(* executor that is past the start of spin(), and nothing but cancel()     *)
(* touches its flag after that.                                            *)
(***************************************************************************)
LifeType ==
  /\ main \in {"new", "waiting", "ready", "joining", "destroyed"}
  /\ attempts \in Nat
  /\ spinner \in {"none", "starting", "spinning", "stopped"}
  /\ spinning \in BOOLEAN /\ handled \in BOOLEAN

LifeInv ==
  /\ LifeType
  /\ main = "new" <=> spinner = "none"
  /\ attempts > 0 \/ handled => spinner \in {"spinning", "stopped"}
  /\ Life!CancelHeard

LEMMA LifeStart == Life!Init => LifeInv
<1> SUFFICES ASSUME Life!Init PROVE LifeInv
  OBVIOUS
<1>1. main = "new" /\ attempts = 0 /\ spinner = "none" /\ spinning = FALSE /\ handled = FALSE
  BY DEF Life!Init
<1>2. LifeType
  BY <1>1 DEF LifeType
<1>3. ~ handled /\ ~ (attempts > 0)
  BY <1>1
<1> QED BY <1>1, <1>2, <1>3 DEF LifeInv, Life!CancelHeard

LEMMA LifeKeeps == LifeInv /\ [Life!Next]_lifeVars => LifeInv'
<1> SUFFICES ASSUME LifeInv, [Life!Next]_lifeVars PROVE LifeInv'
  OBVIOUS
<1> USE DEF LifeInv, LifeType, Life!CancelHeard
<1>1. CASE Life!OwnerStep
  BY <1>1 DEF Life!OwnerStep, Life!InitRosComm, Life!Connected, Life!Sleep, Life!Join
<1>2. CASE Life!Cancel
  BY <1>2 DEF Life!Cancel
<1>3. CASE Life!ThreadStep
  <2>1. CASE Life!Spin
    BY <2>1 DEF Life!Spin
  <2>2. CASE Life!Stop
    BY <2>2 DEF Life!Stop
  <2> QED BY <1>3, <2>1, <2>2 DEF Life!ThreadStep
<1>4. CASE Life!Handle
  <2>1. /\ main' = main /\ attempts' = attempts /\ spinner' = spinner
        /\ spinning' = spinning /\ spinner = "spinning"
    BY <1>4 DEF Life!Handle
  <2>2. handled' = (handled \/ main # "joining")
    BY <1>4 DEF Life!Handle
  <2>3. handled' \in BOOLEAN /\ (main = "joining" /\ handled' => handled)
    BY <2>2, Zenon
  <2> QED BY <2>1, <2>3
<1>5. CASE Life!Discover \/ UNCHANGED lifeVars
  BY <1>5 DEF Life!Discover, lifeVars
<1> QED BY <1>1, <1>2, <1>3, <1>4, <1>5 DEF Life!Next

\* The destructor does not wait for ever: if the client had slept for its service
\* or had a response, cancel() came after spin() had begun, and the flag stays down.
THEOREM DestructorIsHeard == PartSpec => []Life!CancelHeard
<1>1. PartInit => LifeInv
  BY LifeStart DEF PartInit
<1>2. LifeInv /\ [PartNext]_allVars => LifeInv'
  <2>1. [PartNext]_allVars => [Life!Next]_lifeVars
    BY DEF PartNext, allVars, lifeVars
  <2> QED BY <2>1, LifeKeeps
<1>3. LifeInv => Life!CancelHeard
  BY DEF LifeInv
<1> QED BY <1>1, <1>2, <1>3, PTL DEF PartSpec

=============================================================================
