--------------------------- MODULE GoRouterProofs ---------------------------
(***************************************************************************)
(* What holds of the Go router for any callers, any capacity of            *)
(* requestChan and any number of requests.                                 *)
(***************************************************************************)
EXTENDS GoRouter, TLAPS

USE GoRouterAssumption DEF RequestIds

-----------------------------------------------------------------------------
(* Type correctness.                                                       *)

\* Everything the actions of router.go write is of its type; in particular the
\* request sent through a channel with room does not overfill it.
LEMMA TypeStep ==
  ASSUME TypeOK, [Next]_vars
  PROVE  TypeOK'
<1> USE DEF TypeOK
<1>1. ASSUME NEW g \in Routines, Call(g) PROVE TypeOK'
  BY <1>1 DEF Call, waiterVars, chanVars, workVars, pipeVars
<1>2. ASSUME NEW g \in Routines, Send(g) PROVE TypeOK'
  BY <1>2 DEF Send, HasRoom, waiterVars, workVars, pipeVars
<1>3. CASE Close
  BY <1>3 DEF Close, waiterVars, callVars, workVars, pipeVars
<1>4. CASE SelectWaitResponse
  BY <1>4 DEF SelectWaitResponse, Receive, callVars, chanVars, pipeVars
<1>5. CASE SelectRequest
  <2>1. requestChan' \in Seq(RequestIds) /\ Len(requestChan') <= RequestCap
    BY <1>5 DEF SelectRequest
  <2>2. Head(requestChan) \in RequestIds
    BY <1>5 DEF SelectRequest
  <2>3. /\ responders' \subseteq RequestIds
        /\ atPeer' \subseteq RequestIds
        /\ at' \in {"read", "stop"}
    BY <1>5, <2>2 DEF SelectRequest
  <2> QED
    BY <1>5, <2>1, <2>3 DEF SelectRequest, waiterVars, callVars
<1>6. CASE SelectDone
  BY <1>6 DEF SelectDone, waiterVars, callVars, chanVars, pipeVars
<1>7. CASE ReadNothingToDo
  BY <1>7 DEF ReadNothingToDo, waiterVars, callVars, chanVars, pipeVars
<1>8. CASE Dispatch
  <2>1. inbox' \in Seq(RequestIds)
    BY <1>8 DEF Dispatch
  <2>2. response' \in [RequestIds -> {"none", "ok", "error"}]
    BY <1>8 DEF Dispatch
  <2> QED
    BY <1>8, <2>1, <2>2 DEF Dispatch, Forget, AfterDispatch, callVars, chanVars
<1>9. CASE ShouldWait
  BY <1>9 DEF ShouldWait, AsyncWait, callVars, chanVars, pipeVars
<1>10. CASE ReadFails
  BY <1>10 DEF ReadFails, waiterVars, callVars, chanVars, pipeVars
<1>11. CASE ParseFails
  BY <1>11 DEF ParseFails, callVars, chanVars
<1>12. CASE CancelIfWaiting
  BY <1>12 DEF CancelIfWaiting, CancelWait, waiterVars, callVars, chanVars,
               pipeVars
<1>13. CASE FailPending
  <2>1. response' \in [RequestIds -> {"none", "ok", "error"}]
    BY <1>13 DEF FailPending
  <2> QED
    BY <1>13, <2>1 DEF FailPending, DrainStart, waiterVars, callVars, chanVars,
                       pipeVars
<1>14. CASE CloseHandle
  BY <1>14 DEF CloseHandle, callVars, pipeVars
<1>15. CASE Drain
  <2>1. requestChan' \in Seq(RequestIds) /\ Len(requestChan') <= RequestCap
    BY <1>15 DEF Drain
  <2>2. /\ response' \in [RequestIds -> {"none", "ok", "error"}]
        /\ drain' \in {"running", "blocked"}
    BY <1>15 DEF Drain
  <2> QED
    BY <1>15, <2>1, <2>2 DEF Drain, waiterVars, callVars, pipeVars
<1>16. CASE DrainEnds
  BY <1>16 DEF DrainEnds, waiterVars, callVars, chanVars, pipeVars
<1>17. CASE WaiterAnswers
  BY <1>17 DEF WaiterAnswers, Answer, callVars, chanVars, workVars, pipeVars
<1>18. ASSUME NEW n \in RequestIds, PeerResponds(n) PROVE TypeOK'
  BY <1>18 DEF PeerResponds, callVars, chanVars, workVars
<1>19. CASE PeerCloses
  BY <1>19 DEF PeerCloses, callVars, chanVars, workVars
<1>20. CASE UNCHANGED vars
  BY <1>20 DEF vars, waiterVars, callVars, chanVars, workVars, pipeVars
<1> QED
  BY <1>1, <1>2, <1>3, <1>4, <1>5, <1>6, <1>7, <1>8, <1>9, <1>10, <1>11, <1>12,
     <1>13, <1>14, <1>15, <1>16, <1>17, <1>18, <1>19, <1>20
  DEF Next, WorkerStep, DrainStep

\* NewRouter() starts in a state of the right type.
LEMMA InitTypeOK == Init => TypeOK
<1> SUFFICES ASSUME Init PROVE TypeOK
  OBVIOUS
<1>1. waiting \in [Callers -> BOOLEAN]
  BY DEF Init, WaiterInit
<1>2. response \in [RequestIds -> {"none", "ok", "error"}]
  BY DEF Init
<1>3. sending \in [Routines -> 0 .. MaxRequests]
  BY DEF Init
<1>4. /\ requestChan \in Seq(RequestIds) /\ Len(requestChan) <= RequestCap
      /\ inbox \in Seq(RequestIds)
  BY DEF Init
<1>5. made \in 0 .. MaxRequests
  BY DEF Init
<1> HIDE DEF RequestIds
<1> QED
  BY <1>1, <1>2, <1>3, <1>4, <1>5, Zenon DEF Init, TypeOK

\* The router keeps every variable in its type: the buffered channel never
\* holds more than its capacity, whoever sends.
THEOREM TypeCorrect == Spec => []TypeOK
BY InitTypeOK, TypeStep, PTL DEF Spec

-----------------------------------------------------------------------------
(* The inductive invariant, one lemma per conjunct.                        *)

\* runWorker() fails the pending requests, starts the draining goroutine and
\* closes handle and channel in this order, once.
LEMMA PhasesStep ==
  ASSUME TypeOK, Phases, [Next]_vars
  PROVE  Phases'
<1> USE DEF TypeOK, Phases
<1>1. ASSUME NEW g \in Routines, Call(g) \/ Send(g) PROVE Phases'
  BY <1>1 DEF Call, Send, chanVars, workVars
<1>2. CASE Close \/ WaiterAnswers \/ PeerCloses
  <2>1. UNCHANGED <<at, drain, chanClosed, handleOpen>>
    BY <1>2 DEF Close, WaiterAnswers, PeerCloses, chanVars, workVars
  <2> QED
    BY <2>1
<1>3. CASE SelectWaitResponse \/ SelectRequest \/ SelectDone
  BY <1>3 DEF SelectWaitResponse, SelectRequest, SelectDone, chanVars
<1>4. CASE \/ ReadNothingToDo \/ Dispatch \/ ShouldWait \/ ReadFails
           \/ ParseFails
  BY <1>4 DEF ReadNothingToDo, Dispatch, AfterDispatch, ShouldWait, ReadFails,
              ParseFails, chanVars
<1>5. CASE CancelIfWaiting \/ FailPending
  BY <1>5 DEF CancelIfWaiting, FailPending, DrainStart, chanVars
<1>6. CASE CloseHandle
  BY <1>6 DEF CloseHandle
<1>7. CASE Drain \/ DrainEnds
  BY <1>7 DEF Drain, DrainEnds, chanVars
<1>8. ASSUME NEW n \in RequestIds, PeerResponds(n) PROVE Phases'
  BY <1>8 DEF PeerResponds, chanVars, workVars
<1>9. CASE UNCHANGED vars
  BY <1>9 DEF vars, chanVars, workVars
<1> QED
  BY <1>1, <1>2, <1>3, <1>4, <1>5, <1>6, <1>7, <1>8, <1>9
  DEF Next, WorkerStep, DrainStep

\* Accept() and AcceptWithResponse() send with the mutex, which the worker
\* takes before it closes the handle.
LEMMA SendersLockedStep ==
  ASSUME TypeOK, SendersLocked, [Next]_vars
  PROVE  SendersLocked'
<1> USE DEF TypeOK, SendersLocked
<1>1. ASSUME NEW g \in Routines, Call(g) PROVE SendersLocked'
  BY <1>1 DEF Call, chanVars
<1>2. ASSUME NEW g \in Routines, Send(g) PROVE SendersLocked'
  BY <1>2 DEF Send
<1>3. CASE CloseHandle
  BY <1>3 DEF CloseHandle, MutexFree, callVars
<1>4. CASE UNCHANGED <<sending, mu, handleOpen>>
  BY <1>4
<1>5. ASSUME Next, ~CloseHandle,
             \A g \in Routines : ~Call(g) /\ ~Send(g)
      PROVE  UNCHANGED <<sending, mu, handleOpen>>
  BY <1>5 DEF Next, WorkerStep, DrainStep, Close, WaiterAnswers, PeerCloses,
       PeerResponds, SelectWaitResponse, SelectRequest, SelectDone,
       ReadNothingToDo, Dispatch, ShouldWait, ReadFails, ParseFails,
       CancelIfWaiting, FailPending, Drain, DrainEnds, callVars, chanVars
<1> QED
  BY <1>1, <1>2, <1>3, <1>4, <1>5 DEF vars, callVars, chanVars

\* readAndDispatchOutstandingMessages() leaves the worker waiting on the pipe
\* whenever it returns with responders left.
LEMMA WaitsForResponsesStep ==
  ASSUME TypeOK, WaitsForResponses, [Next]_vars
  PROVE  WaitsForResponses'
<1> USE DEF TypeOK, WaitsForResponses
<1>1. CASE ReadNothingToDo
  BY <1>1 DEF ReadNothingToDo, waiterVars
<1>2. CASE ShouldWait
  BY <1>2 DEF ShouldWait, AsyncWait
<1>3. CASE WaiterAnswers
  BY <1>3 DEF WaiterAnswers, Answer, workVars
<1>4. CASE UNCHANGED <<at, responders, waiting>>
  BY <1>4
<1>5. CASE at' # "select"
  BY <1>5
<1>6. ASSUME WorkerStep, ~ReadNothingToDo, ~ShouldWait
      PROVE  at' # "select"
  BY <1>6 DEF WorkerStep, SelectWaitResponse, SelectRequest, SelectDone,
       Dispatch, AfterDispatch, ReadFails, ParseFails, CancelIfWaiting,
       FailPending, CloseHandle
<1>7. ASSUME Next, ~WorkerStep, ~WaiterAnswers
      PROVE  UNCHANGED <<at, responders, waiting>>
  BY <1>7 DEF Next, DrainStep, Close, PeerCloses, PeerResponds, Call, Send,
       Drain, DrainEnds, workVars, waiterVars
<1> QED
  BY <1>1, <1>2, <1>3, <1>4, <1>5, <1>6, <1>7 DEF vars, workVars, waiterVars

\* Receiving from a channel or reading from the pipe shifts what is left.
LEMMA TailElements ==
  ASSUME NEW S, NEW s \in Seq(S), s # <<>>
  PROVE  /\ Len(s) \in Nat /\ Len(s) >= 1
         /\ Len(Tail(s)) = Len(s) - 1
         /\ \A i \in 1 .. Len(Tail(s)) : i + 1 \in 1 .. Len(s)
         /\ \A i \in 1 .. Len(Tail(s)) : Tail(s)[i] = s[i + 1]
  OBVIOUS

\* Sending to a channel or writing to the pipe leaves what is there in place.
LEMMA AppendElements ==
  ASSUME NEW S, NEW s \in Seq(S), NEW e \in S
  PROVE  \A i \in 1 .. Len(Append(s, e)) :
           \/ i \in 1 .. Len(s) /\ Append(s, e)[i] = s[i]
           \/ i = Len(s) + 1 /\ Append(s, e)[i] = e
  OBVIOUS

\* Until the worker stops, a request is in one place only: with its caller, in
\* the channel, or with the worker and the peer.
LEMMA InOnePlaceStep ==
  ASSUME Inv, [Next]_vars, drain' = "none"
  PROVE  InOnePlace'
<1> USE DEF Inv, TypeOK
<1>1. drain = "none" /\ InOnePlace
  <2>1. CASE FailPending
    BY <2>1 DEF FailPending, DrainStart
  <2>2. CASE Drain \/ DrainEnds
    BY <2>2 DEF Drain, DrainEnds
  <2>3. ASSUME Next, ~FailPending, ~Drain, ~DrainEnds
        PROVE  UNCHANGED drain
    BY <2>3 DEF Next, WorkerStep, DrainStep, Close, WaiterAnswers, PeerCloses,
         PeerResponds, Call, Send, SelectWaitResponse, SelectRequest, SelectDone,
         ReadNothingToDo, Dispatch, ShouldWait, ReadFails, ParseFails,
         CancelIfWaiting, CloseHandle, workVars
  <2> QED
    BY <2>1, <2>2, <2>3 DEF vars, workVars
<1>2. ASSUME NEW g \in Routines, Call(g) PROVE InOnePlace'
  <2>1. handleOpen
    BY <1>1 DEF Phases
  <2>2. /\ made' = made + 1
        /\ sending' = [sending EXCEPT ![g] = made + 1]
        /\ UNCHANGED <<requestChan, responders, response, atPeer, inbox>>
    BY <1>2, <2>1 DEF Call, chanVars, workVars, pipeVars
  <2>3. Fresh \subseteq Fresh'
    BY <2>2 DEF Fresh
  <2>4. made + 1 \in Fresh'
    BY <1>1, <1>2, <2>2 DEF Fresh, InOnePlace, Call
  <2>5. \A i \in 1 .. Len(requestChan) : requestChan[i] # made + 1
    BY <1>1 DEF InOnePlace, Fresh
  <2>6. \A h \in Routines :
          sending'[h] # 0 => /\ sending'[h] \in Fresh'
                             /\ \A i \in 1 .. Len(requestChan) :
                                  requestChan[i] # sending'[h]
    BY <1>1, <2>2, <2>3, <2>4, <2>5 DEF InOnePlace
  <2>7. \A i \in 1 .. Len(requestChan) : requestChan[i] \in Fresh'
    BY <1>1, <2>3 DEF InOnePlace
  <2> QED
    BY <1>1, <2>2, <2>6, <2>7 DEF InOnePlace
<1>3. ASSUME NEW g \in Routines, Send(g) PROVE InOnePlace'
  <2>1. /\ requestChan' = Append(requestChan, sending[g])
        /\ sending' = [sending EXCEPT ![g] = 0]
        /\ UNCHANGED <<made, responders, response, atPeer, inbox>>
    BY <1>3 DEF Send, workVars, pipeVars
  <2>2. sending[g] # 0 /\ sending[g] \in RequestIds /\ mu = g
    BY <1>3 DEF Send, SendersLocked
  <2>3. \A h \in Routines : sending'[h] = 0
    BY <2>1, <2>2 DEF SendersLocked
  <2>4. Fresh \subseteq Fresh'
    BY <2>1 DEF Fresh
  <2>5. \A i \in 1 .. Len(requestChan') :
          \/ i \in 1 .. Len(requestChan) /\ requestChan'[i] = requestChan[i]
          \/ i = Len(requestChan) + 1 /\ requestChan'[i] = sending[g]
    BY <2>1, <2>2, AppendElements
  <2>6. \A i \in 1 .. Len(requestChan') : requestChan'[i] \in Fresh'
    BY <1>1, <2>2, <2>4, <2>5 DEF InOnePlace
  <2>7. \A i, j \in 1 .. Len(requestChan') :
          requestChan'[i] = requestChan'[j] => i = j
    <3> TAKE i, j \in 1 .. Len(requestChan')
    <3>1. CASE i \in 1 .. Len(requestChan) /\ j \in 1 .. Len(requestChan)
      <4>1. requestChan'[i] = requestChan[i] /\ requestChan'[j] = requestChan[j]
        BY <2>5, <3>1
      <4> QED
        BY <1>1, <3>1, <4>1 DEF InOnePlace
    <3>2. CASE i \notin 1 .. Len(requestChan) /\ j \in 1 .. Len(requestChan)
      BY <1>1, <2>2, <2>5, <3>2 DEF InOnePlace
    <3>3. CASE i \in 1 .. Len(requestChan) /\ j \notin 1 .. Len(requestChan)
      BY <1>1, <2>2, <2>5, <3>3 DEF InOnePlace
    <3>4. CASE i \notin 1 .. Len(requestChan) /\ j \notin 1 .. Len(requestChan)
      BY <2>5, <3>4
    <3> QED
      BY <3>1, <3>2, <3>3, <3>4
  <2> QED
    BY <1>1, <2>1, <2>3, <2>6, <2>7 DEF InOnePlace
<1>4. CASE SelectRequest
  <2> DEFINE n == Head(requestChan)
  <2>1. /\ requestChan' = Tail(requestChan) /\ requestChan # <<>>
        /\ UNCHANGED <<made, sending, response, inbox>>
        /\ responders' \subseteq responders \cup {n}
        /\ atPeer' \subseteq atPeer \cup {n}
    BY <1>4 DEF SelectRequest, callVars
  <2>2. /\ n = requestChan[1] /\ 1 \in 1 .. Len(requestChan)
        /\ \A i \in 1 .. Len(requestChan') : i + 1 \in 1 .. Len(requestChan)
        /\ \A i \in 1 .. Len(requestChan') : requestChan'[i] = requestChan[i + 1]
    BY <2>1, TailElements
  <2>3. Fresh \ {n} \subseteq Fresh'
    BY <2>1 DEF Fresh
  <2>4. n \in 1 .. made /\ n \in 1 .. MaxRequests
    BY <1>1, <2>2 DEF InOnePlace, Fresh
  <2>5. \A i \in 1 .. Len(requestChan') : requestChan'[i] \in Fresh'
    <3> TAKE i \in 1 .. Len(requestChan')
    <3>1. requestChan[i + 1] \in Fresh /\ requestChan[i + 1] # n
      <4>1. i + 1 \in 1 .. Len(requestChan) /\ i + 1 # 1
        BY <2>2
      <4> QED
        BY <1>1, <2>2, <4>1 DEF InOnePlace
    <3> QED
      BY <2>2, <2>3, <3>1
  <2>6. \A i, j \in 1 .. Len(requestChan') :
          requestChan'[i] = requestChan'[j] => i = j
    <3> TAKE i, j \in 1 .. Len(requestChan')
    <3>1. requestChan[i + 1] = requestChan[j + 1] => i + 1 = j + 1
      BY <1>1, <2>2 DEF InOnePlace
    <3> QED
      BY <2>2, <3>1
  <2>7. \A g \in Routines :
          sending'[g] # 0 => /\ sending'[g] \in Fresh'
                             /\ \A i \in 1 .. Len(requestChan') :
                                  requestChan'[i] # sending'[g]
    <3> TAKE g \in Routines
    <3>1. sending'[g] = sending[g]
      BY <2>1
    <3>2. sending[g] # 0 => sending[g] \in Fresh /\ sending[g] # n
      BY <1>1, <2>2 DEF InOnePlace
    <3>3. sending[g] # 0 => \A i \in 1 .. Len(requestChan') :
                              requestChan[i + 1] # sending[g]
      BY <1>1, <2>2 DEF InOnePlace
    <3> QED
      BY <2>2, <2>3, <3>1, <3>2, <3>3
  <2> QED
    BY <1>1, <2>1, <2>4, <2>5, <2>6, <2>7 DEF InOnePlace
<1>5. CASE Dispatch
  <2> DEFINE n == Head(inbox)
  <2>1. /\ response' = [response EXCEPT ![n] = "ok"]
        /\ responders' \subseteq responders
        /\ inbox' = Tail(inbox) /\ inbox # <<>>
        /\ UNCHANGED <<made, sending, requestChan, atPeer>>
    BY <1>5 DEF Dispatch, Forget, callVars, chanVars
  <2>2. /\ n = inbox[1] /\ 1 \in 1 .. Len(inbox)
        /\ \A i \in 1 .. Len(inbox') : i + 1 \in 1 .. Len(inbox)
        /\ \A i \in 1 .. Len(inbox') : inbox'[i] = inbox[i + 1]
    BY <2>1, TailElements
  <2>3. Fresh \subseteq Fresh'
    BY <2>1, <2>2 DEF Fresh
  <2>4. \A m \in RequestIds : m > made => response'[m] = "none"
    BY <1>1, <2>1, <2>2 DEF InOnePlace
  <2>5. \A i \in 1 .. Len(inbox') : inbox'[i] <= made
    BY <1>1, <2>2 DEF InOnePlace
  <2> QED
    BY <1>1, <2>1, <2>3, <2>4, <2>5 DEF InOnePlace
<1>6. CASE ParseFails
  <2>1. /\ inbox' = Tail(inbox) /\ inbox # <<>>
        /\ UNCHANGED <<made, sending, requestChan, atPeer, responders, response>>
    BY <1>6 DEF ParseFails, callVars, chanVars
  <2>2. /\ \A i \in 1 .. Len(inbox') : i + 1 \in 1 .. Len(inbox)
        /\ \A i \in 1 .. Len(inbox') : inbox'[i] = inbox[i + 1]
    BY <2>1, TailElements
  <2>3. Fresh \subseteq Fresh'
    BY <2>1, <2>2 DEF Fresh
  <2>4. \A i \in 1 .. Len(inbox') : inbox'[i] <= made
    BY <1>1, <2>2 DEF InOnePlace
  <2> QED
    BY <1>1, <2>1, <2>3, <2>4 DEF InOnePlace
<1>7. ASSUME NEW n \in RequestIds, PeerResponds(n) PROVE InOnePlace'
  <2>1. /\ n \in atPeer /\ atPeer' = atPeer \ {n}
        /\ inbox' = Append(inbox, n)
        /\ UNCHANGED <<made, sending, requestChan, responders, response>>
    BY <1>7 DEF PeerResponds, callVars, chanVars, workVars
  <2>2. \A i \in 1 .. Len(inbox') :
          \/ i \in 1 .. Len(inbox) /\ inbox'[i] = inbox[i]
          \/ inbox'[i] = n
    BY <2>1
  <2>3. Fresh \subseteq Fresh'
    BY <2>1, <2>2 DEF Fresh
  <2>4. \A i \in 1 .. Len(inbox') : inbox'[i] <= made
    BY <1>1, <2>1, <2>2 DEF InOnePlace
  <2> QED
    BY <1>1, <2>1, <2>3, <2>4 DEF InOnePlace
<1>8. CASE UNCHANGED <<made, sending, requestChan, responders, response, atPeer,
                       inbox>>
  BY <1>1, <1>8 DEF InOnePlace, Fresh
<1>9. ASSUME Next, ~SelectRequest, ~Dispatch, ~ParseFails,
             \A g \in Routines : ~Call(g) /\ ~Send(g),
             \A n \in RequestIds : ~PeerResponds(n)
      PROVE  UNCHANGED <<made, sending, requestChan, responders, response,
                         atPeer, inbox>>
  BY <1>1, <1>9 DEF Next, WorkerStep, DrainStep, Close, WaiterAnswers, PeerCloses,
       SelectWaitResponse, SelectDone, ReadNothingToDo, ShouldWait, ReadFails,
       CancelIfWaiting, FailPending, DrainStart, CloseHandle, Drain, DrainEnds,
       callVars, chanVars, workVars, pipeVars
<1> QED
  BY <1>2, <1>3, <1>4, <1>5, <1>6, <1>7, <1>8, <1>9
  DEF vars, callVars, chanVars, workVars, pipeVars

\* A responder is added before its request can be answered and forgotten when
\* it is, so runWorker() fails only requests that have no result.
LEMMA RespondersUnansweredStep ==
  ASSUME Inv, [Next]_vars
  PROVE  RespondersUnanswered'
<1> USE DEF Inv, TypeOK, RespondersUnanswered
<1>1. ASSUME NEW g \in Routines, Call(g) PROVE RespondersUnanswered'
  <2>1. CASE handleOpen
    BY <1>1, <2>1 DEF Call, workVars
  <2>2. CASE ~handleOpen
    BY <1>1, <2>2 DEF Call, Phases, workVars
  <2> QED
    BY <2>1, <2>2
<1>2. CASE SelectRequest
  <2>1. drain = "none" /\ InOnePlace
    BY <1>2 DEF SelectRequest, Phases
  <2>2. response[Head(requestChan)] = "none"
    BY <1>2, <2>1 DEF SelectRequest, InOnePlace, Fresh
  <2>3. UNCHANGED response /\ responders' \subseteq responders \cup {Head(requestChan)}
    BY <1>2 DEF SelectRequest
  <2>4. at = "select"
    BY <1>2 DEF SelectRequest
  <2> QED
    BY <2>2, <2>3, <2>4
<1>3. CASE Dispatch
  BY <1>3 DEF Dispatch, Forget
<1>4. CASE FailPending
  BY <1>4 DEF FailPending
<1>5. CASE Drain
  BY <1>5 DEF Drain, Phases
<1>6. CASE CloseHandle
  BY <1>6 DEF CloseHandle
<1>7. CASE /\ UNCHANGED <<responders, response>>
           /\ at' = at \/ at \in {"select", "read", "stop", "fail"}
  BY <1>7
<1>8. ASSUME Next, ~SelectRequest, ~Dispatch, ~FailPending, ~Drain, ~CloseHandle,
             \A g \in Routines : ~Call(g)
      PROVE  /\ UNCHANGED <<responders, response>>
             /\ at' = at \/ at \in {"select", "read", "stop", "fail"}
  BY <1>8 DEF Next, WorkerStep, DrainStep, Close, WaiterAnswers, PeerCloses,
       PeerResponds, Send, SelectWaitResponse, SelectDone, ReadNothingToDo,
       ShouldWait, ReadFails, ParseFails, CancelIfWaiting, DrainEnds, workVars
<1> QED
  BY <1>1, <1>2, <1>3, <1>4, <1>5, <1>6, <1>7, <1>8 DEF vars, workVars

-----------------------------------------------------------------------------

\* The inductive invariant holds throughout.
THEOREM Invariant == Spec => []Inv
<1>1. Init => Inv
  <2> SUFFICES ASSUME Init PROVE Inv
    OBVIOUS
  <2>1. TypeOK
    BY InitTypeOK
  <2>2. Phases /\ SendersLocked /\ RespondersUnanswered /\ WaitsForResponses
    BY DEF Init, Phases, SendersLocked, RespondersUnanswered, WaitsForResponses
  <2>3. InOnePlace
    BY DEF Init, InOnePlace
  <2> QED
    BY <2>1, <2>2, <2>3 DEF Inv
<1>2. Inv /\ [Next]_vars => Inv'
  BY TypeStep, PhasesStep, SendersLockedStep, InOnePlaceStep,
     RespondersUnansweredStep, WaitsForResponsesStep DEF Inv
<1> QED
  BY <1>1, <1>2, PTL DEF Spec

\* runWorker(): "We can safely close the requestChan": for any number of
\* callers nobody is sending to it when it is closed.
THEOREM SafeToClose == Spec => []NeverSendsOnClosedChan
<1>1. Inv => NeverSendsOnClosedChan
  BY DEF Inv, Phases, SendersLocked, NeverSendsOnClosedChan
<1> QED
  BY <1>1, Invariant, PTL

\* The worker never holds the responder of a request that has its result, so
\* that no send to a one-place channel blocks it.
THEOREM NeverAnswersTwice == Spec => []RespondersUnanswered
<1>1. Inv => RespondersUnanswered
  BY DEF Inv
<1> QED
  BY <1>1, Invariant, PTL

\* The worker never blocks in its select with responses owed and no wait on
\* the pipe.
THEOREM NeverMissesResponses == Spec => []WaitsForResponses
<1>1. Inv => WaitsForResponses
  BY DEF Inv
<1> QED
  BY <1>1, Invariant, PTL
=============================================================================
