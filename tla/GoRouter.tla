------------------------------ MODULE GoRouter ------------------------------
(***************************************************************************)
(* The Go Router, go/.../bindings/router.go: callers hand requests to a    *)
(* worker goroutine through a buffered channel; the worker writes them to  *)
(* the pipe, reads responses from it and passes each to the channel of its *)
(* request.  When it stops, it fails what is outstanding, leaves a         *)
(* goroutine behind that fails what is still queued, and closes the pipe   *)
(* and the channel under the mutex that callers hold while they send.      *)
(*                                                                         *)
(* The async waiter is the abstract one, with the worker as its caller.    *)
(* Request n is the n-th one made.  An operator named F_how is F with a    *)
(* plausible mistake.                                                      *)
(***************************************************************************)
EXTENDS Naturals, Sequences, Waiter

CONSTANTS
  Routines,     \* goroutines that call the router
  OneWay,       \* those that call Accept(), the others AcceptWithResponse()
  Worker,       \* the worker goroutine
  RequestCap,   \* capacity of requestChan (10 in the code)
  MaxRequests,  \* bound: calls made
  PeerMayClose, \* whether the other end of the pipe may be closed
  None

ASSUME GoRouterAssumption ==
  /\ Callers = {Worker}
  /\ Worker \notin Routines
  /\ None \notin Routines
  /\ OneWay \subseteq Routines
  /\ RequestCap \in Nat \ {0}
  /\ MaxRequests \in Nat
  /\ PeerMayClose \in BOOLEAN

VARIABLES
  made,         \* number of requests made
  sending,      \* goroutine -> the request it is sending, 0 if none
  mu,           \* the goroutine that holds Router.mu
  requestChan,  \* the requests in the buffer
  chanClosed,   \* requestChan is closed
  done,         \* Router.done is closed
  handleOpen,   \* Router.handle is valid
  at,           \* where the worker is
  responders,   \* the requests whose responders the worker holds
  response,     \* request -> what is in its responseChan
  drain,        \* the goroutine that fails queued requests
  wantsReply,   \* history: the requests with a responseChan
  unwritten,    \* history: the request that could not be written, 0 if none
  atPeer,       \* requests written to the pipe and to be answered
  inbox,        \* responses to be read from the pipe
  peerOpen

callVars == <<made, sending, mu, wantsReply>>
chanVars == <<requestChan, chanClosed, done, handleOpen>>
workVars == <<at, responders, drain, unwritten>>
pipeVars == <<atPeer, inbox, peerOpen>>
vars == <<waiterVars, callVars, chanVars, workVars, response, pipeVars>>

RequestIds == 1 .. MaxRequests

Init ==
  /\ WaiterInit
  /\ made = 0
  /\ sending = [g \in Routines |-> 0]
  /\ mu = None
  /\ requestChan = <<>>
  /\ chanClosed = FALSE
  /\ done = FALSE
  /\ handleOpen = TRUE
  /\ at = "select"
  /\ responders = {}
  /\ response = [n \in RequestIds |-> "none"]
  /\ drain = "none"
  /\ wantsReply = {}
  /\ unwritten = 0
  /\ atPeer = {}
  /\ inbox = <<>>
  /\ peerOpen = TRUE

\* What waiting on the pipe yields when it holds these messages.
PipeSignal(messages, peer) ==
  [signal EXCEPT ![Worker] = IF messages # <<>> THEN "readable"
                             ELSE IF peer THEN "idle" ELSE "dead"]

-----------------------------------------------------------------------------
(* Router: the callers.                                                    *)

\* Accept() or AcceptWithResponse() up to the send: with the mutex, and on an
\* invalid handle the error is returned at once.
Call(g) ==
  /\ made < MaxRequests
  /\ sending[g] = 0
  /\ mu = None
  /\ made' = made + 1
  /\ wantsReply' = IF g \in OneWay THEN wantsReply
                   ELSE wantsReply \cup {made + 1}
  /\ \/ /\ handleOpen
        /\ mu' = g
        /\ sending' = [sending EXCEPT ![g] = made + 1]
        /\ UNCHANGED response
     \/ /\ ~handleOpen
        /\ response' = IF g \in OneWay THEN response
                       ELSE [response EXCEPT ![made + 1] = "error"]
        /\ UNCHANGED <<mu, sending>>
  /\ UNCHANGED <<waiterVars, chanVars, workVars, pipeVars>>

\* The send blocks while the channel is full.
HasRoom == Len(requestChan) < RequestCap

Send(g) ==
  /\ sending[g] # 0
  /\ HasRoom
  /\ requestChan' = Append(requestChan, sending[g])
  /\ sending' = [sending EXCEPT ![g] = 0]
  /\ mu' = None
  /\ UNCHANGED <<waiterVars, made, wantsReply, chanClosed, done, handleOpen,
                 workVars, response, pipeVars>>

Close ==
  /\ ~done
  /\ done' = TRUE
  /\ UNCHANGED <<waiterVars, callVars, requestChan, chanClosed, handleOpen,
                 workVars, response, pipeVars>>

-----------------------------------------------------------------------------
(* routerWorker.runLoop() and what follows it.                             *)

SelectWaitResponse ==
  /\ at = "select"
  /\ Receive(Worker)
  /\ at' = IF answer[Worker] = "ok" THEN "read" ELSE "stop"
  /\ UNCHANGED <<signal, callVars, chanVars, responders, drain,
                 unwritten, response, pipeVars>>

\* A message that cannot be written ends the loop.
SelectRequest ==
  /\ at = "select"
  /\ requestChan # <<>>
  /\ requestChan' = Tail(requestChan)
  /\ LET n == Head(requestChan)
         reply == {n} \cap wantsReply
     IN \/ /\ peerOpen
           /\ responders' = responders \cup reply
           /\ atPeer' = atPeer \cup reply
           /\ at' = "read"
           /\ UNCHANGED unwritten
        \/ /\ ~peerOpen
           /\ unwritten' = n
           /\ at' = "stop"
           /\ UNCHANGED <<responders, atPeer>>
  /\ UNCHANGED <<waiterVars, callVars, chanClosed, done, handleOpen, drain,
                 response, inbox, peerOpen>>

SelectDone ==
  /\ at = "select"
  /\ done
  /\ at' = "stop"
  /\ UNCHANGED <<waiterVars, callVars, chanVars, responders, drain,
                 unwritten, response, pipeVars>>

\* readAndDispatchOutstandingMessages(): one turn of its loop.
AfterDispatch_once == "select"
AfterDispatch == "read"

Forget_never(n) == responders
Forget(n) == responders \ {n}

ReadNothingToDo ==
  /\ at = "read"
  /\ waiting[Worker] \/ responders = {}
  /\ at' = "select"
  /\ UNCHANGED <<waiterVars, callVars, chanVars, responders, drain,
                 unwritten, response, pipeVars>>

Dispatch ==
  /\ at = "read"
  /\ ~waiting[Worker] /\ responders # {}
  /\ inbox # <<>>
  /\ response' = [response EXCEPT ![Head(inbox)] = "ok"]
  /\ responders' = Forget(Head(inbox))
  /\ inbox' = Tail(inbox)
  /\ signal' = PipeSignal(inbox', peerOpen)
  /\ at' = AfterDispatch
  /\ UNCHANGED <<waiting, cancelled, answer, callVars, chanVars, drain,
                 unwritten, atPeer, peerOpen>>

ShouldWait ==
  /\ at = "read"
  /\ responders # {}
  /\ inbox = <<>> /\ peerOpen
  /\ AsyncWait(Worker)
  /\ at' = "select"
  /\ UNCHANGED <<callVars, chanVars, responders, drain, unwritten, response,
                 pipeVars>>

ReadFails ==
  /\ at = "read"
  /\ ~waiting[Worker] /\ responders # {}
  /\ inbox = <<>> /\ ~peerOpen
  /\ at' = "stop"
  /\ UNCHANGED <<waiterVars, callVars, chanVars, responders, drain,
                 unwritten, response, pipeVars>>

\* ParseMessage() rejects the message; its request stays among those to fail.
ParseFails ==
  /\ at = "read"
  /\ ~waiting[Worker] /\ responders # {}
  /\ inbox # <<>>
  /\ inbox' = Tail(inbox)
  /\ signal' = PipeSignal(inbox', peerOpen)
  /\ at' = "stop"
  /\ UNCHANGED <<waiting, cancelled, answer, callVars, chanVars, responders,
                 drain, unwritten, response, atPeer, peerOpen>>

\* cancelIfWaiting().
CancelIfWaiting ==
  /\ at = "stop"
  /\ IF waiting[Worker] THEN CancelWait(Worker) ELSE UNCHANGED waiterVars
  /\ at' = "fail"
  /\ UNCHANGED <<callVars, chanVars, responders, drain, unwritten, response,
                 pipeVars>>

\* All pending requests are failed, and the queued ones from now on.
DrainStart == "running"

Unanswered_forgotten == {}
Unanswered == responders

FailPending ==
  /\ at = "fail"
  /\ response' = [n \in RequestIds |->
                    IF n \in Unanswered THEN "error" ELSE response[n]]
  /\ drain' = DrainStart
  /\ at' = "close"
  /\ UNCHANGED <<waiterVars, callVars, chanVars, responders, unwritten, pipeVars>>

MutexFree_ignored == TRUE
MutexFree == mu = None

CloseHandle ==
  /\ at = "close"
  /\ MutexFree
  /\ handleOpen' = FALSE
  /\ chanClosed' = TRUE
  /\ signal' = [signal EXCEPT ![Worker] = "closed"]
  /\ at' = "ended"
  /\ UNCHANGED <<waiting, cancelled, answer, callVars, requestChan, done,
                 responders, drain, unwritten, response, pipeVars>>

\* The goroutine started at the end; sending to a nil channel blocks forever.
Drain ==
  /\ drain = "running"
  /\ requestChan # <<>>
  /\ requestChan' = Tail(requestChan)
  /\ IF Head(requestChan) \in wantsReply
     THEN /\ response' = [response EXCEPT ![Head(requestChan)] = "error"]
          /\ UNCHANGED drain
     ELSE /\ drain' = "blocked"
          /\ UNCHANGED response
  /\ UNCHANGED <<waiterVars, callVars, chanClosed, done, handleOpen, at,
                 responders, unwritten, pipeVars>>

DrainEnds ==
  /\ drain = "running"
  /\ requestChan = <<>> /\ chanClosed
  /\ drain' = "ended"
  /\ UNCHANGED <<waiterVars, callVars, chanVars, at, responders, unwritten,
                 response, pipeVars>>

-----------------------------------------------------------------------------
(* The other end of the pipe: every request is answered at most once.      *)

PeerResponds(n) ==
  /\ peerOpen /\ handleOpen
  /\ n \in atPeer
  /\ atPeer' = atPeer \ {n}
  /\ inbox' = Append(inbox, n)
  /\ signal' = PipeSignal(inbox', TRUE)
  /\ UNCHANGED <<waiting, cancelled, answer, callVars, chanVars, workVars,
                 response, peerOpen>>

PeerCloses ==
  /\ PeerMayClose
  /\ peerOpen /\ handleOpen
  /\ peerOpen' = FALSE
  /\ signal' = PipeSignal(inbox, FALSE)
  /\ UNCHANGED <<waiting, cancelled, answer, callVars, chanVars, workVars,
                 response, atPeer, inbox>>

-----------------------------------------------------------------------------

WorkerStep ==
  \/ SelectWaitResponse \/ SelectRequest \/ SelectDone
  \/ ReadNothingToDo \/ Dispatch \/ ShouldWait \/ ReadFails \/ ParseFails
  \/ CancelIfWaiting \/ FailPending \/ CloseHandle

DrainStep == Drain \/ DrainEnds

WaiterAnswers ==
  /\ Answer(Worker)
  /\ UNCHANGED <<callVars, chanVars, workVars, response, pipeVars>>

Next ==
  \/ WorkerStep \/ DrainStep \/ WaiterAnswers
  \/ \E g \in Routines : Call(g) \/ Send(g)
  \/ Close
  \/ \E n \in RequestIds : PeerResponds(n)
  \/ PeerCloses

Spec == Init /\ [][Next]_vars

\* The goroutines and the waiter go on when they can; nobody has to call,
\* close or respond.
FairSpec ==
  /\ Spec
  /\ WF_vars(WorkerStep) /\ WF_vars(DrainStep) /\ WF_vars(WaiterAnswers)
  /\ \A g \in Routines : WF_vars(Send(g))

-----------------------------------------------------------------------------
(* Properties.                                                             *)

\* What the router, its worker and the channels hold; requestChan never holds
\* more than its capacity.
TypeOK ==
  /\ waiting \in [Callers -> BOOLEAN]
  /\ made \in 0 .. MaxRequests
  /\ sending \in [Routines -> 0 .. MaxRequests]
  /\ mu \in Routines \cup {None}
  /\ requestChan \in Seq(RequestIds)
  /\ Len(requestChan) <= RequestCap
  /\ chanClosed \in BOOLEAN /\ handleOpen \in BOOLEAN
  /\ at \in {"select", "read", "stop", "fail", "close", "ended"}
  /\ responders \subseteq RequestIds
  /\ response \in [RequestIds -> {"none", "ok", "error"}]
  /\ drain \in {"none", "running", "blocked", "ended"}
  /\ atPeer \subseteq RequestIds
  /\ inbox \in Seq(RequestIds)

\* runWorker(): "We can safely close the requestChan": nobody is sending to
\* the channel when it is closed, and nobody begins to later.
NeverSendsOnClosedChan ==
  \A g \in Routines : chanClosed => sending[g] = 0

\* The worker holds the responders that have not been answered, and only
\* those: a second send to the same channel would block it for good.
RespondersUnanswered ==
  at \in {"select", "read", "stop", "fail"} =>
    \A n \in responders : response[n] = "none"

\* Whenever the worker blocks, it is waiting on the pipe if a response is
\* expected from it: no response stays in the pipe unread.
WaitsForResponses == at = "select" /\ responders # {} => waiting[Worker]

\* Behind the one-way request that the draining goroutine is blocked on.
Stranded(n) ==
  /\ drain = "blocked"
  /\ \/ \E i \in DOMAIN requestChan : requestChan[i] = n
     \/ \E g \in Routines : sending[g] = n

\* "Respond to all pending requests": from the moment the worker stops every
\* request, pending, queued, being sent or made at any later time, gets its
\* result; except the one whose message could not be written, and those that
\* stay behind a one-way request in the queue.
StoppedWorkerAnswers ==
  \A n \in RequestIds :
    at \in {"stop", "fail", "close", "ended"} /\ n \in wantsReply
      ~> response[n] # "none" \/ n = unwritten \/ Stranded(n)

-----------------------------------------------------------------------------
(* The inductive invariant behind the safety properties.                   *)

\* The handle and the channel are closed together, at the very end, and the
\* draining goroutine is not there before the pending requests are failed.
Phases ==
  /\ at = "ended" <=> ~handleOpen
  /\ chanClosed <=> ~handleOpen
  /\ drain = "none" <=> at \in {"select", "read", "stop", "fail"}

\* Whoever is sending has the mutex and has found the handle valid.
SendersLocked == \A g \in Routines : sending[g] # 0 => mu = g /\ handleOpen

\* Requests the worker has not taken yet: unanswered, and known to nobody.
Fresh ==
  {n \in 1 .. made : /\ response[n] = "none"
                     /\ n \notin responders \cup atPeer
                     /\ \A i \in 1 .. Len(inbox) : inbox[i] # n}

\* Until requests are failed, each is in one place only.
InOnePlace ==
  /\ \A i \in 1 .. Len(requestChan) : requestChan[i] \in Fresh
  /\ \A i, j \in 1 .. Len(requestChan) : requestChan[i] = requestChan[j] => i = j
  /\ \A g \in Routines :
       sending[g] # 0 => /\ sending[g] \in Fresh
                         /\ \A i \in 1 .. Len(requestChan) :
                              requestChan[i] # sending[g]
  /\ \A n \in RequestIds : n > made => response[n] = "none"
  /\ responders \cup atPeer \subseteq 1 .. made
  /\ \A i \in 1 .. Len(inbox) : inbox[i] <= made

Inv ==
  /\ TypeOK
  /\ Phases
  /\ SendersLocked
  /\ drain = "none" => InOnePlace
  /\ RespondersUnanswered
  /\ WaitsForResponses
=============================================================================
