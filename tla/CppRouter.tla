----------------------------- MODULE CppRouter -----------------------------
(***************************************************************************)
(* The C++ Router and its Connector, cpp/bindings/lib/router.cc and        *)
(* connector.cc, on one thread.  Whenever the router calls the application *)
(* (a receiver, a responder, the error handler) the application may call   *)
(* it back: write, wait for the next message, run the event loop, close or *)
(* release the pipe, or destroy the router under the frames that are on    *)
(* the stack.                                                              *)
(*                                                                         *)
(* Requests sent are numbered, and so are the requests received; the two   *)
(* numberings are separate.  An operator named F_how is F with a plausible *)
(* mistake.                                                                *)
(***************************************************************************)
EXTENDS Naturals, Sequences, SequencesExt

CONSTANTS
  AppMay,       \* what the application does to its router
  PeerSends,    \* kinds of messages the peer sends
  PeerMayClose,
  MaxMessages,  \* bound: messages the peer sends, responses apart
  MaxRequests,  \* bound: requests the application sends
  MaxDepth      \* bound: callbacks on the stack

AppCalls == {"Accept", "AcceptWithResponder", "WaitForIncomingMessage",
             "CloseMessagePipe", "PassMessagePipe", "Destroy"}
Kinds == {"request", "one_way", "malformed"}

ASSUME CppRouterAssumption ==
  /\ AppMay \subseteq AppCalls
  /\ PeerSends \subseteq Kinds
  /\ PeerMayClose \in BOOLEAN
  /\ MaxMessages \in Nat /\ MaxRequests \in Nat /\ MaxDepth \in Nat

VARIABLES
  pc,           \* what the thread is about to do; "app": application code
  stack,        \* the callbacks the application is in
  alive,        \* the router has not been destroyed
  pipeOpen,     \* message_pipe_.is_valid()
  waiting,      \* async_wait_id_ # 0
  error,        \* error_
  dropWrites,   \* drop_writes_
  destroyedFlag,\* destroyed_flag_: index of the frame it points into, or 0
  responders,   \* keys of responders_
  deleted,      \* responders deleted by the router
  nextRequest,  \* the last request id given out
  thunks,       \* received requests whose ResponderThunk exists
  inbox, received, atPeer, peerOpen,
  hasReceiver,  \* incoming_receiver_ is set
  dropped       \* history: a responder was dropped without a response

connVars == <<pipeOpen, waiting, error, dropWrites>>
routerVars == <<responders, deleted, nextRequest, thunks>>
peerVars == <<inbox, received, atPeer, peerOpen>>
appVars == <<hasReceiver, dropped>>
vars == <<pc, stack, alive, destroyedFlag, connVars, routerVars, peerVars,
          appVars>>

Init ==
  /\ pc = "app"
  /\ stack = <<>>
  /\ alive = TRUE /\ pipeOpen = TRUE /\ waiting = TRUE
  /\ error = FALSE /\ dropWrites = FALSE
  /\ destroyedFlag = 0
  /\ responders = {} /\ deleted = {} /\ nextRequest = 0 /\ thunks = {}
  /\ inbox = <<>> /\ received = 0 /\ atPeer = {} /\ peerOpen = TRUE
  /\ hasReceiver \in BOOLEAN /\ dropped = FALSE

\* A frame of ReadSingleMessage(), which is dispatching a message: whether the
\* router was destroyed meanwhile, the flag that was current before, whether
\* ReadAllAvailableMessages() called it, and the responder or thunk in use.
Frame(msg, loop) ==
  [kind |-> msg.kind, n |-> msg.n, destroyed |-> FALSE, prev |-> destroyedFlag,
   loop |-> loop]

\* The frame of connection_error_handler_.Run().
ErrorFrame ==
  [kind |-> "error", n |-> 0, destroyed |-> FALSE, prev |-> 0, loop |-> FALSE]

Top == Last(stack)
Running == pc = "app" /\ alive
InCallback == pc = "app" /\ stack # <<>>

-----------------------------------------------------------------------------
(* Connector: reading.                                                     *)

\* Wait results: a message, or the pipe will never have one.
Ready == inbox # <<>> \/ ~peerOpen

\* The event loop calls OnHandleReady(), from the top or nested in a callback.
OnHandleReady ==
  /\ pc = "app"
  /\ waiting
  /\ Ready
  /\ Len(stack) < MaxDepth
  /\ waiting' = FALSE
  /\ pc' = IF inbox # <<>> THEN "read_all" ELSE "notify"
  /\ UNCHANGED <<stack, alive, destroyedFlag, pipeOpen, error, dropWrites,
                 routerVars, peerVars, appVars>>

\* With a message, without, and on a pipe that is broken or not there.
WaitForIncomingMessage ==
  /\ "WaitForIncomingMessage" \in AppMay
  /\ Running
  /\ ~error
  /\ ~pipeOpen \/ Ready
  /\ Len(stack) < MaxDepth
  /\ pc' = IF pipeOpen /\ inbox # <<>> THEN "read_one" ELSE "notify"
  /\ UNCHANGED <<stack, alive, destroyedFlag, connVars, routerVars, peerVars,
                 appVars>>

\* Router::HandleIncomingMessage(): what it does before it calls anybody.
\* "app" if somebody is called, else what ReadSingleMessage() does next.
Dispatch(msg) ==
  IF \/ msg.kind \in {"request", "one_way"} /\ hasReceiver
     \/ msg.kind = "response" /\ msg.n \in responders
  THEN "app" ELSE "notify"

\* The entry is erased before the responder is called.
ErasedBeforeCall_late(msg) == {}
ErasedBeforeCall(msg) == IF msg.kind = "response" THEN {msg.n} ELSE {}

\* A request nobody listens to closes the pipe.
ReadMessage ==
  /\ pc \in {"read_all", "read_one"}
  /\ pipeOpen
  /\ inbox # <<>>
  /\ inbox' = Tail(inbox)
  /\ LET msg == Head(inbox)
     IN /\ pc' = Dispatch(msg)
        /\ IF Dispatch(msg) = "app"
           THEN /\ stack' = Append(stack, Frame(msg, pc = "read_all"))
                /\ destroyedFlag' = Len(stack) + 1
                /\ responders' = responders \ ErasedBeforeCall(msg)
                /\ thunks' = IF msg.kind = "request" THEN thunks \cup {msg.n}
                             ELSE thunks
           ELSE UNCHANGED <<stack, destroyedFlag, responders, thunks>>
  /\ UNCHANGED <<alive, connVars, deleted, nextRequest, received, atPeer,
                 peerOpen, appVars>>

\* SHOULD_WAIT: WaitToReadMore(), but not for WaitForIncomingMessage().
WaitsAgain_never == waiting
WaitsAgain == waiting \/ pc = "read_all"

ReadNothing ==
  /\ pc \in {"read_all", "read_one"}
  /\ pipeOpen
  /\ inbox = <<>> /\ peerOpen
  /\ waiting' = WaitsAgain
  /\ pc' = "app"
  /\ UNCHANGED <<stack, alive, destroyedFlag, pipeOpen, error, dropWrites,
                 routerVars, peerVars, appVars>>

ReadFails ==
  /\ pc \in {"read_all", "read_one"}
  /\ ~pipeOpen \/ (inbox = <<>> /\ ~peerOpen)
  /\ pc' = "notify"
  /\ UNCHANGED <<stack, alive, destroyedFlag, connVars, routerVars, peerVars,
                 appVars>>

NotifyError ==
  /\ pc = "notify"
  /\ error' = TRUE
  /\ waiting' = FALSE
  /\ pipeOpen' = FALSE
  /\ stack' = Append(stack, ErrorFrame)
  /\ pc' = "app"
  /\ UNCHANGED <<alive, destroyedFlag, dropWrites, routerVars, peerVars, appVars>>

-----------------------------------------------------------------------------
(* Back from the application.                                              *)

ErrorHandlerReturns ==
  /\ InCallback
  /\ Top.kind = "error"
  /\ stack' = Front(stack)
  /\ UNCHANGED <<pc, alive, destroyedFlag, connVars, routerVars, peerVars, appVars>>

\* ReadSingleMessage() after the dispatch: a destroyed connector is not
\* touched, only the flag of the frame below; else the flag is restored.
Propagated ==
  [i \in 1 .. Len(stack) - 1 |->
     IF i = Top.prev THEN [stack[i] EXCEPT !.destroyed = TRUE] ELSE stack[i]]

WasDestroyed_ignored == FALSE
WasDestroyed == Top.destroyed

RestoredFlag == Top.prev

ReadsOn == Top.loop /\ ~error

Unwind(ok) ==
  IF WasDestroyed
  THEN /\ stack' = Propagated
       /\ pc' = "app"
       /\ UNCHANGED destroyedFlag
  ELSE /\ stack' = Front(stack)
       /\ destroyedFlag' = RestoredFlag
       /\ pc' = IF ~ok THEN "notify"
                ELSE IF ReadsOn THEN "read_all" ELSE "app"

\* A responder is deleted after its call, by the router.
ReceiverReturns(ok) ==
  /\ InCallback
  /\ Top.kind \in {"one_way", "response"} \/ (Top.kind = "request" /\ ok)
  /\ deleted' = IF Top.kind = "response" THEN deleted \cup {Top.n} ELSE deleted
  /\ Unwind(ok)
  /\ UNCHANGED <<alive, connVars, responders, nextRequest, thunks, peerVars,
                 appVars>>

\* ~ResponderThunk() without a response: closes the pipe if there is a router.
ClosedByDrop_not == FALSE
ClosedByDrop == alive

DeleteThunk(n) ==
  /\ thunks' = thunks \ {n}
  /\ dropped' = TRUE
  /\ pipeOpen' = (pipeOpen /\ ~ClosedByDrop)
  /\ waiting' = (waiting /\ ~ClosedByDrop)

\* AcceptWithResponder() fails; the responder is still the router's.
RequestRefused ==
  /\ InCallback
  /\ Top.kind = "request"
  /\ Top.n \in thunks
  /\ DeleteThunk(Top.n)
  /\ Unwind(FALSE)
  /\ UNCHANGED <<alive, error, dropWrites, responders, deleted, nextRequest,
                 peerVars, hasReceiver>>

-----------------------------------------------------------------------------
(* The application.                                                        *)

\* Connector::Accept(): the write is dropped, made, or rejected; on an invalid
\* pipe without an error the process ends.
Written(ok) ==
  /\ ok => ~error /\ pipeOpen
  /\ ~error /\ pipeOpen /\ dropWrites => ok
  /\ pc' = IF error \/ pipeOpen THEN pc ELSE "crashed"
  /\ dropWrites' = (dropWrites \/ (ok /\ ~peerOpen))

Accept ==
  /\ "Accept" \in AppMay
  /\ Running
  /\ \E ok \in BOOLEAN : Written(ok)
  /\ UNCHANGED <<stack, alive, destroyedFlag, pipeOpen, waiting, error,
                 routerVars, peerVars, appVars>>

\* The responder is kept if the message was taken.
AcceptWithResponder ==
  /\ "AcceptWithResponder" \in AppMay
  /\ Running
  /\ nextRequest < MaxRequests
  /\ nextRequest' = nextRequest + 1
  /\ \E ok \in BOOLEAN :
       /\ Written(ok)
       /\ responders' = IF ok THEN responders \cup {nextRequest'} ELSE responders
       /\ atPeer' = IF ok /\ pipeOpen /\ ~dropWrites /\ peerOpen
                    THEN atPeer \cup {nextRequest'} ELSE atPeer
  /\ UNCHANGED <<stack, alive, destroyedFlag, pipeOpen, waiting, error, deleted,
                 thunks, inbox, received, peerOpen, appVars>>

\* ResponderThunk::Accept(), then its deletion: nothing without a router.
Respond(n) ==
  /\ pc = "app"
  /\ n \in thunks
  /\ thunks' = thunks \ {n}
  /\ IF alive THEN \E ok \in BOOLEAN : Written(ok) ELSE UNCHANGED <<pc, dropWrites>>
  /\ UNCHANGED <<stack, alive, destroyedFlag, pipeOpen, waiting, error,
                 responders, deleted, nextRequest, peerVars, appVars>>

DropResponder(n) ==
  /\ pc = "app"
  /\ n \in thunks
  /\ DeleteThunk(n)
  /\ UNCHANGED <<pc, stack, alive, destroyedFlag, error, dropWrites, responders,
                 deleted, nextRequest, peerVars, hasReceiver>>

\* CloseMessagePipe() and PassMessagePipe() differ in who has the pipe next.
GivePipeUp ==
  /\ Running
  /\ pipeOpen
  /\ waiting' = FALSE
  /\ pipeOpen' = FALSE
  /\ UNCHANGED <<pc, stack, alive, destroyedFlag, error, dropWrites, routerVars,
                 peerVars, appVars>>

CloseMessagePipe == "CloseMessagePipe" \in AppMay /\ GivePipeUp
PassMessagePipe == "PassMessagePipe" \in AppMay /\ GivePipeUp

\* ~Router(), and ~Connector(): the current flag is raised, the wait is
\* cancelled and the pipe closed.
StillWaiting == FALSE

Destroy ==
  /\ "Destroy" \in AppMay
  /\ Running
  /\ alive' = FALSE
  /\ deleted' = deleted \cup responders
  /\ responders' = {}
  /\ stack' = [i \in DOMAIN stack |->
                 IF i = destroyedFlag THEN [stack[i] EXCEPT !.destroyed = TRUE]
                 ELSE stack[i]]
  /\ waiting' = StillWaiting
  /\ pipeOpen' = FALSE
  /\ UNCHANGED <<pc, destroyedFlag, error, dropWrites, nextRequest, thunks,
                 peerVars, appVars>>

-----------------------------------------------------------------------------
(* The other end of the pipe.                                              *)

PeerSendsMessage(kind) ==
  /\ peerOpen /\ received < MaxMessages
  /\ received' = received + 1
  /\ inbox' = Append(inbox, [kind |-> kind, n |-> received + 1])
  /\ UNCHANGED <<pc, stack, alive, destroyedFlag, connVars, routerVars, atPeer,
                 peerOpen, appVars>>

PeerResponds(n) ==
  /\ peerOpen /\ n \in atPeer
  /\ atPeer' = atPeer \ {n}
  /\ inbox' = Append(inbox, [kind |-> "response", n |-> n])
  /\ UNCHANGED <<pc, stack, alive, destroyedFlag, connVars, routerVars, received,
                 peerOpen, appVars>>

PeerCloses ==
  /\ PeerMayClose
  /\ peerOpen
  /\ peerOpen' = FALSE
  /\ UNCHANGED <<pc, stack, alive, destroyedFlag, connVars, routerVars, inbox,
                 received, atPeer, appVars>>

-----------------------------------------------------------------------------

ConnectorStep == ReadMessage \/ ReadNothing \/ ReadFails \/ NotifyError

CallbackReturns ==
  \/ ErrorHandlerReturns
  \/ \E ok \in BOOLEAN : ReceiverReturns(ok)
  \/ RequestRefused

AppStep ==
  \/ WaitForIncomingMessage
  \/ Accept \/ AcceptWithResponder
  \/ \E n \in thunks : Respond(n) \/ DropResponder(n)
  \/ CloseMessagePipe \/ PassMessagePipe \/ Destroy

PeerStep ==
  \/ \E kind \in PeerSends : PeerSendsMessage(kind)
  \/ \E n \in atPeer : PeerResponds(n)
  \/ PeerCloses

Next == OnHandleReady \/ ConnectorStep \/ CallbackReturns \/ AppStep \/ PeerStep

Spec == Init /\ [][Next]_vars

\* The event loop runs, the router goes on, and callbacks return sooner or
\* later.
FairSpec ==
  /\ Spec
  /\ WF_vars(OnHandleReady)
  /\ WF_vars(ConnectorStep)
  /\ SF_vars(CallbackReturns)

-----------------------------------------------------------------------------
(* Properties.                                                             *)

\* The thread never works on a router that has been destroyed.
NeverRunsDestroyed == pc \in {"read_all", "read_one", "notify"} => alive

\* No responder is deleted twice, by the router that called it and by the
\* router's destruction during the call.
RespondersDeletedOnce ==
  \A i \in DOMAIN stack :
    stack[i].kind = "response" => stack[i].n \notin deleted \cup responders

\* MissingResponses: a responder that is dropped without a response closes the
\* pipe, so that the caller knows.
DropClosesPipe == dropped => ~alive \/ ~pipeOpen

\* The peer's closing is noticed, after the messages it had sent.
CloseIsNoticed == ~peerOpen ~> ~alive \/ ~pipeOpen \/ pc = "crashed"

-----------------------------------------------------------------------------
(* What the invariants rest on.                                            *)

Frames == [kind : Kinds \cup {"response", "error"}, n : Nat,
           destroyed : BOOLEAN, prev : Nat, loop : BOOLEAN]
Messages == [kind : Kinds \cup {"response"}, n : Nat]

TypeOK ==
  /\ pc \in {"app", "read_all", "read_one", "notify", "crashed"}
  /\ stack \in Seq(Frames)
  /\ alive \in BOOLEAN /\ pipeOpen \in BOOLEAN /\ waiting \in BOOLEAN
  /\ error \in BOOLEAN /\ dropWrites \in BOOLEAN
  /\ destroyedFlag \in Nat
  /\ responders \subseteq Nat /\ deleted \subseteq Nat /\ nextRequest \in Nat
  /\ thunks \subseteq Nat
  /\ inbox \in Seq(Messages)
  /\ received \in Nat /\ atPeer \subseteq Nat /\ peerOpen \in BOOLEAN
  /\ hasReceiver \in BOOLEAN /\ dropped \in BOOLEAN

\* Frame f is the innermost of the first n that dispatches a message, 0 if none
\* does.
Dispatches(frame) == frame.kind # "error"
Innermost(frames, f, n) ==
  /\ f \in 0 .. n
  /\ f # 0 => Dispatches(frames[f])
  /\ \A j \in f + 1 .. n : ~Dispatches(frames[j])

\* destroyed_flag_ and the flags saved in the frames point from each dispatch
\* to the one it is nested in, and the innermost one, only, knows whether the
\* router is gone.
FlagsTrackDestruction ==
  /\ alive => Innermost(stack, destroyedFlag, Len(stack))
  /\ \A i \in DOMAIN stack : Dispatches(stack[i]) =>
       /\ Innermost(stack, stack[i].prev, i - 1)
       /\ stack[i].destroyed <=> ~alive /\ Innermost(stack, i, Len(stack))

\* A destroyed router waits for nothing.
WaitsAlive == waiting => alive

\* Responders are waiting, being called or deleted; none is in two frames, and
\* the next id is new.
RespondersApart ==
  /\ responders \cap deleted = {}
  /\ \A n \in responders \cup deleted : n <= nextRequest
  /\ \A i \in DOMAIN stack : stack[i].kind = "response" =>
       /\ stack[i].n <= nextRequest
       /\ \A j \in DOMAIN stack :
            j # i /\ stack[j].kind = "response" => stack[j].n # stack[i].n

\* ReadAllAvailableMessages() runs at most once, and nobody waits meanwhile: so
\* WaitToReadMore(), which asserts that there is no wait, may start one.
OneLoop ==
  /\ pc = "read_all" => ~waiting /\ \A i \in DOMAIN stack : ~stack[i].loop
  /\ \A i \in DOMAIN stack : stack[i].loop =>
       ~waiting /\ \A j \in DOMAIN stack : j # i => ~stack[j].loop

\* WaitToReadMore() never finds a wait under way.
WaitsOnce == pc = "read_all" => ~waiting

Inv ==
  /\ TypeOK
  /\ NeverRunsDestroyed /\ FlagsTrackDestruction /\ WaitsAlive
  /\ RespondersDeletedOnce /\ RespondersApart
  /\ OneLoop
  /\ DropClosesPipe
=============================================================================
