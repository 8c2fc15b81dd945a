---------------------------- MODULE GoConnector ----------------------------
(***************************************************************************)
(* A Go Connector (connector.go) and the Stub that serves requests from it *)
(* (stub.go), on top of the worker of the async waiter.  Several           *)
(* goroutines call Stub.ServeRequest() until it returns an error; one more *)
(* may call Stub.Close() at any time.                                      *)
(*                                                                         *)
(* The only handle is the connector's pipe and the only response channel   *)
(* its waitChan.  Messages are counted, not distinguished.                 *)
(***************************************************************************)
EXTENDS AsyncWaiter

CONSTANTS
  Readers,      \* goroutines that call ServeRequest()
  Closer,       \* the goroutine that may call Close()
  Pipe,         \* Connector.pipe
  WaitChan,     \* Connector.waitChan
  Loads,        \* bounds: who serves, and how many messages the peer sends
  None

ASSUME GoConnectorAssumption ==
  /\ Goroutines = Readers \cup {Closer}
  /\ Closer \notin Readers
  /\ Handles = {Pipe}
  /\ Chans = {WaitChan}
  /\ None \notin Goroutines
  /\ Loads \subseteq [servers : SUBSET Readers, messages : Nat]

VARIABLES
  at,         \* goroutine -> the call it is about to make
  waitId,     \* goroutine -> what its last AsyncWait() returned
  outcome,    \* goroutine -> what ReadMessage() is about to return
  waitMutex,  \* the goroutine that holds Connector.waitMutex
  mu,         \* Connector.mu: its readers, and whether a writer waits
  done,       \* Connector.done is closed
  once,       \* Stub.closeOnce
  inbox,      \* number of messages to be read from the pipe
  unsent,     \* number of messages the peer has still to send
  peerOpen

local == <<at, waitId, outcome>>
locks == <<waitMutex, mu, done, once>>
world == <<inbox, unsent, peerOpen>>
vars == <<waiterVars, local, locks, world>>

Init ==
  /\ WaiterInit
  /\ \E load \in Loads :
       /\ at = [g \in Goroutines |-> IF g \in load.servers THEN "Lock" ELSE "outside"]
       /\ unsent = load.messages
  /\ waitId = [g \in Goroutines |-> 0]
  /\ outcome = [g \in Goroutines |-> "none"]
  /\ waitMutex = None
  /\ mu = [readers |-> {}, pending |-> FALSE]
  /\ done = FALSE
  /\ once = "free"
  /\ inbox = 0
  /\ peerOpen = TRUE

PipeOpen == signal[Pipe] # "closed"

\* What waiting on an open pipe for READABLE would yield.
PipeSignal(messages, peer) ==
  [signal EXCEPT ![Pipe] = IF messages > 0 THEN "readable"
                           ELSE IF peer THEN "idle" ELSE "dead"]

GoTo(g, call_) == at' = [at EXCEPT ![g] = call_]

-----------------------------------------------------------------------------
(* Connector.ReadMessage().                                                *)

WaitMutexFree_always == TRUE
WaitMutexFree == waitMutex = None

LockWait(g) ==
  /\ at[g] = "Lock"
  /\ WaitMutexFree
  /\ waitMutex' = g
  /\ GoTo(g, "RLock")
  /\ UNCHANGED <<waiterVars, waitId, outcome, mu, done, once, world>>

\* A waiting writer keeps new readers out.
RLock(g) ==
  /\ at[g] = "RLock"
  /\ ~mu.pending
  /\ mu' = [mu EXCEPT !.readers = @ \cup {g}]
  /\ GoTo(g, "ReadMessage")
  /\ UNCHANGED <<waiterVars, waitId, outcome, waitMutex, done, once, world>>

\* The result of reading the pipe is OK.
ReadOK == PipeOpen /\ inbox > 0

\* A message that ParseMessage() rejects is among those Accept rejects.
TakeMessage(g) ==
  /\ outcome' = [outcome EXCEPT ![g] = IF ReadOK THEN "message" ELSE "error"]
  /\ inbox' = IF ReadOK THEN inbox - 1 ELSE inbox
  /\ signal' = IF PipeOpen THEN PipeSignal(inbox', peerOpen) ELSE signal
  /\ GoTo(g, "Unlock")
  /\ UNCHANGED <<workerVars, queues, chan, call, request, waitId, locks, unsent,
                 peerOpen>>

ReadMessage(g) ==
  /\ at[g] = "ReadMessage"
  /\ ~PipeOpen \/ inbox > 0 \/ ~peerOpen
  /\ TakeMessage(g)

\* SHOULD_WAIT.
ReadNothing(g) ==
  /\ at[g] = "ReadMessage"
  /\ PipeOpen /\ inbox = 0 /\ peerOpen
  /\ GoTo(g, "AsyncWait")
  /\ UNCHANGED <<waiterVars, waitId, outcome, locks, world>>

StartWait(g) ==
  /\ at[g] = "AsyncWait"
  /\ AsyncWait(g, Pipe, WaitChan)
  /\ GoTo(g, "id")
  /\ UNCHANGED <<waitId, outcome, locks, world>>

GetId(g) ==
  /\ at[g] = "id"
  /\ AsyncWaitReturns(g)
  /\ waitId' = [waitId EXCEPT ![g] = idChan[g]]
  /\ GoTo(g, "select")
  /\ UNCHANGED <<outcome, locks, world>>

SelectResponse(g) ==
  /\ at[g] = "select"
  /\ chan[WaitChan] # <<>>
  /\ chan' = [chan EXCEPT ![WaitChan] = <<>>]
  /\ GoTo(g, "ReadAgain")
  /\ UNCHANGED <<workerVars, queues, call, signal, request, waitId, outcome,
                 locks, world>>

ReadAgain(g) ==
  /\ at[g] = "ReadAgain"
  /\ TakeMessage(g)

SelectDone(g) ==
  /\ at[g] = "select"
  /\ done
  /\ GoTo(g, "CancelWait")
  /\ UNCHANGED <<waiterVars, waitId, outcome, locks, world>>

StartCancel(g) ==
  /\ at[g] = "CancelWait"
  /\ CancelWait(g, waitId[g])
  /\ GoTo(g, "cancelling")
  /\ UNCHANGED <<waitId, outcome, locks, world>>

CancelReturns(g) ==
  /\ at[g] = "cancelling"
  /\ call[g] = "none"
  /\ outcome' = [outcome EXCEPT ![g] = "error"]
  /\ GoTo(g, "Unlock")
  /\ UNCHANGED <<waiterVars, waitId, locks, world>>

\* The deferred unlocks, then back in ServeRequest().
Unlock(g) ==
  /\ at[g] = "Unlock"
  /\ mu' = [mu EXCEPT !.readers = @ \ {g}]
  /\ waitMutex' = None
  /\ outcome' = [outcome EXCEPT ![g] = "none"]
  /\ waitId' = [waitId EXCEPT ![g] = 0]
  /\ GoTo(g, IF outcome[g] = "message" THEN "Accept" ELSE "Close")
  /\ UNCHANGED <<waiterVars, done, once, world>>

-----------------------------------------------------------------------------
(* Stub.ServeRequest() and Stub.Close().                                   *)

\* The receiver handles the message, rejects it, or has a response to write.
Accept(g) ==
  /\ at[g] = "Accept"
  /\ \E next \in {"Lock", "Close", "WriteMessage"} : GoTo(g, next)
  /\ UNCHANGED <<waiterVars, waitId, outcome, locks, world>>

\* Connector.WriteMessage(): the read lock is held for the write only.
WriteMessage(g) ==
  /\ at[g] = "WriteMessage"
  /\ ~mu.pending
  /\ GoTo(g, IF PipeOpen /\ peerOpen THEN "Lock" ELSE "Close")
  /\ UNCHANGED <<waiterVars, waitId, outcome, locks, world>>

CallClose ==
  /\ at[Closer] = "outside"
  /\ GoTo(Closer, "Close")
  /\ UNCHANGED <<waiterVars, waitId, outcome, locks, world>>

\* closeOnce.Do(): one goroutine closes, the others wait until it has.
OnceDo(g) ==
  /\ at[g] = "Close"
  /\ \/ once = "free" /\ once' = "running" /\ GoTo(g, "done")
     \/ once = "done" /\ once' = once /\ GoTo(g, "returned")
  /\ UNCHANGED <<waiterVars, waitId, outcome, waitMutex, mu, done, world>>

\* Connector.Close().
CloseDone_missing(g) ==
  /\ at[g] = "done"
  /\ GoTo(g, "WLock")
  /\ UNCHANGED <<waiterVars, waitId, outcome, locks, world>>
CloseDone(g) ==
  /\ at[g] = "done"
  /\ done' = TRUE
  /\ GoTo(g, "WLock")
  /\ UNCHANGED <<waiterVars, waitId, outcome, waitMutex, mu, once, world>>

WLock(g) ==
  /\ at[g] = "WLock"
  /\ mu' = [mu EXCEPT !.pending = TRUE]
  /\ GoTo(g, "ClosePipe")
  /\ UNCHANGED <<waiterVars, waitId, outcome, waitMutex, done, once, world>>

NoReader_ignored == TRUE
NoReader == mu.readers = {}

ClosePipe(g) ==
  /\ at[g] = "ClosePipe"
  /\ NoReader
  /\ signal' = [signal EXCEPT ![Pipe] = "closed"]
  /\ mu' = [mu EXCEPT !.pending = FALSE]
  /\ once' = "done"
  /\ GoTo(g, "returned")
  /\ UNCHANGED <<workerVars, queues, chan, call, request, waitId, outcome,
                 waitMutex, done, world>>

-----------------------------------------------------------------------------
(* The other end of the pipe.                                              *)

PeerSends ==
  /\ peerOpen
  /\ PipeOpen
  /\ unsent > 0
  /\ unsent' = unsent - 1
  /\ inbox' = inbox + 1
  /\ signal' = PipeSignal(inbox', peerOpen)
  /\ UNCHANGED <<workerVars, queues, chan, call, request, local, locks,
                 peerOpen>>

PeerCloses ==
  /\ peerOpen
  /\ PipeOpen
  /\ peerOpen' = FALSE
  /\ signal' = PipeSignal(inbox, FALSE)
  /\ UNCHANGED <<workerVars, queues, chan, call, request, local, locks, inbox,
                 unsent>>

-----------------------------------------------------------------------------

GoroutineStep(g) ==
  \/ LockWait(g) \/ RLock(g)
  \/ ReadMessage(g) \/ ReadNothing(g)
  \/ StartWait(g) \/ GetId(g)
  \/ (WakeCAS(g) \/ WakeWrite(g)) /\ UNCHANGED <<local, locks, world>>
  \/ SelectResponse(g) \/ ReadAgain(g)
  \/ SelectDone(g) \/ StartCancel(g) \/ CancelReturns(g)
  \/ Unlock(g)
  \/ Accept(g) \/ WriteMessage(g)
  \/ OnceDo(g) \/ CloseDone(g) \/ WLock(g) \/ ClosePipe(g)

WaiterStep == WorkerStep /\ UNCHANGED <<local, locks, world>>

Serving(g) == at[g] \notin {"outside", "returned"}

\* The worker of the waiter sends to the full waitChan, and no goroutine is
\* where it would take what is in it: both stay so for good.
WorkerBlocked ==
  /\ worker.pc = "send"
  /\ chan[WaitChan] # <<>>
  /\ \A g \in Readers : at[g] # "select"

\* The system may stop only when everybody has returned or the worker blocks.
Finished ==
  /\ (\A g \in Goroutines : ~Serving(g)) \/ WorkerBlocked
  /\ UNCHANGED vars

Next ==
  \/ \E g \in Goroutines : GoroutineStep(g)
  \/ WaiterStep
  \/ CallClose
  \/ PeerSends \/ PeerCloses
  \/ Finished

Spec == Init /\ [][Next]_vars

\* Goroutines and the worker go on when they can; nobody has to close.
FairSpec ==
  /\ Spec
  /\ WF_vars(WaiterStep)
  /\ \A g \in Goroutines : WF_vars(GoroutineStep(g))

-----------------------------------------------------------------------------
(* Properties.                                                             *)

\* The calls of ReadMessage() made with the read lock, after the check that
\* the pipe is valid.
UsesPipe == {"AsyncWait", "id", "select", "ReadAgain"}

\* Close() never takes the pipe from under a goroutine that has found it
\* valid and is waiting on it or about to read it.
PipeUsedOpen == \A g \in Goroutines : at[g] \in UsesPipe => PipeOpen

\* ServeRequest() fails only for a reason: a response on waitChan always
\* means that there is a message, unless the pipe is being closed or its
\* other end is.
NoSpuriousError ==
  \A g \in Goroutines : outcome[g] = "error" => done \/ ~peerOpen

\* Once Stub.Close() has begun every goroutine serving requests returns, as
\* long as there are two of them.  That all do, as the comment of Close() has
\* it, fails with a third: two goroutines queued on waitMutex each start a wait
\* after done is closed and leave with its response on the way; the second
\* response finds the one-place waitChan full and the worker blocks, with it
\* the AsyncWait() of the third goroutine, which has the read lock, and with
\* that Close().  Nothing else keeps a goroutine from returning.
ServersReturnOrBlock ==
  once # "free" ~> \/ \A g \in Readers : ~Serving(g)
                   \/ WorkerBlocked /\ Cardinality({g \in Readers : at[g] # "outside"}) > 2

-----------------------------------------------------------------------------
(* What PipeUsedOpen and NoSpuriousError rest on.                          *)

\* The calls of ReadMessage() made with mu held for reading.
Reading == UsesPipe \cup {"ReadMessage", "CancelWait", "cancelling", "Unlock"}

Calls ==
  Reading \cup {"outside", "Lock", "RLock", "Accept", "WriteMessage", "Close", "done",
               "WLock", "ClosePipe", "returned"}

ConnectorTypeOK ==
  /\ at \in [Goroutines -> Calls]
  /\ waitId \in [Goroutines -> Nat]
  /\ outcome \in [Goroutines -> {"none", "message", "error"}]
  /\ waitMutex \in Goroutines \cup {None}
  /\ mu \in [readers : SUBSET Goroutines, pending : BOOLEAN]
  /\ done \in BOOLEAN
  /\ inbox \in Nat
  /\ peerOpen \in BOOLEAN

\* Whoever reads holds both locks.
LocksHeld ==
  \A g \in Goroutines :
    /\ at[g] \in Reading => waitMutex = g /\ g \in mu.readers
    /\ at[g] = "RLock" => waitMutex = g

\* A goroutine that may cancel its wait knows the id of it.
IdKnown == \A g \in Goroutines : at[g] \in {"select", "CancelWait"} => waitId[g] # 0

\* done is closed before the pipe is, and before a wait is cancelled.
DoneFirst ==
  /\ ~PipeOpen => done
  /\ \A g \in Goroutines :
       at[g] \in {"WLock", "ClosePipe", "CancelWait", "cancelling"} => done

\* The handle's signal tells what is in the pipe.
SignalTells == PipeOpen => signal = PipeSignal(inbox, peerOpen)

\* The waits on their way to the worker, in its slices and answered.
Waits == Len(waitChan) + Len(handles) + Len(chan[WaitChan])

\* Until done is closed there is one wait at a time, of the goroutine that
\* reads.
OneWait ==
  ~done =>
    /\ cancelChan = <<>>
    /\ Waits <= 1
    /\ Waits > 0 => \E g \in Goroutines : waitMutex = g /\ at[g] \in {"id", "select"}

\* The worker has found the pipe ready and is about to say so.
Answering == (worker.pc = "store" /\ worker.index # 0) \/ worker.pc \in {"respond", "send"}

\* Nobody takes the message that a response announces.
MessageKept ==
  ~done /\ peerOpen =>
    /\ Answering /\ handles # <<>> => inbox > 0
    /\ chan[WaitChan] # <<>> => inbox > 0
    /\ \A g \in Goroutines : at[g] = "ReadAgain" => inbox > 0

Inv ==
  /\ WaiterTypeOK /\ WakeupInv /\ ConnectorTypeOK
  /\ LocksHeld /\ IdKnown /\ DoneFirst /\ SignalTells
  /\ PipeUsedOpen
  /\ OneWait /\ MessageKept
  /\ NoSpuriousError
=============================================================================
