---------------------------- MODULE AsyncWaiter ----------------------------
(***************************************************************************)
(* The Go async waiter, go/.../bindings/async_waiter.go: one worker        *)
(* goroutine blocks in WaitMany() on the handles of all callers.  Callers  *)
(* hand it requests through two buffered channels and wake it by a message *)
(* on a dedicated pipe, which a shared flag keeps them from sending twice. *)
(*                                                                         *)
(* The waking handle is index 0 of the worker's slices and is left out of  *)
(* them here, so that index i of a sequence is index i of the Go slice.    *)
(* All callers wait for READABLE.                                          *)
(*                                                                         *)
(* AsyncWaiterClients closes the system with callers that keep to the      *)
(* documented contract, GoConnector with the code of a Connector.          *)
(* An operator named F_how is F with a plausible mistake.                  *)
(***************************************************************************)
EXTENDS Naturals, Sequences, SequencesExt

CONSTANTS
  Goroutines,  \* the callers
  Handles,     \* the handles they wait on
  Chans,       \* the response channels, each with room for one response
  RequestCap,  \* capacity of waitChan and cancelChan (10 in the code)
  MaxWaits     \* bound: ids handed out

ASSUME AsyncWaiterAssumption ==
  /\ RequestCap \in Nat \ {0}
  /\ MaxWaits \in Nat

VARIABLES
  handles, asyncWaitIds, responses,  \* the worker's parallel slices
  ids,         \* asyncWaiterWorker.ids
  worker,      \* where runLoop() is, and its local variables
  isNotified,  \* the flag shared by callers and worker
  wakePipe,    \* number of messages in the waking pipe
  waitChan, cancelChan,
  idChan,      \* goroutine -> the id sent back by the worker, 0 if none yet
  chan,        \* response channel -> the responses in its buffer
  call,        \* goroutine -> where it is in AsyncWait() or CancelWait()
  signal,      \* handle -> what waiting on it would yield
  request      \* history: id -> the request it was given to, until received

slices == <<handles, asyncWaitIds, responses>>
workerVars == <<slices, ids, worker>>
queues == <<isNotified, wakePipe, waitChan, cancelChan, idChan>>
waiterVars == <<workerVars, queues, chan, call, signal, request>>

WaitIds == 1 .. MaxWaits

\* A worker without local variables.
IdleWorker(pc) ==
  [pc |-> pc, index |-> 0, result |-> "ok", next |-> "WaitMany",
   states |-> <<>>, ready |-> {}]

WaiterInit ==
  /\ handles = <<>> /\ asyncWaitIds = <<>> /\ responses = <<>>
  /\ ids = 0
  /\ worker = IdleWorker("WaitMany")
  /\ isNotified = 0
  /\ wakePipe = 0
  /\ waitChan = <<>> /\ cancelChan = <<>>
  /\ idChan = [g \in Goroutines |-> 0]
  /\ chan = [c \in Chans |-> <<>>]
  /\ call = [g \in Goroutines |-> "none"]
  /\ signal = [h \in Handles |-> "idle"]
  /\ request = [id \in WaitIds |-> <<>>]

-----------------------------------------------------------------------------
(* asyncWaiterImpl: the callers.                                           *)

AsyncWait(g, h, c) ==
  /\ call[g] = "none"
  /\ Len(waitChan) < RequestCap
  /\ waitChan' = Append(waitChan, [handle |-> h, chan |-> c, from |-> g])
  /\ call' = [call EXCEPT ![g] = "wait_cas"]
  /\ UNCHANGED <<workerVars, isNotified, wakePipe, cancelChan, idChan, chan,
                 signal, request>>

CancelWait(g, id) ==
  /\ call[g] = "none"
  /\ Len(cancelChan) < RequestCap
  /\ cancelChan' = Append(cancelChan, id)
  /\ call' = [call EXCEPT ![g] = "cancel_cas"]
  /\ UNCHANGED <<workerVars, isNotified, wakePipe, waitChan, idChan, chan,
                 signal, request>>

AfterWake(g) == IF call[g] \in {"wait_cas", "wait_write"} THEN "wait_id" ELSE "none"

\* wakeWorker(): the compare-and-swap, and the write if it succeeded.
WakeCAS(g) ==
  /\ call[g] \in {"wait_cas", "cancel_cas"}
  /\ isNotified' = 1
  /\ call' = [call EXCEPT ![g] =
                IF isNotified = 1 THEN AfterWake(g)
                ELSE IF @ = "wait_cas" THEN "wait_write" ELSE "cancel_write"]
  /\ UNCHANGED <<workerVars, wakePipe, waitChan, cancelChan, idChan, chan,
                 signal, request>>

WakeWrite(g) ==
  /\ call[g] \in {"wait_write", "cancel_write"}
  /\ wakePipe' = wakePipe + 1
  /\ call' = [call EXCEPT ![g] = AfterWake(g)]
  /\ UNCHANGED <<workerVars, isNotified, waitChan, cancelChan, idChan, chan,
                 signal, request>>

\* AsyncWait() returns the id.
AsyncWaitReturns(g) ==
  /\ call[g] = "wait_id"
  /\ idChan[g] # 0
  /\ idChan' = [idChan EXCEPT ![g] = 0]
  /\ call' = [call EXCEPT ![g] = "none"]
  /\ UNCHANGED <<workerVars, isNotified, wakePipe, waitChan, cancelChan, chan,
                 signal, request>>

-----------------------------------------------------------------------------
(* asyncWaiterWorker.                                                      *)

\* WaitMany() returns for the waking handle or for any handle that is ready
\* or will never be.
WaitMany ==
  /\ worker.pc = "WaitMany"
  /\ \E index \in 0 .. Len(handles) :
       /\ IF index = 0 THEN wakePipe > 0 ELSE signal[handles[index]] # "idle"
       /\ worker' = [worker EXCEPT
            !.pc = "store", !.index = index,
            !.result = IF index = 0 \/ signal[handles[index]] = "readable"
                       THEN "ok" ELSE "error",
            !.states = [i \in DOMAIN handles |-> signal[handles[i]] = "readable"],
            !.ready = {h \in Handles : signal[h] = "readable"}]
  /\ UNCHANGED <<slices, ids, queues, chan, call, signal, request>>

AfterStore ==
  IF worker.index = 0 THEN IdleWorker("read")
  ELSE IF worker.result # "ok"
       THEN [worker EXCEPT !.pc = "send", !.next = "WaitMany"]
       ELSE [worker EXCEPT !.pc = "respond", !.index = 1]

\* The flag is cleared before the waking message is read.
StoreNotified ==
  /\ worker.pc = "store"
  /\ isNotified' = 0
  /\ worker' = AfterStore
  /\ UNCHANGED <<slices, ids, wakePipe, waitChan, cancelChan, idChan, chan,
                 call, signal, request>>

ReadWakeMessage ==
  /\ worker.pc = "read"
  /\ wakePipe' = wakePipe - 1
  /\ worker' = IdleWorker("process")
  /\ UNCHANGED <<slices, ids, isNotified, waitChan, cancelChan, idChan, chan,
                 call, signal, request>>

NewId == ids + 1

\* processIncomingRequests(): the three cases of the select.
ProcessWait ==
  /\ worker.pc = "process"
  /\ waitChan # <<>>
  /\ LET r == Head(waitChan)
     IN /\ handles' = Append(handles, r.handle)
        /\ responses' = Append(responses, r.chan)
        /\ idChan' = [idChan EXCEPT ![r.from] = NewId]
        /\ request' = [request EXCEPT ![NewId] = r]
  /\ asyncWaitIds' = Append(asyncWaitIds, NewId)
  /\ ids' = ids + 1
  /\ waitChan' = Tail(waitChan)
  /\ UNCHANGED <<worker, isNotified, wakePipe, cancelChan, chan, call, signal>>

RowsOf_skipFirst(id) == {i \in DOMAIN asyncWaitIds \ {1} : asyncWaitIds[i] = id}
RowsOf(id) == {i \in DOMAIN asyncWaitIds : asyncWaitIds[i] = id}

\* The wait may have been answered already; then nothing is done.
ProcessCancel ==
  /\ worker.pc = "process"
  /\ cancelChan # <<>>
  /\ cancelChan' = Tail(cancelChan)
  /\ worker' = IF RowsOf(Head(cancelChan)) = {} THEN worker
               ELSE [worker EXCEPT !.pc = "send", !.next = "process",
                       !.index = Min(RowsOf(Head(cancelChan))),
                       !.result = "aborted"]
  /\ UNCHANGED <<slices, ids, isNotified, wakePipe, waitChan, idChan, chan,
                 call, signal, request>>

ProcessDone_afterOne ==
  /\ worker.pc = "process"
  /\ worker' = IdleWorker("WaitMany")
  /\ UNCHANGED <<slices, ids, queues, chan, call, signal, request>>

ProcessDone ==
  /\ worker.pc = "process"
  /\ waitChan = <<>> /\ cancelChan = <<>>
  /\ worker' = IdleWorker("WaitMany")
  /\ UNCHANGED <<slices, ids, queues, chan, call, signal, request>>

\* respondToSatisfiedWaits(): on to the next satisfied wait, or done.
Respond ==
  /\ worker.pc = "respond"
  /\ LET Satisfied == {i \in worker.index .. Len(worker.states) : worker.states[i]}
     IN worker' = IF Satisfied = {} THEN IdleWorker("WaitMany")
                  ELSE [worker EXCEPT !.pc = "send", !.next = "respond",
                          !.result = "ok", !.index = Min(Satisfied)]
  /\ UNCHANGED <<slices, ids, queues, chan, call, signal, request>>

\* Replaces the element at the index by the last one and drops the last.
SwapRemove(seq, index) == Front([seq EXCEPT ![index] = Last(seq)])

\* removeHandle(): all slices are changed alike.
RemoveHandle_channelsKept(index) ==
  /\ handles' = SwapRemove(handles, index)
  /\ asyncWaitIds' = SwapRemove(asyncWaitIds, index)
  /\ responses' = Front(responses)

RemoveHandle(index) ==
  /\ handles' = SwapRemove(handles, index)
  /\ asyncWaitIds' = SwapRemove(asyncWaitIds, index)
  /\ responses' = SwapRemove(responses, index)

\* What is left of the states slice after a response to a satisfied wait.
StatesAfterSend == SwapRemove(worker.states, worker.index)

\* sendWaitResponseAndRemove(): blocks until the channel has room.
SendWaitResponseAndRemove ==
  /\ worker.pc = "send"
  /\ chan[responses[worker.index]] = <<>>
  /\ chan' = [chan EXCEPT ![responses[worker.index]] =
                <<[id |-> asyncWaitIds[worker.index], result |-> worker.result]>>]
  /\ RemoveHandle(worker.index)
  /\ worker' = IF worker.next = "respond"
               THEN [worker EXCEPT !.pc = "respond", !.states = StatesAfterSend]
               ELSE IdleWorker(worker.next)
  /\ UNCHANGED <<ids, queues, call, signal, request>>

WorkerStep ==
  \/ WaitMany
  \/ StoreNotified
  \/ ReadWakeMessage
  \/ ProcessWait \/ ProcessCancel \/ ProcessDone
  \/ Respond
  \/ SendWaitResponseAndRemove

-----------------------------------------------------------------------------
(* Properties, whatever the callers do.                                    *)

Waking == {"wait_cas", "wait_write", "cancel_cas", "cancel_write"}

\* No wakeup is lost: if the worker is about to block while a request is
\* queued, a waking message is in the pipe or its sender is on the way,
\* although the flag may have been cleared by a return of WaitMany() that had
\* nothing to do with the request.
NoLostWakeup ==
  /\ worker.pc = "WaitMany"
  /\ waitChan # <<>> \/ cancelChan # <<>>
  => wakePipe > 0 \/ \E g \in Goroutines : call[g] \in Waking

-----------------------------------------------------------------------------
(* What NoLostWakeup rests on.                                             *)

Worker ==
  [pc : {"WaitMany", "store", "read", "process", "respond", "send"},
   index : Nat, result : {"ok", "error", "aborted"},
   next : {"WaitMany", "process", "respond"},
   states : Seq(BOOLEAN), ready : SUBSET Handles]

\* The worker's index is that of a row of its slices.
RowInRange == 1 <= worker.index /\ worker.index <= Len(handles)

\* The states of WaitMany() are those of the rows until they are used up.
StatesInUse ==
  \/ worker.pc \in {"store", "respond"}
  \/ worker.pc = "send" /\ worker.next = "respond"

\* The slices are as long as each other.
SlicesTypeOK ==
  /\ handles \in Seq(Handles)
  /\ asyncWaitIds \in Seq(Nat \ {0})
  /\ responses \in Seq(Chans)
  /\ Len(asyncWaitIds) = Len(handles) /\ Len(responses) = Len(handles)
  /\ ids \in Nat

\* The worker's index and states fit the slices.
WorkerTypeOK ==
  /\ worker \in Worker
  /\ worker.pc = "send" => RowInRange
  /\ worker.pc = "store" /\ worker.index # 0 => RowInRange
  /\ worker.pc = "store" => worker.result # "aborted"
  /\ worker.pc = "respond" => worker.index # 0
  /\ StatesInUse => Len(worker.states) = Len(handles)

Requests == [handle : Handles, chan : Chans, from : Goroutines]
Responses == [id : Nat, result : {"ok", "error", "aborted"}]

QueuesTypeOK ==
  /\ isNotified \in {0, 1}
  /\ wakePipe \in Nat
  /\ waitChan \in Seq(Requests)
  /\ cancelChan \in Seq(Nat \ {0})
  /\ idChan \in [Goroutines -> Nat]

CallersTypeOK ==
  /\ chan \in [Chans -> Seq(Responses)]
  /\ call \in [Goroutines -> Waking \cup {"none", "wait_id"}]
  /\ signal \in [Handles -> {"idle", "readable", "dead", "closed"}]

WaiterTypeOK == SlicesTypeOK /\ WorkerTypeOK /\ QueuesTypeOK /\ CallersTypeOK

\* The worker has a message to read once it has seen the waking handle ready.
MessageToRead ==
  worker.pc = "read" \/ (worker.pc = "store" /\ worker.index = 0) => wakePipe > 0

\* A raised flag stands for a message the worker will still see, or for a
\* caller about to write one: the one being read does not count.
FlagMeansMessage ==
  isNotified = 1 =>
    \/ wakePipe > IF worker.pc = "read" THEN 1 ELSE 0
    \/ \E g \in Goroutines : call[g] \in {"wait_write", "cancel_write"}

\* The worker goes to the queues before it blocks again.
WillProcess ==
  \/ worker.pc \in {"read", "process"}
  \/ worker.pc = "send" /\ worker.next = "process"

\* A queued request is on the worker's way, or a wakeup is.
RequestsSeen ==
  waitChan # <<>> \/ cancelChan # <<>> =>
    \/ WillProcess
    \/ wakePipe > 0
    \/ \E g \in Goroutines : call[g] \in Waking

WakeupInv == MessageToRead /\ FlagMeansMessage /\ RequestsSeen
=============================================================================
