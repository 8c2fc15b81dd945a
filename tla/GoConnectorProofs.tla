------------------------- MODULE GoConnectorProofs -------------------------
(***************************************************************************)
(* What holds of a Go connector and its stub for any number of goroutines  *)
(* serving requests and any number of messages.                            *)
(*                                                                         *)
(* Up to the section on the waiter inside the connector the lemmas are     *)
(* about AsyncWaiter alone.  AsyncWaiterProofs has them too, but about     *)
(* callers with a channel each, where here all goroutines share one: its   *)
(* assumptions exclude a connector's, so it cannot be extended here.       *)
(***************************************************************************)
EXTENDS GoConnector, WellFoundedInduction, TLAPS

USE AsyncWaiterAssumption

-----------------------------------------------------------------------------
(* The operators of the model.                                             *)

\* The smallest of some row numbers exists and is one of them.
LEMMA MinIsMember ==
  ASSUME NEW S \in SUBSET Nat, S # {}
  PROVE  Min(S) \in S
<1>1. \E x \in S : \A y \in S : ~ (<<y, x>> \in OpToRel(<, Nat))
  BY NatLessThanWellFounded, WFMin
<1>2. \A x, y \in Nat : y < x => <<y, x>> \in OpToRel(<, Nat)
  BY DEF OpToRel
<1>3. PICK x \in S : \A y \in S : ~ (<<y, x>> \in OpToRel(<, Nat))
  BY <1>1
<1>4. \A y \in S : ~ (y < x)
  BY <1>2, <1>3
<1>5. \A y \in S : x =< y
  BY <1>4
<1> QED
  BY <1>5 DEF Min

\* removeHandle(): the last element takes the place of the removed one.
LEMMA SwapRemoved ==
  ASSUME NEW S, NEW s \in Seq(S), NEW n \in 1 .. Len(s)
  PROVE  /\ SwapRemove(s, n) \in Seq(S)
         /\ Len(SwapRemove(s, n)) = Len(s) - 1
         /\ \A i \in 1 .. Len(s) - 1 :
              SwapRemove(s, n)[i] = IF i = n THEN s[Len(s)] ELSE s[i]
<1> DEFINE t == [s EXCEPT ![n] = s[Len(s)]]
<1>1. t \in Seq(S) /\ Len(t) = Len(s)
  OBVIOUS
<1>2. SwapRemove(s, n) = SubSeq(t, 1, Len(s) - 1)
  BY <1>1 DEF SwapRemove, Front, Last
<1> HIDE DEF t
<1>3. /\ SubSeq(t, 1, Len(s) - 1) \in Seq(S)
      /\ Len(SubSeq(t, 1, Len(s) - 1)) = Len(s) - 1
      /\ \A i \in 1 .. Len(s) - 1 : SubSeq(t, 1, Len(s) - 1)[i] = t[i]
  BY <1>1
<1> QED
  BY <1>2, <1>3 DEF t

-----------------------------------------------------------------------------
(* The waiter, whatever its callers do: type correctness.                  *)

\* WaitMany(): what the worker knows when it returns.
LEMMA WaitManyReturns ==
  ASSUME WaiterTypeOK, WaitMany
  PROVE  /\ worker' \in Worker
         /\ worker'.pc = "store" /\ worker'.index \in 0 .. Len(handles)
         /\ Len(worker'.states) = Len(handles)
         /\ \A i \in DOMAIN handles : worker'.states[i] <=> signal[handles[i]] = "readable"
         /\ worker'.index = 0 => wakePipe > 0
         /\ worker'.index # 0 => signal[handles[worker'.index]] # "idle"
         /\ worker'.result = IF worker'.index = 0 \/ signal[handles[worker'.index]] = "readable"
                             THEN "ok" ELSE "error"
         /\ UNCHANGED handles
<1> DEFINE states == [i \in DOMAIN handles |-> signal[handles[i]] = "readable"]
           ready == {h \in Handles : signal[h] = "readable"}
           result(index) == IF index = 0 \/ signal[handles[index]] = "readable"
                            THEN "ok" ELSE "error"
<1>1. PICK index \in 0 .. Len(handles) :
        /\ IF index = 0 THEN wakePipe > 0 ELSE signal[handles[index]] # "idle"
        /\ worker' = [worker EXCEPT !.pc = "store", !.index = index,
                        !.result = result(index), !.states = states, !.ready = ready]
  BY DEF WaitMany
<1>2. states \in Seq(BOOLEAN) /\ Len(states) = Len(handles)
  <2>1. states \in [1 .. Len(handles) -> BOOLEAN] /\ Len(handles) \in Nat
    BY DEF WaiterTypeOK, SlicesTypeOK
  <2> HIDE DEF states
  <2> QED
    BY <2>1
<1>3. \A i \in DOMAIN handles : states[i] <=> signal[handles[i]] = "readable"
  OBVIOUS
<1>4. ready \in SUBSET Handles /\ result(index) \in {"ok", "error"}
  OBVIOUS
<1>5. worker \in Worker /\ index \in Nat /\ UNCHANGED handles
  BY DEF WaiterTypeOK, WorkerTypeOK, SlicesTypeOK, WaitMany, slices
<1> HIDE DEF states, ready, result
<1>6. /\ worker' \in Worker
      /\ worker'.pc = "store" /\ worker'.index = index
      /\ worker'.states = states /\ worker'.result = result(index)
  BY <1>1, <1>2, <1>4, <1>5 DEF Worker
<1> QED
  BY <1>1, <1>2, <1>3, <1>5, <1>6 DEF result

\* respondToSatisfiedWaits(): the next wait is one that was satisfied.
LEMMA RespondPicks ==
  ASSUME WaiterTypeOK, Respond
  PROVE  \/ worker' = IdleWorker("WaitMany")
         \/ /\ worker' \in Worker
            /\ worker'.pc = "send" /\ worker'.next = "respond" /\ worker'.result = "ok"
            /\ worker'.index \in 1 .. Len(handles) /\ worker.states[worker'.index]
            /\ UNCHANGED handles
            /\ worker'.states = worker.states
            /\ Len(worker.states) = Len(handles)
<1> DEFINE Satisfied == {i \in worker.index .. Len(worker.states) : worker.states[i]}
<1>1. worker' = IF Satisfied = {} THEN IdleWorker("WaitMany")
                ELSE [worker EXCEPT !.pc = "send", !.next = "respond",
                        !.result = "ok", !.index = Min(Satisfied)]
  BY DEF Respond
<1>2. /\ worker \in Worker /\ worker.index \in Nat \ {0}
      /\ Len(worker.states) = Len(handles) /\ Len(handles) \in Nat
      /\ UNCHANGED handles
  BY DEF Respond, WaiterTypeOK, WorkerTypeOK, SlicesTypeOK, Worker, StatesInUse, slices
<1>3. CASE Satisfied # {}
  <2>1. Satisfied \in SUBSET Nat
    BY <1>2
  <2>2. Min(Satisfied) \in Satisfied
    BY <1>3, <2>1, MinIsMember
  <2>3. Min(Satisfied) \in 1 .. Len(handles) /\ worker.states[Min(Satisfied)]
    BY <1>2, <2>2
  <2> HIDE DEF Satisfied
  <2>4. /\ worker' \in Worker
        /\ worker'.pc = "send" /\ worker'.next = "respond" /\ worker'.result = "ok"
        /\ worker'.index = Min(Satisfied) /\ worker'.states = worker.states
    <3>1. worker \in Worker /\ Min(Satisfied) \in Nat
      BY <1>2, <2>3
    <3> QED
      BY <1>1, <1>3, <3>1 DEF Worker
  <2> QED
    BY <1>2, <2>3, <2>4
<1> QED
  BY <1>1, <1>3

\* The worker's steps keep all variables in their types, and their slices,
\* index and states together.
LEMMA WorkerType ==
  ASSUME WaiterTypeOK, MessageToRead, WorkerStep
  PROVE  WaiterTypeOK'
<1> USE DEF WaiterTypeOK
<1>1. CASE WaitMany
  <2>1. SlicesTypeOK' /\ QueuesTypeOK' /\ CallersTypeOK'
    BY <1>1 DEF WaitMany, slices, queues, SlicesTypeOK, QueuesTypeOK, CallersTypeOK
  <2>2. WorkerTypeOK'
    BY <1>1, WaitManyReturns DEF WorkerTypeOK, RowInRange, StatesInUse, SlicesTypeOK
  <2> QED
    BY <2>1, <2>2
<1>2. CASE StoreNotified
  <2>1. SlicesTypeOK' /\ QueuesTypeOK' /\ CallersTypeOK'
    BY <1>2 DEF StoreNotified, slices, SlicesTypeOK, QueuesTypeOK, CallersTypeOK
  <2>2. handles' = handles /\ Len(handles) \in Nat
    BY <1>2 DEF StoreNotified, slices, SlicesTypeOK
  <2>3. worker \in Worker /\ worker.index \in Nat /\ worker.pc = "store"
    BY <1>2 DEF StoreNotified, WorkerTypeOK, Worker
  <2>4. CASE worker.index = 0
    <3>1. worker' = IdleWorker("read")
      BY <1>2, <2>4 DEF StoreNotified, AfterStore
    <3> QED
      BY <2>1, <3>1 DEF IdleWorker, WorkerTypeOK, Worker, StatesInUse
  <2>5. CASE worker.index # 0 /\ worker.result # "ok"
    <3>1. worker' = [worker EXCEPT !.pc = "send", !.next = "WaitMany"]
      BY <1>2, <2>5 DEF StoreNotified, AfterStore
    <3>2. /\ worker' \in Worker
          /\ worker'.pc = "send" /\ worker'.next = "WaitMany"
          /\ worker'.index = worker.index
      BY <2>3, <3>1 DEF Worker
    <3> QED
      BY <2>1, <2>2, <2>3, <2>5, <3>2 DEF WorkerTypeOK, RowInRange, StatesInUse
  <2>6. CASE worker.index # 0 /\ worker.result = "ok"
    <3>1. worker' = [worker EXCEPT !.pc = "respond", !.index = 1]
      BY <1>2, <2>6 DEF StoreNotified, AfterStore
    <3>2. /\ worker' \in Worker
          /\ worker'.pc = "respond" /\ worker'.index = 1
          /\ worker'.states = worker.states
      BY <2>3, <3>1 DEF Worker
    <3> QED
      BY <2>1, <2>2, <2>3, <3>2 DEF WorkerTypeOK, StatesInUse
  <2> QED
    BY <2>3, <2>4, <2>5, <2>6
<1>3. CASE ReadWakeMessage
  <2>1. QueuesTypeOK'
    BY <1>3 DEF ReadWakeMessage, MessageToRead, QueuesTypeOK
  <2>2. SlicesTypeOK' /\ CallersTypeOK'
    BY <1>3 DEF ReadWakeMessage, slices, SlicesTypeOK, CallersTypeOK
  <2>3. WorkerTypeOK'
    BY <1>3 DEF ReadWakeMessage, IdleWorker, WorkerTypeOK, Worker, StatesInUse
  <2> QED
    BY <2>1, <2>2, <2>3
<1>4. CASE ProcessWait
  <2>1. Head(waitChan) \in Requests /\ waitChan' \in Seq(Requests)
    BY <1>4 DEF ProcessWait, QueuesTypeOK
  <2>2. /\ Head(waitChan).handle \in Handles
        /\ Head(waitChan).chan \in Chans
        /\ Head(waitChan).from \in Goroutines
    BY <2>1 DEF Requests
  <2>3. NewId \in Nat \ {0} /\ ids' = NewId
    BY <1>4 DEF NewId, SlicesTypeOK, ProcessWait
  <2>4. SlicesTypeOK'
    BY <1>4, <2>2, <2>3 DEF ProcessWait, SlicesTypeOK
  <2>5. QueuesTypeOK'
    BY <1>4, <2>1, <2>2, <2>3 DEF ProcessWait, QueuesTypeOK
  <2>6. CallersTypeOK'
    BY <1>4 DEF ProcessWait, CallersTypeOK
  <2>7. WorkerTypeOK'
    BY <1>4 DEF ProcessWait, WorkerTypeOK, StatesInUse
  <2> QED
    BY <2>4, <2>5, <2>6, <2>7
<1>5. CASE ProcessCancel
  <2>1. cancelChan' \in Seq(Nat \ {0})
    BY <1>5 DEF ProcessCancel, QueuesTypeOK
  <2>2. SlicesTypeOK' /\ QueuesTypeOK' /\ CallersTypeOK'
    BY <1>5, <2>1 DEF ProcessCancel, slices, SlicesTypeOK, QueuesTypeOK, CallersTypeOK
  <2>3. handles' = handles /\ Len(handles) \in Nat
    BY <1>5 DEF ProcessCancel, slices, SlicesTypeOK
  <2>4. RowsOf(Head(cancelChan)) \subseteq 1 .. Len(handles)
    BY DEF RowsOf, SlicesTypeOK
  <2>5. RowsOf(Head(cancelChan)) # {} => Min(RowsOf(Head(cancelChan))) \in 1 .. Len(handles)
    BY <2>3, <2>4, MinIsMember
  <2>6. CASE RowsOf(Head(cancelChan)) = {}
    BY <1>5, <2>2, <2>3, <2>6 DEF ProcessCancel, WorkerTypeOK, RowInRange, StatesInUse
  <2>7. CASE RowsOf(Head(cancelChan)) # {}
    <3> DEFINE row == Min(RowsOf(Head(cancelChan)))
    <3>1. worker' = [worker EXCEPT !.pc = "send", !.next = "process",
                       !.index = row, !.result = "aborted"]
      BY <1>5, <2>7 DEF ProcessCancel
    <3>2. row \in 1 .. Len(handles)
      BY <2>5, <2>7
    <3> HIDE DEF row
    <3>3. /\ worker' \in Worker
          /\ worker'.pc = "send" /\ worker'.next = "process" /\ worker'.index = row
      <4>1. worker \in Worker /\ row \in Nat
        BY <3>2 DEF WorkerTypeOK
      <4> QED
        BY <3>1, <4>1 DEF Worker
    <3>4. WorkerTypeOK'
      BY <2>3, <3>2, <3>3 DEF WorkerTypeOK, RowInRange, StatesInUse
    <3> QED
      BY <2>2, <3>4
  <2> QED
    BY <2>6, <2>7
<1>6. CASE ProcessDone
  BY <1>6 DEF ProcessDone, IdleWorker, slices, queues, SlicesTypeOK, QueuesTypeOK,
              CallersTypeOK, WorkerTypeOK, Worker, StatesInUse
<1>7. CASE Respond
  <2>1. SlicesTypeOK' /\ QueuesTypeOK' /\ CallersTypeOK'
    BY <1>7 DEF Respond, slices, queues, SlicesTypeOK, QueuesTypeOK, CallersTypeOK
  <2>2. CASE worker' = IdleWorker("WaitMany")
    BY <2>1, <2>2 DEF IdleWorker, WorkerTypeOK, Worker, StatesInUse
  <2>3. CASE worker' # IdleWorker("WaitMany")
    BY <1>7, <2>1, <2>3, RespondPicks DEF WorkerTypeOK, RowInRange, StatesInUse
  <2> QED
    BY <2>2, <2>3
<1>8. CASE SendWaitResponseAndRemove
  <2>1. worker.index \in 1 .. Len(handles)
    BY <1>8 DEF SendWaitResponseAndRemove, WorkerTypeOK, Worker, RowInRange, SlicesTypeOK
  <2>2. /\ handles' \in Seq(Handles) /\ Len(handles') = Len(handles) - 1
        /\ asyncWaitIds' \in Seq(Nat \ {0}) /\ Len(asyncWaitIds') = Len(handles) - 1
        /\ responses' \in Seq(Chans) /\ Len(responses') = Len(handles) - 1
    BY <1>8, <2>1, SwapRemoved DEF SendWaitResponseAndRemove, RemoveHandle, SlicesTypeOK
  <2>3. SlicesTypeOK' /\ QueuesTypeOK'
    BY <1>8, <2>2 DEF SendWaitResponseAndRemove, queues, SlicesTypeOK, QueuesTypeOK
  <2>4. /\ responses[worker.index] \in Chans
        /\ [id |-> asyncWaitIds[worker.index], result |-> worker.result] \in Responses
    BY <2>1 DEF SlicesTypeOK, WorkerTypeOK, Worker, Responses
  <2>5. CallersTypeOK'
    BY <1>8, <2>4 DEF SendWaitResponseAndRemove, CallersTypeOK
  <2>6. worker.next = "respond" =>
          StatesAfterSend \in Seq(BOOLEAN) /\ Len(StatesAfterSend) = Len(handles) - 1
    <3> SUFFICES ASSUME worker.next = "respond"
                 PROVE  StatesAfterSend \in Seq(BOOLEAN)
                        /\ Len(StatesAfterSend) = Len(handles) - 1
      OBVIOUS
    <3>1. worker.states \in Seq(BOOLEAN) /\ Len(worker.states) = Len(handles)
      BY <1>8 DEF SendWaitResponseAndRemove, WorkerTypeOK, Worker, StatesInUse
    <3> QED
      BY <2>1, <3>1, SwapRemoved DEF StatesAfterSend
  <2>7. CASE worker.next = "respond"
    <3>1. worker' = [worker EXCEPT !.pc = "respond", !.states = StatesAfterSend]
      BY <1>8, <2>7 DEF SendWaitResponseAndRemove
    <3>2. /\ worker' \in Worker
          /\ worker'.pc = "respond" /\ worker'.index = worker.index
          /\ worker'.states = StatesAfterSend
      BY <2>6, <2>7, <3>1 DEF WorkerTypeOK, Worker
    <3>3. WorkerTypeOK'
      BY <2>1, <2>2, <2>6, <2>7, <3>2 DEF WorkerTypeOK, StatesInUse
    <3> QED
      BY <2>3, <2>5, <3>3
  <2>8. CASE worker.next # "respond"
    <3>1. worker' = IdleWorker(worker.next) /\ worker.next \in {"WaitMany", "process"}
      BY <1>8, <2>8 DEF SendWaitResponseAndRemove, WorkerTypeOK, Worker
    <3>2. WorkerTypeOK'
      BY <3>1 DEF IdleWorker, WorkerTypeOK, Worker, StatesInUse
    <3> QED
      BY <2>3, <2>5, <3>2
  <2> QED
    BY <2>7, <2>8
<1> QED
  BY <1>1, <1>2, <1>3, <1>4, <1>5, <1>6, <1>7, <1>8 DEF WorkerStep

\* The steps of callers and peers: they leave the worker alone.
LEMMA WorkerUntouched ==
  ASSUME SlicesTypeOK, WorkerTypeOK, UNCHANGED workerVars
  PROVE  SlicesTypeOK' /\ WorkerTypeOK'
BY DEF SlicesTypeOK, WorkerTypeOK, workerVars, slices, RowInRange, StatesInUse
\* The steps of a caller inside AsyncWait() and CancelWait().
CallerStep(g) ==
  \/ WakeCAS(g)
  \/ WakeWrite(g)
  \/ AsyncWaitReturns(g)
  \/ \E h \in Handles, c \in Chans : AsyncWait(g, h, c)
  \/ \E id \in Nat \ {0} : CancelWait(g, id)

\* What the callers put into the channels is of its type.
LEMMA CallerType ==
  ASSUME WaiterTypeOK, NEW g \in Goroutines, CallerStep(g)
  PROVE  WaiterTypeOK'
<1> USE DEF WaiterTypeOK
<1>1. CASE WakeCAS(g)
  <2>1. QueuesTypeOK' /\ CallersTypeOK'
    BY <1>1 DEF WakeCAS, AfterWake, QueuesTypeOK, CallersTypeOK, Waking
  <2> QED
    BY <1>1, <2>1, WorkerUntouched DEF WakeCAS
<1>2. CASE WakeWrite(g)
  <2>1. QueuesTypeOK' /\ CallersTypeOK'
    BY <1>2 DEF WakeWrite, AfterWake, QueuesTypeOK, CallersTypeOK, Waking
  <2> QED
    BY <1>2, <2>1, WorkerUntouched DEF WakeWrite
<1>3. CASE AsyncWaitReturns(g)
  <2>1. QueuesTypeOK' /\ CallersTypeOK'
    BY <1>3 DEF AsyncWaitReturns, QueuesTypeOK, CallersTypeOK
  <2> QED
    BY <1>3, <2>1, WorkerUntouched DEF AsyncWaitReturns
<1>4. ASSUME NEW h \in Handles, NEW c \in Chans, AsyncWait(g, h, c)
      PROVE  WaiterTypeOK'
  <2>1. [handle |-> h, chan |-> c, from |-> g] \in Requests
    BY DEF Requests
  <2>2. QueuesTypeOK' /\ CallersTypeOK'
    BY <1>4, <2>1 DEF AsyncWait, QueuesTypeOK, CallersTypeOK, Waking
  <2> QED
    BY <1>4, <2>2, WorkerUntouched DEF AsyncWait
<1>5. ASSUME NEW id \in Nat \ {0}, CancelWait(g, id)
      PROVE  WaiterTypeOK'
  <2>1. QueuesTypeOK' /\ CallersTypeOK'
    BY <1>5 DEF CancelWait, QueuesTypeOK, CallersTypeOK, Waking
  <2> QED
    BY <1>5, <2>1, WorkerUntouched DEF CancelWait
<1> QED
  BY <1>1, <1>2, <1>3, <1>4, <1>5 DEF CallerStep

-----------------------------------------------------------------------------
(* The waiter, whatever its callers do: the wakeup protocol.               *)

\* No step of the worker loses the wakeup that a queued request needs.
LEMMA WorkerWakeup ==
  ASSUME WaiterTypeOK, WakeupInv, WorkerStep
  PROVE  WakeupInv'
<1> USE DEF WakeupInv, MessageToRead, FlagMeansMessage, RequestsSeen, WillProcess
<1>t. /\ worker \in Worker /\ isNotified \in {0, 1} /\ wakePipe \in Nat
      /\ call \in [Goroutines -> Waking \cup {"none", "wait_id"}]
  BY DEF WaiterTypeOK, WorkerTypeOK, QueuesTypeOK, CallersTypeOK
<1>1. CASE WaitMany
  <2>1. worker'.pc = "store" /\ (worker'.index = 0 => wakePipe > 0)
    BY <1>1, WaitManyReturns
  <2> QED
    BY <1>1, <2>1 DEF WaitMany, queues
<1>2. CASE StoreNotified
  <2>1. /\ worker.pc = "store"
        /\ worker'.pc \in {"read", "respond", "send"}
        /\ worker'.pc = "read" <=> worker.index = 0
    BY <1>2, <1>t DEF StoreNotified, AfterStore, IdleWorker, Worker
  <2> QED
    BY <1>2, <2>1 DEF StoreNotified
<1>3. CASE ReadWakeMessage
  <2>1. worker.pc = "read" /\ worker'.pc = "process"
    BY <1>3 DEF ReadWakeMessage, IdleWorker
  <2> QED
    BY <1>3, <1>t, <2>1 DEF ReadWakeMessage
<1>4. CASE ProcessWait
  BY <1>4 DEF ProcessWait
<1>5. CASE ProcessCancel
  <2>1. /\ worker.pc = "process"
        /\ \/ worker'.pc = "process"
           \/ worker'.pc = "send" /\ worker'.next = "process"
    BY <1>5, <1>t DEF ProcessCancel, Worker
  <2> QED
    BY <1>5, <2>1 DEF ProcessCancel
<1>6. CASE ProcessDone
  BY <1>6 DEF ProcessDone, IdleWorker, queues
<1>7. CASE Respond
  <2>1. worker.pc = "respond" /\ worker'.pc \in {"WaitMany", "send"}
    BY <1>7, <1>t DEF Respond, IdleWorker, Worker
  <2> QED
    BY <1>7, <2>1 DEF Respond, queues
<1>8. CASE SendWaitResponseAndRemove
  <2>1. /\ worker.pc = "send"
        /\ worker'.pc \in {"WaitMany", "process", "respond"}
        /\ worker.next = "process" => worker'.pc = "process"
    BY <1>8, <1>t DEF SendWaitResponseAndRemove, IdleWorker, Worker
  <2> QED
    BY <1>8, <2>1 DEF SendWaitResponseAndRemove, queues
<1> QED
  BY <1>1, <1>2, <1>3, <1>4, <1>5, <1>6, <1>7, <1>8 DEF WorkerStep

\* wakeWorker(): nor does a step of a caller; a new request brings its own.
LEMMA CallerWakeup ==
  ASSUME WaiterTypeOK, WakeupInv, NEW g \in Goroutines, CallerStep(g)
  PROVE  WakeupInv'
<1> USE DEF WakeupInv, MessageToRead, FlagMeansMessage, RequestsSeen, WillProcess
<1>t. /\ worker \in Worker /\ isNotified \in {0, 1} /\ wakePipe \in Nat
      /\ call \in [Goroutines -> Waking \cup {"none", "wait_id"}]
  BY DEF WaiterTypeOK, WorkerTypeOK, QueuesTypeOK, CallersTypeOK
<1>1. CASE WakeCAS(g)
  <2>1. UNCHANGED <<worker, wakePipe, waitChan, cancelChan>>
    BY <1>1 DEF WakeCAS, workerVars
  <2>2. CASE isNotified = 1
    <3>1. \A k \in Goroutines : call[k] \in {"wait_write", "cancel_write"} =>
            call'[k] = call[k]
      BY <1>1, <1>t DEF WakeCAS
    <3> QED
      BY <2>1, <2>2, <3>1, <1>t DEF Waking
  <2>3. CASE isNotified # 1
    <3>1. call'[g] \in {"wait_write", "cancel_write"}
      BY <1>1, <1>t, <2>3 DEF WakeCAS
    <3> QED
      BY <2>1, <3>1 DEF Waking
  <2> QED
    BY <2>2, <2>3
<1>2. CASE WakeWrite(g)
  BY <1>2, <1>t DEF WakeWrite, workerVars
<1>3. CASE AsyncWaitReturns(g)
  <2>1. UNCHANGED <<worker, isNotified, wakePipe, waitChan, cancelChan>>
    BY <1>3 DEF AsyncWaitReturns, workerVars
  <2>2. \A k \in Goroutines : call[k] \in Waking => call'[k] = call[k]
    BY <1>3, <1>t DEF AsyncWaitReturns, Waking
  <2> QED
    BY <2>1, <2>2 DEF Waking
<1>4. CASE \/ \E h \in Handles, c \in Chans : AsyncWait(g, h, c)
           \/ \E id \in Nat \ {0} : CancelWait(g, id)
  <2>1. UNCHANGED <<worker, isNotified, wakePipe>>
    BY <1>4 DEF CancelWait, AsyncWait, workerVars
  <2>2. /\ call'[g] \in Waking
        /\ \A k \in Goroutines : call[k] \in Waking => call'[k] = call[k]
    BY <1>4, <1>t DEF CancelWait, AsyncWait, Waking
  <2> QED
    BY <2>1, <2>2 DEF Waking
<1> QED
  BY <1>1, <1>2, <1>3, <1>4 DEF CallerStep

\* Other steps leave the protocol alone.
LEMMA WakeupUntouched ==
  ASSUME WakeupInv, UNCHANGED <<workerVars, queues, call>>
  PROVE  WakeupInv'
BY DEF WakeupInv, MessageToRead, FlagMeansMessage, RequestsSeen, WillProcess, workerVars,
       queues

\* Before the first call.
LEMMA WaiterStarts ==
  ASSUME WaiterInit
  PROVE  WaiterTypeOK /\ WakeupInv
<1> USE DEF WaiterInit
<1>1. WaiterTypeOK
  BY DEF WaiterTypeOK, SlicesTypeOK, WorkerTypeOK, QueuesTypeOK, CallersTypeOK, IdleWorker,
         Worker, StatesInUse, Waking
<1>2. WakeupInv
  BY DEF WakeupInv, MessageToRead, FlagMeansMessage, RequestsSeen, IdleWorker
<1> QED
  BY <1>1, <1>2

\* The invariant is strong enough.
LEMMA WakeupSuffices ==
  ASSUME WakeupInv
  PROVE  NoLostWakeup
BY DEF WakeupInv, RequestsSeen, WillProcess, NoLostWakeup

USE GoConnectorAssumption

-----------------------------------------------------------------------------
(* The waiter inside the connector.                                        *)

\* A step that the waiter takes no part in: a response may be received, and the
\* pipe read, written or closed.
Aside ==
  /\ UNCHANGED <<workerVars, queues, call>>
  /\ chan' \in {chan, [chan EXCEPT ![WaitChan] = <<>>]}
  /\ \/ signal' = signal
     \/ \E s \in {"idle", "readable", "dead", "closed"} : signal' = [signal EXCEPT ![Pipe] = s]

\* A step of a goroutine is one of a caller of the waiter, or it is aside.
LEMMA GoroutineKinds ==
  ASSUME WaiterTypeOK, ConnectorTypeOK, IdKnown,
         NEW g \in Goroutines, GoroutineStep(g)
  PROVE  CallerStep(g) \/ Aside
<1>1. CASE \/ LockWait(g) \/ RLock(g) \/ ReadNothing(g) \/ SelectDone(g)
           \/ CancelReturns(g) \/ Unlock(g)
  BY <1>1 DEF LockWait, RLock, ReadNothing, SelectDone, CancelReturns, Unlock, waiterVars, Aside
<1>2. CASE \/ Accept(g) \/ WriteMessage(g) \/ OnceDo(g) \/ CloseDone(g) \/ WLock(g)
  BY <1>2 DEF Accept, WriteMessage, OnceDo, CloseDone, WLock, waiterVars, Aside
<1>3. CASE ReadMessage(g) \/ ReadAgain(g)
  BY <1>3 DEF ReadMessage, ReadAgain, TakeMessage, PipeSignal, Aside
<1>4. CASE ClosePipe(g)
  BY <1>4 DEF ClosePipe, Aside
<1>5. CASE SelectResponse(g)
  BY <1>5 DEF SelectResponse, Aside
<1>6. CASE StartWait(g) \/ GetId(g) \/ WakeCAS(g) \/ WakeWrite(g)
  BY <1>6 DEF StartWait, GetId, CallerStep
<1>7. CASE StartCancel(g)
  BY <1>7 DEF StartCancel, CallerStep, ConnectorTypeOK, IdKnown
<1> QED
  BY <1>1, <1>2, <1>3, <1>4, <1>5, <1>6, <1>7 DEF GoroutineStep

\* The same for all steps.
LEMMA Kinds ==
  ASSUME WaiterTypeOK, ConnectorTypeOK, IdKnown, [Next]_vars
  PROVE  WorkerStep \/ (\E g \in Goroutines : CallerStep(g)) \/ Aside
<1>1. CASE CallClose \/ PeerSends \/ PeerCloses
  BY <1>1 DEF CallClose, PeerSends, PeerCloses, PipeSignal, waiterVars, Aside
<1>2. CASE UNCHANGED vars
  BY <1>2 DEF vars, waiterVars, Aside
<1> QED
  BY <1>1, <1>2, GoroutineKinds DEF Next, WaiterStep, Finished

\* The waiter keeps its types and loses no wakeup of a connector.
LEMMA WaiterKept ==
  ASSUME WaiterTypeOK, WakeupInv, ConnectorTypeOK, IdKnown, [Next]_vars
  PROVE  WaiterTypeOK' /\ WakeupInv'
<1>1. CASE WorkerStep
  BY <1>1, WorkerType, WorkerWakeup DEF WakeupInv
<1>2. ASSUME NEW g \in Goroutines, CallerStep(g)
      PROVE  WaiterTypeOK' /\ WakeupInv'
  BY <1>2, CallerType, CallerWakeup
<1>3. CASE Aside
  <2>1. QueuesTypeOK'
    BY <1>3 DEF Aside, queues, WaiterTypeOK, QueuesTypeOK
  <2>2. chan' \in [Chans -> Seq(Responses)]
    <3>1. chan \in [Chans -> Seq(Responses)] /\ <<>> \in Seq(Responses)
      BY DEF WaiterTypeOK, CallersTypeOK
    <3>2. chan' = chan \/ chan' = [chan EXCEPT ![WaitChan] = <<>>]
      BY <1>3 DEF Aside
    <3> QED
      BY <3>1, <3>2
  <2>3. signal' \in [Handles -> {"idle", "readable", "dead", "closed"}]
    BY <1>3 DEF Aside, WaiterTypeOK, CallersTypeOK
  <2>4. CallersTypeOK'
    BY <1>3, <2>2, <2>3 DEF Aside, WaiterTypeOK, CallersTypeOK
  <2> QED
    BY <1>3, <2>1, <2>4, WorkerUntouched, WakeupUntouched DEF Aside, WaiterTypeOK
<1> QED
  BY <1>1, <1>2, <1>3, Kinds

-----------------------------------------------------------------------------
(* The locks and the pipe.                                                 *)

\* The signal after a read, a write or the closing of the other end.
LEMMA SignalSet ==
  ASSUME WaiterTypeOK, NEW n \in Nat, NEW peer \in BOOLEAN
  PROVE  /\ PipeSignal(n, peer)[Pipe] # "closed"
         /\ PipeSignal(n, peer)[Pipe] = "readable" <=> n > 0
         /\ PipeSignal(n, peer)[Pipe] = "idle" <=> n = 0 /\ peer
BY DEF PipeSignal, WaiterTypeOK, CallersTypeOK

\* What the mutexes, the flag and the once guard.
Guarded == ConnectorTypeOK /\ LocksHeld /\ IdKnown /\ DoneFirst /\ PipeUsedOpen

\* ReadMessage() and ServeRequest(): both locks are held from the check of the
\* pipe to the return.
LEMMA ReaderGuarded ==
  ASSUME WaiterTypeOK, Guarded, NEW g \in Goroutines,
         \/ LockWait(g) \/ RLock(g) \/ ReadNothing(g) \/ SelectResponse(g) \/ SelectDone(g)
         \/ CancelReturns(g) \/ Unlock(g) \/ Accept(g) \/ WriteMessage(g)
  PROVE  Guarded'
<1> USE DEF Guarded, ConnectorTypeOK, LocksHeld, IdKnown, DoneFirst, PipeUsedOpen, PipeOpen,
            UsesPipe, Reading, Calls, GoTo, waiterVars, local, locks, world
<1>1. CASE LockWait(g)
  BY <1>1 DEF LockWait, WaitMutexFree
<1>2. CASE RLock(g)
  BY <1>2 DEF RLock
<1>3. CASE ReadNothing(g)
  BY <1>3 DEF ReadNothing
<1>4. CASE SelectResponse(g)
  BY <1>4 DEF SelectResponse
<1>5. CASE SelectDone(g)
  BY <1>5 DEF SelectDone
<1>6. CASE CancelReturns(g)
  BY <1>6 DEF CancelReturns
<1>7. CASE Unlock(g)
  BY <1>7 DEF Unlock
<1>8. CASE Accept(g)
  BY <1>8 DEF Accept
<1>9. CASE WriteMessage(g)
  BY <1>9 DEF WriteMessage
<1> QED
  BY <1>1, <1>2, <1>3, <1>4, <1>5, <1>6, <1>7, <1>8, <1>9

\* AsyncWait() and CancelWait(): the locks are kept.
LEMMA CallerGuarded ==
  ASSUME WaiterTypeOK, Guarded, NEW g \in Goroutines,
         \/ StartWait(g) \/ GetId(g) \/ StartCancel(g)
         \/ (WakeCAS(g) \/ WakeWrite(g)) /\ UNCHANGED <<local, locks, world>>
  PROVE  Guarded'
<1> USE DEF Guarded, ConnectorTypeOK, LocksHeld, IdKnown, DoneFirst, PipeUsedOpen, PipeOpen,
            UsesPipe, Reading, Calls, GoTo, local, locks, world
<1>1. CASE StartWait(g)
  BY <1>1 DEF StartWait, AsyncWait
<1>2. CASE GetId(g)
  <2>1. idChan[g] \in Nat \ {0} /\ UNCHANGED signal
    BY <1>2 DEF GetId, AsyncWaitReturns, WaiterTypeOK, QueuesTypeOK
  <2> QED
    BY <1>2, <2>1 DEF GetId
<1>3. CASE StartCancel(g)
  BY <1>3 DEF StartCancel, CancelWait
<1>4. CASE (WakeCAS(g) \/ WakeWrite(g)) /\ UNCHANGED <<local, locks, world>>
  BY <1>4 DEF WakeCAS, WakeWrite
<1> QED
  BY <1>1, <1>2, <1>3, <1>4

\* Connector.Close(): done is closed first, and the pipe when nobody reads.
LEMMA CloserGuarded ==
  ASSUME WaiterTypeOK, Guarded, NEW g \in Goroutines,
         OnceDo(g) \/ CloseDone(g) \/ WLock(g) \/ ClosePipe(g) \/ CallClose
  PROVE  Guarded'
<1> USE DEF Guarded, ConnectorTypeOK, LocksHeld, IdKnown, DoneFirst, PipeUsedOpen, PipeOpen,
            UsesPipe, Reading, Calls, GoTo, waiterVars, local, locks, world
<1>1. CASE OnceDo(g)
  BY <1>1 DEF OnceDo
<1>2. CASE CloseDone(g)
  BY <1>2 DEF CloseDone
<1>3. CASE WLock(g)
  BY <1>3 DEF WLock
<1>4. CASE ClosePipe(g)
  BY <1>4 DEF ClosePipe, NoReader
<1>5. CASE CallClose
  BY <1>5 DEF CallClose
<1> QED
  BY <1>1, <1>2, <1>3, <1>4, <1>5

\* Reading the pipe does not close it, nor does its other end.
LEMMA PipeGuarded ==
  ASSUME WaiterTypeOK, Guarded,
         \/ \E g \in Goroutines : ReadMessage(g) \/ ReadAgain(g)
         \/ PeerSends \/ PeerCloses
  PROVE  Guarded' /\ (PipeOpen' <=> PipeOpen)
<1>1. inbox \in Nat /\ peerOpen \in BOOLEAN
  BY DEF Guarded, ConnectorTypeOK
<1>2. ASSUME NEW g \in Goroutines, TakeMessage(g), at[g] \in {"ReadMessage", "ReadAgain"}
      PROVE  Guarded' /\ (PipeOpen' <=> PipeOpen)
  <2>1. inbox' \in Nat
    BY <1>1, <1>2 DEF TakeMessage, ReadOK
  <2>2. PipeOpen' <=> PipeOpen
    BY <1>1, <1>2, <2>1, SignalSet DEF TakeMessage, PipeOpen
  <2>3. UNCHANGED <<waitId, locks, peerOpen>>
    BY <1>2 DEF TakeMessage
  <2>4. /\ at' = [at EXCEPT ![g] = "Unlock"]
        /\ outcome' \in [Goroutines -> {"none", "message", "error"}]
    BY <1>2 DEF TakeMessage, GoTo, Guarded, ConnectorTypeOK
  <2>5. ConnectorTypeOK'
    BY <2>1, <2>3, <2>4 DEF Guarded, ConnectorTypeOK, locks, Calls, Reading
  <2>6. LocksHeld' /\ IdKnown' /\ DoneFirst' /\ PipeUsedOpen'
    BY <1>2, <2>2, <2>3, <2>4 DEF Guarded, ConnectorTypeOK, LocksHeld, IdKnown, DoneFirst,
                                  PipeUsedOpen, UsesPipe, Reading, locks
  <2> QED
    BY <2>2, <2>5, <2>6 DEF Guarded
<1>3. ASSUME PeerSends \/ PeerCloses
      PROVE  Guarded' /\ (PipeOpen' <=> PipeOpen)
  <2>1. inbox' \in Nat /\ peerOpen' \in BOOLEAN /\ UNCHANGED <<local, locks>>
    <3>1. CASE PeerSends
      BY <1>1, <3>1 DEF PeerSends
    <3>2. CASE PeerCloses
      BY <1>1, <3>2 DEF PeerCloses
    <3> QED
      BY <1>3, <3>1, <3>2
  <2>2. PipeOpen /\ PipeOpen'
    BY <1>1, <1>3, <2>1, SignalSet DEF PeerSends, PeerCloses, PipeOpen
  <2> QED
    BY <2>1, <2>2 DEF Guarded, ConnectorTypeOK, LocksHeld, IdKnown, DoneFirst, PipeUsedOpen,
                      local, locks
<1> QED
  BY <1>2, <1>3 DEF ReadMessage, ReadAgain

\* Every step keeps what the locks guard.
LEMMA GuardedStep ==
  ASSUME WaiterTypeOK, Guarded, [Next]_vars
  PROVE  Guarded'
<1>1. CASE WaiterStep \/ UNCHANGED vars
  <2>1. UNCHANGED <<signal, local, locks, world>>
    BY <1>1 DEF WaiterStep, WorkerStep, WaitMany, StoreNotified, ReadWakeMessage, ProcessWait,
                ProcessCancel, ProcessDone, Respond, SendWaitResponseAndRemove, vars, waiterVars
  <2> QED
    BY <2>1 DEF Guarded, ConnectorTypeOK, LocksHeld, IdKnown, DoneFirst, PipeUsedOpen, PipeOpen,
                local, locks, world
<1>2. ASSUME NEW g \in Goroutines, GoroutineStep(g)
      PROVE  Guarded'
  BY <1>2, ReaderGuarded, CallerGuarded, CloserGuarded, PipeGuarded DEF GoroutineStep
<1>3. CASE CallClose
  BY <1>3, CloserGuarded
<1> QED
  BY <1>1, <1>2, <1>3, PipeGuarded DEF Next, Finished

-----------------------------------------------------------------------------
(* A response is for a message.                                            *)

\* The worker and the wakeups leave the connector and its pipe alone.
LEMMA WorkerLeaves ==
  ASSUME WorkerStep
  PROVE  UNCHANGED <<signal, call>>
BY DEF WorkerStep, WaitMany, StoreNotified, ReadWakeMessage, ProcessWait, ProcessCancel,
       ProcessDone, Respond, SendWaitResponseAndRemove

\* The signal follows the pipe through every step.
LEMMA SignalStep ==
  ASSUME WaiterTypeOK, Guarded, SignalTells, [Next]_vars
  PROVE  SignalTells'
<1>1. CASE UNCHANGED <<signal, inbox, peerOpen>>
  BY <1>1 DEF SignalTells, PipeOpen, PipeSignal
<1>2. ASSUME NEW g \in Goroutines, TakeMessage(g)
      PROVE  SignalTells'
  <2>1. CASE PipeOpen
    <3>1. signal' = PipeSignal(inbox', peerOpen) /\ peerOpen' = peerOpen
      BY <1>2, <2>1 DEF TakeMessage
    <3> QED
      BY <3>1 DEF SignalTells, PipeSignal, WaiterTypeOK, CallersTypeOK
  <2>2. CASE ~PipeOpen
    BY <1>2, <2>2 DEF TakeMessage, SignalTells, PipeOpen
  <2> QED
    BY <2>1, <2>2
<1>3. ASSUME NEW g \in Goroutines, ClosePipe(g)
      PROVE  SignalTells'
  BY <1>3 DEF ClosePipe, SignalTells, PipeOpen, WaiterTypeOK, CallersTypeOK
<1>4. CASE PeerSends \/ PeerCloses
  <2>1. signal' = PipeSignal(inbox', peerOpen')
    BY <1>4 DEF PeerSends, PeerCloses
  <2> QED
    BY <2>1 DEF SignalTells, PipeSignal, WaiterTypeOK, CallersTypeOK
<1>5. CASE WaiterStep \/ CallClose \/ UNCHANGED vars
  BY <1>1, <1>5, WorkerLeaves DEF WaiterStep, CallClose, vars, waiterVars, world
<1>6. ASSUME NEW g \in Goroutines, GoroutineStep(g), ~TakeMessage(g), ~ClosePipe(g)
      PROVE  UNCHANGED <<signal, inbox, peerOpen>>
  <2>1. CASE StartWait(g) \/ GetId(g) \/ StartCancel(g)
    BY <2>1 DEF StartWait, AsyncWait, GetId, AsyncWaitReturns, StartCancel, CancelWait, world
  <2>2. CASE (WakeCAS(g) \/ WakeWrite(g)) /\ UNCHANGED <<local, locks, world>>
    BY <2>2 DEF WakeCAS, WakeWrite, world
  <2>3. CASE \/ LockWait(g) \/ RLock(g) \/ ReadNothing(g) \/ SelectResponse(g)
             \/ SelectDone(g) \/ CancelReturns(g) \/ Unlock(g)
    BY <2>3 DEF LockWait, RLock, ReadNothing, SelectResponse, SelectDone, CancelReturns, Unlock,
                waiterVars, world
  <2>4. CASE Accept(g) \/ WriteMessage(g) \/ OnceDo(g) \/ CloseDone(g) \/ WLock(g)
    BY <2>4 DEF Accept, WriteMessage, OnceDo, CloseDone, WLock, waiterVars, world
  <2> QED
    BY <1>6, <2>1, <2>2, <2>3, <2>4 DEF GoroutineStep, ReadMessage, ReadAgain
<1> QED
  BY <1>1, <1>2, <1>3, <1>4, <1>5, <1>6 DEF Next, Finished

\* The worker moves waits along and makes none; without cancellations it only
\* answers a wait whose handle it has found ready.
LEMMA WorkerMoves ==
  ASSUME WaiterTypeOK, WorkerStep, cancelChan = <<>>
  PROVE  cancelChan' = <<>> /\ Waits' = Waits
<1> DEFINE n == Len(waitChan)
           m == Len(handles)
           k == Len(chan[WaitChan])
<1>t. n \in Nat /\ m \in Nat /\ k \in Nat
  BY DEF WaiterTypeOK, SlicesTypeOK, QueuesTypeOK, CallersTypeOK
<1>1. CASE \/ WaitMany \/ StoreNotified \/ ReadWakeMessage \/ ProcessDone \/ Respond
  BY <1>1 DEF WaitMany, StoreNotified, ReadWakeMessage, ProcessDone, Respond, slices, queues,
              Waits
<1>2. CASE ProcessWait
  <2>1. Len(waitChan') = n - 1 /\ Len(handles') = m + 1
    BY <1>2 DEF ProcessWait, WaiterTypeOK, QueuesTypeOK, SlicesTypeOK
  <2>2. UNCHANGED <<cancelChan, chan>>
    BY <1>2 DEF ProcessWait
  <2>3. PICK a \in Nat, b \in Nat, c \in Nat : a = n /\ b = m /\ c = k
    BY <1>t
  <2>4. Waits = a + b + c /\ Waits' = (a - 1) + (b + 1) + c
    BY <2>1, <2>2, <2>3 DEF Waits
  <2> QED
    BY <2>2, <2>4
<1>3. CASE SendWaitResponseAndRemove
  <2>1. worker.index \in 1 .. Len(handles)
    BY <1>3 DEF SendWaitResponseAndRemove, WaiterTypeOK, WorkerTypeOK, Worker, RowInRange,
                SlicesTypeOK
  <2>2. responses[worker.index] = WaitChan
    BY <2>1 DEF WaiterTypeOK, SlicesTypeOK
  <2>3. Len(handles') = m - 1
    BY <1>3, <2>1, SwapRemoved DEF SendWaitResponseAndRemove, RemoveHandle, WaiterTypeOK,
                                   SlicesTypeOK
  <2>4. k = 0 /\ Len(chan'[WaitChan]) = 1
    <3> DEFINE r == [id |-> asyncWaitIds[worker.index], result |-> worker.result]
    <3>1. chan[WaitChan] = <<>> /\ chan' = [chan EXCEPT ![WaitChan] = <<r>>]
      BY <1>3, <2>2 DEF SendWaitResponseAndRemove
    <3>2. WaitChan \in DOMAIN chan
      BY DEF WaiterTypeOK, CallersTypeOK
    <3> HIDE DEF r
    <3> QED
      BY <3>1, <3>2
  <2>5. UNCHANGED <<waitChan, cancelChan>>
    BY <1>3 DEF SendWaitResponseAndRemove, queues
  <2> QED
    BY <1>t, <2>3, <2>4, <2>5 DEF Waits
<1>4. CASE ProcessCancel
  BY <1>4 DEF ProcessCancel
<1> QED
  BY <1>1, <1>2, <1>3, <1>4 DEF WorkerStep

\* Neither done nor the other end of the pipe is ever open again.
LEMMA Irrevocable ==
  ASSUME [Next]_vars
  PROVE  (done => done') /\ (peerOpen' => peerOpen)
<1>1. CASE WaiterStep \/ CallClose \/ PeerSends \/ PeerCloses \/ UNCHANGED vars
  <2>1. CASE WaiterStep \/ CallClose \/ UNCHANGED vars
    BY <2>1 DEF WaiterStep, CallClose, vars, locks, world
  <2>2. CASE PeerSends
    BY <2>2 DEF PeerSends, locks
  <2>3. CASE PeerCloses
    BY <2>3 DEF PeerCloses, locks
  <2> QED
    BY <1>1, <2>1, <2>2, <2>3
<1>2. ASSUME NEW g \in Goroutines, GoroutineStep(g)
      PROVE  (done => done') /\ (peerOpen' => peerOpen)
  BY <1>2 DEF GoroutineStep, LockWait, RLock, ReadMessage, ReadNothing, TakeMessage,
     StartWait, GetId, SelectResponse, ReadAgain, SelectDone, StartCancel, CancelReturns,
     Unlock, Accept, WriteMessage, OnceDo, CloseDone, WLock, ClosePipe, locks, world
<1> QED
  BY <1>1, <1>2 DEF Next, Finished

\* There are no waits while the goroutine that reads has not made its own.
LEMMA NoWaitYet ==
  ASSUME WaiterTypeOK, Guarded, OneWait, ~done,
         \/ waitMutex = None
         \/ \E g \in Goroutines : waitMutex = g /\ at[g] \notin {"id", "select"}
  PROVE  Waits = 0 /\ waitChan = <<>> /\ handles = <<>> /\ chan[WaitChan] = <<>>
<1>1. ~ \E g \in Goroutines : waitMutex = g /\ at[g] \in {"id", "select"}
  OBVIOUS
<1>2. waitChan \in Seq(Requests) /\ handles \in Seq(Handles) /\ chan[WaitChan] \in Seq(Responses)
  BY DEF WaiterTypeOK, SlicesTypeOK, QueuesTypeOK, CallersTypeOK
<1>3. PICK n \in Nat, m \in Nat, k \in Nat :
        n = Len(waitChan) /\ m = Len(handles) /\ k = Len(chan[WaitChan])
  BY <1>2
<1>4. Waits = n + m + k
  BY <1>3 DEF Waits
<1>5. Waits = 0
  BY <1>1, <1>4 DEF OneWait
<1>6. n = 0 /\ m = 0 /\ k = 0
  BY <1>4, <1>5
<1>7. \A S : \A q \in Seq(S) : Len(q) = 0 => q = <<>>
  OBVIOUS
<1> QED
  BY <1>2, <1>3, <1>5, <1>6, <1>7

\* Steps that touch no wait, of a goroutine that has made none.
LEMMA OneWaitFrame ==
  ASSUME ConnectorTypeOK, OneWait, ~done, NEW g \in Goroutines, NEW next,
         UNCHANGED <<waitChan, cancelChan, handles, chan, waitMutex>>,
         at[g] \notin {"id", "select"}, at' = [at EXCEPT ![g] = next]
  PROVE  OneWait'
BY DEF OneWait, Waits, ConnectorTypeOK

\* ReadMessage(): the mutex lets one goroutine wait at a time, and it waits again
\* only after it has received the response.
LEMMA OneWaitStep ==
  ASSUME WaiterTypeOK, Guarded, OneWait, [Next]_vars
  PROVE  OneWait'
<1> SUFFICES ASSUME ~done' PROVE OneWait'
  BY DEF OneWait
<1>1. CASE done
  BY <1>1, Irrevocable
<1>2. CASE ~done
  <2> USE <1>2
  <2>c. cancelChan = <<>> /\ ConnectorTypeOK
    BY DEF OneWait, Guarded
  <2>h. ASSUME NEW g \in Goroutines, at[g] \in Reading
        PROVE  waitMutex = g
    BY <2>h DEF Guarded, LocksHeld
  <2>1. CASE WaiterStep
    <3>1. cancelChan' = <<>> /\ Waits' = Waits /\ UNCHANGED <<at, waitMutex>>
      BY <2>1, <2>c, WorkerMoves DEF WaiterStep, local, locks
    <3> QED
      BY <3>1 DEF OneWait
  <2>2. CASE CallClose \/ PeerSends \/ PeerCloses \/ UNCHANGED vars
    <3>1. CASE CallClose
      BY <2>c, <3>1, OneWaitFrame DEF CallClose, GoTo, waiterVars, workerVars, slices, queues, locks
    <3>2. CASE PeerSends \/ PeerCloses \/ UNCHANGED vars
      BY <3>2 DEF PeerSends, PeerCloses, vars, waiterVars, workerVars, slices, queues, locks,
                  local, OneWait, Waits
    <3> QED
      BY <2>2, <3>1, <3>2
  <2>3. ASSUME NEW g \in Goroutines, GoroutineStep(g)
        PROVE  OneWait'
    <3>1. CASE \/ RLock(g) \/ ReadNothing(g)
               \/ Accept(g) \/ WriteMessage(g) \/ OnceDo(g) \/ WLock(g)
      BY <2>c, <3>1, OneWaitFrame DEF RLock, ReadNothing, Accept, WriteMessage, OnceDo, WLock,
                             GoTo, waiterVars, workerVars, slices, queues, locks
    <3>2. CASE ReadMessage(g) \/ ReadAgain(g) \/ ClosePipe(g)
      BY <2>c, <3>2, OneWaitFrame DEF ReadMessage, ReadAgain, TakeMessage, ClosePipe, GoTo,
                             workerVars, slices, queues, locks
    <3>3. CASE CloseDone(g) \/ SelectDone(g) \/ StartCancel(g) \/ CancelReturns(g)
      BY <3>3 DEF CloseDone, SelectDone, StartCancel, CancelReturns, Guarded, DoneFirst
    <3>4. CASE (WakeCAS(g) \/ WakeWrite(g)) /\ UNCHANGED <<local, locks, world>>
      BY <3>4 DEF WakeCAS, WakeWrite, workerVars, slices, local, locks, OneWait, Waits
    <3>5. CASE LockWait(g) \/ Unlock(g)
      <4>1. Waits = 0
        BY <2>h, <3>5, NoWaitYet DEF LockWait, WaitMutexFree, Unlock, Reading
      <4>2. UNCHANGED <<Waits, cancelChan>>
        BY <3>5 DEF LockWait, Unlock, waiterVars, workerVars, slices, queues, Waits
      <4> QED
        BY <2>c, <4>1, <4>2 DEF OneWait
    <3>6. CASE StartWait(g)
      <4>1. at[g] = "AsyncWait" /\ at' = [at EXCEPT ![g] = "id"] /\ UNCHANGED waitMutex
        BY <3>6 DEF StartWait, GoTo, locks
      <4>2. waitMutex = g
        BY <2>h, <4>1 DEF Reading, UsesPipe
      <4>3. waitChan = <<>> /\ handles = <<>> /\ chan[WaitChan] = <<>>
        BY <4>1, <4>2, NoWaitYet
      <4>4. Len(waitChan') = 1 /\ UNCHANGED <<handles, chan, cancelChan>>
        BY <3>6, <4>3 DEF StartWait, AsyncWait, workerVars, slices
      <4>5. Waits' = 1 /\ cancelChan' = <<>>
        BY <2>c, <4>3, <4>4 DEF Waits
      <4>6. waitMutex' = g /\ at'[g] = "id"
        BY <2>c, <4>1, <4>2 DEF ConnectorTypeOK
      <4> QED
        BY <4>5, <4>6 DEF OneWait
    <3>7. CASE GetId(g)
      <4>1. at[g] = "id" /\ at' = [at EXCEPT ![g] = "select"] /\ UNCHANGED waitMutex
        BY <3>7 DEF GetId, GoTo, locks
      <4>2. UNCHANGED <<Waits, cancelChan>>
        BY <3>7 DEF GetId, AsyncWaitReturns, workerVars, slices, Waits
      <4>3. waitMutex' = g /\ at'[g] = "select"
        BY <2>c, <2>h, <4>1 DEF Reading, UsesPipe, ConnectorTypeOK
      <4> QED
        BY <4>2, <4>3 DEF OneWait
    <3>8. CASE SelectResponse(g)
      <4>1. /\ Len(waitChan) \in Nat /\ Len(handles) \in Nat /\ Len(chan[WaitChan]) \in Nat
            /\ chan[WaitChan] \in Seq(Responses) /\ WaitChan \in DOMAIN chan
        BY DEF WaiterTypeOK, SlicesTypeOK, QueuesTypeOK, CallersTypeOK
      <4>2. UNCHANGED <<waitChan, handles, cancelChan>> /\ chan[WaitChan] # <<>>
        BY <3>8 DEF SelectResponse, workerVars, slices, queues
      <4>3. chan' = [chan EXCEPT ![WaitChan] = <<>>]
        BY <3>8 DEF SelectResponse
      <4>4. Len(chan'[WaitChan]) = 0
        BY <4>1, <4>3
      <4>5. Len(chan[WaitChan]) > 0
        BY <4>1, <4>2
      <4>6. Waits' = 0
        BY <4>1, <4>2, <4>4, <4>5 DEF OneWait, Waits
      <4> QED
        BY <2>c, <4>2, <4>6 DEF OneWait
    <3> QED
      BY <2>3, <3>1, <3>2, <3>3, <3>4, <3>5, <3>6, <3>7, <3>8 DEF GoroutineStep
  <2> QED
    BY <2>1, <2>2, <2>3 DEF Next, Finished
<1> QED
  BY <1>1, <1>2

\* What the worker says of the pipe, it has seen, and nobody reads meanwhile.
LEMMA WorkerAnswers ==
  ASSUME WaiterTypeOK, Guarded, SignalTells, OneWait, MessageKept, ~done, peerOpen,
         WaiterStep
  PROVE  MessageKept'
<1>1. UNCHANGED <<at, inbox, done, peerOpen>> /\ inbox \in Nat
  BY DEF WaiterStep, local, locks, world, Guarded, ConnectorTypeOK
<1>2. \/ inbox > 0
      \/ ~(Answering /\ handles # <<>>) /\ chan[WaitChan] = <<>>
  BY DEF MessageKept
<1>3. CASE inbox > 0
  BY <1>1, <1>3 DEF MessageKept
<1>4. CASE inbox = 0
  <2> USE <1>4
  <2>a. ~(Answering /\ handles # <<>>) /\ chan[WaitChan] = <<>>
    BY <1>2
  <2>b. \A g \in Goroutines : at[g] # "ReadAgain"
    BY <1>2 DEF MessageKept
  <2> SUFFICES ~(Answering /\ handles # <<>>)' /\ chan'[WaitChan] = <<>>
    BY <1>1, <2>b DEF MessageKept
  <2>1. CASE WaitMany
    <3>1. signal[Pipe] = "idle"
      BY SignalSet DEF SignalTells, PipeOpen, Guarded, DoneFirst, ConnectorTypeOK
    <3>2. \A i \in 1 .. Len(handles) : handles[i] = Pipe
      BY DEF WaiterTypeOK, SlicesTypeOK
    <3>3. worker'.pc = "store" /\ worker'.index = 0
      <4>1. /\ worker'.pc = "store" /\ worker'.index \in 0 .. Len(handles)
            /\ worker'.index # 0 => signal[handles[worker'.index]] # "idle"
        BY <2>1, WaitManyReturns
      <4>2. Len(handles) \in Nat
        BY DEF WaiterTypeOK, SlicesTypeOK
      <4> QED
        BY <3>1, <3>2, <4>1, <4>2
    <3> QED
      BY <2>1, <2>a, <3>3 DEF WaitMany, Answering
  <2>2. CASE StoreNotified
    <3>1. worker \in Worker
      BY DEF WaiterTypeOK, WorkerTypeOK
    <3>2. worker.pc = "store" /\ (worker.index = 0 => worker'.pc = "read")
      BY <2>2 DEF StoreNotified, AfterStore, IdleWorker
    <3>3. UNCHANGED <<handles, chan>>
      BY <2>2 DEF StoreNotified, slices
    <3> QED
      BY <2>a, <3>2, <3>3 DEF Answering
  <2>3. CASE ReadWakeMessage \/ ProcessWait \/ ProcessDone
    <3>1. worker'.pc \notin {"store", "respond", "send"} /\ UNCHANGED chan
      BY <2>3 DEF ReadWakeMessage, ProcessWait, ProcessDone, IdleWorker
    <3> QED
      BY <2>a, <3>1 DEF Answering
  <2>4. CASE Respond
    BY <2>4, <2>a DEF Respond, slices, Answering
  <2>5. CASE SendWaitResponseAndRemove
    <3>1. worker.pc = "send" /\ Len(handles) # 0
      BY <2>5 DEF SendWaitResponseAndRemove, WaiterTypeOK, WorkerTypeOK, Worker, RowInRange,
                  SlicesTypeOK
    <3> QED
      BY <2>a, <3>1 DEF Answering
  <2>6. CASE ProcessCancel
    BY <2>6 DEF ProcessCancel, OneWait
  <2> QED
    BY <2>1, <2>2, <2>3, <2>4, <2>5, <2>6 DEF WaiterStep, WorkerStep
<1> QED
  BY <1>1, <1>3, <1>4

\* Steps that neither answer nor read.
LEMMA MessageFrame ==
  ASSUME MessageKept, ~done, peerOpen, UNCHANGED <<worker, handles, chan, inbox>>,
         \A g \in Goroutines : at'[g] = "ReadAgain" => at[g] = "ReadAgain"
  PROVE  MessageKept'
BY DEF MessageKept, Answering

\* The message that makes the worker respond is there until the goroutine that
\* receives the response reads it.
LEMMA MessageStep ==
  ASSUME WaiterTypeOK, Guarded, SignalTells, OneWait, MessageKept, [Next]_vars
  PROVE  MessageKept'
<1> SUFFICES ASSUME ~done, peerOpen PROVE MessageKept'
  BY Irrevocable DEF MessageKept, Guarded, ConnectorTypeOK
<1>t. at \in [Goroutines -> Calls] /\ inbox \in Nat
  BY DEF Guarded, ConnectorTypeOK
<1>1. CASE PeerSends
  <2>1. inbox' > 0
    BY <1>1, <1>t DEF PeerSends
  <2> QED
    BY <2>1 DEF MessageKept
<1>2. CASE PeerCloses
  BY <1>2 DEF PeerCloses, MessageKept
<1>3. CASE CallClose \/ UNCHANGED vars
  <2>1. UNCHANGED <<worker, handles, chan, inbox>>
    BY <1>3 DEF CallClose, vars, waiterVars, workerVars, slices, world
  <2>2. \A g \in Goroutines : at'[g] = "ReadAgain" => at[g] = "ReadAgain"
    BY <1>3, <1>t DEF CallClose, GoTo, vars, local
  <2> QED
    BY <2>1, <2>2, MessageFrame
<1>4. ASSUME NEW g \in Goroutines, GoroutineStep(g)
      PROVE  MessageKept'
  <2>1. CASE ReadMessage(g) \/ ReadAgain(g)
    <3>1. at[g] \in {"ReadMessage", "ReadAgain"} /\ TakeMessage(g)
      BY <2>1 DEF ReadMessage, ReadAgain
    <3>2. waitMutex = g /\ \A k \in Goroutines : at[k] = "ReadAgain" => k = g
      BY <3>1 DEF Guarded, LocksHeld, Reading, UsesPipe
    <3>3. handles = <<>> /\ chan[WaitChan] = <<>>
      BY <3>1, <3>2, NoWaitYet
    <3>4. UNCHANGED <<handles, chan>> /\ at' = [at EXCEPT ![g] = "Unlock"]
      BY <3>1 DEF TakeMessage, GoTo, workerVars, slices
    <3> QED
      BY <1>t, <3>2, <3>3, <3>4 DEF MessageKept
  <2>2. CASE SelectResponse(g)
    <3>1. inbox > 0 /\ inbox' = inbox
      BY <2>2 DEF SelectResponse, MessageKept, world
    <3> QED
      BY <3>1 DEF MessageKept
  <2>3. CASE StartWait(g) \/ GetId(g) \/ StartCancel(g)
    <3>1. UNCHANGED <<worker, handles, chan, inbox>>
      BY <2>3 DEF StartWait, AsyncWait, GetId, AsyncWaitReturns, StartCancel, CancelWait,
                  workerVars, slices, world
    <3>2. \A k \in Goroutines : at'[k] = "ReadAgain" => at[k] = "ReadAgain"
      BY <2>3, <1>t DEF StartWait, GetId, StartCancel, GoTo
    <3> QED
      BY <3>1, <3>2, MessageFrame
  <2>4. CASE (WakeCAS(g) \/ WakeWrite(g)) /\ UNCHANGED <<local, locks, world>>
    BY <2>4, MessageFrame DEF WakeCAS, WakeWrite, workerVars, slices, local, world
  <2>5. CASE \/ LockWait(g) \/ RLock(g) \/ ReadNothing(g) \/ SelectDone(g)
             \/ CancelReturns(g) \/ Unlock(g)
    <3>1. UNCHANGED <<worker, handles, chan, inbox>>
      BY <2>5 DEF LockWait, RLock, ReadNothing, SelectDone, CancelReturns, Unlock, waiterVars,
                  workerVars, slices, world
    <3>2. \A k \in Goroutines : at'[k] = "ReadAgain" => at[k] = "ReadAgain"
      BY <2>5, <1>t DEF LockWait, RLock, ReadNothing, SelectDone, CancelReturns, Unlock, GoTo
    <3> QED
      BY <3>1, <3>2, MessageFrame
  <2>6. CASE \/ Accept(g) \/ WriteMessage(g) \/ OnceDo(g) \/ CloseDone(g) \/ WLock(g)
             \/ ClosePipe(g)
    <3>1. UNCHANGED <<worker, handles, chan, inbox>>
      BY <2>6 DEF Accept, WriteMessage, OnceDo, CloseDone, WLock, ClosePipe, waiterVars,
                  workerVars, slices, world
    <3>2. \A k \in Goroutines : at'[k] = "ReadAgain" => at[k] = "ReadAgain"
      BY <2>6, <1>t DEF Accept, WriteMessage, OnceDo, CloseDone, WLock, ClosePipe, GoTo
    <3> QED
      BY <3>1, <3>2, MessageFrame
  <2> QED
    BY <1>4, <2>1, <2>2, <2>3, <2>4, <2>5, <2>6 DEF GoroutineStep
<1> QED
  BY <1>1, <1>2, <1>3, <1>4, WorkerAnswers DEF Next, Finished

\* An error has its reason when it is found, and reasons last.
LEMMA ErrorStep ==
  ASSUME WaiterTypeOK, Guarded, MessageKept, NoSpuriousError, [Next]_vars
  PROVE  NoSpuriousError'
<1>t. outcome \in [Goroutines -> {"none", "message", "error"}] /\ inbox \in Nat
  BY DEF Guarded, ConnectorTypeOK
<1>f. ASSUME \A g \in Goroutines : outcome'[g] = "error" => outcome[g] = "error"
      PROVE  NoSpuriousError'
  BY <1>f, Irrevocable DEF NoSpuriousError
<1>1. CASE WaiterStep \/ CallClose \/ PeerSends \/ PeerCloses \/ UNCHANGED vars
  BY <1>1, <1>f DEF WaiterStep, CallClose, PeerSends, PeerCloses, vars, local
<1>2. ASSUME NEW g \in Goroutines, GoroutineStep(g)
      PROVE  NoSpuriousError'
  <2>1. CASE ReadMessage(g) \/ ReadAgain(g)
    <3>1. ReadOK \/ done \/ ~peerOpen
      BY <2>1, <1>t DEF ReadMessage, ReadAgain, ReadOK, MessageKept, Guarded, DoneFirst
    <3>2. outcome' = [outcome EXCEPT ![g] = IF ReadOK THEN "message" ELSE "error"]
      BY <2>1 DEF ReadMessage, ReadAgain, TakeMessage
    <3> QED
      BY <1>t, <3>1, <3>2, Irrevocable DEF NoSpuriousError
  <2>2. CASE CancelReturns(g)
    <3>1. done /\ outcome' = [outcome EXCEPT ![g] = "error"]
      BY <2>2 DEF CancelReturns, Guarded, DoneFirst
    <3> QED
      BY <1>t, <3>1, Irrevocable DEF NoSpuriousError
  <2>3. CASE Unlock(g)
    BY <1>f, <1>t, <2>3 DEF Unlock
  <2>4. CASE \/ LockWait(g) \/ RLock(g) \/ ReadNothing(g) \/ SelectDone(g)
             \/ SelectResponse(g) \/ StartWait(g) \/ GetId(g) \/ StartCancel(g)
             \/ (WakeCAS(g) \/ WakeWrite(g)) /\ UNCHANGED <<local, locks, world>>
    BY <1>f, <2>4 DEF LockWait, RLock, ReadNothing, SelectDone, SelectResponse, StartWait, GetId,
                      StartCancel, local
  <2>5. CASE \/ Accept(g) \/ WriteMessage(g) \/ OnceDo(g) \/ CloseDone(g) \/ WLock(g)
             \/ ClosePipe(g)
    BY <1>f, <2>5 DEF Accept, WriteMessage, OnceDo, CloseDone, WLock, ClosePipe
  <2> QED
    BY <1>2, <2>1, <2>2, <2>3, <2>4, <2>5 DEF GoroutineStep
<1> QED
  BY <1>1, <1>2 DEF Next, Finished

-----------------------------------------------------------------------------
(* The theorems.                                                           *)

\* The invariant holds before the first call.
LEMMA InvInit ==
  ASSUME Init
  PROVE  Inv
<1> USE DEF Init
<1>1. WaiterTypeOK /\ WakeupInv
  BY WaiterStarts
<1>2. ConnectorTypeOK /\ LocksHeld /\ IdKnown /\ PipeUsedOpen
  BY DEF ConnectorTypeOK, LocksHeld, IdKnown, PipeUsedOpen, UsesPipe, Reading, Calls
<1>3. signal = [h \in Handles |-> "idle"] /\ signal[Pipe] = "idle"
  BY DEF WaiterInit
<1>4. DoneFirst /\ NoSpuriousError
  BY <1>3 DEF DoneFirst, PipeOpen, NoSpuriousError
<1>5. SignalTells
  BY <1>3 DEF SignalTells, PipeSignal
<1>6. chan[WaitChan] = <<>> /\ Waits = 0
  BY DEF WaiterInit, Waits
<1>7. OneWait /\ MessageKept
  BY <1>6 DEF WaiterInit, OneWait, MessageKept
<1> QED
  BY <1>1, <1>2, <1>4, <1>5, <1>7 DEF Inv

\* Connector: the locks, the one wait and the message it is for, in every state.
THEOREM InvHolds == Spec => []Inv
<1>1. Init => Inv
  BY InvInit
<1>2. Inv /\ [Next]_vars => Inv'
  <2> SUFFICES ASSUME Inv, [Next]_vars PROVE Inv'
    OBVIOUS
  <2>1. Guarded
    BY DEF Inv, Guarded
  <2>2. WaiterTypeOK' /\ WakeupInv'
    BY WaiterKept DEF Inv
  <2>3. Guarded'
    BY <2>1, GuardedStep DEF Inv
  <2>4. SignalTells' /\ OneWait' /\ MessageKept' /\ NoSpuriousError'
    BY <2>1, SignalStep, OneWaitStep, MessageStep, ErrorStep DEF Inv
  <2> QED
    BY <2>2, <2>3, <2>4 DEF Inv, Guarded
<1> QED
  BY <1>1, <1>2, PTL DEF Spec

\* Connector.Close() never closes the pipe while a goroutine that has found it
\* valid waits on it or is about to read it.
THEOREM NeverClosedInUse == Spec => []PipeUsedOpen
<1>1. Inv => PipeUsedOpen
  BY DEF Inv
<1> QED
  BY <1>1, InvHolds, PTL

\* ReadMessage() after a response finds a message, unless the connector or its
\* peer is closing: ServeRequest() does not fail for nothing.
THEOREM FailsForAReason == Spec => []NoSpuriousError
<1>1. Inv => NoSpuriousError
  BY DEF Inv
<1> QED
  BY <1>1, InvHolds, PTL

\* The waiter never blocks on a request of a connector without a wakeup on its
\* way.
THEOREM ConnectorIsWoken == Spec => []NoLostWakeup
<1>1. Inv => NoLostWakeup
  BY WakeupSuffices DEF Inv
<1> QED
  BY <1>1, InvHolds, PTL
=============================================================================
