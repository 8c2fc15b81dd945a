------------------------- MODULE AsyncWaiterProofs -------------------------
(***************************************************************************)
(* What holds of the Go async waiter for any callers and handles, any      *)
(* capacity of its channels and any number of waits.                       *)
(***************************************************************************)
EXTENDS AsyncWaiterClients, WellFoundedInduction, TLAPS

USE AsyncWaiterAssumption

-----------------------------------------------------------------------------
(* The operators of the model.                                             *)

\* The smallest of some row numbers exists and is one of them.
LEMMA MinIsMember ==
  ASSUME NEW S \in SUBSET Nat, S # {}
  PROVE  Min(S) \in S
<1>1. \E x \in S : \A y \in S : ~ (<<y, x>> \in OpToRel(<, Nat))
  BY NatLessThanWellFounded, WFMin
<1>2. \A x, y \in Nat : y < x => <<y, x>> \in OpToRel(<, Nat)
  BY DEF OpToRel
<1>3. PICK x \in S : \A y \in S : ~ (<<y, x>> \in OpToRel(<, Nat))
  BY <1>1
<1>4. \A y \in S : ~ (y < x)
  BY <1>2, <1>3
<1>5. \A y \in S : x =< y
  BY <1>4
<1> QED
  BY <1>5 DEF Min

\* removeHandle(): the last element takes the place of the removed one.
LEMMA SwapRemoved ==
  ASSUME NEW S, NEW s \in Seq(S), NEW n \in 1 .. Len(s)
  PROVE  /\ SwapRemove(s, n) \in Seq(S)
         /\ Len(SwapRemove(s, n)) = Len(s) - 1
         /\ \A i \in 1 .. Len(s) - 1 :
              SwapRemove(s, n)[i] = IF i = n THEN s[Len(s)] ELSE s[i]
<1> DEFINE t == [s EXCEPT ![n] = s[Len(s)]]
<1>1. t \in Seq(S) /\ Len(t) = Len(s)
  OBVIOUS
<1>2. SwapRemove(s, n) = SubSeq(t, 1, Len(s) - 1)
  BY <1>1 DEF SwapRemove, Front, Last
<1> HIDE DEF t
<1>3. /\ SubSeq(t, 1, Len(s) - 1) \in Seq(S)
      /\ Len(SubSeq(t, 1, Len(s) - 1)) = Len(s) - 1
      /\ \A i \in 1 .. Len(s) - 1 : SubSeq(t, 1, Len(s) - 1)[i] = t[i]
  BY <1>1
<1> QED
  BY <1>2, <1>3 DEF t

-----------------------------------------------------------------------------
(* The waiter, whatever its callers do: type correctness.                  *)

\* WaitMany(): what the worker knows when it returns.
LEMMA WaitManyReturns ==
  ASSUME WaiterTypeOK, WaitMany
  PROVE  /\ worker' \in Worker
         /\ worker'.pc = "store" /\ worker'.index \in 0 .. Len(handles)
         /\ Len(worker'.states) = Len(handles)
         /\ \A i \in DOMAIN handles : worker'.states[i] <=> signal[handles[i]] = "readable"
         /\ worker'.index = 0 => wakePipe > 0
         /\ worker'.index # 0 => signal[handles[worker'.index]] # "idle"
         /\ worker'.result = IF worker'.index = 0 \/ signal[handles[worker'.index]] = "readable"
                             THEN "ok" ELSE "error"
         /\ UNCHANGED handles
<1> DEFINE states == [i \in DOMAIN handles |-> signal[handles[i]] = "readable"]
           ready == {h \in Handles : signal[h] = "readable"}
           result(index) == IF index = 0 \/ signal[handles[index]] = "readable"
                            THEN "ok" ELSE "error"
<1>1. PICK index \in 0 .. Len(handles) :
        /\ IF index = 0 THEN wakePipe > 0 ELSE signal[handles[index]] # "idle"
        /\ worker' = [worker EXCEPT !.pc = "store", !.index = index,
                        !.result = result(index), !.states = states, !.ready = ready]
  BY DEF WaitMany
<1>2. states \in Seq(BOOLEAN) /\ Len(states) = Len(handles)
  <2>1. states \in [1 .. Len(handles) -> BOOLEAN] /\ Len(handles) \in Nat
    BY DEF WaiterTypeOK, SlicesTypeOK
  <2> HIDE DEF states
  <2> QED
    BY <2>1
<1>3. \A i \in DOMAIN handles : states[i] <=> signal[handles[i]] = "readable"
  OBVIOUS
<1>4. ready \in SUBSET Handles /\ result(index) \in {"ok", "error"}
  OBVIOUS
<1>5. worker \in Worker /\ index \in Nat /\ UNCHANGED handles
  BY DEF WaiterTypeOK, WorkerTypeOK, SlicesTypeOK, WaitMany, slices
<1> HIDE DEF states, ready, result
<1>6. /\ worker' \in Worker
      /\ worker'.pc = "store" /\ worker'.index = index
      /\ worker'.states = states /\ worker'.result = result(index)
  BY <1>1, <1>2, <1>4, <1>5 DEF Worker
<1> QED
  BY <1>1, <1>2, <1>3, <1>5, <1>6 DEF result

\* respondToSatisfiedWaits(): the next wait is one that was satisfied.
LEMMA RespondPicks ==
  ASSUME WaiterTypeOK, Respond
  PROVE  \/ worker' = IdleWorker("WaitMany")
         \/ /\ worker' \in Worker
            /\ worker'.pc = "send" /\ worker'.next = "respond" /\ worker'.result = "ok"
            /\ worker'.index \in 1 .. Len(handles) /\ worker.states[worker'.index]
            /\ UNCHANGED handles
            /\ worker'.states = worker.states
            /\ Len(worker.states) = Len(handles)
<1> DEFINE Satisfied == {i \in worker.index .. Len(worker.states) : worker.states[i]}
<1>1. worker' = IF Satisfied = {} THEN IdleWorker("WaitMany")
                ELSE [worker EXCEPT !.pc = "send", !.next = "respond",
                        !.result = "ok", !.index = Min(Satisfied)]
  BY DEF Respond
<1>2. /\ worker \in Worker /\ worker.index \in Nat \ {0}
      /\ Len(worker.states) = Len(handles) /\ Len(handles) \in Nat
      /\ UNCHANGED handles
  BY DEF Respond, WaiterTypeOK, WorkerTypeOK, SlicesTypeOK, Worker, StatesInUse, slices
<1>3. CASE Satisfied # {}
  <2>1. Satisfied \in SUBSET Nat
    BY <1>2
  <2>2. Min(Satisfied) \in Satisfied
    BY <1>3, <2>1, MinIsMember
  <2>3. Min(Satisfied) \in 1 .. Len(handles) /\ worker.states[Min(Satisfied)]
    BY <1>2, <2>2
  <2> HIDE DEF Satisfied
  <2>4. /\ worker' \in Worker
        /\ worker'.pc = "send" /\ worker'.next = "respond" /\ worker'.result = "ok"
        /\ worker'.index = Min(Satisfied) /\ worker'.states = worker.states
    <3>1. worker \in Worker /\ Min(Satisfied) \in Nat
      BY <1>2, <2>3
    <3> QED
      BY <1>1, <1>3, <3>1 DEF Worker
  <2> QED
    BY <1>2, <2>3, <2>4
<1> QED
  BY <1>1, <1>3

\* The worker's steps keep all variables in their types, and their slices,
\* index and states together.
LEMMA WorkerType ==
  ASSUME WaiterTypeOK, MessageToRead, WorkerStep
  PROVE  WaiterTypeOK'
<1> USE DEF WaiterTypeOK
<1>1. CASE WaitMany
  <2>1. SlicesTypeOK' /\ QueuesTypeOK' /\ CallersTypeOK'
    BY <1>1 DEF WaitMany, slices, queues, SlicesTypeOK, QueuesTypeOK, CallersTypeOK
  <2>2. WorkerTypeOK'
    BY <1>1, WaitManyReturns DEF WorkerTypeOK, RowInRange, StatesInUse, SlicesTypeOK
  <2> QED
    BY <2>1, <2>2
<1>2. CASE StoreNotified
  <2>1. SlicesTypeOK' /\ QueuesTypeOK' /\ CallersTypeOK'
    BY <1>2 DEF StoreNotified, slices, SlicesTypeOK, QueuesTypeOK, CallersTypeOK
  <2>2. handles' = handles /\ Len(handles) \in Nat
    BY <1>2 DEF StoreNotified, slices, SlicesTypeOK
  <2>3. worker \in Worker /\ worker.index \in Nat /\ worker.pc = "store"
    BY <1>2 DEF StoreNotified, WorkerTypeOK, Worker
  <2>4. CASE worker.index = 0
    <3>1. worker' = IdleWorker("read")
      BY <1>2, <2>4 DEF StoreNotified, AfterStore
    <3> QED
      BY <2>1, <3>1 DEF IdleWorker, WorkerTypeOK, Worker, StatesInUse
  <2>5. CASE worker.index # 0 /\ worker.result # "ok"
    <3>1. worker' = [worker EXCEPT !.pc = "send", !.next = "WaitMany"]
      BY <1>2, <2>5 DEF StoreNotified, AfterStore
    <3>2. /\ worker' \in Worker
          /\ worker'.pc = "send" /\ worker'.next = "WaitMany"
          /\ worker'.index = worker.index
      BY <2>3, <3>1 DEF Worker
    <3> QED
      BY <2>1, <2>2, <2>3, <2>5, <3>2 DEF WorkerTypeOK, RowInRange, StatesInUse
  <2>6. CASE worker.index # 0 /\ worker.result = "ok"
    <3>1. worker' = [worker EXCEPT !.pc = "respond", !.index = 1]
      BY <1>2, <2>6 DEF StoreNotified, AfterStore
    <3>2. /\ worker' \in Worker
          /\ worker'.pc = "respond" /\ worker'.index = 1
          /\ worker'.states = worker.states
      BY <2>3, <3>1 DEF Worker
    <3> QED
      BY <2>1, <2>2, <2>3, <3>2 DEF WorkerTypeOK, StatesInUse
  <2> QED
    BY <2>3, <2>4, <2>5, <2>6
<1>3. CASE ReadWakeMessage
  <2>1. QueuesTypeOK'
    BY <1>3 DEF ReadWakeMessage, MessageToRead, QueuesTypeOK
  <2>2. SlicesTypeOK' /\ CallersTypeOK'
    BY <1>3 DEF ReadWakeMessage, slices, SlicesTypeOK, CallersTypeOK
  <2>3. WorkerTypeOK'
    BY <1>3 DEF ReadWakeMessage, IdleWorker, WorkerTypeOK, Worker, StatesInUse
  <2> QED
    BY <2>1, <2>2, <2>3
<1>4. CASE ProcessWait
  <2>1. Head(waitChan) \in Requests /\ waitChan' \in Seq(Requests)
    BY <1>4 DEF ProcessWait, QueuesTypeOK
  <2>2. /\ Head(waitChan).handle \in Handles
        /\ Head(waitChan).chan \in Chans
        /\ Head(waitChan).from \in Goroutines
    BY <2>1 DEF Requests
  <2>3. NewId \in Nat \ {0} /\ ids' = NewId
    BY <1>4 DEF NewId, SlicesTypeOK, ProcessWait
  <2>4. SlicesTypeOK'
    BY <1>4, <2>2, <2>3 DEF ProcessWait, SlicesTypeOK
  <2>5. QueuesTypeOK'
    BY <1>4, <2>1, <2>2, <2>3 DEF ProcessWait, QueuesTypeOK
  <2>6. CallersTypeOK'
    BY <1>4 DEF ProcessWait, CallersTypeOK
  <2>7. WorkerTypeOK'
    BY <1>4 DEF ProcessWait, WorkerTypeOK, StatesInUse
  <2> QED
    BY <2>4, <2>5, <2>6, <2>7
<1>5. CASE ProcessCancel
  <2>1. cancelChan' \in Seq(Nat \ {0})
    BY <1>5 DEF ProcessCancel, QueuesTypeOK
  <2>2. SlicesTypeOK' /\ QueuesTypeOK' /\ CallersTypeOK'
    BY <1>5, <2>1 DEF ProcessCancel, slices, SlicesTypeOK, QueuesTypeOK, CallersTypeOK
  <2>3. handles' = handles /\ Len(handles) \in Nat
    BY <1>5 DEF ProcessCancel, slices, SlicesTypeOK
  <2>4. RowsOf(Head(cancelChan)) \subseteq 1 .. Len(handles)
    BY DEF RowsOf, SlicesTypeOK
  <2>5. RowsOf(Head(cancelChan)) # {} => Min(RowsOf(Head(cancelChan))) \in 1 .. Len(handles)
    BY <2>3, <2>4, MinIsMember
  <2>6. CASE RowsOf(Head(cancelChan)) = {}
    BY <1>5, <2>2, <2>3, <2>6 DEF ProcessCancel, WorkerTypeOK, RowInRange, StatesInUse
  <2>7. CASE RowsOf(Head(cancelChan)) # {}
    <3> DEFINE row == Min(RowsOf(Head(cancelChan)))
    <3>1. worker' = [worker EXCEPT !.pc = "send", !.next = "process",
                       !.index = row, !.result = "aborted"]
      BY <1>5, <2>7 DEF ProcessCancel
    <3>2. row \in 1 .. Len(handles)
      BY <2>5, <2>7
    <3> HIDE DEF row
    <3>3. /\ worker' \in Worker
          /\ worker'.pc = "send" /\ worker'.next = "process" /\ worker'.index = row
      <4>1. worker \in Worker /\ row \in Nat
        BY <3>2 DEF WorkerTypeOK
      <4> QED
        BY <3>1, <4>1 DEF Worker
    <3>4. WorkerTypeOK'
      BY <2>3, <3>2, <3>3 DEF WorkerTypeOK, RowInRange, StatesInUse
    <3> QED
      BY <2>2, <3>4
  <2> QED
    BY <2>6, <2>7
<1>6. CASE ProcessDone
  BY <1>6 DEF ProcessDone, IdleWorker, slices, queues, SlicesTypeOK, QueuesTypeOK,
              CallersTypeOK, WorkerTypeOK, Worker, StatesInUse
<1>7. CASE Respond
  <2>1. SlicesTypeOK' /\ QueuesTypeOK' /\ CallersTypeOK'
    BY <1>7 DEF Respond, slices, queues, SlicesTypeOK, QueuesTypeOK, CallersTypeOK
  <2>2. CASE worker' = IdleWorker("WaitMany")
    BY <2>1, <2>2 DEF IdleWorker, WorkerTypeOK, Worker, StatesInUse
  <2>3. CASE worker' # IdleWorker("WaitMany")
    BY <1>7, <2>1, <2>3, RespondPicks DEF WorkerTypeOK, RowInRange, StatesInUse
  <2> QED
    BY <2>2, <2>3
<1>8. CASE SendWaitResponseAndRemove
  <2>1. worker.index \in 1 .. Len(handles)
    BY <1>8 DEF SendWaitResponseAndRemove, WorkerTypeOK, Worker, RowInRange, SlicesTypeOK
  <2>2. /\ handles' \in Seq(Handles) /\ Len(handles') = Len(handles) - 1
        /\ asyncWaitIds' \in Seq(Nat \ {0}) /\ Len(asyncWaitIds') = Len(handles) - 1
        /\ responses' \in Seq(Chans) /\ Len(responses') = Len(handles) - 1
    BY <1>8, <2>1, SwapRemoved DEF SendWaitResponseAndRemove, RemoveHandle, SlicesTypeOK
  <2>3. SlicesTypeOK' /\ QueuesTypeOK'
    BY <1>8, <2>2 DEF SendWaitResponseAndRemove, queues, SlicesTypeOK, QueuesTypeOK
  <2>4. /\ responses[worker.index] \in Chans
        /\ [id |-> asyncWaitIds[worker.index], result |-> worker.result] \in Responses
    BY <2>1 DEF SlicesTypeOK, WorkerTypeOK, Worker, Responses
  <2>5. CallersTypeOK'
    BY <1>8, <2>4 DEF SendWaitResponseAndRemove, CallersTypeOK
  <2>6. worker.next = "respond" =>
          StatesAfterSend \in Seq(BOOLEAN) /\ Len(StatesAfterSend) = Len(handles) - 1
    <3> SUFFICES ASSUME worker.next = "respond"
                 PROVE  StatesAfterSend \in Seq(BOOLEAN)
                        /\ Len(StatesAfterSend) = Len(handles) - 1
      OBVIOUS
    <3>1. worker.states \in Seq(BOOLEAN) /\ Len(worker.states) = Len(handles)
      BY <1>8 DEF SendWaitResponseAndRemove, WorkerTypeOK, Worker, StatesInUse
    <3> QED
      BY <2>1, <3>1, SwapRemoved DEF StatesAfterSend
  <2>7. CASE worker.next = "respond"
    <3>1. worker' = [worker EXCEPT !.pc = "respond", !.states = StatesAfterSend]
      BY <1>8, <2>7 DEF SendWaitResponseAndRemove
    <3>2. /\ worker' \in Worker
          /\ worker'.pc = "respond" /\ worker'.index = worker.index
          /\ worker'.states = StatesAfterSend
      BY <2>6, <2>7, <3>1 DEF WorkerTypeOK, Worker
    <3>3. WorkerTypeOK'
      BY <2>1, <2>2, <2>6, <2>7, <3>2 DEF WorkerTypeOK, StatesInUse
    <3> QED
      BY <2>3, <2>5, <3>3
  <2>8. CASE worker.next # "respond"
    <3>1. worker' = IdleWorker(worker.next) /\ worker.next \in {"WaitMany", "process"}
      BY <1>8, <2>8 DEF SendWaitResponseAndRemove, WorkerTypeOK, Worker
    <3>2. WorkerTypeOK'
      BY <3>1 DEF IdleWorker, WorkerTypeOK, Worker, StatesInUse
    <3> QED
      BY <2>3, <2>5, <3>2
  <2> QED
    BY <2>7, <2>8
<1> QED
  BY <1>1, <1>2, <1>3, <1>4, <1>5, <1>6, <1>7, <1>8 DEF WorkerStep

\* The steps of callers and peers: they leave the worker alone.
LEMMA WorkerUntouched ==
  ASSUME SlicesTypeOK, WorkerTypeOK, UNCHANGED workerVars
  PROVE  SlicesTypeOK' /\ WorkerTypeOK'
BY DEF SlicesTypeOK, WorkerTypeOK, workerVars, slices, RowInRange, StatesInUse
\* The steps of a caller inside AsyncWait() and CancelWait().
CallerStep(g) ==
  \/ WakeCAS(g)
  \/ WakeWrite(g)
  \/ AsyncWaitReturns(g)
  \/ \E h \in Handles, c \in Chans : AsyncWait(g, h, c)
  \/ \E id \in Nat \ {0} : CancelWait(g, id)

\* What the callers put into the channels is of its type.
LEMMA CallerType ==
  ASSUME WaiterTypeOK, NEW g \in Goroutines, CallerStep(g)
  PROVE  WaiterTypeOK'
<1> USE DEF WaiterTypeOK
<1>1. CASE WakeCAS(g)
  <2>1. QueuesTypeOK' /\ CallersTypeOK'
    BY <1>1 DEF WakeCAS, AfterWake, QueuesTypeOK, CallersTypeOK, Waking
  <2> QED
    BY <1>1, <2>1, WorkerUntouched DEF WakeCAS
<1>2. CASE WakeWrite(g)
  <2>1. QueuesTypeOK' /\ CallersTypeOK'
    BY <1>2 DEF WakeWrite, AfterWake, QueuesTypeOK, CallersTypeOK, Waking
  <2> QED
    BY <1>2, <2>1, WorkerUntouched DEF WakeWrite
<1>3. CASE AsyncWaitReturns(g)
  <2>1. QueuesTypeOK' /\ CallersTypeOK'
    BY <1>3 DEF AsyncWaitReturns, QueuesTypeOK, CallersTypeOK
  <2> QED
    BY <1>3, <2>1, WorkerUntouched DEF AsyncWaitReturns
<1>4. ASSUME NEW h \in Handles, NEW c \in Chans, AsyncWait(g, h, c)
      PROVE  WaiterTypeOK'
  <2>1. [handle |-> h, chan |-> c, from |-> g] \in Requests
    BY DEF Requests
  <2>2. QueuesTypeOK' /\ CallersTypeOK'
    BY <1>4, <2>1 DEF AsyncWait, QueuesTypeOK, CallersTypeOK, Waking
  <2> QED
    BY <1>4, <2>2, WorkerUntouched DEF AsyncWait
<1>5. ASSUME NEW id \in Nat \ {0}, CancelWait(g, id)
      PROVE  WaiterTypeOK'
  <2>1. QueuesTypeOK' /\ CallersTypeOK'
    BY <1>5 DEF CancelWait, QueuesTypeOK, CallersTypeOK, Waking
  <2> QED
    BY <1>5, <2>1, WorkerUntouched DEF CancelWait
<1> QED
  BY <1>1, <1>2, <1>3, <1>4, <1>5 DEF CallerStep

-----------------------------------------------------------------------------
(* The waiter, whatever its callers do: the wakeup protocol.               *)

\* No step of the worker loses the wakeup that a queued request needs.
LEMMA WorkerWakeup ==
  ASSUME WaiterTypeOK, WakeupInv, WorkerStep
  PROVE  WakeupInv'
<1> USE DEF WakeupInv, MessageToRead, FlagMeansMessage, RequestsSeen, WillProcess
<1>t. /\ worker \in Worker /\ isNotified \in {0, 1} /\ wakePipe \in Nat
      /\ call \in [Goroutines -> Waking \cup {"none", "wait_id"}]
  BY DEF WaiterTypeOK, WorkerTypeOK, QueuesTypeOK, CallersTypeOK
<1>1. CASE WaitMany
  <2>1. worker'.pc = "store" /\ (worker'.index = 0 => wakePipe > 0)
    BY <1>1, WaitManyReturns
  <2> QED
    BY <1>1, <2>1 DEF WaitMany, queues
<1>2. CASE StoreNotified
  <2>1. /\ worker.pc = "store"
        /\ worker'.pc \in {"read", "respond", "send"}
        /\ worker'.pc = "read" <=> worker.index = 0
    BY <1>2, <1>t DEF StoreNotified, AfterStore, IdleWorker, Worker
  <2> QED
    BY <1>2, <2>1 DEF StoreNotified
<1>3. CASE ReadWakeMessage
  <2>1. worker.pc = "read" /\ worker'.pc = "process"
    BY <1>3 DEF ReadWakeMessage, IdleWorker
  <2> QED
    BY <1>3, <1>t, <2>1 DEF ReadWakeMessage
<1>4. CASE ProcessWait
  BY <1>4 DEF ProcessWait
<1>5. CASE ProcessCancel
  <2>1. /\ worker.pc = "process"
        /\ \/ worker'.pc = "process"
           \/ worker'.pc = "send" /\ worker'.next = "process"
    BY <1>5, <1>t DEF ProcessCancel, Worker
  <2> QED
    BY <1>5, <2>1 DEF ProcessCancel
<1>6. CASE ProcessDone
  BY <1>6 DEF ProcessDone, IdleWorker, queues
<1>7. CASE Respond
  <2>1. worker.pc = "respond" /\ worker'.pc \in {"WaitMany", "send"}
    BY <1>7, <1>t DEF Respond, IdleWorker, Worker
  <2> QED
    BY <1>7, <2>1 DEF Respond, queues
<1>8. CASE SendWaitResponseAndRemove
  <2>1. /\ worker.pc = "send"
        /\ worker'.pc \in {"WaitMany", "process", "respond"}
        /\ worker.next = "process" => worker'.pc = "process"
    BY <1>8, <1>t DEF SendWaitResponseAndRemove, IdleWorker, Worker
  <2> QED
    BY <1>8, <2>1 DEF SendWaitResponseAndRemove, queues
<1> QED
  BY <1>1, <1>2, <1>3, <1>4, <1>5, <1>6, <1>7, <1>8 DEF WorkerStep

\* wakeWorker(): nor does a step of a caller; a new request brings its own.
LEMMA CallerWakeup ==
  ASSUME WaiterTypeOK, WakeupInv, NEW g \in Goroutines, CallerStep(g)
  PROVE  WakeupInv'
<1> USE DEF WakeupInv, MessageToRead, FlagMeansMessage, RequestsSeen, WillProcess
<1>t. /\ worker \in Worker /\ isNotified \in {0, 1} /\ wakePipe \in Nat
      /\ call \in [Goroutines -> Waking \cup {"none", "wait_id"}]
  BY DEF WaiterTypeOK, WorkerTypeOK, QueuesTypeOK, CallersTypeOK
<1>1. CASE WakeCAS(g)
  <2>1. UNCHANGED <<worker, wakePipe, waitChan, cancelChan>>
    BY <1>1 DEF WakeCAS, workerVars
  <2>2. CASE isNotified = 1
    <3>1. \A k \in Goroutines : call[k] \in {"wait_write", "cancel_write"} =>
            call'[k] = call[k]
      BY <1>1, <1>t DEF WakeCAS
    <3> QED
      BY <2>1, <2>2, <3>1, <1>t DEF Waking
  <2>3. CASE isNotified # 1
    <3>1. call'[g] \in {"wait_write", "cancel_write"}
      BY <1>1, <1>t, <2>3 DEF WakeCAS
    <3> QED
      BY <2>1, <3>1 DEF Waking
  <2> QED
    BY <2>2, <2>3
<1>2. CASE WakeWrite(g)
  BY <1>2, <1>t DEF WakeWrite, workerVars
<1>3. CASE AsyncWaitReturns(g)
  <2>1. UNCHANGED <<worker, isNotified, wakePipe, waitChan, cancelChan>>
    BY <1>3 DEF AsyncWaitReturns, workerVars
  <2>2. \A k \in Goroutines : call[k] \in Waking => call'[k] = call[k]
    BY <1>3, <1>t DEF AsyncWaitReturns, Waking
  <2> QED
    BY <2>1, <2>2 DEF Waking
<1>4. CASE \/ \E h \in Handles, c \in Chans : AsyncWait(g, h, c)
           \/ \E id \in Nat \ {0} : CancelWait(g, id)
  <2>1. UNCHANGED <<worker, isNotified, wakePipe>>
    BY <1>4 DEF CancelWait, AsyncWait, workerVars
  <2>2. /\ call'[g] \in Waking
        /\ \A k \in Goroutines : call[k] \in Waking => call'[k] = call[k]
    BY <1>4, <1>t DEF CancelWait, AsyncWait, Waking
  <2> QED
    BY <2>1, <2>2 DEF Waking
<1> QED
  BY <1>1, <1>2, <1>3, <1>4 DEF CallerStep

\* Other steps leave the protocol alone.
LEMMA WakeupUntouched ==
  ASSUME WakeupInv, UNCHANGED <<workerVars, queues, call>>
  PROVE  WakeupInv'
BY DEF WakeupInv, MessageToRead, FlagMeansMessage, RequestsSeen, WillProcess, workerVars,
       queues

\* Before the first call.
LEMMA WaiterStarts ==
  ASSUME WaiterInit
  PROVE  WaiterTypeOK /\ WakeupInv
<1> USE DEF WaiterInit
<1>1. WaiterTypeOK
  BY DEF WaiterTypeOK, SlicesTypeOK, WorkerTypeOK, QueuesTypeOK, CallersTypeOK, IdleWorker,
         Worker, StatesInUse, Waking
<1>2. WakeupInv
  BY DEF WakeupInv, MessageToRead, FlagMeansMessage, RequestsSeen, IdleWorker
<1> QED
  BY <1>1, <1>2

\* The invariant is strong enough.
LEMMA WakeupSuffices ==
  ASSUME WakeupInv
  PROVE  NoLostWakeup
BY DEF WakeupInv, RequestsSeen, WillProcess, NoLostWakeup

USE AsyncWaiterClientsAssumption

-----------------------------------------------------------------------------
(* The same with callers that keep to the contract.                        *)

\* Everything the waiter, its callers and their peers write is of its type.
LEMMA TypeStep ==
  ASSUME WaiterTypeOK, MessageToRead, ClientTypeOK, [Next]_vars
  PROVE  WaiterTypeOK' /\ ClientTypeOK'
<1>1. CASE WorkerStep /\ UNCHANGED <<client, waitId>>
  BY <1>1, WorkerType DEF ClientTypeOK
<1>2. ASSUME NEW g \in Goroutines,
             WakeCAS(g) \/ WakeWrite(g), UNCHANGED <<client, waitId>>
      PROVE  WaiterTypeOK' /\ ClientTypeOK'
  BY <1>2, CallerType DEF CallerStep, ClientTypeOK
<1>3. ASSUME NEW g \in Goroutines, ClientGetsId(g)
      PROVE  WaiterTypeOK' /\ ClientTypeOK'
  <2>1. AsyncWaitReturns(g) /\ idChan[g] \in Nat
    BY <1>3 DEF ClientGetsId, WaiterTypeOK, QueuesTypeOK
  <2> QED
    BY <1>3, <2>1, CallerType DEF CallerStep, ClientGetsId, ClientTypeOK
<1>4. ASSUME NEW g \in Goroutines, ClientReceives(g)
      PROVE  WaiterTypeOK' /\ ClientTypeOK'
  <2>1. QueuesTypeOK' /\ ClientTypeOK'
    BY <1>4 DEF ClientReceives, queues, QueuesTypeOK, ClientTypeOK, WaiterTypeOK
  <2>2. chan' \in [Chans -> Seq(Responses)]
    BY <1>4 DEF ClientReceives, CallersTypeOK, WaiterTypeOK
  <2>3. signal' \in [Handles -> {"idle", "readable", "dead", "closed"}]
    BY <1>4 DEF ClientReceives, CallersTypeOK, WaiterTypeOK
  <2>4. CallersTypeOK'
    BY <1>4, <2>2, <2>3 DEF ClientReceives, CallersTypeOK, WaiterTypeOK
  <2> QED
    BY <1>4, <2>1, <2>4, WorkerUntouched DEF ClientReceives, WaiterTypeOK
<1>5. ASSUME NEW g \in Goroutines, ClientCancels(g)
      PROVE  WaiterTypeOK' /\ ClientTypeOK'
  <2>1. CancelWait(g, waitId[g]) /\ waitId[g] \in Nat \ {0}
    BY <1>5 DEF ClientCancels, ClientTypeOK
  <2> QED
    BY <1>5, <2>1, CallerType DEF CallerStep, ClientCancels, ClientTypeOK
<1>6. ASSUME NEW g \in Goroutines, NEW h \in Handles, ClientWaits(g, h)
      PROVE  WaiterTypeOK' /\ ClientTypeOK'
  <2>1. AsyncWait(g, h, g) /\ g \in Chans
    BY <1>6 DEF ClientWaits
  <2> QED
    BY <1>6, <2>1, CallerType DEF CallerStep, ClientWaits, ClientTypeOK
<1>7. ASSUME NEW h \in Handles, PeerWrites(h) \/ PeerCloses(h)
      PROVE  WaiterTypeOK' /\ ClientTypeOK'
  <2>1. QueuesTypeOK' /\ CallersTypeOK' /\ ClientTypeOK'
    BY <1>7 DEF PeerWrites, PeerCloses, queues, QueuesTypeOK, CallersTypeOK, ClientTypeOK,
                WaiterTypeOK
  <2> QED
    BY <1>7, <2>1, WorkerUntouched DEF PeerWrites, PeerCloses, WaiterTypeOK
<1>8. CASE UNCHANGED vars
  BY <1>8, WorkerUntouched DEF vars, waiterVars, queues, QueuesTypeOK, CallersTypeOK,
                               ClientTypeOK, WaiterTypeOK
<1> QED
  BY <1>1, <1>2, <1>3, <1>4, <1>5, <1>6, <1>7, <1>8 DEF Next, ClientStep, Done

\* No step of the worker, of a caller or of a peer loses the wakeup that a
\* queued request needs.
LEMMA WakeupStep ==
  ASSUME WaiterTypeOK, ClientTypeOK, WakeupInv, [Next]_vars
  PROVE  WakeupInv'
<1>1. CASE WorkerStep
  BY <1>1, WorkerWakeup
<1>2. ASSUME NEW g \in Goroutines,
             \/ WakeCAS(g) \/ WakeWrite(g) \/ ClientGetsId(g)
             \/ ClientCancels(g)
             \/ \E h \in Handles : ClientWaits(g, h)
      PROVE  WakeupInv'
  <2>1. CallerStep(g)
    BY <1>2 DEF CallerStep, ClientGetsId, ClientCancels, ClientWaits, ClientTypeOK
  <2> QED
    BY <2>1, CallerWakeup
<1>3. ASSUME NEW g \in Goroutines, ClientReceives(g)
      PROVE  WakeupInv'
  BY <1>3, WakeupUntouched DEF ClientReceives
<1>4. ASSUME NEW h \in Handles, PeerWrites(h) \/ PeerCloses(h)
      PROVE  WakeupInv'
  BY <1>4, WakeupUntouched DEF PeerWrites, PeerCloses
<1>5. CASE UNCHANGED vars
  BY <1>5, WakeupUntouched DEF vars, waiterVars
<1> QED
  BY <1>1, <1>2, <1>3, <1>4, <1>5 DEF Next, ClientStep, Done

-----------------------------------------------------------------------------
(* Whose wait is whose.                                                    *)

\* Requests in waitChan come from callers.
LEMMA SendersAreCallers ==
  ASSUME WaiterTypeOK
  PROVE  \A k \in DOMAIN waitChan : waitChan[k].from \in Goroutines
<1>1. waitChan \in Seq(Requests)
  BY DEF WaiterTypeOK, QueuesTypeOK
<1>2. \A k \in DOMAIN waitChan : waitChan[k] \in Requests
  BY <1>1
<1> QED
  BY <1>2 DEF Requests

\* Steps that touch neither requests nor rows, ids or responses.
LEMMA WaitsUntouched ==
  ASSUME WaitsInv,
         UNCHANGED <<slices, ids, waitChan, cancelChan, idChan, chan, call, request,
                     client, waitId>>,
         UNCHANGED worker \/ ~(worker.pc = "send" /\ worker.result = "aborted")'
  PROVE  WaitsInv'
<1> USE DEF WaitsInv, slices, IdOf
<1>1. ClientTypeOK' /\ IdsKnownOnce' /\ IdsUnique'
  BY DEF ClientTypeOK, IdsKnownOnce, IdsUnique
<1>2. RequestsAlone' /\ RowsAreWaits' /\ ResponsesAreMine'
  BY DEF RequestsAlone, RowsAreWaits, ResponsesAreMine
<1>3. RequestKept' /\ CancelsAreMeant'
  BY DEF RequestKept, CancelsAreMeant
<1> QED
  BY <1>1, <1>2, <1>3

\* WaitMany(), the flag and the waking message concern nobody's wait.
LEMMA QuietWorker ==
  ASSUME WaiterTypeOK, WaitsInv, UNCHANGED <<client, waitId>>,
         WaitMany \/ StoreNotified \/ ReadWakeMessage \/ ProcessDone \/ Respond
  PROVE  WaitsInv'
<1>1. UNCHANGED <<slices, ids, waitChan, cancelChan, idChan, chan, call, request,
                  client, waitId>>
  BY DEF WaitMany, StoreNotified, ReadWakeMessage, ProcessDone, Respond, slices, queues
<1>2. ~(worker.pc = "send" /\ worker.result = "aborted")'
  <2>t. worker \in Worker /\ (worker.pc = "store" => worker.result # "aborted")
    BY DEF WaiterTypeOK, WorkerTypeOK
  <2>1. CASE WaitMany
    BY <2>1, WaitManyReturns
  <2>2. CASE StoreNotified
    BY <2>2, <2>t DEF StoreNotified, AfterStore, IdleWorker, Worker
  <2>3. CASE ReadWakeMessage \/ ProcessDone
    BY <2>3 DEF ReadWakeMessage, ProcessDone, IdleWorker
  <2>4. CASE Respond
    BY <2>4, RespondPicks DEF IdleWorker
  <2> QED
    BY <2>1, <2>2, <2>3, <2>4
<1> QED
  BY <1>1, <1>2, WaitsUntouched

\* processIncomingRequests(), a wait: its caller gets the next id and a row.
LEMMA ProcessWaitWaits ==
  ASSUME WaiterTypeOK, WaitsInv, ProcessWait, UNCHANGED <<client, waitId>>
  PROVE  WaitsInv'
<1> DEFINE r == Head(waitChan)
           g == r.from
<1>1. /\ waitChan \in Seq(Requests) /\ waitChan # <<>> /\ waitChan' = Tail(waitChan)
      /\ ids \in Nat /\ ids' = ids + 1
      /\ UNCHANGED <<cancelChan, chan, call, client, waitId, worker>>
      /\ worker.pc = "process"
  BY DEF ProcessWait, WaiterTypeOK, QueuesTypeOK, SlicesTypeOK
<1>2. /\ r = waitChan[1] /\ r \in Requests /\ 1 \in DOMAIN waitChan
      /\ DOMAIN waitChan' = 1 .. Len(waitChan) - 1
      /\ \A k \in DOMAIN waitChan' : k + 1 \in DOMAIN waitChan /\ waitChan'[k] = waitChan[k + 1]
  BY <1>1
<1>3. g \in Goroutines /\ r.handle \in Handles /\ r.chan \in Chans
  BY <1>2 DEF Requests
<1>4. /\ r.chan = g /\ r.handle \in HandlesOf[g]
      /\ client[g] # "idle" /\ waitId[g] = 0 /\ idChan[g] = 0 /\ chan[g] = <<>>
      /\ call[g] \in {"wait_cas", "wait_write", "wait_id"}
      /\ \A j \in DOMAIN waitChan : j # 1 => waitChan[j].from # g
  BY <1>2 DEF WaitsInv, RequestsAlone
<1>5. /\ handles' = Append(handles, r.handle) /\ responses' = Append(responses, g)
      /\ asyncWaitIds' = Append(asyncWaitIds, ids + 1)
      /\ idChan' = [idChan EXCEPT ![g] = ids + 1]
      /\ request' = [request EXCEPT ![ids + 1] = r]
  BY <1>4 DEF ProcessWait, NewId
<1> HIDE DEF r, g
<1>6. idChan \in [Goroutines -> Nat] /\ waitId \in [Goroutines -> Nat]
  BY DEF WaiterTypeOK, QueuesTypeOK, WaitsInv, ClientTypeOK
<1>7. \A k \in Goroutines : IdOf'[k] = IF k = g THEN ids + 1 ELSE IdOf[k]
  BY <1>1, <1>3, <1>4, <1>5, <1>6 DEF IdOf
<1>8. \A k \in Goroutines : IdOf[k] \in Nat /\ IdOf[k] <= ids
  BY <1>6 DEF IdOf, WaitsInv, IdsUnique
<1>9. IdOf[g] = 0
  BY <1>3, <1>4 DEF IdOf
<1>10. ClientTypeOK'
  BY <1>1 DEF WaitsInv, ClientTypeOK
<1>11. IdsKnownOnce'
  BY <1>1, <1>3, <1>4, <1>5, <1>6, <1>7 DEF WaitsInv, IdsKnownOnce
<1>12. RequestsAlone'
  <2> SUFFICES ASSUME NEW k \in DOMAIN waitChan'
               PROVE  LET q == waitChan'[k].from
                      IN /\ waitChan'[k].chan = q
                         /\ waitChan'[k].handle \in HandlesOf[q]
                         /\ client'[q] # "idle" /\ waitId'[q] = 0 /\ idChan'[q] = 0
                         /\ call'[q] \in {"wait_cas", "wait_write", "wait_id"}
                         /\ chan'[q] = <<>>
                         /\ \A j \in DOMAIN waitChan' : j # k => waitChan'[j].from # q
    BY DEF RequestsAlone
  <2>1. k + 1 \in DOMAIN waitChan /\ k + 1 # 1 /\ waitChan'[k] = waitChan[k + 1]
    BY <1>1, <1>2
  <2>2. waitChan[k + 1].from # g
    BY <1>4, <2>1
  <2>3. \A j \in DOMAIN waitChan' : j # k => waitChan'[j].from # waitChan'[k].from
    <3> SUFFICES ASSUME NEW j \in DOMAIN waitChan', j # k
                 PROVE  waitChan'[j].from # waitChan'[k].from
      OBVIOUS
    <3>1. j + 1 \in DOMAIN waitChan /\ j + 1 # k + 1 /\ waitChan'[j] = waitChan[j + 1]
      BY <1>1, <1>2
    <3> QED
      BY <2>1, <3>1 DEF WaitsInv, RequestsAlone
  <2>4. idChan'[waitChan[k + 1].from] = idChan[waitChan[k + 1].from]
    BY <1>5, <1>6, <2>2
  <2> QED
    BY <1>1, <2>1, <2>3, <2>4 DEF WaitsInv, RequestsAlone
<1>13. RowsAreWaits'
  <2>1. /\ handles \in Seq(Handles) /\ responses \in Seq(Chans)
        /\ asyncWaitIds \in Seq(Nat \ {0})
        /\ Len(responses) = Len(handles) /\ Len(asyncWaitIds) = Len(handles)
    BY DEF WaiterTypeOK, SlicesTypeOK
  <2>2. /\ DOMAIN responses' = 1 .. Len(responses) + 1
        /\ \A i \in DOMAIN responses :
             /\ responses'[i] = responses[i] /\ handles'[i] = handles[i]
             /\ asyncWaitIds'[i] = asyncWaitIds[i] /\ asyncWaitIds[i] # 0
        /\ responses'[Len(responses) + 1] = g
        /\ handles'[Len(responses) + 1] = r.handle
        /\ asyncWaitIds'[Len(responses) + 1] = ids + 1
    BY <1>3, <1>5, <2>1
  <2>3. \A i \in DOMAIN responses : responses[i] \in Goroutines /\ responses[i] # g
    BY <1>9, <2>2 DEF WaitsInv, RowsAreWaits
  <2>4. \A i \in DOMAIN responses' : i \in DOMAIN responses \/ i = Len(responses) + 1
    BY <2>1, <2>2
  <2>5. \A i \in DOMAIN responses : asyncWaitIds'[i] = IdOf'[responses'[i]]
    BY <1>7, <2>2, <2>3 DEF WaitsInv, RowsAreWaits
  <2> QED
    BY <1>1, <1>3, <1>4, <1>7, <2>2, <2>3, <2>4, <2>5 DEF WaitsInv, RowsAreWaits
<1>14. ResponsesAreMine'
  BY <1>1, <1>4, <1>7 DEF WaitsInv, ResponsesAreMine
<1>15. IdsUnique'
  BY <1>1, <1>7, <1>8 DEF WaitsInv, IdsUnique
<1>16. RequestKept'
  <2>1. Len(waitChan') = Len(waitChan) - 1 /\ Len(waitChan) \in Nat /\ Len(waitChan) > 0
    BY <1>1
  <2>2. ids + 1 \in WaitIds /\ ids' + Len(waitChan') <= MaxWaits
    BY <1>1, <2>1 DEF WaitsInv, RequestKept, WaitIds
  <2>3. \A k \in Goroutines : k # g => request'[IdOf[k]] = request[IdOf[k]]
    BY <1>1, <1>5, <1>8 DEF WaitsInv, RequestKept
  <2> QED
    BY <1>3, <1>4, <1>5, <1>7, <2>2, <2>3 DEF WaitsInv, RequestKept
<1>17. CancelsAreMeant'
  <2>1. \A n \in DOMAIN cancelChan :
          /\ cancelChan[n] \in Nat /\ cancelChan[n] <= ids
          /\ \A k \in Goroutines : IdOf[k] = cancelChan[n] => client[k] = "cancelled"
    BY DEF WaitsInv, CancelsAreMeant, WaiterTypeOK, QueuesTypeOK
  <2> QED
    BY <1>1, <1>7, <2>1 DEF CancelsAreMeant
<1> QED
  BY <1>10, <1>11, <1>12, <1>13, <1>14, <1>15, <1>16, <1>17 DEF WaitsInv

\* processIncomingRequests(), a cancellation: if there is a row with the id, its
\* caller has cancelled it.
LEMMA ProcessCancelWaits ==
  ASSUME WaiterTypeOK, WaitsInv, ProcessCancel, UNCHANGED <<client, waitId>>
  PROVE  WaitsInv'
<1>1. /\ cancelChan \in Seq(Nat \ {0}) /\ cancelChan # <<>>
      /\ cancelChan' = Tail(cancelChan)
      /\ worker \in Worker /\ worker.pc = "process"
  BY DEF ProcessCancel, WaiterTypeOK, QueuesTypeOK, WorkerTypeOK
<1>2. UNCHANGED <<handles, asyncWaitIds, responses, ids, waitChan, idChan, chan, call,
                  request, client, waitId, IdOf>>
  BY DEF ProcessCancel, slices, IdOf
<1>3. /\ ClientTypeOK' /\ IdsKnownOnce' /\ RequestsAlone' /\ RowsAreWaits'
      /\ ResponsesAreMine' /\ IdsUnique' /\ RequestKept'
  BY <1>2 DEF WaitsInv, ClientTypeOK, IdsKnownOnce, RequestsAlone, RowsAreWaits,
              ResponsesAreMine, IdsUnique, RequestKept
<1>4. /\ Head(cancelChan) = cancelChan[1] /\ 1 \in DOMAIN cancelChan
      /\ \A k \in DOMAIN cancelChan' :
           k + 1 \in DOMAIN cancelChan /\ cancelChan'[k] = cancelChan[k + 1]
  BY <1>1
<1>5. worker'.pc = "send" /\ worker'.result = "aborted" =>
        client[responses[worker'.index]] = "cancelled"
  <2>1. CASE RowsOf(Head(cancelChan)) = {}
    BY <1>1, <2>1 DEF ProcessCancel
  <2>2. CASE RowsOf(Head(cancelChan)) # {}
    <3> DEFINE row == Min(RowsOf(Head(cancelChan)))
    <3>1. RowsOf(Head(cancelChan)) \in SUBSET Nat
      BY DEF RowsOf, WaiterTypeOK, SlicesTypeOK
    <3>2. row \in RowsOf(Head(cancelChan))
      BY <2>2, <3>1, MinIsMember
    <3>3. row \in DOMAIN responses /\ asyncWaitIds[row] = cancelChan[1]
      BY <1>4, <3>2 DEF RowsOf, WaiterTypeOK, SlicesTypeOK
    <3>4. client[responses[row]] = "cancelled"
      BY <1>4, <3>3 DEF WaitsInv, RowsAreWaits, CancelsAreMeant
    <3>5. worker' = [worker EXCEPT !.pc = "send", !.next = "process",
                       !.index = row, !.result = "aborted"]
      BY <2>2 DEF ProcessCancel
    <3> HIDE DEF row
    <3>6. worker'.index = row
      BY <1>1, <3>5 DEF Worker
    <3> QED
      BY <3>4, <3>6
  <2> QED
    BY <2>1, <2>2
<1>6. CancelsAreMeant'
  BY <1>2, <1>4, <1>5 DEF WaitsInv, CancelsAreMeant
<1> QED
  BY <1>3, <1>6 DEF WaitsInv

\* sendWaitResponseAndRemove(): the row becomes the response, and what moves
\* into its place keeps its caller.
LEMMA SendWaits ==
  ASSUME WaiterTypeOK, WaitsInv, SendWaitResponseAndRemove, UNCHANGED <<client, waitId>>
  PROVE  WaitsInv'
<1> DEFINE n == worker.index
           g == responses[n]
           last == Len(responses)
           from(i) == IF i = n THEN last ELSE i
<1>1. UNCHANGED <<ids, waitChan, cancelChan, idChan, call, request, client, waitId, IdOf>>
  BY DEF SendWaitResponseAndRemove, queues, IdOf
<1>2. /\ handles \in Seq(Handles) /\ responses \in Seq(Chans)
      /\ asyncWaitIds \in Seq(Nat \ {0})
      /\ Len(handles) = last /\ Len(asyncWaitIds) = last /\ last \in Nat
  BY DEF WaiterTypeOK, SlicesTypeOK
<1>3. n \in 1 .. last
  BY <1>2 DEF SendWaitResponseAndRemove, WaiterTypeOK, WorkerTypeOK, Worker, RowInRange
<1>4. /\ DOMAIN responses' = 1 .. last - 1
      /\ \A i \in 1 .. last - 1 :
           /\ handles'[i] = handles[from(i)]
           /\ asyncWaitIds'[i] = asyncWaitIds[from(i)]
           /\ responses'[i] = responses[from(i)]
  <2>1. /\ handles' = SwapRemove(handles, n)
        /\ asyncWaitIds' = SwapRemove(asyncWaitIds, n)
        /\ responses' = SwapRemove(responses, n)
    BY DEF SendWaitResponseAndRemove, RemoveHandle
  <2> HIDE DEF n
  <2>2. n \in 1 .. Len(handles) /\ n \in 1 .. Len(asyncWaitIds) /\ n \in 1 .. Len(responses)
    BY <1>2, <1>3
  <2>3. \A i \in 1 .. Len(handles) - 1 :
          handles'[i] = IF i = n THEN handles[Len(handles)] ELSE handles[i]
    BY <1>2, <2>1, <2>2, SwapRemoved
  <2>4. \A i \in 1 .. Len(asyncWaitIds) - 1 :
          asyncWaitIds'[i] = IF i = n THEN asyncWaitIds[Len(asyncWaitIds)] ELSE asyncWaitIds[i]
    BY <1>2, <2>1, <2>2, SwapRemoved
  <2>5. /\ responses' \in Seq(Chans) /\ Len(responses') = last - 1
        /\ \A i \in 1 .. Len(responses) - 1 :
             responses'[i] = IF i = n THEN responses[Len(responses)] ELSE responses[i]
    BY <1>2, <2>1, <2>2, SwapRemoved
  <2>6. DOMAIN responses' = 1 .. last - 1
    BY <2>5
  <2> QED
    BY <1>2, <2>3, <2>4, <2>5, <2>6
<1>5. /\ g \in Goroutines /\ asyncWaitIds[n] = IdOf[g]
      /\ \A i \in DOMAIN responses : i # n => responses[i] # g
  BY <1>2, <1>3 DEF WaitsInv, RowsAreWaits
<1>6. /\ chan[g] = <<>>
      /\ chan' = [chan EXCEPT ![g] = <<[id |-> asyncWaitIds[n], result |-> worker.result]>>]
  BY DEF SendWaitResponseAndRemove
<1>7. IdOf[g] # 0
  BY <1>2, <1>3, <1>5
<1>8. \A i \in 1 .. last - 1 : from(i) \in DOMAIN responses /\ from(i) # n
  BY <1>2, <1>3
<1>9. \A i, j \in 1 .. last - 1 : i # j => from(i) # from(j)
  BY <1>2, <1>3
<1>10. chan \in [Chans -> Seq(Responses)]
  BY DEF WaiterTypeOK, CallersTypeOK
<1>11. ~(worker.pc = "send" /\ worker.result = "aborted")'
  <2>1. worker \in Worker
    BY DEF WaiterTypeOK, WorkerTypeOK
  <2> QED
    BY <2>1 DEF SendWaitResponseAndRemove, IdleWorker, Worker
<1> HIDE DEF n, g, last, from
<1>12. ClientTypeOK' /\ IdsKnownOnce' /\ IdsUnique' /\ RequestKept' /\ CancelsAreMeant'
  BY <1>1, <1>11 DEF WaitsInv, ClientTypeOK, IdsKnownOnce, IdsUnique, RequestKept,
                     CancelsAreMeant
<1>13. RequestsAlone'
  <2>1. \A k \in DOMAIN waitChan : waitChan[k].from \in Goroutines
    BY SendersAreCallers
  <2>2. \A k \in DOMAIN waitChan : IdOf[waitChan[k].from] = 0
    BY <2>1 DEF WaitsInv, RequestsAlone, IdOf
  <2>3. \A k \in DOMAIN waitChan : chan'[waitChan[k].from] = chan[waitChan[k].from]
    BY <1>6, <1>7, <1>10, <2>1, <2>2
  <2> QED
    BY <1>1, <2>3 DEF WaitsInv, RequestsAlone
<1>14. RowsAreWaits'
  <2>1. \A i \in 1 .. last - 1 :
          /\ responses[from(i)] # g /\ responses[from(i)] \in Goroutines
          /\ chan[responses[from(i)]] = <<>>
          /\ handles[from(i)] \in HandlesOf[responses[from(i)]]
          /\ asyncWaitIds[from(i)] = IdOf[responses[from(i)]]
    BY <1>5, <1>8 DEF WaitsInv, RowsAreWaits
  <2>2. \A i \in 1 .. last - 1 : chan'[responses[from(i)]] = <<>>
    BY <1>6, <1>10, <2>1
  <2>3. \A i, j \in 1 .. last - 1 : j # i => responses[from(j)] # responses[from(i)]
    BY <1>8, <1>9 DEF WaitsInv, RowsAreWaits
  <2> QED
    BY <1>1, <1>4, <2>1, <2>2, <2>3 DEF RowsAreWaits
<1>15. ResponsesAreMine'
  BY <1>1, <1>5, <1>6, <1>7, <1>10 DEF WaitsInv, ResponsesAreMine
<1> QED
  BY <1>12, <1>13, <1>14, <1>15 DEF WaitsInv

\* wakeWorker() changes only where its caller is.
LEMMA WakeWaits ==
  ASSUME WaiterTypeOK, WaitsInv, NEW g \in Goroutines, WakeCAS(g) \/ WakeWrite(g),
         UNCHANGED <<client, waitId>>
  PROVE  WaitsInv'
<1>1. UNCHANGED <<handles, asyncWaitIds, responses, ids, worker, waitChan, cancelChan,
                  idChan, chan, request, client, waitId, IdOf>>
  BY DEF WakeCAS, WakeWrite, workerVars, slices, IdOf
<1>2. /\ call[g] \in Waking
      /\ \A k \in Goroutines : k # g => call'[k] = call[k]
      /\ call[g] \in {"wait_cas", "wait_write"} =>
           call'[g] \in {"wait_cas", "wait_write", "wait_id"}
  BY DEF WaiterTypeOK, CallersTypeOK, WakeCAS, WakeWrite, AfterWake, Waking
<1>3. \A k \in DOMAIN waitChan : waitChan[k].from \in Goroutines
  BY SendersAreCallers
<1>4. IdsKnownOnce'
  BY <1>1, <1>2 DEF WaitsInv, IdsKnownOnce, Waking
<1>5. RequestsAlone'
  <2>1. \A k \in DOMAIN waitChan :
          call'[waitChan[k].from] \in {"wait_cas", "wait_write", "wait_id"}
    BY <1>2, <1>3 DEF WaitsInv, RequestsAlone, Waking
  <2> QED
    BY <1>1, <2>1 DEF WaitsInv, RequestsAlone
<1>6. /\ ClientTypeOK' /\ RowsAreWaits' /\ ResponsesAreMine' /\ IdsUnique'
      /\ RequestKept' /\ CancelsAreMeant'
  BY <1>1 DEF WaitsInv, ClientTypeOK, RowsAreWaits, ResponsesAreMine, IdsUnique,
              RequestKept, CancelsAreMeant
<1> QED
  BY <1>4, <1>5, <1>6 DEF WaitsInv

\* AsyncWait() returns: the id is where it was, in the caller's own hands.
LEMMA GetsIdWaits ==
  ASSUME WaiterTypeOK, WaitsInv, NEW g \in Goroutines, ClientGetsId(g)
  PROVE  WaitsInv'
<1>1. UNCHANGED <<handles, asyncWaitIds, responses, ids, worker, waitChan, cancelChan,
                  chan, request, client>>
  BY DEF ClientGetsId, AsyncWaitReturns, workerVars, slices
<1>2. /\ idChan \in [Goroutines -> Nat] /\ waitId \in [Goroutines -> Nat]
      /\ call \in [Goroutines -> Waking \cup {"none", "wait_id"}]
  BY DEF WaiterTypeOK, QueuesTypeOK, CallersTypeOK, WaitsInv, ClientTypeOK
<1>3. /\ call[g] = "wait_id" /\ idChan[g] # 0
      /\ idChan' = [idChan EXCEPT ![g] = 0]
      /\ waitId' = [waitId EXCEPT ![g] = idChan[g]]
      /\ call' = [call EXCEPT ![g] = "none"]
  BY DEF ClientGetsId, AsyncWaitReturns
<1>4. waitId[g] = 0 /\ client[g] # "idle"
  BY <1>3 DEF WaitsInv, IdsKnownOnce
<1>5. UNCHANGED IdOf
  BY <1>2, <1>3, <1>4 DEF IdOf
<1>6. \A k \in DOMAIN waitChan : waitChan[k].from \in Goroutines \ {g}
  BY <1>3, SendersAreCallers DEF WaitsInv, RequestsAlone
<1>7. IdsKnownOnce'
  BY <1>1, <1>2, <1>3, <1>4, <1>5 DEF WaitsInv, IdsKnownOnce
<1>8. RequestsAlone'
  <2>1. \A k \in Goroutines \ {g} :
          UNCHANGED <<waitId[k], idChan[k], call[k]>>
    BY <1>2, <1>3
  <2> QED
    BY <1>1, <1>6, <2>1 DEF WaitsInv, RequestsAlone
<1>9. ClientTypeOK'
  BY <1>1, <1>2, <1>3 DEF WaitsInv, ClientTypeOK
<1>10. RowsAreWaits' /\ ResponsesAreMine' /\ IdsUnique' /\ RequestKept' /\ CancelsAreMeant'
  BY <1>1, <1>5 DEF WaitsInv, RowsAreWaits, ResponsesAreMine, IdsUnique,
                    RequestKept, CancelsAreMeant
<1> QED
  BY <1>7, <1>8, <1>9, <1>10 DEF WaitsInv

\* The response is received: neither a row nor a request was left.
LEMMA ReceivesWaits ==
  ASSUME WaiterTypeOK, WaitsInv, NEW g \in Goroutines, ClientReceives(g)
  PROVE  WaitsInv'
<1>1. UNCHANGED <<handles, asyncWaitIds, responses, ids, worker, waitChan, cancelChan,
                  idChan, call>>
  BY DEF ClientReceives, workerVars, queues, slices
<1>2. /\ idChan \in [Goroutines -> Nat] /\ waitId \in [Goroutines -> Nat]
      /\ client \in [Goroutines -> {"idle", "waiting", "cancelled"}]
      /\ chan \in [Chans -> Seq(Responses)]
  BY DEF WaiterTypeOK, QueuesTypeOK, CallersTypeOK, WaitsInv, ClientTypeOK
<1>3. /\ call[g] = "none" /\ waitId[g] # 0 /\ chan[g] # <<>>
      /\ chan' = [chan EXCEPT ![g] = <<>>]
      /\ client' = [client EXCEPT ![g] = "idle"]
      /\ waitId' = [waitId EXCEPT ![g] = 0]
      /\ request' = [request EXCEPT ![waitId[g]] = <<>>]
  BY DEF ClientReceives
<1>4. idChan[g] = 0 /\ IdOf[g] = waitId[g]
  BY <1>3 DEF WaitsInv, IdsKnownOnce, IdOf
<1>5. /\ IdOf'[g] = 0
      /\ \A k \in Goroutines \ {g} : IdOf'[k] = IdOf[k]
  BY <1>1, <1>2, <1>3, <1>4 DEF IdOf
<1>6. \A k \in Goroutines \ {g} : UNCHANGED <<waitId[k], client[k], chan[k]>>
  BY <1>2, <1>3
<1>7. \A k \in DOMAIN waitChan : waitChan[k].from \in Goroutines \ {g}
  BY <1>3, SendersAreCallers DEF WaitsInv, RequestsAlone
<1>8. \A i \in DOMAIN responses : responses[i] \in Goroutines \ {g}
  BY <1>3 DEF WaitsInv, RowsAreWaits
<1>9. ClientTypeOK' /\ IdsKnownOnce'
  BY <1>1, <1>2, <1>3, <1>4, <1>5, <1>6 DEF WaitsInv, ClientTypeOK, IdsKnownOnce
<1>10. RequestsAlone'
  BY <1>1, <1>6, <1>7 DEF WaitsInv, RequestsAlone
<1>11. RowsAreWaits'
  BY <1>1, <1>5, <1>6, <1>8 DEF WaitsInv, RowsAreWaits
<1>12. ResponsesAreMine'
  BY <1>2, <1>3, <1>5, <1>6 DEF WaitsInv, ResponsesAreMine
<1>13. IdsUnique'
  <2>1. ids \in Nat
    BY DEF WaiterTypeOK, SlicesTypeOK
  <2>2. \A k \in Goroutines : IdOf'[k] # 0 => k # g /\ IdOf'[k] = IdOf[k]
    BY <1>5
  <2> QED
    BY <1>1, <2>1, <2>2 DEF WaitsInv, IdsUnique
<1>14. RequestKept'
  <2>1. \A k \in Goroutines \ {g} : IdOf[k] # 0 => IdOf[k] # waitId[g]
    BY <1>3, <1>4 DEF WaitsInv, IdsUnique
  <2>2. DOMAIN request' = WaitIds
    BY <1>3 DEF WaitsInv, RequestKept
  <2>3. \A k \in Goroutines \ {g} : IdOf[k] # 0 => request'[IdOf[k]] = request[IdOf[k]]
    BY <1>3, <2>1
  <2> QED
    BY <1>1, <1>5, <2>2, <2>3 DEF WaitsInv, RequestKept
<1>15. CancelsAreMeant'
  <2>1. \A k \in DOMAIN cancelChan : cancelChan[k] # 0
    BY DEF WaiterTypeOK, QueuesTypeOK
  <2>2. \A k \in DOMAIN cancelChan : \A q \in Goroutines :
          IdOf'[q] = cancelChan[k] => client'[q] = "cancelled"
    BY <1>5, <1>6, <2>1 DEF WaitsInv, CancelsAreMeant
  <2>3. worker.pc = "send" => worker.index \in DOMAIN responses
    BY DEF WaiterTypeOK, WorkerTypeOK, SlicesTypeOK, Worker, RowInRange
  <2> QED
    BY <1>1, <1>6, <1>8, <2>2, <2>3 DEF WaitsInv, CancelsAreMeant
<1> QED
  BY <1>9, <1>10, <1>11, <1>12, <1>13, <1>14, <1>15 DEF WaitsInv

\* CancelWait() hands the worker an id that no other caller has.
LEMMA CancelsWaits ==
  ASSUME WaiterTypeOK, WaitsInv, NEW g \in Goroutines, ClientCancels(g)
  PROVE  WaitsInv'
<1>1. UNCHANGED <<handles, asyncWaitIds, responses, ids, worker, waitChan, idChan,
                  chan, request, waitId, IdOf>>
  BY DEF ClientCancels, CancelWait, workerVars, slices, IdOf
<1>2. /\ client \in [Goroutines -> {"idle", "waiting", "cancelled"}]
      /\ call \in [Goroutines -> Waking \cup {"none", "wait_id"}]
      /\ cancelChan \in Seq(Nat \ {0}) /\ waitId \in [Goroutines -> Nat]
  BY DEF WaiterTypeOK, QueuesTypeOK, CallersTypeOK, WaitsInv, ClientTypeOK
<1>3. /\ call[g] = "none" /\ waitId[g] # 0 /\ client[g] = "waiting"
      /\ client' = [client EXCEPT ![g] = "cancelled"]
      /\ call' = [call EXCEPT ![g] = "cancel_cas"]
      /\ cancelChan' = Append(cancelChan, waitId[g])
  BY DEF ClientCancels, CancelWait
<1>4. idChan[g] = 0 /\ IdOf[g] = waitId[g]
  BY <1>3 DEF WaitsInv, IdsKnownOnce, IdOf
<1>5. \A k \in Goroutines \ {g} : UNCHANGED <<client[k], call[k]>>
  BY <1>2, <1>3
<1>6. client'[g] = "cancelled"
  BY <1>2, <1>3
<1>7. ClientTypeOK' /\ IdsKnownOnce'
  BY <1>1, <1>2, <1>3, <1>4, <1>5 DEF WaitsInv, ClientTypeOK, IdsKnownOnce
<1>8. RequestsAlone'
  <2>1. \A k \in DOMAIN waitChan : waitChan[k].from \in Goroutines \ {g}
    BY <1>3, SendersAreCallers DEF WaitsInv, RequestsAlone
  <2> QED
    BY <1>1, <1>5, <2>1 DEF WaitsInv, RequestsAlone
<1>9. RowsAreWaits' /\ ResponsesAreMine' /\ IdsUnique' /\ RequestKept'
  BY <1>1 DEF WaitsInv, RowsAreWaits, ResponsesAreMine, IdsUnique, RequestKept
<1>10. CancelsAreMeant'
  <2>1. waitId[g] <= ids /\ \A k \in Goroutines : IdOf[k] = waitId[g] => k = g
    BY <1>3, <1>4 DEF WaitsInv, IdsUnique
  <2>2. waitId[g] \in Nat \ {0}
    BY <1>2, <1>3
  <2>3. \A k \in DOMAIN cancelChan' :
          \/ k \in DOMAIN cancelChan /\ cancelChan'[k] = cancelChan[k]
          \/ cancelChan'[k] = waitId[g]
    BY <1>2, <1>3, <2>2
  <2>4. \A q \in Goroutines : client[q] = "cancelled" => client'[q] = "cancelled"
    BY <1>5, <1>6
  <2>5. \A k \in DOMAIN cancelChan' :
          /\ cancelChan'[k] <= ids
          /\ \A q \in Goroutines : IdOf[q] = cancelChan'[k] => client'[q] = "cancelled"
    BY <1>6, <2>1, <2>3, <2>4 DEF WaitsInv, CancelsAreMeant
  <2>6. worker.pc = "send" => worker.index \in DOMAIN responses
    BY DEF WaiterTypeOK, WorkerTypeOK, SlicesTypeOK, Worker, RowInRange
  <2> QED
    BY <1>1, <2>4, <2>5, <2>6 DEF WaitsInv, CancelsAreMeant, RowsAreWaits
<1> QED
  BY <1>7, <1>8, <1>9, <1>10 DEF WaitsInv

\* AsyncWait() by an idle caller, of whose earlier waits nothing is left.
LEMMA ClientWaitsWaits ==
  ASSUME WaiterTypeOK, WaitsInv, NEW g \in Goroutines, NEW h \in Handles, ClientWaits(g, h)
  PROVE  WaitsInv'
<1> DEFINE r == [handle |-> h, chan |-> g, from |-> g]
<1>1. UNCHANGED <<handles, asyncWaitIds, responses, ids, worker, cancelChan, idChan,
                  chan, request, waitId, IdOf>>
  BY DEF ClientWaits, AsyncWait, workerVars, slices, IdOf
<1>2. /\ client \in [Goroutines -> {"idle", "waiting", "cancelled"}]
      /\ call \in [Goroutines -> Waking \cup {"none", "wait_id"}]
      /\ waitChan \in Seq(Requests)
      /\ idChan \in [Goroutines -> Nat] /\ waitId \in [Goroutines -> Nat]
  BY DEF WaiterTypeOK, QueuesTypeOK, CallersTypeOK, WaitsInv, ClientTypeOK
<1>3. /\ h \in HandlesOf[g] /\ client[g] = "idle"
      /\ ids + Len(waitChan) < MaxWaits
      /\ client' = [client EXCEPT ![g] = "waiting"]
      /\ call' = [call EXCEPT ![g] = "wait_cas"]
      /\ waitChan' = Append(waitChan, r)
  BY DEF ClientWaits, AsyncWait
<1>4. IdOf[g] = 0 /\ call[g] = "none"
  BY <1>3 DEF WaitsInv, IdsKnownOnce
<1>5. idChan[g] = 0 /\ waitId[g] = 0
  BY <1>2, <1>4 DEF IdOf
<1>6. chan[g] = <<>>
  BY <1>4 DEF WaitsInv, ResponsesAreMine
<1>7. \A k \in Goroutines \ {g} : UNCHANGED <<client[k], call[k]>>
  BY <1>2, <1>3
<1>8. client'[g] = "waiting" /\ call'[g] = "wait_cas"
  BY <1>2, <1>3
<1>9. /\ r \in Requests /\ r.from = g /\ r.chan = g /\ r.handle = h
  BY DEF Requests
<1> HIDE DEF r
<1>10. ClientTypeOK' /\ IdsKnownOnce'
  BY <1>1, <1>2, <1>3, <1>5, <1>7, <1>8 DEF WaitsInv, ClientTypeOK, IdsKnownOnce
<1>11. RequestsAlone'
  <2>1. \A k \in DOMAIN waitChan : waitChan[k].from \in Goroutines \ {g}
    BY <1>3, SendersAreCallers DEF WaitsInv, RequestsAlone
  <2>2. \A k \in DOMAIN waitChan' :
          \/ k \in DOMAIN waitChan /\ waitChan'[k] = waitChan[k]
          \/ k = Len(waitChan) + 1 /\ waitChan'[k] = r
    BY <1>2, <1>3, <1>9
  <2>3. \A k \in DOMAIN waitChan' : k \in DOMAIN waitChan =>
          \A j \in DOMAIN waitChan' : j # k => waitChan'[j].from # waitChan'[k].from
    BY <1>9, <2>1, <2>2 DEF WaitsInv, RequestsAlone
  <2>4. \A k \in DOMAIN waitChan' : k = Len(waitChan) + 1 =>
          \A j \in DOMAIN waitChan' : j # k => waitChan'[j].from # waitChan'[k].from
    <3>1. Len(waitChan) + 1 \notin DOMAIN waitChan
      BY <1>2
    <3> QED
      BY <1>9, <2>1, <2>2, <3>1
  <2>5. \A k \in DOMAIN waitChan' : \A j \in DOMAIN waitChan' :
          j # k => waitChan'[j].from # waitChan'[k].from
    BY <2>2, <2>3, <2>4
  <2>6. \A k \in DOMAIN waitChan :
          LET q == waitChan[k].from
          IN /\ waitChan[k].chan = q /\ waitChan[k].handle \in HandlesOf[q]
             /\ client'[q] # "idle" /\ waitId'[q] = 0 /\ idChan'[q] = 0
             /\ call'[q] \in {"wait_cas", "wait_write", "wait_id"}
             /\ chan'[q] = <<>>
    BY <1>1, <1>7, <2>1 DEF WaitsInv, RequestsAlone
  <2> QED
    BY <1>1, <1>3, <1>5, <1>6, <1>8, <1>9, <2>2, <2>5, <2>6 DEF RequestsAlone
<1>12. RowsAreWaits' /\ ResponsesAreMine' /\ IdsUnique'
  BY <1>1 DEF WaitsInv, RowsAreWaits, ResponsesAreMine, IdsUnique
<1>13. RequestKept'
  <2>1. Len(waitChan') = Len(waitChan) + 1 /\ Len(waitChan) \in Nat /\ ids \in Nat
    BY <1>2, <1>3, <1>9 DEF WaiterTypeOK, SlicesTypeOK
  <2> QED
    BY <1>1, <1>3, <2>1 DEF WaitsInv, RequestKept
<1>14. CancelsAreMeant'
  <2>1. worker.pc = "send" => worker.index \in DOMAIN responses
    BY DEF WaiterTypeOK, WorkerTypeOK, SlicesTypeOK, Worker, RowInRange
  <2>2. \A q \in Goroutines : client[q] = "cancelled" => client'[q] = "cancelled"
    BY <1>3, <1>7
  <2> QED
    BY <1>1, <2>1, <2>2 DEF WaitsInv, CancelsAreMeant, RowsAreWaits
<1> QED
  BY <1>10, <1>11, <1>12, <1>13, <1>14 DEF WaitsInv

\* Every step keeps each wait with its caller.
LEMMA WaitsStep ==
  ASSUME WaiterTypeOK, WaitsInv, [Next]_vars
  PROVE  WaitsInv'
<1>1. CASE WorkerStep /\ UNCHANGED <<client, waitId>>
  BY <1>1, QuietWorker, ProcessWaitWaits, ProcessCancelWaits, SendWaits DEF WorkerStep
<1>2. ASSUME NEW g \in Goroutines, ClientStep(g)
      PROVE  WaitsInv'
  BY <1>2, WakeWaits, GetsIdWaits, ReceivesWaits DEF ClientStep
<1>3. ASSUME NEW h \in Handles, PeerWrites(h) \/ PeerCloses(h)
      PROVE  WaitsInv'
  BY <1>3, WaitsUntouched DEF PeerWrites, PeerCloses, workerVars, queues
<1>4. CASE UNCHANGED vars
  BY <1>4, WaitsUntouched DEF vars, waiterVars, workerVars, queues
<1> QED
  BY <1>1, <1>2, <1>3, <1>4, CancelsWaits, ClientWaitsWaits DEF Next, Done

-----------------------------------------------------------------------------
(* The theorems.                                                           *)

\* The invariant holds before the first call.
LEMMA InvInit ==
  ASSUME Init
  PROVE  Inv
<1> USE DEF Init, WaiterInit
<1>1. WaiterTypeOK /\ WakeupInv
  BY WaiterStarts
<1>2. WaitsInv
  BY DEF WaitsInv, ClientTypeOK, IdsKnownOnce, RequestsAlone, RowsAreWaits,
         ResponsesAreMine, IdsUnique, RequestKept, CancelsAreMeant, IdOf, IdleWorker
<1> QED
  BY <1>1, <1>2 DEF Inv

\* AsyncWaiter: the types, the wakeup protocol and the bookkeeping of waits hold
\* in every state.
THEOREM InvHolds == Spec => []Inv
<1>1. Init => Inv
  BY InvInit
<1>2. Inv /\ [Next]_vars => Inv'
  <2> SUFFICES ASSUME Inv, [Next]_vars PROVE Inv'
    OBVIOUS
  <2>1. WaiterTypeOK' /\ ClientTypeOK'
    BY TypeStep DEF Inv, WakeupInv, WaitsInv
  <2>2. WakeupInv'
    BY WakeupStep DEF Inv, WaitsInv
  <2>3. WaitsInv'
    BY WaitsStep DEF Inv
  <2> QED
    BY <2>1, <2>2, <2>3 DEF Inv
<1> QED
  BY <1>1, <1>2, PTL DEF Spec

\* wakeWorker(): for any number of callers and any capacity of the channels, the
\* worker never blocks on a queued request without a wakeup on its way, although
\* it clears the flag on every return of WaitMany().
THEOREM NeverLosesWakeup == Spec => []NoLostWakeup
<1>1. Inv => NoLostWakeup
  BY WakeupSuffices DEF Inv
<1> QED
  BY <1>1, InvHolds, PTL

\* removeHandle(): however rows are moved, a caller that knows the id of its wait
\* receives the response to that wait.
THEOREM AnswersTheRightWait == Spec => []ResponseIsForMyWait
<1>1. Inv => ResponseIsForMyWait
  BY DEF Inv, WaitsInv, ResponsesAreMine, IdOf, ResponseIsForMyWait
<1> QED
  BY <1>1, InvHolds, PTL

-----------------------------------------------------------------------------
(* The refinement.                                                         *)

\* Each caller waits on the handle with its name, as module Waiter has it.
OwnHandles == Handles = Goroutines /\ HandlesOf = [g \in Goroutines |-> {g}]

\* Steps that leave the worker and its rows alone, and keep what is readable or
\* dead as it is wherever there is a row.
LEMMA ResultsUntouched ==
  ASSUME WaiterTypeOK, ResultsAreTrue, UNCHANGED <<worker, handles>>,
         \A i \in DOMAIN handles :
           signal[handles[i]] # "idle" => signal'[handles[i]] = signal[handles[i]]
  PROVE  ResultsAreTrue'
<1>1. /\ worker.pc = "send" => worker.index \in DOMAIN handles
      /\ worker.pc = "store" /\ worker.index # 0 => worker.index \in DOMAIN handles
  BY DEF WaiterTypeOK, WorkerTypeOK, SlicesTypeOK, Worker, RowInRange
<1>2. StatesInUse' <=> StatesInUse
  BY DEF StatesInUse
<1> QED
  BY <1>1, <1>2 DEF ResultsAreTrue

\* What the worker is about to respond is still true of the handle: nobody but
\* the caller that has not yet received it could change it.
LEMMA ResultsStep ==
  ASSUME OwnHandles, Inv, ResultsAreTrue, [Next]_vars
  PROVE  ResultsAreTrue'
<1>t. /\ WaiterTypeOK /\ WaitsInv /\ worker \in Worker
      /\ handles \in Seq(Handles)
      /\ signal \in [Handles -> {"idle", "readable", "dead", "closed"}]
  BY DEF Inv, WaiterTypeOK, SlicesTypeOK, WorkerTypeOK, CallersTypeOK
<1>1. CASE WaitMany
  <2>1. UNCHANGED <<handles, signal>>
    BY <1>1 DEF WaitMany, slices
  <2>2. worker'.index # 0 => worker'.index \in DOMAIN handles
    BY <1>1, <1>t, WaitManyReturns
  <2>3. \A i \in DOMAIN handles : signal[handles[i]] \in {"idle", "readable", "dead", "closed"}
    BY <1>t
  <2>4. worker'.pc = "store"
        /\ \A i \in DOMAIN handles : worker'.states[i] => signal[handles[i]] = "readable"
    BY <1>1, <1>t, WaitManyReturns
  <2>5. worker'.index # 0 /\ worker'.result = "error" =>
          signal[handles[worker'.index]] \in {"dead", "closed"}
    BY <1>1, <1>t, <2>2, <2>3, WaitManyReturns
  <2> QED
    BY <2>1, <2>4, <2>5 DEF ResultsAreTrue
<1>2. CASE StoreNotified
  <2>1. /\ UNCHANGED <<handles, signal>> /\ worker.pc = "store"
        /\ worker.result \in {"ok", "error"} /\ worker' = AfterStore
    BY <1>2, <1>t DEF StoreNotified, slices, WaiterTypeOK, WorkerTypeOK, Worker
  <2>2. CASE worker.index = 0
    BY <2>1, <2>2 DEF AfterStore, IdleWorker, ResultsAreTrue, StatesInUse
  <2>3. CASE worker.index # 0 /\ worker.result # "ok"
    <3>1. /\ worker'.pc = "send" /\ worker'.next = "WaitMany"
          /\ worker'.index = worker.index /\ worker'.result = "error"
      BY <1>t, <2>1, <2>3 DEF AfterStore, Worker
    <3> QED
      BY <2>1, <2>3, <3>1 DEF ResultsAreTrue, StatesInUse
  <2>4. CASE worker.index # 0 /\ worker.result = "ok"
    <3>1. worker'.pc = "respond" /\ worker'.states = worker.states
      BY <1>t, <2>1, <2>4 DEF AfterStore, Worker
    <3> QED
      BY <2>1, <3>1 DEF ResultsAreTrue, StatesInUse
  <2> QED
    BY <2>2, <2>3, <2>4
<1>3. CASE ReadWakeMessage \/ ProcessDone
  BY <1>3 DEF ReadWakeMessage, ProcessDone, IdleWorker, ResultsAreTrue, StatesInUse
<1>4. CASE ProcessWait
  BY <1>4 DEF ProcessWait, ResultsAreTrue, StatesInUse
<1>5. CASE ProcessCancel
  <2>1. \/ worker'.pc = "process"
        \/ worker'.pc = "send" /\ worker'.next = "process" /\ worker'.result = "aborted"
    BY <1>5, <1>t DEF ProcessCancel, Worker
  <2> QED
    BY <2>1 DEF ResultsAreTrue, StatesInUse
<1>6. CASE Respond
  <2>1. UNCHANGED <<handles, signal>> /\ StatesInUse
    BY <1>6 DEF Respond, slices, StatesInUse
  <2>2. CASE worker' = IdleWorker("WaitMany")
    BY <2>2 DEF IdleWorker, ResultsAreTrue, StatesInUse
  <2>3. CASE worker' # IdleWorker("WaitMany")
    <3>1. /\ worker'.pc = "send" /\ worker'.result = "ok" /\ worker'.next = "respond"
          /\ worker'.states = worker.states /\ worker.states[worker'.index]
      BY <1>6, <1>t, <2>3, RespondPicks
    <3> QED
      BY <2>1, <3>1 DEF ResultsAreTrue, StatesInUse
  <2> QED
    BY <2>2, <2>3
<1>7. CASE SendWaitResponseAndRemove
  <2>1. CASE worker.next # "respond"
    BY <1>7, <1>t, <2>1 DEF SendWaitResponseAndRemove, IdleWorker, Worker, ResultsAreTrue,
                            StatesInUse
  <2>2. CASE worker.next = "respond"
    <3> DEFINE n == worker.index
               from(i) == IF i = n THEN Len(handles) ELSE i
    <3>1. /\ n \in 1 .. Len(handles) /\ worker.states \in Seq(BOOLEAN)
          /\ Len(worker.states) = Len(handles) /\ StatesInUse
      BY <1>7, <1>t, <2>2 DEF SendWaitResponseAndRemove, WaiterTypeOK, WorkerTypeOK,
                              Worker, RowInRange, StatesInUse
    <3>2. worker' = [worker EXCEPT !.pc = "respond", !.states = StatesAfterSend]
      BY <1>7, <2>2 DEF SendWaitResponseAndRemove
    <3>3. worker'.pc = "respond" /\ worker'.states = SwapRemove(worker.states, n)
      BY <1>t, <3>2 DEF Worker, StatesAfterSend
    <3>4. handles' = SwapRemove(handles, n) /\ UNCHANGED signal
      BY <1>7 DEF SendWaitResponseAndRemove, RemoveHandle
    <3> HIDE DEF n
    <3>5. /\ handles' \in Seq(Handles) /\ Len(handles') = Len(handles) - 1
          /\ \A i \in 1 .. Len(handles) - 1 :
               handles'[i] = IF i = n THEN handles[Len(handles)] ELSE handles[i]
      BY <1>t, <3>1, <3>4, SwapRemoved
    <3>6. n \in 1 .. Len(worker.states)
      BY <3>1
    <3>7. \A i \in 1 .. Len(worker.states) - 1 :
            worker'.states[i] =
              IF i = n THEN worker.states[Len(worker.states)] ELSE worker.states[i]
      <4> DEFINE st == worker.states
      <4>1. st \in Seq(BOOLEAN) /\ n \in 1 .. Len(st) /\ worker'.states = SwapRemove(st, n)
        BY <3>1, <3>3, <3>6
      <4> HIDE DEF st
      <4>2. \A i \in 1 .. Len(st) - 1 :
              SwapRemove(st, n)[i] = IF i = n THEN st[Len(st)] ELSE st[i]
        BY <4>1, SwapRemoved
      <4> QED
        BY <4>1, <4>2 DEF st
    <3>8. /\ DOMAIN handles' = 1 .. Len(handles) - 1
          /\ \A i \in 1 .. Len(handles) - 1 : from(i) \in DOMAIN handles
      BY <1>t, <3>1, <3>5
    <3>9. \A i \in 1 .. Len(handles) - 1 :
            /\ handles'[i] = handles[from(i)]
            /\ worker'.states[i] = worker.states[from(i)]
      BY <3>1, <3>5, <3>7
    <3> HIDE DEF from
    <3> QED
      BY <3>1, <3>3, <3>4, <3>8, <3>9 DEF ResultsAreTrue
  <2> QED
    BY <2>1, <2>2
<1>8. ASSUME NEW g \in Goroutines, ClientReceives(g)
      PROVE  ResultsAreTrue'
  <2>1. /\ UNCHANGED <<worker, handles>> /\ waitId[g] # 0 /\ chan[g] # <<>>
        /\ LET h == request[waitId[g]].handle
           IN signal' = [signal EXCEPT ![h] = IF @ = "readable" THEN "idle" ELSE @]
    BY <1>8 DEF ClientReceives, workerVars, slices
  <2>2. request[waitId[g]].handle = g
    BY <1>t, <2>1 DEF WaitsInv, RequestKept, IdOf, OwnHandles
  <2>3. \A i \in DOMAIN handles : handles[i] # g
    <3>1. DOMAIN handles = DOMAIN responses
      BY <1>t DEF WaiterTypeOK, SlicesTypeOK
    <3>2. \A i \in DOMAIN responses : handles[i] = responses[i] /\ chan[responses[i]] = <<>>
      BY <1>t DEF WaitsInv, RowsAreWaits, OwnHandles
    <3> QED
      BY <2>1, <3>1, <3>2
  <2> QED
    BY <1>t, <2>1, <2>2, <2>3, ResultsUntouched
<1>9. ASSUME NEW h \in Handles, PeerWrites(h) \/ PeerCloses(h)
      PROVE  ResultsAreTrue'
  <2>1. /\ UNCHANGED <<worker, handles>> /\ signal[h] = "idle"
        /\ \E v : signal' = [signal EXCEPT ![h] = v]
    BY <1>9 DEF PeerWrites, PeerCloses, workerVars, slices
  <2> QED
    BY <1>t, <2>1, ResultsUntouched
<1>10. ASSUME UNCHANGED <<workerVars, signal>>
       PROVE  ResultsAreTrue'
  BY <1>10, <1>t, ResultsUntouched DEF workerVars, slices
<1>11. ASSUME NEW g \in Goroutines, WakeCAS(g) \/ WakeWrite(g) \/ ClientGetsId(g)
                \/ ClientCancels(g) \/ \E h \in Handles : ClientWaits(g, h)
       PROVE  ResultsAreTrue'
  BY <1>10, <1>11 DEF WakeCAS, WakeWrite, ClientGetsId, AsyncWaitReturns, ClientCancels,
                      CancelWait, ClientWaits, AsyncWait
<1>12. CASE UNCHANGED vars
  BY <1>10, <1>12 DEF vars, waiterVars
<1> QED
  BY <1>1, <1>2, <1>3, <1>4, <1>5, <1>6, <1>7, <1>8, <1>9, <1>11, <1>12
     DEF Next, WorkerStep, ClientStep, Done

\* Steps that change neither clients nor responses nor signals are stutters.
LEMMA PromiseStutters ==
  ASSUME UNCHANGED <<client, chan, signal>>
  PROVE  UNCHANGED Promise!waiterVars
BY DEF Promise!waiterVars

\* A step of the waiter, of a caller or of a peer is a step of Waiter, or none.
LEMMA PromiseStep ==
  ASSUME OwnHandles, Inv, ResultsAreTrue, [Next]_vars
  PROVE  [Promise!WaiterNext]_(Promise!waiterVars)
<1> DEFINE waiting == [k \in Goroutines |-> client[k] # "idle"]
           cancelled == [k \in Goroutines |-> client[k] = "cancelled"]
           answer == [k \in Goroutines |->
                        IF chan[k] = <<>> THEN "none" ELSE chan[k][1].result]
<1>t. /\ WaiterTypeOK /\ WaitsInv
      /\ client \in [Goroutines -> {"idle", "waiting", "cancelled"}]
      /\ chan \in [Chans -> Seq(Responses)]
      /\ signal \in [Goroutines -> {"idle", "readable", "dead", "closed"}]
  BY DEF Inv, WaiterTypeOK, CallersTypeOK, WaitsInv, ClientTypeOK, OwnHandles
<1>1. ASSUME NEW g \in Goroutines, NEW h \in Handles, ClientWaits(g, h)
      PROVE  Promise!WaiterNext
  <2>1. /\ client[g] = "idle" /\ client' = [client EXCEPT ![g] = "waiting"]
        /\ UNCHANGED <<chan, signal>>
    BY <1>1 DEF ClientWaits, AsyncWait
  <2>2. ~waiting[g] /\ waiting' = [waiting EXCEPT ![g] = TRUE]
    BY <1>t, <2>1
  <2>3. UNCHANGED <<cancelled, answer, signal>>
    BY <1>t, <2>1
  <2>4. Promise!AsyncWait(g)
    BY <2>2, <2>3 DEF Promise!AsyncWait
  <2> QED
    BY <2>4 DEF Promise!WaiterNext
<1>2. ASSUME NEW g \in Goroutines, ClientCancels(g)
      PROVE  Promise!WaiterNext
  <2>1. /\ client[g] = "waiting" /\ client' = [client EXCEPT ![g] = "cancelled"]
        /\ UNCHANGED <<chan, signal>>
    BY <1>2 DEF ClientCancels, CancelWait
  <2>2. waiting[g] /\ ~cancelled[g] /\ cancelled' = [cancelled EXCEPT ![g] = TRUE]
    BY <1>t, <2>1
  <2>3. UNCHANGED <<waiting, answer, signal>>
    BY <1>t, <2>1
  <2>4. Promise!CancelWait(g)
    BY <2>2, <2>3 DEF Promise!CancelWait
  <2> QED
    BY <2>4 DEF Promise!WaiterNext
<1>3. ASSUME NEW g \in Goroutines, ClientReceives(g)
      PROVE  Promise!WaiterNext
  <2>1. /\ waitId[g] # 0 /\ chan[g] # <<>>
        /\ chan' = [chan EXCEPT ![g] = <<>>]
        /\ client' = [client EXCEPT ![g] = "idle"]
        /\ LET h == request[waitId[g]].handle
           IN signal' = [signal EXCEPT ![h] = IF @ = "readable" THEN "idle" ELSE @]
    BY <1>3 DEF ClientReceives
  <2>2. request[waitId[g]].handle = g
    BY <1>t, <2>1 DEF WaitsInv, RequestKept, IdOf, OwnHandles
  <2>3. signal' = Promise!Drained(g)
    BY <2>1, <2>2 DEF Promise!Drained
  <2>4. chan[g] \in Seq(Responses) /\ chan[g] # <<>>
    BY <1>t, <2>1
  <2>5. chan[g][1] \in Responses
    BY <2>4
  <2>6. answer[g] # "none"
    BY <2>4, <2>5 DEF Responses
  <2>7. answer' = [answer EXCEPT ![g] = "none"]
    BY <1>t, <2>1
  <2>8. /\ waiting' = [waiting EXCEPT ![g] = FALSE]
        /\ cancelled' = [cancelled EXCEPT ![g] = FALSE]
    BY <1>t, <2>1
  <2>9. Promise!Receive(g)
    BY <2>6, <2>7, <2>8 DEF Promise!Receive
  <2> QED
    BY <2>3, <2>9 DEF Promise!WaiterNext
<1>4. ASSUME NEW h \in Handles, PeerWrites(h) \/ PeerCloses(h)
      PROVE  Promise!WaiterNext
  <2>1. /\ h \in Goroutines /\ signal[h] = "idle" /\ UNCHANGED <<client, chan>>
        /\ \E v \in {"readable", "dead"} : signal' = [signal EXCEPT ![h] = v]
    BY <1>4 DEF PeerWrites, PeerCloses, OwnHandles
  <2>2. UNCHANGED <<waiting, cancelled, answer>>
    BY <2>1
  <2>3. Promise!SignalChanges(h)
    BY <2>1, <2>2 DEF Promise!SignalChanges
  <2> QED
    BY <2>1, <2>3 DEF Promise!WaiterNext
<1>5. CASE SendWaitResponseAndRemove /\ UNCHANGED <<client, waitId>>
  <2> DEFINE n == worker.index
             g == responses[n]
             response == [id |-> asyncWaitIds[n], result |-> worker.result]
  <2>1. /\ worker.pc = "send" /\ UNCHANGED <<client, signal>> /\ chan[g] = <<>>
        /\ chan' = [chan EXCEPT ![g] = <<response>>]
    BY <1>5 DEF SendWaitResponseAndRemove
  <2>2. n \in DOMAIN responses /\ n \in DOMAIN handles
    BY <1>t, <2>1 DEF WaiterTypeOK, SlicesTypeOK, WorkerTypeOK, Worker, RowInRange
  <2>3. /\ g \in Goroutines /\ handles[n] = g /\ asyncWaitIds[n] = IdOf[g]
        /\ asyncWaitIds[n] # 0
    <3>1. asyncWaitIds \in Seq(Nat \ {0}) /\ n \in DOMAIN asyncWaitIds
      BY <1>t, <2>2 DEF WaiterTypeOK, SlicesTypeOK
    <3>2. asyncWaitIds[n] # 0
      BY <3>1
    <3> QED
      BY <1>t, <2>2, <3>2 DEF WaitsInv, RowsAreWaits, OwnHandles
  <2>4. client[g] # "idle"
    BY <1>t, <2>3 DEF WaitsInv, IdsKnownOnce
  <2>5. worker.result \in {"ok", "error", "aborted"} /\ response.result = worker.result
    BY <1>t DEF WaiterTypeOK, WorkerTypeOK, Worker
  <2>6. /\ worker.result = "ok" => signal[g] = "readable"
        /\ worker.result = "error" => signal[g] \in {"dead", "closed"}
    BY <2>1, <2>2, <2>3 DEF ResultsAreTrue, StatesInUse
  <2>7. worker.result = "aborted" => client[g] = "cancelled"
    BY <1>t, <2>1 DEF WaitsInv, CancelsAreMeant
  <2> HIDE DEF n, g, response
  <2>8. /\ waiting[g] /\ answer[g] = "none"
        /\ worker.result = "aborted" => cancelled[g]
        /\ UNCHANGED <<waiting, cancelled, signal>>
    BY <2>1, <2>3, <2>4, <2>7
  <2>9. answer' = [answer EXCEPT ![g] = worker.result]
    BY <1>t, <2>1, <2>3, <2>5
  <2>10. PICK c \in Goroutines : c = g
    BY <2>3
  <2>11. Promise!Answer(c)
    BY <2>5, <2>6, <2>8, <2>9, <2>10 DEF Promise!Answer
  <2> QED
    BY <2>11 DEF Promise!WaiterNext
<1>6. CASE /\ WaitMany \/ StoreNotified \/ ReadWakeMessage \/ ProcessWait
              \/ ProcessCancel \/ ProcessDone \/ Respond
           /\ UNCHANGED <<client, waitId>>
  BY <1>6, PromiseStutters DEF WaitMany, StoreNotified, ReadWakeMessage, ProcessWait,
                               ProcessCancel, ProcessDone, Respond
<1>7. ASSUME NEW g \in Goroutines,
             \/ (WakeCAS(g) \/ WakeWrite(g)) /\ UNCHANGED <<client, waitId>>
             \/ ClientGetsId(g)
      PROVE  UNCHANGED Promise!waiterVars
  BY <1>7, PromiseStutters DEF WakeCAS, WakeWrite, ClientGetsId, AsyncWaitReturns
<1>8. CASE UNCHANGED vars
  BY <1>8, PromiseStutters DEF vars, waiterVars
<1> QED
  BY <1>1, <1>2, <1>3, <1>4, <1>5, <1>6, <1>7, <1>8 DEF Next, WorkerStep, ClientStep, Done

\* AsyncWaiter: to callers with a handle of their own, the worker with its slices
\* and channels is what the interface promises: one response per wait, and none
\* without a reason that still holds.
THEOREM ImplementsWaiterSafety ==
  ASSUME OwnHandles
  PROVE  Spec => Promise!WaiterSpec
<1>1. Init => Promise!WaiterInit
  BY DEF Init, WaiterInit, Promise!WaiterInit, OwnHandles
<1>2. Init => ResultsAreTrue
  BY DEF Init, WaiterInit, IdleWorker, ResultsAreTrue, StatesInUse
<1>3. Inv /\ ResultsAreTrue /\ [Next]_vars => ResultsAreTrue'
  BY ResultsStep
<1>4. Inv /\ ResultsAreTrue /\ [Next]_vars => [Promise!WaiterNext]_(Promise!waiterVars)
  BY PromiseStep
<1> QED
  BY <1>1, <1>2, <1>3, <1>4, InvHolds, PTL DEF Spec, Promise!WaiterSpec
=============================================================================
