------------------------- MODULE AsyncWaiterClients -------------------------
(***************************************************************************)
(* The async waiter with callers that keep to the contract documented in   *)
(* async_waiter.go: a response channel of their own, one wait at a time,   *)
(* and every response is received before the next wait.  Callers with a    *)
(* handle of their own see what module Waiter promises them.               *)
(***************************************************************************)
EXTENDS AsyncWaiter

CONSTANTS
  Cancellers,  \* the callers that may cancel a wait
  HandlesOf    \* goroutine -> the handles it waits on

ASSUME AsyncWaiterClientsAssumption ==
  /\ Cancellers \subseteq Goroutines
  /\ HandlesOf \in [Goroutines -> SUBSET Handles]
  /\ Goroutines \subseteq Chans  \* a response channel has its caller's name

VARIABLES
  client,  \* goroutine -> "idle", "waiting" or "cancelled"
  waitId   \* goroutine -> the id of its wait, 0 while it does not know it

vars == <<waiterVars, client, waitId>>

Init ==
  /\ WaiterInit
  /\ client = [g \in Goroutines |-> "idle"]
  /\ waitId = [g \in Goroutines |-> 0]

ClientWaits(g, h) ==
  /\ h \in HandlesOf[g]
  /\ client[g] = "idle"
  /\ ids + Len(waitChan) < MaxWaits
  /\ AsyncWait(g, h, g)
  /\ client' = [client EXCEPT ![g] = "waiting"]
  /\ UNCHANGED waitId

ClientGetsId(g) ==
  /\ AsyncWaitReturns(g)
  /\ waitId' = [waitId EXCEPT ![g] = idChan[g]]
  /\ UNCHANGED client

ClientCancels(g) ==
  /\ g \in Cancellers
  /\ client[g] = "waiting"
  /\ waitId[g] # 0
  /\ CancelWait(g, waitId[g])
  /\ client' = [client EXCEPT ![g] = "cancelled"]
  /\ UNCHANGED waitId

\* The response is received; the handle has been read empty by the time.
ClientReceives(g) ==
  /\ call[g] = "none"
  /\ waitId[g] # 0
  /\ chan[g] # <<>>
  /\ chan' = [chan EXCEPT ![g] = <<>>]
  /\ LET h == request[waitId[g]].handle
     IN signal' = [signal EXCEPT ![h] = IF @ = "readable" THEN "idle" ELSE @]
  /\ client' = [client EXCEPT ![g] = "idle"]
  /\ waitId' = [waitId EXCEPT ![g] = 0]
  /\ request' = [request EXCEPT ![waitId[g]] = <<>>]
  /\ UNCHANGED <<workerVars, queues, call>>

\* A peer writes to a handle, or closes its end; a handle is readable until
\* it has been read empty, whether its peer is there or not.
PeerWrites(h) ==
  /\ signal[h] = "idle"
  /\ signal' = [signal EXCEPT ![h] = "readable"]
  /\ UNCHANGED <<workerVars, queues, chan, call, request, client, waitId>>

PeerCloses(h) ==
  /\ signal[h] = "idle"
  /\ signal' = [signal EXCEPT ![h] = "dead"]
  /\ UNCHANGED <<workerVars, queues, chan, call, request, client, waitId>>

ClientStep(g) ==
  \/ (WakeCAS(g) \/ WakeWrite(g)) /\ UNCHANGED <<client, waitId>>
  \/ ClientGetsId(g)
  \/ ClientReceives(g)

\* Only callers that want nothing more may leave the system at rest.
Done ==
  /\ ids = MaxWaits
  /\ \A g \in Goroutines : client[g] = "idle"
  /\ UNCHANGED vars

Next ==
  \/ WorkerStep /\ UNCHANGED <<client, waitId>>
  \/ \E g \in Goroutines :
       \/ ClientStep(g)
       \/ ClientCancels(g)
       \/ \E h \in Handles : ClientWaits(g, h)
  \/ \E h \in Handles : PeerWrites(h) \/ PeerCloses(h)
  \/ Done

Spec == Init /\ [][Next]_vars

\* Every goroutine that can go on does; nobody has to cancel or write.
FairSpec ==
  /\ Spec
  /\ WF_vars(WorkerStep /\ UNCHANGED <<client, waitId>>)
  /\ \A g \in Goroutines : WF_vars(ClientStep(g))

-----------------------------------------------------------------------------
(* Properties.                                                             *)

\* A caller that knows its id gets the response to that very wait.
ResponseIsForMyWait ==
  \A g \in Goroutines :
    waitId[g] # 0 /\ chan[g] # <<>> => chan[g][1].id = waitId[g]

\* To callers that each wait on the handle named like them, the waiter is a
\* Waiter.
Promise == INSTANCE Waiter WITH
  Callers <- Goroutines,
  waiting <- [g \in Goroutines |-> client[g] # "idle"],
  cancelled <- [g \in Goroutines |-> client[g] = "cancelled"],
  answer <- [g \in Goroutines |->
               IF chan[g] = <<>> THEN "none" ELSE chan[g][1].result]

\* AsyncWaiter: the worker, its slices and its channels implement what the
\* interface promises: one response per wait, for a reason, and always one
\* when there is a reason.
ImplementsWaiter == Promise!WaiterFairSpec

-----------------------------------------------------------------------------
(* What ResponseIsForMyWait and the refinement rest on.                    *)

\* The id of a caller's wait, which the caller may not have received yet.
IdOf == [g \in Goroutines |-> IF waitId[g] # 0 THEN waitId[g] ELSE idChan[g]]

ClientTypeOK ==
  /\ client \in [Goroutines -> {"idle", "waiting", "cancelled"}]
  /\ waitId \in [Goroutines -> Nat]

\* An id is sent to a caller that waits for it and knows none; an idle caller
\* is in no call and has no id.
IdsKnownOnce ==
  \A g \in Goroutines :
    /\ idChan[g] # 0 => waitId[g] = 0 /\ call[g] \in {"wait_cas", "wait_write", "wait_id"}
    /\ client[g] = "idle" => IdOf[g] = 0 /\ call[g] = "none"

\* A request in waitChan is the only trace of its caller's wait.
RequestsAlone ==
  \A k \in DOMAIN waitChan :
    LET g == waitChan[k].from
    IN /\ waitChan[k].chan = g
       /\ waitChan[k].handle \in HandlesOf[g]
       /\ client[g] # "idle" /\ waitId[g] = 0 /\ idChan[g] = 0
       /\ call[g] \in {"wait_cas", "wait_write", "wait_id"}
       /\ chan[g] = <<>>
       /\ \A j \in DOMAIN waitChan : j # k => waitChan[j].from # g

\* A row of the slices is the wait of the caller whose channel and handle it
\* has, which has not been answered, and the only row of that caller.
RowsAreWaits ==
  \A i \in DOMAIN responses :
    /\ responses[i] \in Goroutines
    /\ handles[i] \in HandlesOf[responses[i]]
    /\ asyncWaitIds[i] = IdOf[responses[i]]
    /\ chan[responses[i]] = <<>>
    /\ \A j \in DOMAIN responses : j # i => responses[j] # responses[i]

\* A response is for the wait whose id its caller has or will get.
ResponsesAreMine ==
  \A g \in Goroutines :
    chan[g] # <<>> => Len(chan[g]) = 1 /\ IdOf[g] # 0 /\ chan[g][1].id = IdOf[g]

\* Ids are given out once.
IdsUnique ==
  \A g \in Goroutines :
    /\ IdOf[g] <= ids
    /\ \A k \in Goroutines : IdOf[g] # 0 /\ IdOf[g] = IdOf[k] => g = k

\* A caller's id leads to its request until it has received the response.
RequestKept ==
  /\ ids + Len(waitChan) <= MaxWaits
  /\ DOMAIN request = WaitIds
  /\ \A g \in Goroutines : IdOf[g] # 0 => request[IdOf[g]].handle \in HandlesOf[g]

\* Cancelled waits were cancelled by their caller, and a cancellation that
\* comes late meets no other wait.
CancelsAreMeant ==
  /\ \A k \in DOMAIN cancelChan :
       /\ cancelChan[k] <= ids
       /\ \A g \in Goroutines : IdOf[g] = cancelChan[k] => client[g] = "cancelled"
  /\ worker.pc = "send" /\ worker.result = "aborted" =>
       client[responses[worker.index]] = "cancelled"

\* The worker responds with what still holds of the handle, although it goes
\* by what WaitMany() returned.
ResultsAreTrue ==
  /\ StatesInUse =>
       \A i \in DOMAIN handles : worker.states[i] => signal[handles[i]] = "readable"
  /\ worker.pc = "store" /\ worker.index # 0 /\ worker.result = "error" =>
       signal[handles[worker.index]] \in {"dead", "closed"}
  /\ worker.pc = "send" =>
       /\ worker.result = "ok" => worker.next = "respond" /\ worker.states[worker.index]
       /\ worker.result = "error" => signal[handles[worker.index]] \in {"dead", "closed"}

WaitsInv ==
  /\ ClientTypeOK
  /\ IdsKnownOnce
  /\ RequestsAlone
  /\ RowsAreWaits
  /\ ResponsesAreMine
  /\ IdsUnique
  /\ RequestKept
  /\ CancelsAreMeant

Inv == WaiterTypeOK /\ WakeupInv /\ WaitsInv
=============================================================================
