------------------------------- MODULE Waiter -------------------------------
(***************************************************************************)
(* What the interface AsyncWaiter (async_waiter.go) promises to callers    *)
(* that each wait on a handle of their own for READABLE, with a response   *)
(* channel of their own.                                                   *)
(***************************************************************************)
CONSTANT Callers

VARIABLES
  waiting,    \* caller -> it has a wait whose response it has not received
  cancelled,  \* caller -> it has cancelled that wait
  answer,     \* caller -> the response in its channel, or "none"
  signal      \* caller -> what waiting on its handle would yield

waiterVars == <<waiting, cancelled, answer, signal>>

WaiterInit ==
  /\ waiting = [c \in Callers |-> FALSE]
  /\ cancelled = [c \in Callers |-> FALSE]
  /\ answer = [c \in Callers |-> "none"]
  /\ signal = [c \in Callers |-> "idle"]

AsyncWait(c) ==
  /\ ~waiting[c]
  /\ waiting' = [waiting EXCEPT ![c] = TRUE]
  /\ UNCHANGED <<cancelled, answer, signal>>

\* The response may be in the channel already.
CancelWait(c) ==
  /\ waiting[c] /\ ~cancelled[c]
  /\ cancelled' = [cancelled EXCEPT ![c] = TRUE]
  /\ UNCHANGED <<waiting, answer, signal>>

\* One response, for a reason: the handle is readable, will never be, or the
\* wait was cancelled.
Answer(c) ==
  /\ waiting[c]
  /\ answer[c] = "none"
  /\ \E result \in {"ok", "error", "aborted"} :
       /\ result = "ok" => signal[c] = "readable"
       /\ result = "error" => signal[c] \in {"dead", "closed"}
       /\ result = "aborted" => cancelled[c]
       /\ answer' = [answer EXCEPT ![c] = result]
  /\ UNCHANGED <<waiting, cancelled, signal>>

Receive(c) ==
  /\ answer[c] # "none"
  /\ answer' = [answer EXCEPT ![c] = "none"]
  /\ waiting' = [waiting EXCEPT ![c] = FALSE]
  /\ cancelled' = [cancelled EXCEPT ![c] = FALSE]

\* The caller reads its handle empty.
Drained(c) == [signal EXCEPT ![c] = IF @ = "readable" THEN "idle" ELSE @]

\* The peer's end: a readable handle is readable until it is read.
SignalChanges(c) ==
  /\ signal[c] = "idle"
  /\ \E s \in {"readable", "dead"} : signal' = [signal EXCEPT ![c] = s]
  /\ UNCHANGED <<waiting, cancelled, answer>>

WaiterNext ==
  \E c \in Callers :
    \/ AsyncWait(c) \/ CancelWait(c) \/ Answer(c)
    \/ Receive(c) /\ signal' \in {signal, Drained(c)}
    \/ SignalChanges(c)

WaiterSpec == WaiterInit /\ [][WaiterNext]_waiterVars

\* A response that is due is sent.
WaiterFairSpec ==
  /\ WaiterSpec
  /\ \A c \in Callers : WF_waiterVars(Answer(c))
=============================================================================
