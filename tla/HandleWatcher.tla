----------------------------- MODULE HandleWatcher -----------------------------
(***************************************************************************)
(* The handle watcher of the Dart embedder (platform/dart): a thread that  *)
(* waits with MojoWaitMany on a control pipe and on the handles isolates   *)
(* asked it to watch, and on the earliest timer; the threads that start    *)
(* and stop it; and the native calls through which an isolate reaches it.  *)
(*                                                                         *)
(* The parallel vectors of HandleWatcherThreadState are kept apart, as in  *)
(* the code, with the map from handles to indices.  Indices start at 1.    *)
(* A signal set is a set of "READABLE", "WRITABLE", "PEER_CLOSED".         *)
(***************************************************************************)
EXTENDS Integers, Sequences, FiniteSets

CONSTANTS
  Handles,          \* message pipe ends an isolate holds
  ControlHandle,    \* the consumer end of the control pipe
  Ports,            \* ports of isolates
  ILLEGAL_PORT,     \* "no port"
  MOJO_HANDLE_INVALID,
  Commands,         \* the commands isolates send
  Stoppers,         \* threads that call Stop or StopAll
  StopAllCallers,   \* those that call StopAll
  MaxMoves,         \* bound on what isolates and their peers do, all together
  MaxUnread,        \* bound on the unread messages of a handle
  MaxQueued,        \* bound on the isolates' unread commands
  MaxTime,          \* the last value of the clock, in milliseconds
  DeadlineRange     \* the number of values of a MojoDeadline (2^64)

ASSUME HandlesAssumption ==
  /\ ControlHandle \notin Handles
  /\ ILLEGAL_PORT \notin Ports
  /\ MaxTime \in Nat
  /\ DeadlineRange \in Nat \ {0}

VARIABLES
  \* The system: open ends, ends whose peer is open, unread messages, time.
  open, peered, unread, now,
  \* The control pipe: its queue, and its producer end.
  pipe, producerOpen,
  \* HandleWatcherThreadState
  pc, wait_many_handles, wait_many_signals, wait_many_signals_state,
  handle_ports, handle_to_index_map, timers, shutdown,
  \* Locals of Run: the wait's deadline, its result, and what is left to do.
  until, result, to_remove, closed_handles,
  \* HandleWatcher: is the thread registered, who holds the mutex, and where
  \* each stopping thread is.
  registered, mutex, stop,
  \* Isolates: how often they or their peers moved, and the ports that wait for
  \* a close to be answered.
  moves, closing,
  \* What the watcher's last step posted; for each handle the port it is watched
  \* for.  Only the properties read these.
  posted, bound

system == <<open, peered, unread, now>>
columns == <<wait_many_handles, wait_many_signals, wait_many_signals_state,
             handle_ports, handle_to_index_map>>
locals == <<until, result, to_remove, closed_handles>>
threads == <<registered, mutex, stop, producerOpen>>
vars == <<system, pipe, pc, columns, timers, shutdown, locals, threads,
          moves, closing, posted, bound>>

MOJO_HANDLE_SIGNAL_ALL == {"READABLE", "WRITABLE", "PEER_CLOSED"}
CONTROL_HANDLE_INDEX == 1

Command(op, handle, signals, port, deadline) ==
  [op |-> op, handle |-> handle, signals |-> signals \cap MOJO_HANDLE_SIGNAL_ALL,
   port |-> port, deadline |-> deadline]
Add(h, signals, port) == Command("Add", h, signals, port, 0)
Remove(h) == Command("Remove", h, {}, ILLEGAL_PORT, 0)
Close(h, port) == Command("Close", h, {}, port, 0)
Timer(deadline, port) == Command("Timer", MOJO_HANDLE_INVALID, {}, port, deadline)
Shutdown == Command("Shutdown", MOJO_HANDLE_INVALID, {}, ILLEGAL_PORT, 0)

\* What the arguments of a call from Dart become.
FromDart(command, handle_or_deadline, port, signals) ==
  CASE command = "Add"      -> Add(handle_or_deadline, signals, port)
    [] command = "Remove"   -> Remove(handle_or_deadline)
    [] command = "Close"    -> Close(handle_or_deadline, port)
    [] command = "Timer"    -> Timer(handle_or_deadline, port)
    [] command = "Shutdown" -> Shutdown

\* Isolates name handles of their own: the control handle is the watcher's.
ASSUME CommandsAssumption ==
  \A c \in Commands :
    /\ c.op \in {"Add", "Remove", "Close", "Timer"}
    /\ c.op \in {"Add", "Remove", "Close"} => c.handle \in Handles
    /\ c.signals \subseteq MOJO_HANDLE_SIGNAL_ALL
    /\ c.port \in Ports \cup {ILLEGAL_PORT}
    /\ c.deadline \in Int

--------------------------------------------------------------------------------
(* The system (external): what the watcher can see of its handles.         *)

Satisfied(h) ==
  IF h = ControlHandle
    THEN {s \in {"READABLE"} : pipe # <<>>}
           \cup {IF producerOpen THEN "WRITABLE" ELSE "PEER_CLOSED"}
    ELSE {s \in {"READABLE"} : unread[h] > 0}
           \cup {IF peered[h] THEN "WRITABLE" ELSE "PEER_CLOSED"}

Satisfiable(h) ==
  Satisfied(h) \cup
  (IF (h = ControlHandle /\ producerOpen) \/ (h \in Handles /\ peered[h])
     THEN MOJO_HANDLE_SIGNAL_ALL ELSE {})

IsOpen(h) == h = ControlHandle \/ h \in open

\* MojoClose: what was not read is gone, the peer sees the end closed.
MojoClose(h) ==
  /\ open' = open \ {h}
  /\ unread' = [unread EXCEPT ![h] = 0]
  /\ peered' = [peered EXCEPT ![h] = FALSE]
  /\ UNCHANGED now

--------------------------------------------------------------------------------
Init ==
  /\ open = Handles
  /\ peered = [h \in Handles |-> TRUE]
  /\ unread = [h \in Handles |-> 0]
  /\ now = 0
  /\ pipe = <<>> /\ producerOpen = FALSE
  /\ pc = "unstarted"
  /\ wait_many_handles = <<>> /\ wait_many_signals = <<>>
  /\ wait_many_signals_state = <<>> /\ handle_ports = <<>>
  /\ handle_to_index_map = <<>>
  /\ timers = {} /\ shutdown = FALSE
  /\ until = 0 /\ result = "OK" /\ to_remove = {} /\ closed_handles = <<>>
  /\ registered = "no" /\ mutex = "free"
  /\ stop = [s \in Stoppers |-> "idle"]
  /\ moves = 0 /\ closing = {}
  /\ posted = {} /\ bound = [h \in Handles |-> ILLEGAL_PORT]

--------------------------------------------------------------------------------
(* Posting to an isolate.                                                  *)

PostNull(port) ==
  /\ posted' = {[kind |-> "null", port |-> p] : p \in {port} \ {ILLEGAL_PORT}}
  /\ closing' = closing \ {port}

Signalled(port, h, signals) ==
  {[kind |-> "signal", port |-> p, handle |-> h, signals |-> signals] :
     p \in {port} \ {ILLEGAL_PORT}}

--------------------------------------------------------------------------------
(* The watcher thread: its handles.                                        *)

\* A handle is watched for one port at a time: an Add with another port is
\* answered with PEER_CLOSED at once and changes nothing.
AddHandle(h, signals, port) ==
  IF h \in DOMAIN handle_to_index_map
    THEN LET index == handle_to_index_map[h]
         IN IF handle_ports[index] # port
              THEN /\ posted' = {[kind |-> "already bound", port |-> p] :
                                   p \in {port} \ {ILLEGAL_PORT}}
                   /\ UNCHANGED <<columns, bound>>
              ELSE /\ wait_many_signals' =
                        [wait_many_signals EXCEPT ![index] = @ \cup signals]
                   /\ posted' = {}
                   /\ UNCHANGED <<wait_many_handles, wait_many_signals_state,
                                  handle_ports, handle_to_index_map, bound>>
    ELSE /\ wait_many_handles' = Append(wait_many_handles, h)
         /\ wait_many_signals' = Append(wait_many_signals, signals)
         /\ wait_many_signals_state' = Append(wait_many_signals_state, {})
         /\ handle_ports' = Append(handle_ports, port)
         /\ handle_to_index_map' =
              [g \in DOMAIN handle_to_index_map \cup {h} |->
                 IF g = h THEN Len(wait_many_handles) + 1
                          ELSE handle_to_index_map[g]]
         /\ posted' = {}
         /\ bound' = [bound EXCEPT ![h] = port]

\* Entry index is overwritten with the last one, which is dropped.
SwapRemove(column, index) ==
  SubSeq([column EXCEPT ![index] = column[Len(column)]], 1, Len(column) - 1)

\* Mutant: the last handle's port is not moved with it.
RemoveHandleAtIndex_lost_port(index) ==
  /\ wait_many_handles' = SwapRemove(wait_many_handles, index)
  /\ wait_many_signals' = SwapRemove(wait_many_signals, index)
  /\ wait_many_signals_state' = SwapRemove(wait_many_signals_state, index)
  /\ handle_ports' = SubSeq(handle_ports, 1, Len(handle_ports) - 1)
  /\ handle_to_index_map' =
       [g \in DOMAIN handle_to_index_map \ {wait_many_handles[index]} |->
          IF g = wait_many_handles[Len(wait_many_handles)]
            THEN index ELSE handle_to_index_map[g]]

RemoveHandleAtIndex(index) ==
  /\ wait_many_handles' = SwapRemove(wait_many_handles, index)
  /\ wait_many_signals' = SwapRemove(wait_many_signals, index)
  /\ wait_many_signals_state' = SwapRemove(wait_many_signals_state, index)
  /\ handle_ports' = SwapRemove(handle_ports, index)
  /\ handle_to_index_map' =
       [g \in DOMAIN handle_to_index_map \ {wait_many_handles[index]} |->
          IF g = wait_many_handles[Len(wait_many_handles)]
            THEN index ELSE handle_to_index_map[g]]

RemoveHandle(h) ==
  IF h \in DOMAIN handle_to_index_map
    THEN RemoveHandleAtIndex(handle_to_index_map[h])
    ELSE UNCHANGED columns

\* CloseHandle from a command: the port is told when the handle is closed,
\* also when it is no longer watched (it may have been pruned).
\* Mutant: nobody is told about a handle that is not watched any more.
CloseHandle_unwatched(h, port) ==
  /\ MojoClose(h)
  /\ IF h \in DOMAIN handle_to_index_map
       THEN PostNull(port) ELSE posted' = {} /\ closing' = closing
  /\ RemoveHandle(h)
CloseHandle(h, port) ==
  /\ MojoClose(h)
  /\ PostNull(port)
  /\ RemoveHandle(h)

\* Mutant: the handle's port is not told.
PruneHandle_silent(h) ==
  /\ MojoClose(h)
  /\ posted' = {}
  /\ RemoveHandle(h)
  /\ closing' = closing
\* CloseHandle with pruning: the port the handle is watched for hears
\* PEER_CLOSED.  A MOJO_CHECK keeps the control handle out (ChecksHold).
PruneHandle(h) ==
  /\ MojoClose(h)
  /\ LET index == handle_to_index_map[h]
     IN posted' = Signalled(handle_ports[index], h, {"PEER_CLOSED"})
  /\ RemoveHandle(h)
  /\ closing' = closing

--------------------------------------------------------------------------------
(* The watcher thread: timers.  timers_ is a std::set ordered by deadline  *)
(* alone: an element with the deadline of another is not inserted.         *)

UpdateTimer(deadline, port) ==
  LET others == {t \in timers : t.port # port}
  IN timers' = IF deadline < 0 \/ \E t \in others : t.deadline = deadline
                 THEN others
                 ELSE others \cup {[deadline |-> deadline, port |-> port]}

HasTimers == timers # {}
NextTimer == CHOOSE t \in timers : \A u \in timers : t.deadline =< u.deadline
NextTimerDeadline == NextTimer.deadline

\* ProcessTimers, one timer a step; the clock is read again for each.
CompleteNextTimer ==
  /\ pc = "timers"
  /\ HasTimers /\ now >= NextTimerDeadline
  /\ timers' = timers \ {NextTimer}
  /\ posted' = {[kind |-> "timer", port |-> p, deadline |-> NextTimerDeadline] :
                  p \in {NextTimer.port} \ {ILLEGAL_PORT}}
  /\ UNCHANGED <<system, pipe, pc, columns, shutdown, locals, threads, moves,
                 closing, bound>>

TimersDone ==
  /\ pc = "timers"
  /\ ~(HasTimers /\ now >= NextTimerDeadline)
  /\ pc' = "deadline"
  /\ posted' = {}
  /\ UNCHANGED <<system, pipe, columns, timers, shutdown, locals, threads,
                 moves, closing, bound>>

\* The deadline is relative, and unsigned where MojoWaitMany takes it: when the
\* clock has passed the next deadline since ProcessTimers read it, the
\* difference wraps.  DeadlineRange stands for "no deadline" as well.
WaitDeadline ==
  /\ pc = "deadline"
  /\ until' = IF HasTimers
                THEN now + ((NextTimerDeadline - now) % DeadlineRange)
                ELSE now + DeadlineRange
  /\ pc' = "call"
  /\ posted' = {}
  /\ UNCHANGED <<system, pipe, columns, timers, shutdown, result, to_remove,
                 closed_handles, threads, moves, closing, bound>>

--------------------------------------------------------------------------------
(* The watcher thread: waiting, and what a wait's result leads to.         *)

Indices == 1..Len(wait_many_handles)

\* MojoWaitMany is called: it fails at once on a handle that is closed.
CallWaitMany ==
  /\ pc = "call"
  /\ IF \A i \in Indices : IsOpen(wait_many_handles[i])
       THEN pc' = "waiting" /\ UNCHANGED result
       ELSE pc' = "results" /\ result' = "INVALID_ARGUMENT"
  /\ until' = IF pc' = "waiting" THEN until ELSE 0
  /\ posted' = {}
  /\ UNCHANGED <<system, pipe, columns, timers, shutdown, to_remove,
                 closed_handles, threads, moves, closing, bound>>

\* Entry i ends a wait: its handle is closed, or has a signal it is watched
\* for, or will never have one.
Due(i) ==
  LET h == wait_many_handles[i]
  IN \/ ~IsOpen(h)
     \/ Satisfied(h) \cap wait_many_signals[i] # {}
     \/ Satisfiable(h) \cap wait_many_signals[i] = {}

\* MojoWaitMany returns for one of its handles, with the state of all of them.
WaitManyReturns ==
  /\ pc = "waiting"
  /\ \E i \in Indices :
       LET h == wait_many_handles[i]
       IN \/ ~IsOpen(h) /\ result' = "CANCELLED"
          \/ IsOpen(h) /\ Satisfied(h) \cap wait_many_signals[i] # {} /\ result' = "OK"
          \/ /\ IsOpen(h) /\ Satisfiable(h) \cap wait_many_signals[i] = {}
             /\ result' = "FAILED_PRECONDITION"
  /\ wait_many_signals_state' =
       [i \in Indices |->
          IF IsOpen(wait_many_handles[i]) THEN Satisfied(wait_many_handles[i]) ELSE {}]
  /\ pc' = "results"
  /\ until' = 0
  /\ posted' = {}
  /\ UNCHANGED <<system, pipe, wait_many_handles, wait_many_signals, handle_ports,
                 handle_to_index_map, timers, shutdown, to_remove,
                 closed_handles, threads, moves, closing, bound>>

DeadlineExceeded ==
  /\ pc = "waiting"
  /\ now >= until /\ \A i \in Indices : ~Due(i)
  /\ until' = 0
  /\ pc' = "timers"
  /\ posted' = {}
  /\ UNCHANGED <<system, pipe, columns, timers, shutdown, result, to_remove,
                 closed_handles, threads, moves, closing, bound>>

\* The handles PruneClosedHandles closes, by the index they had when it looked: the entries
\* move while it closes them, lowest index first.
ShouldCloseHandle(h) == ~IsOpen(h)

ClosedIndices ==
  {i \in Indices : IF result = "INVALID_ARGUMENT"
                     THEN ShouldCloseHandle(wait_many_handles[i])
                     ELSE "PEER_CLOSED" \in wait_many_signals_state[i]}

PruneClosedHandles ==
  /\ pc = "results" /\ result # "OK"
  /\ closed_handles' = [i \in ClosedIndices |-> wait_many_handles[i]]
  /\ pc' = "prune"
  /\ posted' = {}
  /\ UNCHANGED <<system, pipe, columns, timers, shutdown, until, result,
                 to_remove, threads, moves, closing, bound>>

CloseNextPruned ==
  /\ pc = "prune" /\ DOMAIN closed_handles # {}
  /\ LET i == CHOOSE i \in DOMAIN closed_handles : \A j \in DOMAIN closed_handles : i =< j
     IN /\ PruneHandle(closed_handles[i])
        /\ closed_handles' = [j \in DOMAIN closed_handles \ {i} |-> closed_handles[j]]
  /\ UNCHANGED <<pipe, pc, timers, shutdown, until, result, to_remove, threads,
                 moves, bound>>

PruningDone ==
  /\ pc = "prune" /\ DOMAIN closed_handles = {}
  /\ pc' = "timers"
  /\ result' = "OK"
  /\ posted' = {}
  /\ UNCHANGED <<system, pipe, columns, timers, shutdown, until, to_remove,
                 closed_handles, threads, moves, closing, bound>>

\* The first loop of ProcessWaitManyResults: every handle but the control
\* handle that has a signal it is watched for is reported to its port.
Happened(i) == wait_many_signals[i] \cap wait_many_signals_state[i]

ProcessWaitManyResults ==
  /\ pc = "results" /\ result = "OK"
  /\ to_remove' = {i \in Indices \ {CONTROL_HANDLE_INDEX} : Happened(i) # {}}
  /\ posted' = UNION {Signalled(handle_ports[i], wait_many_handles[i], Happened(i)) :
                        i \in to_remove'}
  /\ pc' = "remove"
  /\ UNCHANGED <<system, pipe, columns, timers, shutdown, until, result,
                 closed_handles, threads, moves, closing, bound>>

\* The second loop removes them, from the highest index down.
RemoveNext ==
  /\ pc = "remove" /\ to_remove # {}
  /\ LET i == CHOOSE i \in to_remove : \A j \in to_remove : j =< i
     IN RemoveHandleAtIndex(i) /\ to_remove' = to_remove \ {i}
  /\ posted' = {}
  /\ UNCHANGED <<system, pipe, pc, timers, shutdown, until, result,
                 closed_handles, threads, moves, closing, bound>>

\* At most one control message is read in each turn of the loop.
ProcessControlMessage ==
  /\ pc = "remove" /\ to_remove = {} /\ Happened(CONTROL_HANDLE_INDEX) # {}
  /\ pipe' = Tail(pipe)
  /\ LET c == Head(pipe)
     IN \/ /\ c.op = "Add"
           /\ AddHandle(c.handle, c.signals, c.port)
           /\ UNCHANGED <<system, timers, shutdown, closing>>
        \/ /\ c.op = "Remove"
           /\ RemoveHandle(c.handle)
           /\ posted' = {}
           /\ UNCHANGED <<system, timers, shutdown, closing, bound>>
        \/ /\ c.op = "Close"
           /\ CloseHandle(c.handle, c.port)
           /\ UNCHANGED <<timers, shutdown, bound>>
        \/ /\ c.op = "Timer"
           /\ UpdateTimer(c.deadline, c.port)
           /\ posted' = {}
           /\ UNCHANGED <<system, columns, shutdown, closing, bound>>
        \/ /\ c.op = "Shutdown"
           /\ shutdown' = TRUE
           /\ posted' = {}
           /\ UNCHANGED <<system, columns, timers, closing, bound>>
  /\ pc' = IF shutdown' THEN "ending" ELSE "timers"
  /\ UNCHANGED <<locals, threads, moves>>

NoControlMessage ==
  /\ pc = "remove" /\ to_remove = {} /\ Happened(CONTROL_HANDLE_INDEX) = {}
  /\ pc' = "timers"
  /\ posted' = {}
  /\ UNCHANGED <<system, pipe, columns, timers, shutdown, locals, threads,
                 moves, closing, bound>>

\* ThreadMain: the constructor adds the control handle, then Run begins.
ThreadMain ==
  /\ pc = "spawned"
  /\ wait_many_handles' = <<ControlHandle>>
  /\ wait_many_signals' = <<{"READABLE"}>>
  /\ wait_many_signals_state' = <<{}>>
  /\ handle_ports' = <<ILLEGAL_PORT>>
  /\ handle_to_index_map' = [h \in {ControlHandle} |-> CONTROL_HANDLE_INDEX]
  /\ pc' = "timers"
  /\ posted' = {}
  /\ UNCHANGED <<system, pipe, timers, shutdown, locals, threads, moves,
                 closing, bound>>

\* The end of Run closes the control pipe, the destructor closes it again and
\* the thread ends; commands still in the pipe are lost.
RunEnds ==
  /\ pc = "ending"
  /\ pipe' = <<>>
  /\ wait_many_handles' = <<>> /\ wait_many_signals' = <<>>
  /\ wait_many_signals_state' = <<>> /\ handle_ports' = <<>>
  /\ handle_to_index_map' = <<>> /\ timers' = {}
  /\ pc' = "exited"
  /\ posted' = {}
  /\ UNCHANGED <<system, shutdown, locals, threads, moves,
                 closing, bound>>

Watcher ==
  \/ ThreadMain \/ CompleteNextTimer \/ TimersDone \/ WaitDeadline
  \/ CallWaitMany \/ WaitManyReturns \/ DeadlineExceeded
  \/ PruneClosedHandles \/ CloseNextPruned \/ PruningDone
  \/ ProcessWaitManyResults \/ RemoveNext \/ ProcessControlMessage
  \/ NoControlMessage \/ RunEnds

--------------------------------------------------------------------------------
(* HandleWatcher: starting and stopping the thread.                        *)

watcherState == <<system, pc, columns, timers, shutdown, locals, moves,
                  closing, posted, bound>>

\* Start spawns the thread first and registers it under the mutex afterwards.
Start ==
  /\ pc = "unstarted"
  /\ producerOpen' = TRUE
  /\ pc' = "spawned"
  /\ UNCHANGED <<system, pipe, columns, timers, shutdown, locals, registered,
                 mutex, stop, moves, closing, posted, bound>>

Register ==
  /\ pc # "unstarted" /\ registered = "no" /\ mutex = "free"
  /\ registered' = "yes"
  /\ UNCHANGED <<watcherState, pipe, producerOpen, mutex, stop>>

SendShutdown == pipe' = IF pc \in {"ending", "exited"} THEN pipe ELSE Append(pipe, Shutdown)

\* Stop: the mutex is held only to take the thread out of the map.
RemoveLocked == registered' = IF registered = "yes" THEN "removed" ELSE registered

Stop(s) ==
  /\ s \notin StopAllCallers
  /\ stop[s] = "idle" /\ mutex = "free" /\ registered # "no"
  /\ RemoveLocked
  /\ stop' = [stop EXCEPT ![s] = IF registered = "yes" THEN "send" ELSE "missed"]
  /\ UNCHANGED <<watcherState, pipe, producerOpen, mutex>>

\* StopAll keeps the mutex until every thread it found has been joined.  It
\* misses a thread that Start has spawned and not registered yet.
StopAll(s) ==
  /\ s \in StopAllCallers
  /\ stop[s] = "idle" /\ mutex = "free"
  /\ RemoveLocked
  /\ IF registered = "yes"
       THEN stop' = [stop EXCEPT ![s] = "send"] /\ mutex' = s
       ELSE stop' = [stop EXCEPT ![s] = "missed"] /\ mutex' = mutex
  /\ UNCHANGED <<watcherState, pipe, producerOpen>>

\* Mutant: the shutdown command is not sent.
SendCommand_unsent(s) ==
  /\ stop[s] = "send"
  /\ pipe' = pipe
  /\ stop' = [stop EXCEPT ![s] = "join"]
  /\ UNCHANGED <<watcherState, producerOpen, registered, mutex>>
SendCommand(s) ==
  /\ stop[s] = "send"
  /\ SendShutdown
  /\ stop' = [stop EXCEPT ![s] = "join"]
  /\ UNCHANGED <<watcherState, producerOpen, registered, mutex>>

Join(s) ==
  /\ stop[s] = "join" /\ pc = "exited"
  /\ producerOpen' = FALSE
  /\ stop' = [stop EXCEPT ![s] = "stopped"]
  /\ mutex' = IF mutex = s THEN "free" ELSE mutex
  /\ UNCHANGED <<watcherState, pipe, registered>>

Stopping(s) == SendCommand(s) \/ Join(s)

--------------------------------------------------------------------------------
(* Isolates, through mojo_natives.cc, and the other ends of their pipes.   *)

untouched == <<pc, columns, timers, shutdown, locals, threads, posted, bound>>

\* MojoHandleWatcher_SendControlData.  A port waits for one close at a time.
SendControlData ==
  /\ registered # "no" /\ producerOpen /\ pc # "exited" /\ Len(pipe) < MaxQueued
  /\ moves < MaxMoves
  /\ \E c \in Commands :
       /\ c.op = "Close" => c.port \notin closing
       /\ pipe' = Append(pipe, c)
       /\ closing' = IF c.op = "Close" THEN closing \cup ({c.port} \ {ILLEGAL_PORT})
                                       ELSE closing
  /\ moves' = moves + 1
  /\ UNCHANGED <<untouched, system>>

\* MojoHandle_Close, and the finalizer MojoHandleCloserCallback: the handle is
\* closed without the watcher's knowledge.
MojoHandle_Close(h) ==
  /\ h \in open
  /\ moves < MaxMoves /\ moves' = moves + 1
  /\ MojoClose(h)
  /\ UNCHANGED <<untouched, pipe, closing>>

ReadMessage(h) ==
  /\ h \in open /\ unread[h] > 0
  /\ moves < MaxMoves /\ moves' = moves + 1
  /\ unread' = [unread EXCEPT ![h] = @ - 1]
  /\ UNCHANGED <<untouched, open, peered, now, pipe, closing>>

PeerWrites(h) ==
  /\ h \in open /\ peered[h] /\ unread[h] < MaxUnread
  /\ moves < MaxMoves /\ moves' = moves + 1
  /\ unread' = [unread EXCEPT ![h] = @ + 1]
  /\ UNCHANGED <<untouched, open, peered, now, pipe, closing>>

PeerCloses(h) ==
  /\ h \in open /\ peered[h]
  /\ moves < MaxMoves /\ moves' = moves + 1
  /\ peered' = [peered EXCEPT ![h] = FALSE]
  /\ UNCHANGED <<untouched, open, unread, now, pipe, closing>>

Tick ==
  /\ now < MaxTime
  /\ now' = now + 1
  /\ UNCHANGED <<untouched, open, peered, unread, pipe, moves, closing>>

Next ==
  \/ Watcher
  \/ Start \/ Register
  \/ \E s \in Stoppers : Stop(s) \/ StopAll(s) \/ Stopping(s)
  \/ SendControlData
  \/ \E h \in Handles : \/ MojoHandle_Close(h) \/ ReadMessage(h)
                        \/ PeerWrites(h) \/ PeerCloses(h)
  \/ Tick

\* The watcher thread runs; a started Start and a started stop finish; time
\* passes.  Isolates and their peers owe nothing.
Spec ==
  /\ Init /\ [][Next]_vars
  /\ WF_vars(Watcher) /\ WF_vars(Tick)
  /\ \A s \in Stoppers : WF_vars(Stopping(s))

--------------------------------------------------------------------------------
(* Properties.                                                             *)

\* What a port hears is true: a signal is for the handle that port subscribed
\* to, however often entries were swapped since, and a timer's deadline has
\* passed (ProcessWaitManyResults, PruneClosedHandles, ProcessTimers).
PostsAreTrue ==
  \A m \in posted :
    /\ m.kind = "signal" => m.port = bound[m.handle] /\ m.signals # {}
    /\ m.kind = "timer" => m.deadline =< now

Watched(h) == {i \in Indices : wait_many_handles[i] = h}

\* The port handle h is watched for is being told about it.
Told(h) ==
  \E m \in posted : m.kind = "signal" /\ m.handle = h /\ m.port = bound[h]

\* The thread is about to obey an isolate's command not to watch h any more.
Obeying(h) ==
  /\ pc = "remove" /\ to_remove = {} /\ Happened(CONTROL_HANDLE_INDEX) # {}
  /\ Head(pipe).op \in {"Remove", "Close"} /\ Head(pipe).handle = h

\* The port of a watched handle that is ready, closed or hopeless, and was not
\* reported yet, is told, also when the handle was closed behind the watcher's
\* back and every MojoWaitMany fails; unless the handle is not in that state any
\* more (it was read), or an isolate's command or the thread's end comes first.
\* No entry goes without a word for another reason.
DueIsReported ==
  \A h \in Handles :
    (bound[h] \in Ports /\ \E i \in Watched(h) \ to_remove : Due(i))
      ~> \/ Told(h) \/ Obeying(h) \/ pc \in {"ending", "exited"}
         \/ \E i \in Watched(h) : ~Due(i)

\* A close that asked for an answer is answered, unless the watcher is stopped
\* first: also for a handle that was pruned or closed in the meantime.
CloseAnswered ==
  \A p \in Ports : (p \in closing) ~> (p \notin closing \/ pc = "exited")

\* Stop and StopAll return: the shutdown command gets through whatever the
\* watched handles do.
StopReturns ==
  \A s \in Stoppers : (stop[s] \in {"send", "join"}) ~> (stop[s] = "stopped")

--------------------------------------------------------------------------------
(* What PostsAreTrue rests on.                                             *)

\* Where the thread is while Run has its state.
Running == {"timers", "deadline", "call", "waiting", "results", "prune", "remove", "ending"}

TypeOK ==
  /\ pc \in {"unstarted", "spawned", "exited"} \cup Running
  /\ result \in {"OK", "CANCELLED", "FAILED_PRECONDITION", "INVALID_ARGUMENT"}
  /\ now \in Nat
  /\ pipe \in Seq(Commands \cup {Shutdown})
  /\ bound \in [Handles -> Ports \cup {ILLEGAL_PORT}]
  /\ \A t \in timers : t.deadline \in Nat
  /\ \A m \in posted : m.kind = "timer" => m.deadline \in Nat

ColumnsTypeOK ==
  /\ wait_many_handles \in Seq(Handles \cup {ControlHandle})
  /\ wait_many_signals \in Seq(SUBSET MOJO_HANDLE_SIGNAL_ALL)
  /\ wait_many_signals_state \in Seq(SUBSET MOJO_HANDLE_SIGNAL_ALL)
  /\ handle_ports \in Seq(Ports \cup {ILLEGAL_PORT})
  /\ Len(wait_many_signals) = Len(wait_many_handles)
  /\ Len(wait_many_signals_state) = Len(wait_many_handles)
  /\ Len(handle_ports) = Len(wait_many_handles)

\* The map leads from every watched handle to its entry, and from no other:
\* no handle has two entries.
IndexMapAgrees ==
  /\ DOMAIN handle_to_index_map = {wait_many_handles[i] : i \in Indices}
  /\ \A i \in Indices : handle_to_index_map[wait_many_handles[i]] = i

\* The control handle stays where the code expects it.
ControlFirst ==
  /\ Len(wait_many_handles) >= 1
  /\ wait_many_handles[CONTROL_HANDLE_INDEX] = ControlHandle
  /\ wait_many_signals[CONTROL_HANDLE_INDEX] = {"READABLE"}

\* Every other entry has the port its handle was added with.
PortsBound ==
  \A i \in Indices \ {CONTROL_HANDLE_INDEX} : handle_ports[i] = bound[wait_many_handles[i]]

RowsInv == ColumnsTypeOK /\ IndexMapAgrees /\ ControlFirst /\ PortsBound

\* The thread has entries, and its control pipe a writer, until it ends.
ThreadInv ==
  IF pc \in Running THEN RowsInv /\ producerOpen ELSE pc = "spawned" => producerOpen

\* What the wait said about the control pipe still holds: nobody else reads it.
ControlSeen ==
  /\ pc \in {"results", "remove"} /\ result # "INVALID_ARGUMENT" =>
       /\ "READABLE" \in wait_many_signals_state[CONTROL_HANDLE_INDEX] => pipe # <<>>
       /\ "PEER_CLOSED" \notin wait_many_signals_state[CONTROL_HANDLE_INDEX]
  /\ pc = "remove" => result = "OK"

\* The entries still to be removed are the ones that were reported, although
\* each removal moves the last entry: the indices go from the highest down.
ReportedGo ==
  pc = "remove" => to_remove = {i \in Indices \ {CONTROL_HANDLE_INDEX} : Happened(i) # {}}

\* The handles still to be pruned are watched, each is listed once and the
\* control handle is none of them.
PrunedWatched ==
  pc = "prune" =>
    /\ DOMAIN closed_handles \subseteq Nat
    /\ \A i \in DOMAIN closed_handles :
         /\ closed_handles[i] \in DOMAIN handle_to_index_map \ {ControlHandle}
         /\ \A j \in DOMAIN closed_handles : closed_handles[i] = closed_handles[j] => i = j

Inv == TypeOK /\ ThreadInv /\ ControlSeen /\ ReportedGo /\ PrunedWatched /\ PostsAreTrue

\* The MOJO_CHECKs of the thread: the map and the vectors agree and have one size (AddHandle,
\* RemoveHandleAtIndex, Run), the control handle's entry is never removed (RemoveHandle,
\* CloseHandle, RemoveHandleAtIndex), and a control message that was signalled is there to
\* be read (ProcessControlMessage).
ChecksHold ==
  /\ pc \in Running =>
       /\ Len(wait_many_handles) >= 1 /\ Len(wait_many_signals) = Len(wait_many_handles)
       /\ Cardinality(DOMAIN handle_to_index_map) = Len(wait_many_handles)
       /\ \A h \in DOMAIN handle_to_index_map :
            /\ handle_to_index_map[h] \in Indices
            /\ wait_many_handles[handle_to_index_map[h]] = h
            /\ h \in Handles => handle_to_index_map[h] # CONTROL_HANDLE_INDEX
  /\ pc = "prune" =>
       \A i \in DOMAIN closed_handles :
         handle_to_index_map[closed_handles[i]] # CONTROL_HANDLE_INDEX
  /\ pc = "remove" =>
       /\ CONTROL_HANDLE_INDEX \notin to_remove
       /\ Happened(CONTROL_HANDLE_INDEX) # {} => pipe # <<>>

\* The thread is taken out of the map once, so only one caller of Stop and StopAll sends it
\* the shutdown command, joins it and closes the control pipe.
JoinedOnce ==
  \A s, t \in Stoppers :
    {stop[s], stop[t]} \subseteq {"send", "join", "stopped"} => s = t

StopInv ==
  /\ stop \in [Stoppers -> {"idle", "missed", "send", "join", "stopped"}]
  /\ \A s \in Stoppers : stop[s] \in {"send", "join", "stopped"} => registered = "removed"
  /\ pc = "unstarted" => registered = "no"
  /\ JoinedOnce

\* Whoever waits for the thread has its shutdown command in the pipe or obeyed, and a port
\* that waits for a close has its command in the pipe, while the thread is there to read it.
CommandsPending ==
  /\ \A s \in Stoppers : stop[s] = "join" =>
       pc \in {"ending", "exited"} \/ \E k \in DOMAIN pipe : pipe[k].op = "Shutdown"
  /\ \A p \in closing :
       \/ pc \in {"ending", "exited"}
       \/ \E k \in DOMAIN pipe : pipe[k].op = "Close" /\ pipe[k].port = p
================================================================================
