------------------------------ MODULE RunLoop ------------------------------
(***************************************************************************)
(* The C++ run loop, cpp/utility/lib/run_loop.cc: it watches handles       *)
(* through a wait set, calls the handlers registered for them, and runs    *)
(* delayed tasks.  The loop is single-threaded, but every handler and task *)
(* is application code that may call back into the loop: add and remove    *)
(* handlers, post tasks, quit, and run the loop again inside itself.       *)
(* Signals on handles and the clock change under the loop at any time.     *)
(*                                                                         *)
(* Ids are never reused, so what was registered under an id is kept in     *)
(* `info' for good and each container of the class is the set of ids it    *)
(* holds.  An operator named F_how is F with a plausible mistake, which    *)
(* some property of the module notices.                                    *)
(***************************************************************************)
EXTENDS Naturals, Sequences, FiniteSets

CONSTANTS
  Handles,         \* the handles the application can wait on
  Deadlines,       \* relative deadlines and delays the application asks for
  MaxTicks,        \* kMaxMojoTimeTicks, scaled down; the clock stops there
  MaxId,           \* bound: ids handed out
  MaxDepth,        \* bound: nested calls of Run()
  InitialResults,  \* kInitialWaitSetNumResults, scaled down
  MaximumResults,  \* kMaximumWaitSetNumResults, scaled down
  NoHandle         \* the handle field of a delayed task

ASSUME RunLoopAssumption ==
  /\ NoHandle \notin Handles
  /\ Deadlines \subseteq Nat
  /\ MaxTicks \in Nat \ {0}
  /\ MaxId \in Nat
  /\ MaxDepth \in Nat \ {0}
  /\ InitialResults \in Nat \ {0}
  /\ MaximumResults \in Nat \ {0}
  /\ InitialResults <= MaximumResults

VARIABLES
  next_id,            \* the next RunLoopHandler::Id
  info,               \* id -> the handle and absolute time given for it
  handlers,           \* handlers_
  wait_set,           \* wait_set_, by cookie
  handler_deadlines,  \* handler_deadlines_
  delayed_tasks,      \* delayed_tasks_
  depth,              \* how many RunInternal() calls are on the stack
  run_states,         \* their RunStates and local variables
  lifecycle,          \* construction and destruction of the loop
  fate,               \* history: what became of each id
  clock,              \* GetTimeTicksNow()
  signal              \* handle -> what waiting on it would yield

loopVars == <<next_id, info, handlers, wait_set, handler_deadlines,
              delayed_tasks, depth, run_states, lifecycle, fate>>
vars == <<loopVars, clock, signal>>

Ids == 1 .. MaxId
Ticks == 0 .. MaxTicks
kInvalidTimeTicks == 0          \* "forever" as an absolute time
Signals == {"idle", "ready", "dead"}
Lifecycles == {"alive", "destroying", "aborting", "destroyed"}
Fates == {"none", "pending", "ready", "error", "timeout", "aborted",
          "removed", "ran"}

\* Where DoIteration() is; in the last three it has called the application.
InCallback == {"task", "result", "deadline"}
PCs == {"none", "iterate", "tasks", "wait", "results", "expired"}
         \cup InCallback

RunState ==
  [pc: PCs, quit_when_idle: BOOLEAN, should_quit: BOOLEAN,
   should_continue: BOOLEAN, now: Ticks, now_id: 1 .. MaxId + 1,
   deadline: Ticks, for_task: BOOLEAN, wait_until: Ticks \cup {MaxTicks + 1},
   results: Seq([id: Ids, ok: BOOLEAN]), results_size: Nat \ {0},
   called: Ids \cup {0}]

\* A RunState as DoIteration() finds it: its local variables have no value yet.
FreshRunState(pc, quit_when_idle, should_quit, results_size) ==
  [pc |-> pc, quit_when_idle |-> quit_when_idle, should_quit |-> should_quit,
   should_continue |-> FALSE, now |-> 0, now_id |-> 1, deadline |-> 0,
   for_task |-> FALSE, wait_until |-> 0, results |-> <<>>,
   results_size |-> results_size, called |-> 0]

NewRunState(quit_when_idle) ==
  FreshRunState("iterate", quit_when_idle, FALSE, InitialResults)

NoRunState == FreshRunState("none", FALSE, FALSE, InitialResults)

Top == run_states[depth]

\* The loop's caller has control: no Run() is active, or the innermost one
\* is inside a callback, or the destructor is notifying a handler.
InApplication ==
  \/ depth = 0 /\ lifecycle \in {"alive", "aborting"}
  \/ depth > 0 /\ Top.pc \in InCallback

SetTop(rs) == run_states' = [run_states EXCEPT ![depth] = rs]

-----------------------------------------------------------------------------
(* The two priority queues; std::priority_queue's top is the greatest.     *)

\* HandlerDeadlineInfo::operator<
HandlerDeadlineLess(a, b) ==
  IF info[a].time = info[b].time THEN a < b ELSE info[a].time > info[b].time

\* DelayedTaskInfo::operator<
DelayedTaskLess(a, b) ==
  IF info[a].time = info[b].time THEN a > b ELSE info[a].time > info[b].time

TopDeadline(id) ==
  /\ id \in handler_deadlines
  /\ \A other \in handler_deadlines \ {id} : HandlerDeadlineLess(other, id)

TopTask(id) ==
  /\ id \in delayed_tasks
  /\ \A other \in delayed_tasks \ {id} : DelayedTaskLess(other, id)

\* now_task < id, for the fake task of this iteration: the task is ready and
\* was not posted during the iteration.
ReadyInIteration(rs, id) ==
  IF rs.now = info[id].time THEN rs.now_id > id ELSE rs.now > info[id].time

-----------------------------------------------------------------------------
(* Operations of the application.                                          *)

\* now + deadline does not overflow; else the wait is forever.
Expires(deadline) == deadline <= MaxTicks - clock

AddHandler(handle, deadline) ==
  /\ InApplication
  /\ next_id <= MaxId
  /\ LET id == next_id
         time == IF Expires(deadline) THEN clock + deadline ELSE kInvalidTimeTicks
     IN /\ info' = [info EXCEPT ![id] = [handle |-> handle, time |-> time]]
        /\ handlers' = handlers \cup {id}
        /\ wait_set' = wait_set \cup {id}
        /\ handler_deadlines' = handler_deadlines \cup
                                  IF Expires(deadline) THEN {id} ELSE {}
        /\ fate' = [fate EXCEPT ![id] = "pending"]
  /\ next_id' = next_id + 1
  /\ UNCHANGED <<delayed_tasks, depth, run_states, lifecycle, clock, signal>>

ErasedBy_handle(id) == {h \in handlers : info[h].handle = info[id].handle}
ErasedBy(id) == {id}

\* Removing an id that is not registered is a no-op, so only ids in handlers_
\* are considered.
RemoveHandler(id) ==
  /\ InApplication
  /\ id \in handlers
  /\ handlers' = handlers \ ErasedBy(id)
  /\ wait_set' = wait_set \ ErasedBy(id)
  /\ fate' = [fate EXCEPT ![id] = "removed"]
  /\ UNCHANGED <<next_id, info, handler_deadlines, delayed_tasks, depth,
                 run_states, lifecycle, clock, signal>>

\* The code asserts that the run time does not overflow.
PostDelayedTask(delay) ==
  /\ InApplication
  /\ next_id <= MaxId
  /\ delay <= MaxTicks - clock
  /\ info' = [info EXCEPT ![next_id] =
                [handle |-> NoHandle, time |-> clock + delay]]
  /\ delayed_tasks' = delayed_tasks \cup {next_id}
  /\ fate' = [fate EXCEPT ![next_id] = "pending"]
  /\ next_id' = next_id + 1
  /\ UNCHANGED <<handlers, wait_set, handler_deadlines, depth, run_states,
                 lifecycle, clock, signal>>

\* Without a Run() in progress Quit() does nothing.
Quit ==
  /\ depth > 0
  /\ InApplication
  /\ SetTop([Top EXCEPT !.should_quit = TRUE])
  /\ UNCHANGED <<next_id, info, handlers, wait_set, handler_deadlines,
                 delayed_tasks, depth, lifecycle, fate, clock, signal>>

\* Run() and RunUntilIdle(), possibly nested.  A handler being told of the
\* loop's destruction is assumed not to run the dying loop.
RunInternal(quit_when_idle) ==
  /\ InApplication
  /\ lifecycle = "alive"
  /\ depth < MaxDepth
  /\ depth' = depth + 1
  /\ run_states' = [run_states EXCEPT ![depth + 1] =
                      NewRunState(quit_when_idle)]
  /\ UNCHANGED <<next_id, info, handlers, wait_set, handler_deadlines,
                 delayed_tasks, lifecycle, fate, clock, signal>>

\* The application reads what made a handle ready.
Consume(handle) ==
  /\ InApplication
  /\ signal[handle] = "ready"
  /\ signal' = [signal EXCEPT ![handle] = "idle"]
  /\ UNCHANGED <<loopVars, clock>>

-----------------------------------------------------------------------------
(* RunInternal()'s loop and DoIteration().                                 *)

\* The end of an iteration: its local variables go.  Go round again, or leave
\* RunInternal() and give control back to whoever called it.
EndIteration(continue) ==
  IF continue
  THEN /\ SetTop(FreshRunState("iterate", Top.quit_when_idle,
                            Top.should_quit, Top.results_size))
       /\ UNCHANGED depth
  ELSE /\ SetTop(NoRunState)
       /\ depth' = depth - 1

\* DoIteration()'s last statements, after the handlers have been notified.
AfterNotify(rs) ==
  ~rs.should_quit /\ (IF rs.quit_when_idle THEN rs.should_continue
                                           ELSE handlers # {})

BeginIteration ==
  /\ depth > 0
  /\ Top.pc = "iterate"
  /\ SetTop([Top EXCEPT !.pc = "tasks", !.should_continue = FALSE,
                        !.now = clock, !.now_id = next_id])
  /\ UNCHANGED <<next_id, info, handlers, wait_set, handler_deadlines,
                 delayed_tasks, depth, lifecycle, fate, clock, signal>>

RunTask(id) ==
  /\ depth > 0
  /\ Top.pc = "tasks"
  /\ TopTask(id)
  /\ ReadyInIteration(Top, id)
  /\ delayed_tasks' = delayed_tasks \ {id}
  /\ fate' = [fate EXCEPT ![id] = "ran"]
  /\ SetTop([Top EXCEPT !.pc = "task", !.called = id])
  /\ UNCHANGED <<next_id, info, handlers, wait_set, handler_deadlines,
                 depth, lifecycle, clock, signal>>

\* The stale entries that CalculateAbsoluteDeadline() pops: those above every
\* entry whose handler is still registered.
StaleTopDeadlines ==
  {id \in handler_deadlines :
     \A other \in handler_deadlines \cap handlers :
        HandlerDeadlineLess(other, id)}

Earliest(S) == CHOOSE t \in S : \A u \in S : t <= u

\* The deadline is a task's, unless a live handler expires strictly earlier.
TaskFirst_never(tasks, live) == FALSE
TaskFirst(tasks, live) ==
  tasks # {} /\ \A t \in live : Earliest(tasks) <= t

CalculateAbsoluteDeadline ==
  LET live == {info[id].time : id \in handler_deadlines \cap handlers}
      tasks == {info[id].time : id \in delayed_tasks}
  IN [for_task |-> TaskFirst(tasks, live),
      deadline |-> IF TaskFirst(tasks, live) THEN Earliest(tasks)
                   ELSE IF live # {} THEN Earliest(live)
                   ELSE kInvalidTimeTicks]

\* The absolute time at which a wait that starts now gives up: relative to the
\* clock, which may have moved on since the iteration read `now'.  MaxTicks
\* caps it because the clock stops there.
WaitUntil(now, deadline) ==
  IF deadline = kInvalidTimeTicks THEN MaxTicks + 1
  ELSE IF deadline <= now THEN clock
  ELSE IF clock + (deadline - now) <= MaxTicks THEN clock + (deadline - now)
  ELSE MaxTicks

\* No ready task is left: return if there is no handler, else start waiting.
TasksDone ==
  /\ depth > 0
  /\ Top.pc = "tasks"
  /\ \A id \in delayed_tasks : TopTask(id) => ~ReadyInIteration(Top, id)
  /\ \/ /\ handlers = {}
        /\ EndIteration(Top.should_continue)
        /\ UNCHANGED handler_deadlines
     \/ /\ handlers # {}
        /\ LET calc == IF Top.quit_when_idle
                       THEN [for_task |-> FALSE, deadline |-> Top.now]
                       ELSE CalculateAbsoluteDeadline
           IN SetTop([Top EXCEPT !.pc = "wait", !.deadline = calc.deadline,
                        !.for_task = calc.for_task,
                        !.wait_until = WaitUntil(Top.now, calc.deadline)])
        /\ handler_deadlines' = IF Top.quit_when_idle THEN handler_deadlines
                                ELSE handler_deadlines \ StaleTopDeadlines
        /\ UNCHANGED depth
  /\ UNCHANGED <<next_id, info, handlers, wait_set, delayed_tasks, lifecycle,
                 fate, clock, signal>>

\* The entries of the wait set that WaitSetWait() can report.
Reportable == {id \in wait_set : signal[info[id].handle] # "idle"}

\* WaitSetWait() returns OK with as many results as fit, in any order; the
\* room for the next wait grows if some did not fit.
WaitReady ==
  /\ depth > 0
  /\ Top.pc = "wait"
  /\ Reportable # {}
  /\ LET n == IF Cardinality(Reportable) <= Top.results_size
              THEN Cardinality(Reportable) ELSE Top.results_size
         doubled == IF 2 * Top.results_size <= MaximumResults
                    THEN 2 * Top.results_size ELSE MaximumResults
     IN \E order \in [1 .. n -> Reportable] :
          /\ \A i, j \in 1 .. n : i # j => order[i] # order[j]
          /\ SetTop([Top EXCEPT
               !.pc = "results", !.wait_until = 0, !.deadline = 0,
               !.for_task = FALSE,
               !.results_size = IF Cardinality(Reportable) > @
                                THEN doubled ELSE @,
               !.results = [i \in 1 .. n |->
                 [id |-> order[i],
                  ok |-> signal[info[order[i]].handle] = "ready"]]])
  /\ UNCHANGED <<next_id, info, handlers, wait_set, handler_deadlines,
                 delayed_tasks, depth, lifecycle, fate, clock, signal>>

\* WaitSetWait() returns DEADLINE_EXCEEDED.
WaitTimeout ==
  /\ depth > 0
  /\ Top.pc = "wait"
  /\ Reportable = {}
  /\ clock >= Top.wait_until
  /\ SetTop([Top EXCEPT !.pc = "expired", !.wait_until = 0,
                        !.should_continue = @ \/ Top.for_task])
  /\ UNCHANGED <<next_id, info, handlers, wait_set, handler_deadlines,
                 delayed_tasks, depth, lifecycle, fate, clock, signal>>

NextResult == Top.results # <<>> /\ ~Top.should_quit

\* A handler called earlier may have removed this one.
StillRegistered_unchecked(id) == TRUE
StillRegistered(id) == id \in handlers

\* One turn of the loop in NotifyResults().
NotifyResult ==
  /\ depth > 0
  /\ Top.pc = "results"
  /\ NextResult
  /\ LET r == Head(Top.results)
     IN \/ /\ ~StillRegistered(r.id)
           /\ SetTop([Top EXCEPT !.results = Tail(@)])
           /\ UNCHANGED <<handlers, wait_set, fate>>
        \/ /\ StillRegistered(r.id)
           /\ handlers' = handlers \ {r.id}
           /\ wait_set' = wait_set \ {r.id}
           /\ fate' = [fate EXCEPT ![r.id] = IF r.ok THEN "ready" ELSE "error"]
           /\ SetTop([Top EXCEPT !.pc = "result", !.results = Tail(@),
                              !.called = r.id])
  /\ UNCHANGED <<next_id, info, handler_deadlines, delayed_tasks, depth,
                 lifecycle, clock, signal>>

ResultsDone ==
  /\ depth > 0
  /\ Top.pc = "results"
  /\ ~NextResult
  /\ EndIteration(AfterNotify([Top EXCEPT !.results = <<>>]))
  /\ UNCHANGED <<next_id, info, handlers, wait_set, handler_deadlines,
                 delayed_tasks, lifecycle, fate, clock, signal>>

DeadlineReached_early(id) == info[id].time <= Top.deadline + 1
DeadlineReached(id) == info[id].time <= Top.deadline

\* One turn of the loop in NotifyHandlersDeadlineExceeded().
NotifyDeadlineExceeded(id) ==
  /\ depth > 0
  /\ Top.pc = "expired"
  /\ ~Top.should_quit
  /\ TopDeadline(id)
  /\ DeadlineReached(id)
  /\ handler_deadlines' = handler_deadlines \ {id}
  /\ \/ /\ id \notin handlers
        /\ UNCHANGED <<handlers, fate, run_states>>
     \/ /\ id \in handlers
        /\ handlers' = handlers \ {id}
        /\ fate' = [fate EXCEPT ![id] = "timeout"]
        /\ SetTop([Top EXCEPT !.pc = "deadline", !.called = id])
  /\ UNCHANGED <<next_id, info, wait_set, delayed_tasks, depth, lifecycle,
                 clock, signal>>

ExpiredDone ==
  /\ depth > 0
  /\ Top.pc = "expired"
  /\ \/ Top.should_quit
     \/ \A id \in handler_deadlines :
          TopDeadline(id) => ~DeadlineReached(id)
  /\ EndIteration(AfterNotify(Top))
  /\ UNCHANGED <<next_id, info, handlers, wait_set, handler_deadlines,
                 delayed_tasks, lifecycle, fate, clock, signal>>

\* The callback counts as work done.
Resume(rs) ==
  [rs EXCEPT !.pc = CASE rs.pc = "task" -> "tasks"
                      [] rs.pc = "result" -> "results"
                      [] OTHER -> "expired",
             !.should_continue = TRUE, !.called = 0]

\* A task or handler returns into DoIteration().  After a task the loop
\* leaves at once if it was told to quit.
CallbackReturns ==
  /\ depth > 0
  /\ Top.pc \in InCallback
  /\ \/ /\ Top.pc = "task"
        /\ Top.should_quit
        /\ EndIteration(FALSE)
     \/ /\ ~(Top.pc = "task" /\ Top.should_quit)
        /\ SetTop(Resume(Top))
        /\ UNCHANGED depth
  /\ UNCHANGED <<next_id, info, handlers, wait_set, handler_deadlines,
                 delayed_tasks, lifecycle, fate, clock, signal>>

-----------------------------------------------------------------------------
(* The destructor.                                                         *)

BeginDestroy ==
  /\ lifecycle = "alive"
  /\ depth = 0
  /\ lifecycle' = "destroying"
  /\ UNCHANGED <<next_id, info, handlers, wait_set, handler_deadlines,
                 delayed_tasks, depth, run_states, fate, clock, signal>>

\* handlers_.begin() is the lowest id.  Its wait set entry stays behind.
AbortHandler(id) ==
  /\ lifecycle = "destroying"
  /\ id \in handlers
  /\ \A other \in handlers : id <= other
  /\ handlers' = handlers \ {id}
  /\ fate' = [fate EXCEPT ![id] = "aborted"]
  /\ lifecycle' = "aborting"
  /\ UNCHANGED <<next_id, info, wait_set, handler_deadlines, delayed_tasks,
                 depth, run_states, clock, signal>>

AbortReturns ==
  /\ lifecycle = "aborting"
  /\ lifecycle' = "destroying"
  /\ UNCHANGED <<next_id, info, handlers, wait_set, handler_deadlines,
                 delayed_tasks, depth, run_states, fate, clock, signal>>

DestructorDone_afterOne == handlers = {} \/ \E id \in Ids : fate[id] = "aborted"
DestructorDone == handlers = {}

\* The members go with the object: the wait set and the unrun tasks.
EndDestroy ==
  /\ lifecycle = "destroying"
  /\ DestructorDone
  /\ lifecycle' = "destroyed"
  /\ wait_set' = {}
  /\ handler_deadlines' = {}
  /\ delayed_tasks' = {}
  /\ UNCHANGED <<next_id, info, handlers, depth, run_states, fate, clock,
                 signal>>

-----------------------------------------------------------------------------
(* The environment, for as long as there is a loop to notice it.           *)

Tick ==
  /\ lifecycle # "destroyed"
  /\ clock < MaxTicks
  /\ clock' = clock + 1
  /\ UNCHANGED <<loopVars, signal>>

\* A peer makes a handle ready, or makes its signals unsatisfiable for good.
Signal(handle) ==
  /\ lifecycle # "destroyed"
  /\ signal[handle] = "idle"
  /\ signal' = [signal EXCEPT ![handle] = "ready"]
  /\ UNCHANGED <<loopVars, clock>>

Break(handle) ==
  /\ lifecycle # "destroyed"
  /\ signal[handle] # "dead"
  /\ signal' = [signal EXCEPT ![handle] = "dead"]
  /\ UNCHANGED <<loopVars, clock>>

-----------------------------------------------------------------------------
Init ==
  /\ next_id = 1
  /\ info = [id \in Ids |-> [handle |-> NoHandle, time |-> 0]]
  /\ handlers = {}
  /\ wait_set = {}
  /\ handler_deadlines = {}
  /\ delayed_tasks = {}
  /\ depth = 0
  /\ run_states = [d \in 1 .. MaxDepth |-> NoRunState]
  /\ lifecycle = "alive"
  /\ fate = [id \in Ids |-> "none"]
  /\ clock = 1
  /\ signal = [h \in Handles |-> "idle"]

Application ==
  \/ \E h \in Handles, d \in Deadlines : AddHandler(h, d)
  \/ \E id \in Ids : RemoveHandler(id)
  \/ \E d \in Deadlines : PostDelayedTask(d)
  \/ Quit
  \/ \E q \in BOOLEAN : RunInternal(q)
  \/ \E h \in Handles : Consume(h)
  \/ BeginDestroy

LoopStep ==
  \/ BeginIteration
  \/ \E id \in Ids : RunTask(id)
  \/ TasksDone
  \/ WaitReady
  \/ WaitTimeout
  \/ NotifyResult
  \/ ResultsDone
  \/ \E id \in Ids : NotifyDeadlineExceeded(id)
  \/ ExpiredDone

DestructorStep ==
  \/ \E id \in Ids : AbortHandler(id)
  \/ EndDestroy

CallbackStep == CallbackReturns \/ AbortReturns

Environment ==
  \/ Tick
  \/ \E h \in Handles : Signal(h) \/ Break(h)

\* A destroyed loop is the only thing that may stop.
Terminated ==
  /\ lifecycle = "destroyed"
  /\ UNCHANGED vars

Next == Application \/ LoopStep \/ DestructorStep \/ CallbackStep \/ Environment
          \/ Terminated

Spec == Init /\ [][Next]_vars

\* The loop runs when it can, time passes, and every callback returns in the
\* end, however often it runs the loop inside itself before it does.
FairSpec ==
  /\ Spec
  /\ WF_vars(LoopStep)
  /\ WF_vars(DestructorStep)
  /\ WF_vars(Tick)
  /\ SF_vars(CallbackStep)

-----------------------------------------------------------------------------
(* Properties.                                                             *)

Registered == {id \in Ids : fate[id] # "none" /\ info[id].handle # NoHandle}

\* Every variable stays in its type.
TypeOK ==
  /\ next_id \in 1 .. MaxId + 1
  /\ info \in [Ids -> [handle: Handles \cup {NoHandle}, time: Ticks]]
  /\ handlers \in SUBSET Ids
  /\ wait_set \in SUBSET Ids
  /\ handler_deadlines \in SUBSET Ids
  /\ delayed_tasks \in SUBSET Ids
  /\ depth \in 0 .. MaxDepth
  /\ run_states \in [1 .. MaxDepth -> RunState]
  /\ lifecycle \in Lifecycles
  /\ fate \in [Ids -> Fates]
  /\ clock \in Ticks \ {kInvalidTimeTicks}
  /\ signal \in [Handles -> Signals]

\* A registered handler can always be reached: its handle is in the wait set,
\* and if it has a deadline, popping stale deadlines has not lost it.
HandlersReachable ==
  \A id \in handlers :
    /\ id \in wait_set
    /\ info[id].time # kInvalidTimeTicks => id \in handler_deadlines

\* Nothing is forgotten and nothing is kept too long: until the loop is gone,
\* what is still owed a call is exactly what the containers hold, however the
\* callbacks of nested runs remove each other's handlers.
NothingForgotten ==
  lifecycle # "destroyed" =>
    \A id \in Ids : fate[id] = "pending" <=> id \in handlers \cup delayed_tasks

\* Once a handler has been notified or removed, or a task has run, it is never
\* called again: not by the rest of a batch of results fetched before, not by
\* an outer run's batch, not by the destructor.
CalledAtMostOnce ==
  [][\A id \in Ids :
       fate[id] \notin {"none", "pending"} => fate'[id] = fate[id]]_vars

\* DEADLINE_EXCEEDED is never reported early, nor to a handler that asked to
\* wait forever, although the deadline was computed before the callbacks of
\* the same batch (and the runs inside them) took place.
NoEarlyTimeout ==
  [][\A id \in Ids :
       fate[id] = "pending" /\ fate'[id] = "timeout" =>
         info[id].time # kInvalidTimeTicks /\ info[id].time <= clock]_vars

\* When the destructor is done, every handler has heard of it or had been
\* notified or removed before, including those added by aborted handlers.
DestroyedNotifiesAll ==
  lifecycle = "destroyed" => \A id \in Registered : fate[id] # "pending"

\* While the loop runs, a posted task is run, or the run ends.
TasksEventuallyRun ==
  \A id \in Ids :
    (id \in delayed_tasks /\ depth > 0) ~> (id \notin delayed_tasks \/ depth = 0)

-----------------------------------------------------------------------------
(* The inductive invariant behind the safety properties.                   *)

\* Ids not handed out yet are nowhere, no id is both a handler and a task, a
\* queued deadline is a real one, and the loop outlives its runs.
Bookkeeping ==
  /\ \A id \in handlers \cup delayed_tasks \cup handler_deadlines : id < next_id
  /\ handlers \cap delayed_tasks = {}
  /\ \A id \in handler_deadlines : info[id].time # kInvalidTimeTicks
  /\ depth > 0 => lifecycle = "alive"
  /\ lifecycle = "destroyed" => handlers = {} /\ delayed_tasks = {}
  /\ \A id \in Ids : fate[id] = "none" <=> id >= next_id

\* A run's notion of time is never ahead of the clock: a wait does not end
\* before its deadline, and one without a deadline does not end.
RunInTime(rs) ==
  /\ rs.pc \in {"tasks", "task"} => rs.now <= clock
  /\ rs.pc = "wait" => IF rs.deadline = kInvalidTimeTicks
                       THEN rs.wait_until = MaxTicks + 1
                       ELSE rs.deadline <= rs.wait_until
  /\ rs.pc \in {"expired", "deadline"} => rs.deadline <= clock

RunsInTime == \A d \in 1 .. MaxDepth : RunInTime(run_states[d])

\* Tasks have no handle: the destructor, which drops them, owes them nothing.
TasksHaveNoHandle == \A id \in delayed_tasks : info[id].handle = NoHandle

Inv ==
  /\ TypeOK
  /\ Bookkeeping
  /\ HandlersReachable
  /\ NothingForgotten
  /\ RunsInTime
=============================================================================
