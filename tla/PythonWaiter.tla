---------------------------- MODULE PythonWaiter ----------------------------
(***************************************************************************)
(* Waits and tasks of a Python program on a C++ run loop: the class         *)
(* PythonAsyncWaiter over the default async waiter, PythonClosure, and the  *)
(* reference counts both rely on (SharedData, SharedPtr, Callback and       *)
(* ScopedPyRef).                                                            *)
(*                                                                          *)
(* The loop knows a callback only as a raw pointer.  What keeps it alive    *)
(* is an entry of callbacks_, which the callback itself removes when it     *)
(* runs, before it calls into Python; there the program may wait again,     *)
(* cancel, run the loop in itself or drop the waiter.  A wait id is the     *)
(* address of the loop's handler, so it may be given out again at once.     *)
(*                                                                          *)
(* Everything happens on the thread of the loop, with the GIL held.         *)
(***************************************************************************)
EXTENDS Integers, Sequences, FiniteSets, SequencesExt, FiniteSetsExt

CONSTANTS
  Callables,    \* Python objects that can be called
  Ids,          \* wait ids: addresses of handlers
  NoCallable,   \* no object
  NoId,         \* 0: an id that was not set
  MaxObjects,   \* bound on the C++ callback objects made
  MaxDepth      \* bound on the frames of the stack

ASSUME BoundsAssumption == {MaxObjects, MaxDepth} \subseteq Nat

VARIABLES
  loop,         \* RunLoop::current(): "none", "alive" or "destroyed" while in ~RunLoop
  handlers,     \* the loop's handlers: wait id -> closure, a raw pointer
  waiter,       \* is the PythonAsyncWaiter alive?
  callbacks,    \* its callbacks_: wait id -> SharedPtr<Callback>
  tasks,        \* the loop's tasks: closures, oldest first
  objects,      \* the callbacks: references, wait_id_ and callable_
  made,         \* number of objects made so far
  pyrefs,       \* references C++ holds to each Python object
  stack         \* what runs: runs of the loop, callbacks and tasks in Python

vars == <<loop, handlers, waiter, callbacks, tasks, objects, made, pyrefs, stack>>

Objects == 1 .. MaxObjects
NoObject == 0

Init ==
  /\ loop = "none"
  /\ handlers = [id \in Ids |-> NoObject]
  /\ waiter = TRUE
  /\ callbacks = [id \in Ids |-> NoObject]
  /\ tasks = <<>>
  /\ objects = [o \in Objects |-> [refs |-> 0, wait_id |-> NoId, callable |-> NoCallable]]
  /\ made = 0
  /\ pyrefs = [c \in Callables |-> 0]
  /\ stack = <<>>

----------------------------------------------------------------------------
(* Reference counts.  A heap is the pair of the objects and the Python      *)
(* references they hold.                                                    *)

Heap == [objects |-> objects, pyrefs |-> pyrefs]

SetHeap(heap) == objects' = heap.objects /\ pyrefs' = heap.pyrefs

\* ScopedPyRef with kAcquire, and its destructor.
Acquire(heap, c) == [heap EXCEPT !.pyrefs[c] = @ + 1]

DropPyRef_null(heap, c) == heap  \* Mutant: a reference that is never given back

DropPyRef(heap, c) == [heap EXCEPT !.pyrefs[c] = @ - 1]

\* A callback that owns a new Runnable, held by one SharedPtr.
NewCallback(heap, o, c) ==
  [Acquire(heap, c) EXCEPT !.objects[o] = [refs |-> 1, wait_id |-> NoId, callable |-> c]]

Retain(heap, o) == [heap EXCEPT !.objects[o].refs = @ + 1]

\* The callback is deleted, with its Runnable and so its callable_.
Delete(heap, o) == DropPyRef(heap, heap.objects[o].callable)

Release(heap, o) ==
  LET left == [heap EXCEPT !.objects[o].refs = @ - 1]
  IN IF left.objects[o].refs = 0 THEN Delete(left, o) ELSE left

\* Assignment to a SharedPtr that holds old.
Assign(heap, old, o) ==
  IF old = o THEN heap
  ELSE Retain(IF old = NoObject THEN heap ELSE Release(heap, old), o)

ReleaseAll(heap, os) == FoldLeft(Release, heap, os)

----------------------------------------------------------------------------
(* The stack.  Python code runs when the innermost frame is a call, or      *)
(* when there is none and no loop is being destroyed.                       *)

RunFrame == [kind |-> "run", quit |-> FALSE, object |-> NoObject]
CallFrame(o) == [kind |-> "call", quit |-> FALSE, object |-> o]

Innermost(kind) == stack # <<>> /\ Last(stack).kind = kind

InPython == Innermost("call") \/ (stack = <<>> /\ loop # "destroyed")

\* The loop may call: it runs and was not asked to quit, or it is in its
\* destructor.
Notifying == (Innermost("run") /\ ~Last(stack).quit) \/ (loop = "destroyed" /\ stack = <<>>)

\* RunLoop::current()->Quit(): the innermost run, if there is one.
Quit(frames) ==
  LET runs == {k \in DOMAIN frames : frames[k].kind = "run"}
  IN IF runs = {} THEN frames ELSE [frames EXCEPT ![Max(runs)].quit = TRUE]

----------------------------------------------------------------------------
(* What the Python program does.                                            *)

NewRunLoop ==
  /\ InPython
  /\ loop = "none"
  /\ loop' = "alive"
  /\ UNCHANGED <<handlers, waiter, callbacks, tasks, objects, made, pyrefs, stack>>

RunCalled ==
  /\ InPython
  /\ loop = "alive"
  /\ Len(stack) < MaxDepth
  /\ stack' = Append(stack, RunFrame)
  /\ UNCHANGED <<loop, handlers, waiter, callbacks, tasks, objects, made, pyrefs>>

\* PythonAsyncWaiter::AsyncWait: the local reference to the callback is gone
\* when it returns, the entry of callbacks_ stays.
AsyncWait(c, id) ==
  /\ InPython
  /\ loop # "none" /\ waiter
  /\ made < MaxObjects
  /\ handlers[id] = NoObject
  /\ LET o == made + 1
         kept == Release(Assign(NewCallback(Heap, o, c), callbacks[id], o), o)
     IN /\ SetHeap([kept EXCEPT !.objects[o].wait_id = id])
        /\ handlers' = [handlers EXCEPT ![id] = o]
        /\ callbacks' = [callbacks EXCEPT ![id] = o]
        /\ made' = o
  /\ UNCHANGED <<loop, waiter, tasks, stack>>

\* PythonAsyncWaiter::CancelWait: an id that is not in callbacks_ is ignored.
CancelWait(id) ==
  /\ InPython
  /\ waiter
  /\ callbacks[id] # NoObject
  /\ handlers' = [handlers EXCEPT ![id] = NoObject]
  /\ SetHeap(Release(Heap, callbacks[id]))
  /\ callbacks' = [callbacks EXCEPT ![id] = NoObject]
  /\ UNCHANGED <<loop, waiter, tasks, made, stack>>

\* ~PythonAsyncWaiter: cancels every wait, then its map drops the callbacks.
DestroyWaiter ==
  /\ InPython
  /\ waiter
  /\ waiter' = FALSE
  /\ handlers' = [id \in Ids |-> IF callbacks[id] # NoObject THEN NoObject ELSE handlers[id]]
  /\ SetHeap(ReleaseAll(Heap, SetToSeq({callbacks[id] : id \in Ids} \ {NoObject})))
  /\ callbacks' = [id \in Ids |-> NoObject]
  /\ UNCHANGED <<loop, tasks, made, stack>>

\* BuildClosure and RunLoop::PostDelayedTask: the queue holds the closure.
PostDelayedTask(c) ==
  /\ InPython
  /\ loop # "none"
  /\ made < MaxObjects
  /\ SetHeap(NewCallback(Heap, made + 1, c))
  /\ tasks' = Append(tasks, made + 1)
  /\ made' = made + 1
  /\ UNCHANGED <<loop, handlers, waiter, callbacks, stack>>

\* RunLoop::~RunLoop begins.
DestroyLoop ==
  /\ stack = <<>>
  /\ loop = "alive"
  /\ loop' = "destroyed"
  /\ UNCHANGED <<handlers, waiter, callbacks, tasks, objects, made, pyrefs, stack>>

----------------------------------------------------------------------------
(* What the loop does.                                                      *)

\* A callback that cannot build its arguments quits the loop and is gone.
CallsOrQuits(o, heap) ==
  \/ /\ Len(stack) < MaxDepth
     /\ stack' = Append(stack, CallFrame(o))
     /\ SetHeap(heap)
  \/ /\ stack' = Quit(stack)
     /\ SetHeap(Release(heap, o))

\* self, the copy of the entry that keeps the callback until Run returns.
Self_pointer(heap, o) == heap  \* Mutant: only a pointer is kept

Self(heap, o) == Retain(heap, o)

\* RunLoopHandlerImpl::NotifyCallback deletes the handler and calls
\* AsyncWaiterRunnable::Run, which takes its entry out of callbacks_.
Notify(id) ==
  /\ Notifying
  /\ handlers[id] # NoObject
  /\ handlers' = [handlers EXCEPT ![id] = NoObject]
  /\ LET o == handlers[id]
         wait_id == objects[o].wait_id
     IN /\ callbacks' = [callbacks EXCEPT ![wait_id] = NoObject]
        /\ CallsOrQuits(o, Release(Self(Heap, o), callbacks[wait_id]))
  /\ UNCHANGED <<loop, waiter, tasks, made>>

\* The oldest task is taken out of the queue, kept by a copy, and run.
RunTask ==
  /\ Innermost("run") /\ ~Last(stack).quit
  /\ tasks # <<>>
  /\ tasks' = Tail(tasks)
  /\ CallsOrQuits(Head(tasks), Release(Retain(Heap, Head(tasks)), Head(tasks)))
  /\ UNCHANGED <<loop, handlers, waiter, callbacks, made>>

\* The Python function returns, or raises an exception: then the loop quits.
CallReturns ==
  /\ Innermost("call")
  /\ \E frames \in {Front(stack), Quit(Front(stack))} : stack' = frames
  /\ SetHeap(Release(Heap, Last(stack).object))
  /\ UNCHANGED <<loop, handlers, waiter, callbacks, tasks, made>>

\* A run of the loop ends, asked to quit or idle.
RunReturns ==
  /\ Innermost("run")
  /\ stack' = Front(stack)
  /\ UNCHANGED <<loop, handlers, waiter, callbacks, tasks, objects, made, pyrefs>>

\* ~RunLoop has notified every handler; its tasks go with it.
LoopDestroyed ==
  /\ loop = "destroyed"
  /\ stack = <<>>
  /\ \A id \in Ids : handlers[id] = NoObject
  /\ loop' = "none"
  /\ tasks' = <<>>
  /\ SetHeap(ReleaseAll(Heap, tasks))
  /\ UNCHANGED <<handlers, waiter, callbacks, made, stack>>

Next ==
  \/ NewRunLoop \/ RunCalled \/ DestroyWaiter \/ DestroyLoop
  \/ \E c \in Callables : PostDelayedTask(c) \/ \E id \in Ids : AsyncWait(c, id)
  \/ \E id \in Ids : CancelWait(id) \/ Notify(id)
  \/ RunTask \/ CallReturns \/ RunReturns \/ LoopDestroyed

Spec == Init /\ [][Next]_vars

----------------------------------------------------------------------------
\* The callbacks something in the program still holds.
Held(o) ==
  \/ \E id \in Ids : callbacks[id] = o
  \/ Contains(tasks, o)
  \/ \E k \in DOMAIN stack : stack[k].object = o

(***************************************************************************)
(* A callback or task that is running exists until it returns, whatever     *)
(* the Python function does meanwhile: cancel it, wait again under the same *)
(* id, run the loop in itself, or drop the waiter (AsyncWaiterRunnable::Run *)
(* goes on with members of the object after the call).                      *)
(***************************************************************************)
RunningCallbacksExist ==
  \A k \in DOMAIN stack : stack[k].kind = "call" => objects[stack[k].object].refs > 0

(***************************************************************************)
(* C++ holds exactly one reference to a Python function for each callback   *)
(* or task that can still run it: none is freed under a pending wait, none  *)
(* is leaked by a wait that was cancelled, was overtaken or raised.         *)
(***************************************************************************)
PythonReferencesCounted ==
  \A c \in Callables :
    pyrefs[c] = Cardinality({o \in Objects : Held(o) /\ objects[o].callable = c})
============================================================================
