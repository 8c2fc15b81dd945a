# A TLA+ verification of the Mojo public SDK

This directory holds TLA+ models of the parts of the Mojo public SDK that move
messages: the run loop an application sits in, the waiters that tell it when a
message pipe is ready, the connectors and routers that read, dispatch and write
messages, the objects that own pipe ends, the encoding of the messages
themselves, and the glue through which Dart, Python, native libraries and NaCl
programs reach the system. The models are checked with TLC on small instances;
the invariants of eight of them (the run loop, the Go waiter, connector and
router, the C++ router, the application library, the Dart handle watcher and the
Dart natives) are proved with TLAPS for every value of the constants.
`PROJECT.json` lists the components, the runs, the mutants, the hazards and the
theorems, and maps every definition to the lines it models.

## The system

The SDK is a set of libraries, in several languages, over one system interface:
message pipes with two ends, `Wait` and wait sets on handles, data pipes, shared
buffers. The implementation of that interface is not in this repository. The
libraries do the same four things in each language:

* **wait**: find out when one of many handles is readable or dead;
* **connect**: own one end of a message pipe, read and write messages, notice
  that the other end is gone, close;
* **route**: send requests with ids, give each response to whoever waits for it,
  and tell those that will never get one;
* **encode**: lay a value out in a message, check a message that arrives, and
  read the value back.

### Components

| Component | State | Operations | What is hard |
|---|---|---|---|
| C++ run loop (`cpp/utility/lib/run_loop.cc`) | registered handlers, wait set, two priority queues (deadlines, tasks), a stack of active runs | add/remove handler, post task, run, run until idle, quit, destroy | callbacks change the containers that are being walked and run the loop inside itself; stale deadlines; equal times; overflow; what wakes the loop |
| C++ connector and router (`cpp/bindings/lib`) | pipe, wait id, error and drop flags, pointer to a "destroyed" flag on the stack, map of responders | accept, accept with responder, wait for a message, close, release, destroy; callbacks to receivers, responders, error handler | the object may be destroyed by its own callbacks, several frames deep; pending waits; ownership of responders |
| C++ interface pointers, requests, handles, bindings, synchronous pointers | the pipe end each owns; versions; responders | construct, move, pass, bind, close, call, query and require a version | one owner per end through any sequence of moves; responses after a pipe was passed on; versions that are only hoped for |
| C++ application library and default waiter | service providers, strong bindings and binding sets, wait ids that are addresses | start, accept connection, connect to a service, quit | objects deleted from their own error handlers; a wait that outlives its connector; the loop's end |
| C and C++ message encoding | memory, handle vector, bounds checker | size, build, encode, validate, decode | two passes that must agree; two implementations that must agree; versions; what a damaged message may do |
| Go async waiter (`go/.../bindings/async_waiter.go`) | parallel slices of handles, ids and channels; atomic flag; waking pipe; two buffered channels | AsyncWait, CancelWait; the worker's loop | lost wakeups; cancellation racing a signal; slices out of step; a blocking send in the only worker |
| Go connector and stub (`connector.go`, `stub.go`) | pipe, RWMutex, wait mutex, done channel, one-place response channel, sync.Once | ReadMessage, WriteMessage, Close, ServeRequest | several serving goroutines, closing while one waits, two locks and a channel |
| Go router (`router.go`) | request channel, done channel, mutex, responders, wait id | Accept, AcceptWithResponse, Close; worker and drain goroutines | closing a channel others send to, full channels, failed writes, unanswered requests |
| Dart handle watcher (`platform/dart/dart_handle_watcher.cc`) | parallel vectors and an index map, timers, a control pipe, a map of threads with a mutex | add, remove, close, timer, shutdown; Start, Stop, StopAll | swap-removals, handles closed behind its back, timers against two readings of the clock, stopping twice |
| Dart natives (`mojo_natives.cc`) | native memory and finalizers of Dart objects | about thirty natives | the collector and other isolates run between two system calls |
| Python glue (`python/src`) | callbacks by wait id, reference counts on both sides | wait, cancel, post, run, destroy | a callback removes its own entry, then calls into Python |
| Thunks and NaCl tables (`platform/native`, `platform/nacl`) | tables of function pointers, a flag | set, query, call | versions of the table, first calls of several threads |
| Java, JavaScript and Rust bindings; Python messaging; Go encoding and applications | the same designs again | | not modelled |

They interact by calls and callbacks. In C++ everything is on one thread: the
router's connector asks a waiter (by default the run loop) to be called when its
pipe is readable, and the application is called from there. In Go every
connector and router shares one waiter goroutine and talks to it by channels.
In Dart isolates write commands to the watcher thread's control pipe and get
their answers on ports.

### What makes each part correct

* Run loop: a handler or task is called at most once, not before its time, and
  is forgotten by none of the containers; tasks are run; the destructor reaches
  everybody.
* C++ connector and router: nothing touches a destroyed object, the peer's
  closing is noticed, each responder is deleted once, a dropped responder closes
  the pipe.
* Interface pointers and bindings: every pipe end has exactly one owner, a
  response finds the caller that asked, and a call behind a refused version
  requirement is not executed, as long as pointers are not moved or passed on
  with answers under way.
* Application: waits and handlers match, implementations live exactly as long as
  their bindings, and a terminated application ends.
* Encoding: sizes suffice, values and handles survive, what is accepted can be
  decoded, C and C++ agree.
* Go waiter: no request is left in a channel with the worker asleep; one
  response per wait, to the right caller, for a reason; and always one in the end.
* Go connector: the pipe stays open while it is used, errors have a reason, a
  closed stub makes its servers return, if there are not too many.
* Go router: nobody sends to the closed channel, nobody is answered twice, the
  worker listens while a response is owed, and all are answered in the end.
* Dart: a port hears what is true of its own handle; what is due is reported; no
  open handle is unknown to Dart, no memory is lost or freed early.
* Python: a running callback exists, every reference is given back once.
* Thunks: a call reaches the function of its own name, or none.

## Modules

| Module | Models | State and actions |
|---|---|---|
| `RunLoop` | `run_loop.cc`, `run_loop.h` | containers are sets of ids, `info` keeps what an id was registered with; `run_states` is the stack of `RunState`s with the locals of `DoIteration()`. One action per operation, and per step of an iteration between two callbacks |
| `RunLoopProofs` | theorems about `RunLoop` | |
| `Waiter` | the promise of the Go interface `AsyncWaiter` | per caller: waiting, cancelled, answer, signal |
| `AsyncWaiter` | `async_waiter.go` | the worker's slices, flag, pipe and channels; one action per channel operation, atomic operation or system call |
| `AsyncWaiterClients` | callers that keep the documented contract, and the refinement mapping to `Waiter` | |
| `AsyncWaiterProofs` | lemmas about the waiter's steps, and theorems about `AsyncWaiterClients` | |
| `GoConnector` | `connector.go`, `stub.go`, extends `AsyncWaiter` | program counters of the goroutines, the two locks, `done`, `once`, the pipe |
| `GoConnectorProofs` | theorems about `GoConnector`; repeats the lemmas about the waiter's steps, since it cannot extend a module whose assumptions on callers its own do not meet | |
| `GoRouter` | `router.go`, extends the abstract `Waiter` | request channel, mutex, worker, drain goroutine, response channels, the peer |
| `GoRouterProofs` | theorems about `GoRouter` | |
| `CppRouter` | `connector.cc`, `router.cc`, part of `message.cc` | a stack of dispatch frames with their flags, the connector's and router's members, the peer |
| `CppRouterProofs` | theorems about `CppRouter` | |
| `Interfaces` | `interface_ptr.h`, `interface_ptr_internal.h`, `interface_handle.h`, `interface_request.h`, `binding.h`, synchronous pointer and connector, control messages, `handle.h`, the proxy and stub templates | pipe ends with their queues, and the program's variables as records of their members; one action per member function |
| `Application` | the application library, `default_async_waiter.cc`, `strong_binding.h`, the binding sets | connectors with their wait ids, the loop's handlers, service providers, bindings, implementations |
| `ApplicationProofs` | theorems about `Application` | |
| `WireFormat` | the layout and the type descriptors | pure |
| `CBindings` | `c/lib/bindings` | operators, recursive over the type |
| `CppBindings` | `cpp/bindings/lib` and the generator's templates: serialization, bounds checker, validation, message builder, header and control message validators | operators, recursive over the type |
| `Wire` | one message from writer to reader, instantiates the two | build, encode, send, change, validate, decode |
| `HandleWatcher` | `dart_handle_watcher.cc` and the natives that reach it | the thread's vectors, map and timers; one action per step of its loop, of `Start`, `Stop` and `StopAll` |
| `HandleWatcherProofs` | theorems about `HandleWatcher` | |
| `MojoSystem` | the system calls, from their declarations and use | operators on states of the system |
| `DartNatives` | `mojo_natives.cc`, extends `MojoSystem` | Dart objects, native memory, acquired data; one action per native |
| `DartNativesProofs` | theorems about `DartNatives` and the operators of `MojoSystem` | |
| `Thunks` | all tables of `platform/native` but the main GLES2 one, and of `platform/nacl` | a table, a flag, the threads |
| `PythonWaiter` | `python/src/common.cc`, `shared_data.h`, `mojo_system_impl.pyx` | handlers, callbacks, objects with their counts, the stack |
| `MC*` | instances for TLC | symmetry sets, values for constants, the cases of `Wire` |

`GoConnector` composes the connector with the *detailed* waiter, because what is
interesting there is how the two block each other. `GoRouter` uses the abstract
one, which the detailed one is shown to implement (run `async_waiter`).
`Interfaces` sees the router as its owners do, one step per message;
`Application` composes connectors, bindings, the default waiter and the loop's
handlers; what happens *during* a dispatch and *inside* an iteration is in
`CppRouter` and `RunLoop`.

An operator named `F_how`, defined before `F`, is `F` with a plausible mistake in
it: a dropped guard, an off-by-one, a swapped order. `PROJECT.json` lists for
each property the mistake that it notices.

Abstractions common to all but `Wire`: message contents are left out (a message
is a kind and a number), handles and ids are small sets, and the peer of a pipe
writes and closes whenever it likes.

### RunLoop

`InApplication` says when the application has control: outside `Run()`, inside a
callback of the innermost run, or inside a handler notified by the destructor;
there it may call any operation, nested runs included. `BeginIteration`,
`RunTask`, `TasksDone`, `WaitReady`/`WaitTimeout`, `NotifyResult`,
`NotifyDeadlineExceeded` and their ends are the stretches of `DoIteration()`
between callbacks. The clock starts at 1, since 0 is `kInvalidTimeTicks`; it
stops at `MaxTicks`, and a deadline beyond it overflows to "forever".
`WaitSetWait` returns any batch of reportable entries that fits the buffer.

### AsyncWaiter

The waking pipe's row, index 0 of the Go slices, is left out, so the indices of
the sequences agree with the code's. `wakeWorker()` is two steps, the
compare-and-swap and the write, and so is the worker's return from `WaitMany()`
and its store to the flag: between them everybody else may run. A select of the
worker takes any case that is ready. `request` is history.

### GoConnector

`ReadMessage()` is followed lock by lock: the wait mutex, the read lock, the
read, `AsyncWait` (with the waiter's own steps), the select, the read again, or
`CancelWait`; the deferred unlocks are one step. Go's RWMutex keeps new readers
out while a writer waits. `Connector.Close()` is three steps, and `sync.Once`
makes other closers wait for the first. A receiver may accept, reject or write a
response.

### GoRouter

A call locks the mutex and checks the handle in one step and sends in another,
since the send may block. The worker takes any ready case of its select. What
follows the loop is kept in order: cancel, fail the pending requests, start the
drain goroutine, lock, close. A send to a nil channel blocks for ever.

### CppRouter

`pc = "app"` means application code runs, with `stack` the dispatches and error
handlers it was called from; it may then call every operation of the router,
let the event loop call `OnHandleReady()`, or return. Each dispatch frame holds
the local `was_destroyed_during_dispatch` and `previous_destroyed_flag`;
`destroyedFlag` is the index of the frame the member points into. A failed
`MOJO_CHECK` is `pc = "crashed"`. Request ids do not wrap in the model.

### Interfaces

Every end is owned by a variable, a router, a message in a queue or nobody (it
is then closed); moves, `Pass`, `Bind`, `reset` and destruction
shift ends about as the member functions do. Odd pipes lead to servers of a
newer version (`Version_(p)` is `p % 2`), so that a requirement can be met and
can fail. Replies are immediate. Nobody sends a pipe through itself. The system
may reject a write (`Connector::Accept` then returns false, and `version_` stays
raised although the peer was never told). Programs may move and pass on pointers
while answers to them are under way; two history variables say what came of it:
`orphans`, the requests whose response finds no callback or another's, and
`misled`, the pipes whose pointer has a version that is not theirs.
`ResponsesFindCallers` and `UnsupportedCallsIgnored` except exactly these (see
"Where code and comments disagree").

### Application

A connector has at most one wait, whose id is the loop's handler; a ready
handler makes the connector read until its pipe is empty, an error runs the
handler its owner has set. The shell sends `Initialize` first and `RequestQuit`
at most once. Services are kept in strong bindings, a `BindingSet` or a
`StrongBindingSet`; a set has one binding per implementation, and its vector is
a set of services, since nobody depends on the order. A wait gets a free
address as its id, always the same one of them, so that an address that was given
back is used again at once. The loop's end and
its destructor, which notifies the remaining handlers, are steps of their own.
`ServiceProviderImpl::Close()` is left out.

### Wire

Memory is a function from offsets to 4-byte words; an access of a writer or a
validator outside of it is an evaluation error of TLC, so a run that ends has
made none. The C++ decoder can be led outside; it then fails (`Enter`), and so it
does when two objects share memory, because a pointer that is decoded twice is a
wild one. Types are the C type
descriptors, and values are trees. A behaviour takes one of the cases of
`MCWire` (structs in arrays, nulls, maps of arrays of handles, interfaces,
unions of everything but unions, null unions with old tags and data in them,
arrays of interfaces, old and new versions on either side, control messages, two
values that lack a handle) through all stages, possibly with one word of the
message changed before it is validated. Field order is the same for both (the C generator is not
in the repository, so its descriptors are taken to list the fields in the order
of their ordinals). The C++ size is an upper bound, the C size is exact; C++
proxies only log serialization errors, which the model keeps. A C reader knows
no control messages and ignores names. Repeated map keys are not among the cases.
The rounding of bool arrays (`num_elements + 7`, which wraps) is kept.

The properties hold with exceptions, which are operators of `Wire`; the run
contains cases of each, and without any one of them a property is violated.
`Unwritable` (of `SizeSuffices`): unions with the unknown tag, and unions of a
null struct that has reference fields, which the C++ size computation
dereferences. `Altered` (of `RoundTrip`): arrays of interfaces with C++ at an end,
null unions of a C program with a tag and data that the C++ decoder follows, also
those cleared to zero whose first field is a handle, and unions of a null struct,
which C++ reads as an empty struct. `PassedOver` (of `AcceptedDecodes` and
`HandlesOnce`, remembered in `unchecked` when the C++ validator accepts): what it
does not look at and the decoder follows, that is, null unions by their tag, the
struct, map or interface of a union, and arrays of interfaces. `Disputed` (of
`ValidatorsAgree`): the rules on which the two validators differ, listed below.

### HandleWatcher

The thread's loop is followed call by call: timers, deadline, `MojoWaitMany`
(external, from its contract), the results, the prune of closed handles after a
failure, removals from the highest index down, one control message. Between
these, isolates write commands, read or close handles (`MojoHandle_Close` stands
for the finalizer too), peers write and close, and other threads start and stop
the watcher. `closed_handles`, which `PruneClosedHandles` collects and then goes
through in order, is a function of the rows it was collected from, taken from the
lowest row. Isolates name handles of their own (`CommandsAssumption`): the control
handle never leaves the watcher. `DeadlineRange` stands for 2^64: a negative relative deadline wraps.
Handle values are not reused; handles in a transaction (BUSY) are left out.

### DartNatives and MojoSystem

`MojoSystem` is the system as the natives rely on it: a handle table and ends
with queues. A native is one step except `QueryAndRead`, whose query and read
are two. Typed data is a size. The collector may take any object that is not
reachable, at any time, and runs its finalizer. The invalid handle stands for
all that the system refuses, one handle at most travels in a message, and values
are not reused. A list whose data an earlier call left acquired cannot be acquired
again; the build without DCHECKs then sees length 0 and allocates a new array
(`Length`). `ret`, the last result code, is not part of the view: no action
or property reads it.

### Thunks

Tables have their real entries; header versions differ by one entry at most on
either side. A behaviour is about one table. There are two loaders: an embedder
that loads a library, which is not in the repository and heeds the size that is
returned, as the comment in `system_thunks.h` asks, and the Python modules
(`mojo_system.pyx:34`, `mojo_system_impl.pyx:21`), which ignore it and go on; a
call through an entry that was never set then aborts. `nacl_interface_query` is
external, and stores are seen in program order. The process may be refused or
abort, so deadlock is not checked.

### PythonWaiter

One thread with the GIL. A wait id is the address of a handler and is reused at
once. Handlers are notified in any order. The Python function called may wait,
cancel, post, run the loop or drop the waiter. Tasks that cannot be called and
assignment of `ScopedPyRef` are left out; the loop is destroyed at top level
only.

## Runs

All runs pass. Each asks one question of a part; the state counts are those of
the instances here.

| Run | States | Shows |
|---|---|---|
| `run_loop` | 588 000 | one handle, two ids, three deadlines of which one overflows, runs nested two deep, batches of one or two results, destruction: `NothingForgotten`, `CalledAtMostOnce`, `NoEarlyTimeout`, `DestroyedNotifiesAll`, and tasks are run (`TasksEventuallyRun`) |
| `async_waiter` | 493 000 | two callers, one of which cancels, four waits: `NoLostWakeup`, `ResponseIsForMyWait`, and the detailed waiter implements `Waiter` with its fairness (`ImplementsWaiter`) |
| `go_connector` | 387 000 | two servers and two messages or three servers and none, one closer: `PipeUsedOpen`, `NoSpuriousError`, no deadlock but that of the full `waitChan`, `ServersReturnOrBlock` |
| `go_router` | 78 000 | three callers, one of them one-way, four requests, a channel with one place, a peer that may close: `NeverSendsOnClosedChan`, `RespondersUnanswered`, `WaitsForResponses`, `StoppedWorkerAnswers` |
| `cpp_router` | 308 000 | everything the application may do, three callbacks deep, two messages and two requests: `NeverRunsDestroyed`, `RespondersDeletedOnce`, `DropClosesPipe`, `CloseIsNoticed` |
| `interfaces` | 399 000 | two pointers, a handle, a request, a binding, a synchronous pointer, two pipes, three messages, four of both together, any of which may be rejected: `OneOwner`, `ResponsesFindCallers`, `UnsupportedCallsIgnored` |
| `application` | 160 000 | the shell, one connection, two services of different kinds: `WaitsMatchHandlers`, `ImplsLiveWithBindings`, `QuitsEventually` |
| `wire` | 157 000 | thirty-three cases, three kinds of message, writers and readers in C and C++, each word changed to eleven values: `SizeSuffices`, `RoundTrip`, `AcceptedDecodes`, `HandlesOnce`, `ValidatorsAgree` |
| `dart_watcher` | 353 000 | two handles, two ports, a timer, four moves, Stop and StopAll: `PostsAreTrue`, `DueIsReported`, `CloseAnswered`, `StopReturns` |
| `dart_natives` | 256 000 | two isolates, four handle values, two objects, two messages: `HandlesTold`, `MemoryHasOwner`, `ReadStaysInBuffer` |
| `thunks` | 53 000 | every table, three versions on either side, both loaders, three threads: `CallsReachNamesake` |
| `python_waiter` | 844 000 | two functions, two addresses, five objects, five frames: `RunningCallbacksExist`, `PythonReferencesCounted` |

**Bounds.** The interesting cases need few objects: two ids show every
interaction of two handlers, and two levels of runs an inner run against an
outer batch (the theorems about `RunLoop` have no such bounds). Two rows are
needed for a swap-removal that moves a row over another one, and four moves for
the watcher to act on the row that was moved. Commands are queued one at a time
in the watcher's instance (`MaxQueued`): it reads one command per iteration, so
a longer queue only repeats what a later command does. Capacities are scaled
down (10 places in Go's channels become 1 or 2, the wait set's buffer becomes 1
or 2, a data pipe has one byte) so that "full" happens. The bounds on ids, calls
and moves also say that the application and its peers do finitely many things,
which the liveness properties rely on: a task that posts itself for ever, a
caller that never stops calling, or a peer that never stops writing is not
covered. (It does starve a connector's read loop.)

**Fairness.** Weak fairness of the loop's, worker's, watcher's and goroutines'
own steps: an operating system thread or goroutine that can run is run. Weak
fairness of the clock, and of a stop that has begun. Strong fairness of "the
callback returns" in `RunLoop` and `CppRouter`, because a callback may run nested
loops before it does and the return is not continuously enabled. Nobody is
obliged to call, cancel, close, send or respond.

**Deadlock** is checked where the system should never stop: the run loop before
its destruction, the waiter with callers that still want something, the servers
of a connector, the Python program. It is switched off where the system may be
at rest (routers, bindings, the Dart program) or end (a message that was read, an
application that quit, a stopped watcher, a refused library).

## Where code and comments disagree

The models follow the code. These were met while modelling; the properties
either name the exception or do not speak of the case.

* *Run loop.* A handler that timed out stays in the wait set
  (`run_loop.cc:385`); as long as its handle is ready `WaitSetWait` returns at
  once and no other deadline is reported (`run_loop.cc:257`), while
  `run_loop.h:38` promises that `OnHandleError()` is invoked if the deadline
  elapses. `NotifyResults()` unregisters a handler before `OnHandleReady()`,
  while `run_loop.h:35` says it stays registered. Equal deadlines are reported
  last added first, while `run_loop.h:97` has the lowest id on top. `Run()` may
  return with a due task if the last handler just posted it (`run_loop.cc:295`).
* *Go connector.* It never receives the responses to the waits it cancels. With
  three servers the waiter's worker may block on the full one-place `waitChan`
  (`async_waiter.go:113`), and a server and `Close()` with it, although
  `stub.go:57` says that all serving goroutines start returning.
  `ServersReturnOrBlock` has this as its one exception, and grants it only to
  three servers or more; `go_connector` shows that it is the only one.
* *Go router.* A one-way request that is queued when the router stops has no
  response channel, and blocks the drain goroutine (`router.go:187-192`). A
  request whose write fails is never answered (`router.go:94`). Both are
  exceptions of `StoppedWorkerAnswers`: the one that could not be written, and
  those `Stranded` behind the one-way request, queued or being sent. A response with an id nobody waits for
  makes the worker send to a nil channel (`router.go:69`); the model's peer
  answers each request at most once.
* *C++ router.* A dropped responder leaves a connector without a pipe and without
  an error, on which the next response fails the check of `connector.cc:69`.
  `CloseMessagePipe()` does not set the error state (`connector.h:60`), and
  `PassMessagePipe()` within a dispatch leads to it (`connector.h:64`). A message
  without a receiver is an error, not dropped (`router.cc:164`).
* *Interface pointers.* The answer to `QueryVersion` is stored through a pointer
  to the state that asked (`interface_ptr_internal.h:52`), which may have been
  moved or passed on: the version of another pipe is overwritten. A
  `RequireVersion` whose message is rejected leaves the version raised
  (`interface_ptr_internal.h:68`), so the next one is not sent, and calls are
  executed although `interface_ptr.h` says that they will be ignored. A pipe that
  is passed on while responses are under way gets a router that numbers its
  requests from 1 again (`interface_ptr.h:165` asks for nothing here).
* *Encoding.* An array of interfaces is encoded as plain data by C++
  (`array_internal.h:398`, `bindings_serialization.h:50`): the handles do not
  reach the handle vector. A union that is null by its size but has a tag is
  followed by the C++ decoder (`union_definition.tmpl:86`); the C library leaves
  such tags (`union.c:133`, and the C tutorial, `TUTORIAL.md:316`, says that only
  the size counts). The C++ validator does not look behind the struct or map
  pointer of a union, nor at its interface (`validation_macros.tmpl:45`). The size
  of a union of a null struct dereferences it
  (`union_serialization_definition.tmpl:19`), and reading one back makes an empty
  struct. C accepts map versions to come, C++ does not; of a struct newer than
  known, C wants a size that is a multiple of 8 (`struct.c:137`), C++ does not; of
  a version between two known ones, C takes any larger size (`struct.c:112`), C++
  only the older one's (`struct_definition.tmpl:126`); C demands the size 16 of a
  union that may not be null, C++ any but 0.
* *Dart watcher.* A timer may not fire: the relative deadline wraps when the
  clock passes it between two readings (`dart_handle_watcher.cc:358`), and two
  ports with the same millisecond collide in a set that is ordered by deadline
  alone (lines 60-63), while the header (line 68) promises a ping. `StopAll`
  misses a thread that is spawned and not yet registered. Pruning a closed handle
  drops what was unread.
* *Dart natives.* A write with a handle list that holds no integer leaves its
  data acquired; the query of an empty message consumes it.
* *Thunks.* The Python modules ignore the size `MojoSetSystemThunks` returns, so
  that in an older embedder every call goes through a null entry, while
  `system_thunks.h` has the caller check it.
* *Python.* A cancel function kept after its wait has ended hits whichever wait
  has got the address since.

## Proofs

Every theorem is about `Spec`, the safety part of the specification the runs
check, and holds for every value of the constants that the named assumptions
admit. They have one shape: an inductive invariant `Inv` is stated in the
component's module, holds initially, is preserved by each action (one step per
action, in lemmas where that is long), and implies the property. Each `Inv` was
checked by TLC on the instance of its run before it was proved.

| Module | Assumptions | Theorems |
|---|---|---|
| `RunLoopProofs` | `RunLoopAssumption` | `TypeCorrect`; `HandlersStayReachable`; `NothingIsForgotten`: `NothingForgotten`; `NeverCalledTwice`, `NeverTimesOutEarly`: the action properties `CalledAtMostOnce`, `NoEarlyTimeout`; `DestructorNotifiesAll`: `DestroyedNotifiesAll` |
| `AsyncWaiterProofs` | `AsyncWaiterAssumption`, `AsyncWaiterClientsAssumption` | `NeverLosesWakeup`: `NoLostWakeup`; `AnswersTheRightWait`: `ResponseIsForMyWait`; `ImplementsWaiterSafety`: the steps of the detailed waiter are steps of `Waiter` |
| `GoConnectorProofs` | `AsyncWaiterAssumption`, `GoConnectorAssumption` | `NeverClosedInUse`: `PipeUsedOpen`; `FailsForAReason`: `NoSpuriousError`; `ConnectorIsWoken`: `NoLostWakeup` again, with other callers |
| `GoRouterProofs` | `GoRouterAssumption` | `TypeCorrect`; `SafeToClose`: `NeverSendsOnClosedChan`; `NeverAnswersTwice`: `RespondersUnanswered`; `NeverMissesResponses`: `WaitsForResponses` |
| `CppRouterProofs` | `CppRouterAssumption` | `DestructionIsNoticed`: `NeverRunsDestroyed`; `NoDoubleDelete`: `RespondersDeletedOnce`; `DropsAreSeen`: `DropClosesPipe`; `WaitToReadMoreAssertion`: `WaitsOnce` |
| `ApplicationProofs` | `KindsAssumption`, `ConnsAssumption` | `WaitsAreTheirOwn`: `WaitsMatchHandlers`; `ImplsDieWithBindings`: `ImplsLiveWithBindings` |
| `HandleWatcherProofs` | `HandlesAssumption`, `CommandsAssumption` | `PortsHearTheTruth`: `PostsAreTrue`; `ReportedEntriesGo`; `WatcherChecks`: the `MOJO_CHECK`s of the thread; `OneStopperJoins`; `CommandsNotLost` |
| `DartNativesProofs` | `BoundsAssumption`, `DartNativesAssumption` | `NoHandleLost`: `HandlesTold`; `MemoryOwned`: `MemoryHasOwner`; `ReadsFit`: `ReadStaysInBuffer` |

The assumptions give the constants their sorts (bounds are natural numbers, sets
of callers are subsets of the goroutines, names are distinct). What is more than
that: in `AsyncWaiterClients` each caller has a response channel of its own;
`ConnsAssumption` has finitely many connectors; `ImplementsWaiterSafety` takes
`OwnHandles`, that each caller waits on the handle named like it, because the
abstract `Waiter` speaks of a caller's signal and not of handles.

### The run loop

`Inv` is `TypeOK`; `Bookkeeping` (ids not handed out are nowhere, handlers and
tasks are disjoint, queued deadlines are real, the loop outlives its runs);
`HandlersReachable`; `NothingForgotten`; and `RunsInTime`. `HandlersReachable`
alone is not inductive: popping stale deadlines is harmless only because what is
popped is not registered, and calls are removed from `handlers` before they are
made. `NoEarlyTimeout` needs `RunsInTime`: the deadline a run compares with was
computed before its wait and is at most the clock only because a wait without a
deadline never times out. `DestroyedNotifiesAll` needs `TasksHaveNoHandle`: when
the destructor is done no handler is left, and the tasks it drops are owed
nothing.

### The Go waiter, connector and router

*Wakeups.* That a queued request is seen (`RequestsSeen`) is not inductive: when
a caller's compare-and-swap fails, somebody else's message has to be on its way.
`FlagMeansMessage` says so, and says that the message the worker is just reading
does not count, for the store that lowers the flag comes before that read.
`MessageToRead` makes the read find one. The three together are `WakeupInv`,
which the waiter's steps alone preserve. These lemmas are used twice: with the
well-behaved callers and with the connector's goroutines, who share a channel and
leave waits behind.

*Waits.* A response carries an id, rows of the slices move, and cancellations
come late. `WaitsInv` accounts for each caller's wait wherever it is: alone in
`waitChan` (`RequestsAlone`), in exactly one row with its own handle, channel and
id (`RowsAreWaits`; the removal that moves the last row over another one is a
lemma), or answered (`ResponsesAreMine`). `IdsUnique` and `CancelsAreMeant` keep a
late cancellation from hitting another wait.

*Refinement.* The worker acts on what `WaitMany()` returned some steps ago;
`ResultsAreTrue` says that this still holds of the handle when it answers. With it
every step of the detailed waiter is mapped to a step of `Waiter` or to none. The
fairness of `Waiter` is left to TLC.

*Connector.* `PipeUsedOpen` follows from `LocksHeld`: who has found the pipe valid
holds the read lock. `NoSpuriousError` needs more: while nobody closes there is
one wait at a time (`OneWait`), and the message it announces is taken by nobody
else (`MessageKept`), which holds because every reader holds the wait mutex, and
because waits are abandoned only after `done` is closed (`DoneFirst`).

*Router.* `SafeToClose` rests on `SendersLocked` (a sender holds the mutex and has
found the handle valid) and `Phases` (channel and handle are closed together,
under the mutex). That a responder taken from the channel is unanswered follows
from `InOnePlace`: until the worker fails what is pending, a request in the
channel or with its sender is there once, and known neither to the worker nor to
the peer. It is where the assumption that the peer answers a request at most once
is used.

### The C++ router

The depth of callbacks is unbounded, so the invariant speaks of the chain of flags
through the stack: `FlagsTrackDestruction` says that `destroyed_flag_` and each
frame's saved flag point to the next dispatch below, and that after a destruction
exactly the innermost dispatch knows; it passes the news on when it returns. From
this, no frame resumes a destroyed router. `RespondersApart` (waiting, being called
or deleted, and in one frame at most) gives the single deletion. `OneLoop` shows
the `MOJO_CHECK(!async_wait_id_)` of `WaitToReadMore()`: only one frame on the
stack is inside `ReadAllAvailableMessages()`, and nobody waits meanwhile.

### The application

`WaitsMatchHandlers` is about three tables at once, and connectors go in groups:
closing a pipe takes the requests in it along, and the requests in those.
`RequestsSent` says that a request in a pipe is of a connector that is not bound
yet and lies nowhere else, so what is lost with a pipe is in no other pipe and has
no wait; `TellsFirst` that service providers are not among them. `ReadsWithoutWait`
gives the connector being read its exemption, and ends it before the loop's
destructor runs. A free id is found because there are as many as connectors and
one connector, at least, does not wait. `BindingsByKind` is
`ImplsLiveWithBindings` set by set: an implementation in one set must not be in
the other.

### The Dart handle watcher

`PostsAreTrue` compares what a port was told with what it subscribed to, and the
thread finds the port by a row number. `ThreadInv` says when row numbers can be
trusted: the vectors have one length, the index map is the inverse of
`wait_many_handles` (`IndexMapAgrees`), the control pipe is in the first row
(`ControlFirst`) and every other row has the port its handle was added with
(`PortsBound`). `RemoveHandleAtIndex` moves the last row over the removed one; one
lemma says what that does to the rows and the map, and all removals use it.

The loop of the thread remembers row numbers and handles across such removals,
and three parts of `Inv` say that what it remembers is not stale. `ReportedGo`:
while the second loop of `ProcessWaitManyResults` runs, the rows still to be
removed are the reported ones, because it goes from the highest index down, so
that the row that moves is never one of them. `PrunedWatched`: the handles found
closed are distinct and still watched when they are pruned, though rows move
under them, because each is looked up in the map again. `ControlSeen`: a control
message that the wait saw is still there when it is read, because only the thread
reads that pipe, whatever is closed or written meanwhile.

`OneStopperJoins` and `CommandsNotLost` are about the other threads and the
commands. The first rests on `StopInv`: who is past the lookup took the thread out
of the map. The second is the safety half of `StopReturns` and `CloseAnswered`: a
thread that is waited for has the shutdown command before it, or has obeyed it.

### The Dart natives

The first part is about the system: each call keeps the handle table and the ends
consistent (`System`: handles and messages lead to ends, peers to each other) and
opens only the handles it returns. `MemoryHasOwner` goes by the finalizers.
`ReadStaysInBuffer` is disturbed by the collector and by other isolates between
the query and the read; it holds because what a running call refers to is alive
(`RefsAlive`) and is no other isolate's (`RefsApart`).

### Only model-checked

* Liveness, and with it the fairness half of `ImplementsWaiter`: out of the
  prover's reach. Several theorems are the safety half of a liveness property
  (`NeverLosesWakeup`, `NeverMissesResponses`, `CommandsNotLost`).
* `Wire`: what the encoders, validators and decoders compute is recursive over
  the type and the value; RECURSIVE operators and induction over data are out of
  the prover's reach.
* `PythonWaiter` releases sequences of references with a fold, and its counts are
  cardinalities: what a step does to them needs induction over data as well.
* `Interfaces`: closing an end closes what its queue holds, to any depth, and
  `OneOwner` is a sum of cardinalities; the other two properties need it.
* `CallsReachNamesake` of `Thunks` is about finitely many tables and versions,
  which TLC covers; the number of threads is bounded there.

## Not modelled

`PROJECT.json` names every part and why. In short: the system behind the C
interface is not in the repository; the Java, JavaScript, Rust and Go encoders
and the Java, JavaScript and Python connectors repeat the designs above; headers
of GL functions, the main GLES2 table, marshalling of NaCl calls, templates of
other languages and tools keep no state of interest. In the modelled parts: the
thread-local pointer to the current run loop, finalizers of the Go waiter, header
checks that return at once in Go, testing mode of the C++ router and its BUSY
check, wrapping of 64-bit request ids, enum validation, `InterfacePtrSet`, unions
inside unions.

## Plan

1. Done: `RunLoop`; `Waiter`, `AsyncWaiter`, `AsyncWaiterClients`; `GoConnector`;
   `GoRouter`; `CppRouter`; `Interfaces`; `Application`; the encoding
   (`WireFormat`, `CBindings`, `CppBindings`, `Wire`); `HandleWatcher`;
   `MojoSystem` and `DartNatives`; `Thunks`; `PythonWaiter`. Proofs of `RunLoop`,
   `AsyncWaiterClients` with the refinement, `GoConnector`, `GoRouter`,
   `CppRouter`, `Application`, `HandleWatcher`, `DartNatives`.
2. Further proofs: `ResponsesFindCallers` of `Interfaces`, from single ownership
   stated without cardinalities (no end in two places) and a lemma about the
   closure of what a closed end takes along.
3. Further models: the Rust run loop, compared with the C++ one; the Go
   application library; the Python promises.
