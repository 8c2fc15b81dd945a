------------------------------ MODULE DartNatives ------------------------------
(***************************************************************************)
(* The native functions of the Dart embedder (platform/dart/               *)
(* mojo_natives.cc): how isolates, each on its own thread, reach the       *)
(* system calls, and which memory and handles the Dart heap then owns.     *)
(*                                                                         *)
(* A native is one step, but for MojoMessagePipe_QueryAndRead: it calls    *)
(* the system twice, and another isolate may use the same pipe between     *)
(* the calls.  Handles are integers in Dart: every isolate can use the     *)
(* ones any native returned.                                               *)
(***************************************************************************)
EXTENDS MojoSystem

CONSTANTS
  Isolates,
  Sizes,        \* the sizes of typed data and of messages, 0 for none
  Flags,        \* is MOJO_READ_MESSAGE_FLAG_MAY_DISCARD set: FALSE, TRUE or both
  MaxObjects,   \* bound on the Dart objects that are alive
  MaxMessages   \* bound on the messages written

ASSUME DartNativesAssumption ==
  /\ Sizes \subseteq Nat
  /\ Flags \subseteq BOOLEAN
  /\ MaxObjects \in Nat

VARIABLES
  sys,          \* the system (MojoSystem)
  written,      \* the number of messages written
  heap,         \* the Dart objects the natives made or were given
  mem,          \* the objects whose native memory is allocated or mapped
  acquired,     \* typed data between AcquireData and ReleaseData
  result,       \* per isolate, the list it passes to QueryAndRead
  call,         \* per isolate, the QueryAndRead between its two system calls
  told,         \* the handles natives returned
  ret           \* what the last native returned; no action reads it

state == <<sys, written, heap, mem, acquired, result, call, told>>
vars == <<state, ret>>
dart == <<heap, mem, acquired, result, call>>

Objects == 1 .. MaxObjects
Null == 0

\* A Dart object: "typed" data of the Dart heap, external data of an "array" made with new[],
\* of a "mapping" or of a "region" of a two-phase operation, or a MojoHandle "instance".
Object(kind, size, h) == [kind |-> kind, size |-> size, handle |-> h]
NoObject == Object("none", 0, MOJO_HANDLE_INVALID)
TypedData(kind, size) == Object(kind, size, MOJO_HANDLE_INVALID)

NoCall == [on |-> FALSE]
EmptyList == [data |-> Null, handles |-> Null]

Init ==
  /\ sys = EmptySystem /\ written = 0
  /\ heap = [o \in Objects |-> NoObject] /\ mem = {} /\ acquired = {}
  /\ result = [i \in Isolates |-> EmptyList]
  /\ call = [i \in Isolates |-> NoCall]
  /\ told = {} /\ ret = "OK"

\* The bound on objects, and where the next one goes.
Room(n) == Cardinality({o \in Objects : heap[o] = NoObject}) >= n
Fresh(hp) == CHOOSE o \in Objects : hp[o] = NoObject /\ \A p \in 1 .. (o - 1) : hp[p] # NoObject

Idle(i) == ~call[i].on

\* Some isolate is free to call a native that makes no use of its list; which one it is makes no
\* difference.
SomebodyIdle == \E i \in Isolates : Idle(i)

SetNullReturn == ret' = "null" /\ UNCHANGED <<sys, written, told, dart>>
SetInvalidArgumentReturn == ret' = "INVALID_ARGUMENT" /\ UNCHANGED <<sys, written, told, dart>>

\* An argument is not an integer, or is none of the objects the native asks for.
CHECK_INTEGER_ARGUMENT == SomebodyIdle /\ (SetNullReturn \/ SetInvalidArgumentReturn)

\* A native that only calls the system: its result, and the handles it returns.
Calls(r, hs) ==
  /\ SomebodyIdle
  /\ sys' = r.s /\ ret' = r.res
  /\ told' = told \cup ({hs[k] : k \in DOMAIN hs} \ {MOJO_HANDLE_INVALID})
  /\ UNCHANGED <<written, dart>>

\* Typed data that is an argument of a call is acquired and released within the step; it is
\* given by its size, 0 for null.
Size(o) == IF o = Null THEN 0 ELSE heap[o].size

--------------------------------------------------------------------------------
(* Handles and their finalizers.                                           *)

\* Mutant: the weak handle is made without a callback.
Finalize_nothing(o) == UNCHANGED <<sys, mem>>

\* What the weak persistent handle of a collected object does.
Finalize(o) ==
  CASE heap[o].kind = "instance" ->
         sys' = MojoClose(sys, heap[o].handle).s /\ UNCHANGED mem
    [] heap[o].kind \in {"array", "mapping"} -> mem' = mem \ {o} /\ UNCHANGED sys
    [] OTHER -> UNCHANGED <<sys, mem>>

\* Objects a running native or a result list refers to.
InUse(o) ==
  \/ o \in acquired
  \/ \E i \in Isolates : o \in {result[i].data, result[i].handles}
  \/ \E i \in Isolates : call[i].on /\ o \in {call[i].data, call[i].handles}

\* The garbage collector, at any time the Dart program has dropped the object.
Collect(o) ==
  /\ heap[o] # NoObject /\ ~InUse(o)
  /\ heap' = [heap EXCEPT ![o] = NoObject]
  /\ Finalize(o)
  /\ UNCHANGED <<written, acquired, result, call, told, ret>>

MojoHandle_RegisterFinalizer(h) ==
  /\ SomebodyIdle /\ Room(1)
  /\ IF h = MOJO_HANDLE_INVALID
       THEN SetInvalidArgumentReturn
       ELSE /\ heap' = [heap EXCEPT ![Fresh(heap)] = Object("instance", 0, h)]
            /\ ret' = "OK"
            /\ UNCHANGED <<sys, written, mem, acquired, result, call, told>>

MojoHandle_Close(h) == Calls(MojoClose(sys, h), <<>>)

MojoHandle_Wait(h, signals) ==
  \E res \in WaitResults(sys, h, signals) : Calls(Result(res, sys), <<>>)

\* Returns when the wait on one of the handles would; of no handles, when the time is up.
MojoHandle_WaitMany(hs, signals) ==
  IF \E h \in hs : ~Valid(sys, h)
    THEN \E res \in {"INVALID_ARGUMENT", "CANCELLED"} : Calls(Result(res, sys), <<>>)
    ELSE \E res \in {"DEADLINE_EXCEEDED"} \cup UNION {WaitResults(sys, h, signals) : h \in hs} :
           /\ res = "DEADLINE_EXCEEDED" =>
                \A h \in hs : WaitResults(sys, h, signals) = {"DEADLINE_EXCEEDED"}
           /\ Calls(Result(res, sys), <<>>)

--------------------------------------------------------------------------------
(* Shared buffers.                                                         *)

MojoSharedBuffer_Create ==
  RoomForEnds(sys, 1) /\ LET r == CreateBuffer(sys) IN Calls(r, r.handles)

MojoSharedBuffer_Duplicate(h) ==
  RoomForEnds(sys, 1) /\ LET r == MojoDuplicateBufferHandle(sys, h) IN Calls(r, r.handles)

MojoSharedBuffer_GetInformation(h) ==
  Calls(Result(IF IsA(sys, h, {"buffer"}) THEN "OK" ELSE "INVALID_ARGUMENT", sys), <<>>)

MojoSharedBuffer_Map(h) ==
  /\ SomebodyIdle /\ Room(1)
  /\ IF IsA(sys, h, {"buffer"})
       THEN /\ heap' = [heap EXCEPT ![Fresh(heap)] = TypedData("mapping", 1)]
            /\ mem' = mem \cup {Fresh(heap)} /\ ret' = "OK"
            /\ UNCHANGED <<sys, written, acquired, result, call, told>>
       ELSE SetInvalidArgumentReturn

--------------------------------------------------------------------------------
(* Data pipes.  Data is acquired for the duration of the call only.        *)

MojoDataPipe_Create ==
  RoomForEnds(sys, 2) /\ LET r == CreatePipe(sys, "producer", "consumer") IN Calls(r, r.handles)

MojoDataPipe_WriteData(h, n) ==
  IF n = 0 THEN SomebodyIdle /\ SetNullReturn
  ELSE Calls(MojoWriteData(sys, h, n), <<>>)

MojoDataPipe_ReadData(h, n) ==
  Calls(IF n = 0 THEN MojoQueryData(sys, h) ELSE MojoReadData(sys, h, n), <<>>)

\* External typed data of the pipe's own buffer: no finalizer.
Begin(r) ==
  /\ SomebodyIdle /\ Room(1)
  /\ sys' = r.s /\ ret' = r.res
  /\ heap' = IF r.res = "OK" THEN [heap EXCEPT ![Fresh(heap)] = TypedData("region", r.n)]
                             ELSE heap
  /\ UNCHANGED <<written, mem, acquired, result, call, told>>
MojoDataPipe_BeginWriteData(h) == Begin(MojoBeginWriteData(sys, h))
MojoDataPipe_BeginReadData(h) == Begin(MojoBeginReadData(sys, h))

MojoDataPipe_EndWriteData(h, n) == Calls(MojoEndWriteData(sys, h, n), <<>>)
MojoDataPipe_EndReadData(h, n) == Calls(MojoEndReadData(sys, h, n), <<>>)

--------------------------------------------------------------------------------
(* Message pipes.                                                          *)

MojoMessagePipe_Create ==
  RoomForEnds(sys, 2) /\ LET r == CreatePipe(sys, "message", "message") IN Calls(r, r.handles)

MojoMessagePipe_Write(h, n, hs) ==
  /\ SomebodyIdle /\ written < MaxMessages
  /\ LET r == MojoWriteMessage(sys, h, n, hs)
     IN /\ sys' = r.s /\ ret' = r.res
        /\ written' = IF r.res = "OK" THEN written + 1 ELSE written
        /\ UNCHANGED <<told, dart>>

\* An element of the list is no integer: the native returns and keeps the data acquired.
Write_BadHandle(i) ==
  /\ Idle(i) /\ Size(result[i].data) > 0
  /\ acquired' = acquired \cup {result[i].data}
  /\ ret' = "INVALID_ARGUMENT"
  /\ UNCHANGED <<sys, written, heap, mem, result, call, told>>

\* Mutant: without data the handles are not copied to the list either.
MojoMessagePipe_Read_data_only(h, bytes, n, discard) ==
  LET r == MojoReadMessage(sys, h, bytes, n, discard)
  IN RoomForHandles(sys, Len(r.got)) /\ Calls(r, IF bytes = 0 THEN <<>> ELSE r.got)

MojoMessagePipe_Read(h, bytes, n, discard) ==
  LET r == MojoReadMessage(sys, h, bytes, n, discard)
  IN RoomForHandles(sys, Len(r.got)) /\ Calls(r, r.got)

\* Mutant: data that is already there is not compared with the size of the message.
TooSmall_any(o, n) == n > 0 /\ o = Null

\* The length that acquiring yields: data that is still acquired cannot be again, and a build
\* without DCHECKs goes on with length 0.
Length(o) == IF o \in acquired THEN 0 ELSE Size(o)

TooSmall(o, n) == n > 0 /\ (o = Null \/ Length(o) < n)

\* Typed data for n bytes or handles: what the list holds if it is large enough, or external
\* data of a new array, with a finalizer that frees it.
Fitting(hp, m, o, n) ==
  IF TooSmall(o, n)
    THEN [hp |-> [hp EXCEPT ![Fresh(hp)] = TypedData("array", n)],
          mem |-> m \cup {Fresh(hp)}, o |-> Fresh(hp)]
    ELSE [hp |-> hp, mem |-> m, o |-> o]

\* The query fails: the list keeps its data.
QueryFails(i, h) ==
  LET q == MojoReadMessage(sys, h, 0, 0, FALSE)
  IN /\ Idle(i) /\ q.res \notin {"OK", "RESOURCE_EXHAUSTED"}
     /\ ret' = q.res
     /\ UNCHANGED <<sys, written, told, dart>>

\* The query gives the sizes of the message in front, and reads it if both are 0; then data
\* and handles are acquired and released for their lengths, made to fit, and acquired.
Query(i, h, discard) ==
  LET q == MojoReadMessage(sys, h, 0, 0, FALSE)
      d == Fitting(heap, mem, result[i].data, q.bytes)
      hd == Fitting(d.hp, d.mem, result[i].handles, q.handles)
      measured == {o \in {result[i].data} : q.bytes > 0}
                    \cup {o \in {result[i].handles} : q.handles > 0}
      taken == {o \in {d.o} : q.bytes > 0} \cup {o \in {hd.o} : q.handles > 0}
  IN /\ Idle(i) /\ q.res \in {"OK", "RESOURCE_EXHAUSTED"}
     /\ Room((IF TooSmall(result[i].data, q.bytes) THEN 1 ELSE 0)
               + (IF TooSmall(result[i].handles, q.handles) THEN 1 ELSE 0))
     /\ sys' = q.s
     /\ heap' = hd.hp /\ mem' = hd.mem
     /\ acquired' = (acquired \ measured) \cup taken
     /\ call' = [call EXCEPT ![i] =
                   [on |-> TRUE, h |-> h, discard |-> discard, blen |-> q.bytes,
                    hlen |-> q.handles, data |-> d.o, handles |-> hd.o]]
     /\ UNCHANGED <<written, result, told, ret>>

\* The read itself, with the sizes of the query.
Reads(i) == MojoReadMessage(sys, call[i].h, call[i].blen, call[i].hlen, call[i].discard)

\* What is released follows the sizes that the read wrote back.
Released(i) ==
  {o \in {call[i].data} : Reads(i).bytes > 0} \cup {o \in {call[i].handles} : Reads(i).handles > 0}

QueryAndRead(i) ==
  /\ call[i].on
  /\ LET r == Reads(i)
     IN /\ RoomForHandles(sys, Len(r.got))
        /\ sys' = r.s /\ ret' = r.res
        /\ told' = told \cup {r.got[k] : k \in DOMAIN r.got}
  /\ acquired' = acquired \ Released(i)
  /\ result' = [result EXCEPT ![i] = [data |-> call[i].data, handles |-> call[i].handles]]
  /\ call' = [call EXCEPT ![i] = NoCall]
  /\ UNCHANGED <<written, heap, mem>>

--------------------------------------------------------------------------------
(* The Dart program.                                                       *)

\* A new list for QueryAndRead, without data or with data of the program's own.
NewList(i) ==
  /\ Idle(i)
  /\ \/ result' = [result EXCEPT ![i] = EmptyList] /\ UNCHANGED heap
     \/ /\ Room(1)
        /\ \E n \in Sizes : heap' = [heap EXCEPT ![Fresh(heap)] =
                                             TypedData("typed", n)]
        /\ result' = [result EXCEPT ![i] = [EmptyList EXCEPT !.data = Fresh(heap)]]
  /\ UNCHANGED <<sys, written, mem, acquired, call, told, ret>>

\* Handles to call a native with: the open ones of the right kind, and the invalid one, which
\* stands for all that the system refuses.
Some(kinds) == {MOJO_HANDLE_INVALID} \cup {h \in told : IsA(sys, h, kinds)}
AnyHandle == Some({"message", "producer", "consumer", "buffer"})
HandleLists == {<<>>} \cup {<<h>> : h \in AnyHandle}   \* a message carries at most one

Next ==
  \/ CHECK_INTEGER_ARGUMENT
  \/ \E o \in Objects : Collect(o)
  \/ \E h \in AnyHandle : \/ MojoHandle_RegisterFinalizer(h) \/ MojoHandle_Close(h)
                    \/ MojoHandle_Wait(h, {"READABLE"})
  \/ \E hs \in {{}, told} : MojoHandle_WaitMany(hs, {"READABLE"})
  \/ MojoSharedBuffer_Create
  \/ \E h \in Some({"buffer"}) : \/ MojoSharedBuffer_Duplicate(h) \/ MojoSharedBuffer_Map(h)
                                \/ MojoSharedBuffer_GetInformation(h)
  \/ MojoDataPipe_Create
  \/ \E h \in Some({"producer"}), n \in 0 .. Capacity :
       \/ MojoDataPipe_BeginWriteData(h) \/ MojoDataPipe_EndWriteData(h, n)
       \/ MojoDataPipe_WriteData(h, n)
  \/ \E h \in Some({"consumer"}), n \in 0 .. Capacity :
       \/ MojoDataPipe_BeginReadData(h) \/ MojoDataPipe_EndReadData(h, n)
       \/ MojoDataPipe_ReadData(h, n)
  \/ MojoMessagePipe_Create
  \/ \E h \in Some({"message"}), n \in Sizes :
       \/ \E hs \in HandleLists : MojoMessagePipe_Write(h, n, hs)
       \/ \E k \in 0 .. 1, discard \in Flags : MojoMessagePipe_Read(h, n, k, discard)
  \/ \E i \in Isolates :
       \/ NewList(i) \/ Write_BadHandle(i) \/ QueryAndRead(i)
       \/ \E h \in Some({"message"}) :
            QueryFails(i, h) \/ \E discard \in Flags : Query(i, h, discard)

Spec == Init /\ [][Next]_vars

--------------------------------------------------------------------------------
(* Properties.                                                             *)

\* Every open handle of the process was returned to Dart by some native, so that the program
\* can close it: creating, duplicating and reading never lose a handle, whatever the other
\* isolates do to the pipe in between.
HandlesTold == \A h \in Handles : Valid(sys, h) => h \in told

\* Native memory has exactly one owner: an array or a mapping exists as long as the Dart object
\* that shows it, neither longer (the replaced buffers of QueryAndRead would leak) nor shorter
\* (Dart would read freed memory).
MemoryHasOwner == mem = {o \in Objects : heap[o].kind \in {"array", "mapping"}}

\* The sizes QueryAndRead tells the system are those of memory it holds: between the query and
\* the read, with the garbage collector and other isolates running, the data is acquired, alive
\* and at least as large as the read may write.
ReadStaysInBuffer ==
  \A i \in Isolates : call[i].on =>
    /\ call[i].blen > 0 => call[i].data \in acquired /\ heap[call[i].data].size >= call[i].blen
    /\ call[i].hlen > 0 => call[i].handles \in acquired /\ heap[call[i].handles].size >= call[i].hlen

--------------------------------------------------------------------------------
(* What the properties rest on.                                            *)

HeapObjects ==
  [kind : {"none", "typed", "array", "mapping", "region", "instance"}, size : Int, handle : Int]

CallRecords ==
  [on : {TRUE}, h : Int, discard : BOOLEAN, blen : Int, hlen : Int,
   data : Objects \cup {Null}, handles : Objects \cup {Null}]

TypeOK ==
  /\ sys \in System
  /\ heap \in [Objects -> HeapObjects]
  /\ acquired \subseteq Objects
  /\ result \in [Isolates -> [data : Objects \cup {Null}, handles : Objects \cup {Null}]]
  /\ call \in [Isolates -> CallRecords \cup {NoCall}]

\* The objects an isolate's list or its running QueryAndRead refers to.
Refs(i) ==
  {result[i].data, result[i].handles}
    \cup (IF call[i].on THEN {call[i].data, call[i].handles} ELSE {})

\* They are alive, and the objects of no other isolate.
RefsAlive == \A i \in Isolates : \A o \in Refs(i) \ {Null} : heap[o] # NoObject
RefsApart == \A i, j \in Isolates : i # j => Refs(i) \cap Refs(j) \subseteq {Null}

Inv ==
  /\ TypeOK
  /\ HandlesTold
  /\ MemoryHasOwner
  /\ RefsAlive /\ RefsApart
  /\ ReadStaysInBuffer
================================================================================
