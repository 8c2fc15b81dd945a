------------------------------ MODULE Thunks ------------------------------
(***************************************************************************)
(* How an application reaches the system calls it is not linked with.       *)
(*                                                                          *)
(* Natively the application is a shared library (DSO).  For each API it     *)
(* holds an empty table of function pointers; the embedder that loads the   *)
(* library passes its own table to MojoSet...Thunks, which copies it.       *)
(* Embedder and library are built from different versions of the header;    *)
(* the table "can only have new functions added to the end".                *)
(*                                                                          *)
(* Under NaCl the first call of a process asks the runtime for the table    *)
(* (nacl_interface_query) and remembers in a flag, without a lock, that it  *)
(* has it; several threads may make that first call.                        *)
(*                                                                          *)
(* The tables share nothing, so a behaviour is that of one of them.         *)
(* Stores are taken to be seen by other threads in program order.           *)
(***************************************************************************)
EXTENDS Integers, Sequences, SequencesExt, TLC

CONSTANTS Threads,      \* the threads of the application
          NoEntry       \* a null function pointer

VARIABLES
  lib,        \* the API the behaviour is about
  embedder,   \* entries of the table in the embedder's, or the runtime's, header
  client,     \* entries of the table in the application's header
  table,      \* the application's table, g_thunks or g_irt_...
  valid,      \* g_irt_..._valid
  process,    \* "new", "running", "refused" by the loader or "aborted"
  pc,         \* where each thread is: "idle", "query", "check", "call"
  copied      \* entries the runtime has written in a thread's query

vars == <<lib, embedder, client, table, valid, process, pc, copied>>

----------------------------------------------------------------------------
\* The system calls of a native application

\* The struct's fields, in their order.
MojoSystemThunks ==
  << "GetTimeTicksNow", "Close", "Wait", "WaitMany", "CreateMessagePipe",
     "WriteMessage", "ReadMessage", "CreateDataPipe", "WriteData",
     "BeginWriteData", "EndWriteData", "ReadData", "BeginReadData",
     "EndReadData", "CreateSharedBuffer", "DuplicateBufferHandle", "MapBuffer",
     "UnmapBuffer", "GetBufferInformation", "SetDataPipeConsumerOptions",
     "GetDataPipeConsumerOptions", "SetDataPipeProducerOptions",
     "GetDataPipeProducerOptions", "GetRights",
     "DuplicateHandleWithReducedRights", "DuplicateHandle",
     "ReplaceHandleWithReducedRights", "CreateWaitSet", "WaitSetAdd",
     "WaitSetRemove", "WaitSetWait" >>

\* The functions the embedder puts there, in the order it lists them.
MojoMakeSystemThunks ==
  << "MojoGetTimeTicksNow", "MojoClose", "MojoWait", "MojoWaitMany",
     "MojoCreateMessagePipe", "MojoWriteMessage", "MojoReadMessage",
     "MojoCreateDataPipe", "MojoWriteData", "MojoBeginWriteData",
     "MojoEndWriteData", "MojoReadData", "MojoBeginReadData",
     "MojoEndReadData", "MojoCreateSharedBuffer", "MojoDuplicateBufferHandle",
     "MojoMapBuffer", "MojoUnmapBuffer", "MojoGetBufferInformation",
     "MojoSetDataPipeConsumerOptions", "MojoGetDataPipeConsumerOptions",
     "MojoSetDataPipeProducerOptions", "MojoGetDataPipeProducerOptions",
     "MojoGetRights", "MojoDuplicateHandleWithReducedRights",
     "MojoDuplicateHandle", "MojoReplaceHandleWithReducedRights",
     "MojoCreateWaitSet", "MojoWaitSetAdd", "MojoWaitSetRemove",
     "MojoWaitSetWait" >>

\* The functions of the application, each with the entry it asserts and calls.
HandleThunks ==
  [ MojoGetTimeTicksNow |-> "GetTimeTicksNow",
    MojoClose |-> "Close",
    MojoGetRights |-> "GetRights",
    MojoReplaceHandleWithReducedRights |-> "ReplaceHandleWithReducedRights",
    MojoDuplicateHandleWithReducedRights |-> "DuplicateHandleWithReducedRights",
    MojoDuplicateHandle |-> "DuplicateHandle",
    MojoWait |-> "Wait",
    MojoWaitMany |-> "WaitMany" ]

MessagePipeThunks ==
  [ MojoCreateMessagePipe |-> "CreateMessagePipe",
    MojoWriteMessage |-> "WriteMessage",
    MojoReadMessage |-> "ReadMessage" ]

DataPipeThunks ==
  [ MojoCreateDataPipe |-> "CreateDataPipe",
    MojoSetDataPipeProducerOptions |-> "SetDataPipeProducerOptions",
    MojoGetDataPipeProducerOptions |-> "GetDataPipeProducerOptions",
    MojoWriteData |-> "WriteData",
    MojoBeginWriteData |-> "BeginWriteData",
    MojoEndWriteData |-> "EndWriteData",
    MojoSetDataPipeConsumerOptions |-> "SetDataPipeConsumerOptions",
    MojoGetDataPipeConsumerOptions |-> "GetDataPipeConsumerOptions",
    MojoReadData |-> "ReadData",
    MojoBeginReadData |-> "BeginReadData",
    MojoEndReadData |-> "EndReadData" ]

BufferThunks ==
  [ MojoCreateSharedBuffer |-> "CreateSharedBuffer",
    MojoDuplicateBufferHandle |-> "DuplicateBufferHandle",
    MojoGetBufferInformation |-> "GetBufferInformation",
    MojoMapBuffer |-> "MapBuffer",
    MojoUnmapBuffer |-> "UnmapBuffer" ]

WaitSetThunks ==
  [ MojoCreateWaitSet |-> "CreateWaitSet",
    MojoWaitSetAdd |-> "WaitSetAdd",
    MojoWaitSetRemove |-> "WaitSetRemove",
    MojoWaitSetWait |-> "WaitSetWait" ]

SystemLibrary ==
  [ fields |-> MojoSystemThunks, made |-> MojoMakeSystemThunks,
    calls |-> HandleThunks @@ MessagePipeThunks @@ DataPipeThunks
                @@ BufferThunks @@ WaitSetThunks ]

----------------------------------------------------------------------------
\* The other native tables

MGLThunks ==
  << "MGLCreateContext", "MGLDestroyContext", "MGLMakeCurrent",
     "MGLGetCurrentContext", "MGLGetProcAddress" >>

MojoMakeMGLThunks ==
  << "MGLCreateContext", "MGLDestroyContext", "MGLMakeCurrent",
     "MGLGetCurrentContext", "MGLGetProcAddress" >>

MGLLibrary ==
  [ fields |-> MGLThunks, made |-> MojoMakeMGLThunks,
    calls |-> [ MGLCreateContext |-> "MGLCreateContext",
                MGLDestroyContext |-> "MGLDestroyContext",
                MGLMakeCurrent |-> "MGLMakeCurrent",
                MGLGetCurrentContext |-> "MGLGetCurrentContext",
                MGLGetProcAddress |-> "MGLGetProcAddress" ] ]

MGLOnscreenThunks == << "MGLResizeSurface", "MGLSwapBuffers" >>

MojoMakeMGLOnscreenThunks == << "MGLResizeSurface", "MGLSwapBuffers" >>

OnscreenLibrary ==
  [ fields |-> MGLOnscreenThunks, made |-> MojoMakeMGLOnscreenThunks,
    calls |-> [ MGLResizeSurface |-> "MGLResizeSurface",
                MGLSwapBuffers |-> "MGLSwapBuffers" ] ]

MGLSignalSyncPointThunks == << "MGLSignalSyncPoint" >>

MojoMakeMGLSignalSyncPointThunks == << "MGLSignalSyncPoint" >>

SyncPointLibrary ==
  [ fields |-> MGLSignalSyncPointThunks, made |-> MojoMakeMGLSignalSyncPointThunks,
    calls |-> [ MGLSignalSyncPoint |-> "MGLSignalSyncPoint" ] ]

MGLEchoThunks == << "MGLEcho" >>

MojoMakeMGLEchoThunks == << "MGLEcho" >>

EchoLibrary ==
  [ fields |-> MGLEchoThunks, made |-> MojoMakeMGLEchoThunks,
    calls |-> [ MGLEcho |-> "MGLEcho" ] ]

MojoPlatformHandlePrivateThunks ==
  << "CreatePlatformHandleWrapper", "ExtractPlatformHandle" >>

MojoMakePlatformHandlePrivateThunks ==
  << "MojoCreatePlatformHandleWrapper", "MojoExtractPlatformHandle" >>

PlatformHandleLibrary ==
  [ fields |-> MojoPlatformHandlePrivateThunks,
    made |-> MojoMakePlatformHandlePrivateThunks,
    calls |-> [ MojoCreatePlatformHandleWrapper |-> "CreatePlatformHandleWrapper",
                MojoExtractPlatformHandle |-> "ExtractPlatformHandle" ] ]

----------------------------------------------------------------------------
\* The GLES2 extensions.  A table's fields, the embedder's list and the functions
\* of the application are all made from one list of visited calls, which the
\* tables name without the prefix of the functions.
VisitedLibrary(visited) ==
  [ fields |-> visited, made |-> visited, calls |-> [f \in ToSet(visited) |-> f] ]

CHROMIUMBindUniformLocationThunks == << "BindUniformLocationCHROMIUM" >>
CHROMIUMBindUniformLocationLibrary == VisitedLibrary(CHROMIUMBindUniformLocationThunks)

CHROMIUMMapSubThunks ==
  << "MapBufferSubDataCHROMIUM", "UnmapBufferSubDataCHROMIUM",
     "MapTexSubImage2DCHROMIUM", "UnmapTexSubImage2DCHROMIUM" >>
CHROMIUMMapSubLibrary == VisitedLibrary(CHROMIUMMapSubThunks)

CHROMIUMMiscellaneousThunks == << "ShallowFlushCHROMIUM" >>
CHROMIUMMiscellaneousLibrary == VisitedLibrary(CHROMIUMMiscellaneousThunks)

CHROMIUMResizeThunks == << "ResizeCHROMIUM" >>
CHROMIUMResizeLibrary == VisitedLibrary(CHROMIUMResizeThunks)

CHROMIUMSyncPointThunks ==
  << "InsertSyncPointCHROMIUM", "WaitSyncPointCHROMIUM" >>
CHROMIUMSyncPointLibrary == VisitedLibrary(CHROMIUMSyncPointThunks)

CHROMIUMTextureMailboxThunks ==
  << "GenMailboxCHROMIUM", "ProduceTextureCHROMIUM",
     "ProduceTextureDirectCHROMIUM", "ConsumeTextureCHROMIUM",
     "CreateAndConsumeTextureCHROMIUM" >>
CHROMIUMTextureMailboxLibrary == VisitedLibrary(CHROMIUMTextureMailboxThunks)

EXTDebugMarkerThunks ==
  << "InsertEventMarkerEXT", "PushGroupMarkerEXT", "PopGroupMarkerEXT" >>
EXTDebugMarkerLibrary == VisitedLibrary(EXTDebugMarkerThunks)

EXTDiscardFramebufferThunks == << "DiscardFramebufferEXT" >>
EXTDiscardFramebufferLibrary == VisitedLibrary(EXTDiscardFramebufferThunks)

EXTMultisampledRenderToTextureThunks ==
  << "RenderbufferStorageMultisampleEXT",
     "FramebufferTexture2DMultisampleEXT" >>
EXTMultisampledRenderToTextureLibrary == VisitedLibrary(EXTMultisampledRenderToTextureThunks)

EXTOcclusionQueryThunks ==
  << "GenQueriesEXT", "DeleteQueriesEXT", "IsQueryEXT",
     "BeginQueryEXT", "EndQueryEXT", "GetQueryivEXT",
     "GetQueryObjectuivEXT" >>
EXTOcclusionQueryLibrary == VisitedLibrary(EXTOcclusionQueryThunks)

EXTTextureStorageThunks == << "TexStorage2DEXT" >>
EXTTextureStorageLibrary == VisitedLibrary(EXTTextureStorageThunks)

KHRBlendEquationAdvancedThunks == << "BlendBarrierKHR" >>
KHRBlendEquationAdvancedLibrary == VisitedLibrary(KHRBlendEquationAdvancedThunks)

OESVertexArrayObjectThunks ==
  << "GenVertexArraysOES", "DeleteVertexArraysOES",
     "IsVertexArrayOES", "BindVertexArrayOES" >>
OESVertexArrayObjectLibrary == VisitedLibrary(OESVertexArrayObjectThunks)

----------------------------------------------------------------------------
\* The interfaces of the NaCl runtime.  There the entries have the names of
\* the functions, and the runtime fills in each by its name.

nacl_irt_mojo ==
  << "_MojoGetInitialHandle", "MojoGetTimeTicksNow", "MojoClose",
     "MojoGetRights", "MojoReplaceHandleWithReducedRights",
     "MojoDuplicateHandleWithReducedRights", "MojoDuplicateHandle", "MojoWait",
     "MojoWaitMany", "MojoCreateMessagePipe", "MojoWriteMessage",
     "MojoReadMessage", "MojoCreateDataPipe", "MojoSetDataPipeProducerOptions",
     "MojoGetDataPipeProducerOptions", "MojoWriteData", "MojoBeginWriteData",
     "MojoEndWriteData", "MojoSetDataPipeConsumerOptions",
     "MojoGetDataPipeConsumerOptions", "MojoReadData", "MojoBeginReadData",
     "MojoEndReadData", "MojoCreateSharedBuffer", "MojoDuplicateBufferHandle",
     "MojoGetBufferInformation", "MojoMapBuffer", "MojoUnmapBuffer",
     "MojoCreateWaitSet", "MojoWaitSetAdd", "MojoWaitSetRemove",
     "MojoWaitSetWait" >>

\* The functions of libmojo.cc, each calling the entry of its name.
NaclHandleCalls ==
  { "_MojoGetInitialHandle", "MojoGetTimeTicksNow", "MojoClose", "MojoGetRights",
    "MojoReplaceHandleWithReducedRights", "MojoDuplicateHandleWithReducedRights",
    "MojoDuplicateHandle", "MojoWait", "MojoWaitMany" }

NaclMessagePipeCalls ==
  { "MojoCreateMessagePipe", "MojoWriteMessage", "MojoReadMessage" }

NaclDataPipeCalls ==
  { "MojoCreateDataPipe", "MojoSetDataPipeProducerOptions",
    "MojoGetDataPipeProducerOptions", "MojoWriteData", "MojoBeginWriteData",
    "MojoEndWriteData", "MojoSetDataPipeConsumerOptions",
    "MojoGetDataPipeConsumerOptions", "MojoReadData", "MojoBeginReadData",
    "MojoEndReadData" }

NaclBufferCalls ==
  { "MojoCreateSharedBuffer", "MojoDuplicateBufferHandle",
    "MojoGetBufferInformation", "MojoMapBuffer", "MojoUnmapBuffer" }

NaclWaitSetCalls ==
  { "MojoCreateWaitSet", "MojoWaitSetAdd", "MojoWaitSetRemove", "MojoWaitSetWait" }

ByName(functions) == [f \in functions |-> f]

\* Without the interface a system call aborts the process; an MGL call returns
\* a default or does nothing.
NaclLibrary(fields, calls, missing) ==
  [fields |-> fields, made |-> fields, calls |-> ByName(calls), missing |-> missing]

MojoIrt ==
  NaclLibrary(nacl_irt_mojo,
              NaclHandleCalls \cup NaclMessagePipeCalls \cup NaclDataPipeCalls
                \cup NaclBufferCalls \cup NaclWaitSetCalls,
              "aborted")

nacl_irt_mgl ==
  << "MGLCreateContext", "MGLDestroyContext", "MGLMakeCurrent",
     "MGLGetCurrentContext", "MGLGetProcAddress" >>

nacl_irt_mgl_onscreen == << "MGLResizeSurface", "MGLSwapBuffers" >>

nacl_irt_mgl_signal_sync_point == << "MGLSignalSyncPoint" >>

NaclMGLCalls ==
  { "MGLCreateContext", "MGLDestroyContext", "MGLMakeCurrent",
    "MGLGetCurrentContext", "MGLGetProcAddress" }

NaclOnscreenCalls == { "MGLResizeSurface", "MGLSwapBuffers" }

NaclSyncPointCalls == { "MGLSignalSyncPoint" }

GetIrtMGL == NaclLibrary(nacl_irt_mgl, NaclMGLCalls, "running")

GetIrtMGLOnScreen == NaclLibrary(nacl_irt_mgl_onscreen, NaclOnscreenCalls, "running")

GetIrtMGLSignalSyncPoint ==
  NaclLibrary(nacl_irt_mgl_signal_sync_point, NaclSyncPointCalls, "running")

----------------------------------------------------------------------------
ExtensionLibraries ==
  { CHROMIUMBindUniformLocationLibrary, CHROMIUMMapSubLibrary,
    CHROMIUMMiscellaneousLibrary, CHROMIUMResizeLibrary,
    CHROMIUMSyncPointLibrary, CHROMIUMTextureMailboxLibrary,
    EXTDebugMarkerLibrary, EXTDiscardFramebufferLibrary,
    EXTMultisampledRenderToTextureLibrary, EXTOcclusionQueryLibrary,
    EXTTextureStorageLibrary, KHRBlendEquationAdvancedLibrary,
    OESVertexArrayObjectLibrary }

NativeLibraries ==
  { SystemLibrary, MGLLibrary, OnscreenLibrary, SyncPointLibrary, EchoLibrary,
    PlatformHandleLibrary }
  \cup ExtensionLibraries

NaclLibraries == { MojoIrt, GetIrtMGL, GetIrtMGLOnScreen, GetIrtMGLSignalSyncPoint }

Native == lib \in NativeLibraries

\* A table in a version of its header: this one, one with the last entry not
\* yet added, or one with another entry after it.
InVersion(entries, size) ==
  IF size <= Len(entries) THEN SubSeq(entries, 1, size) ELSE Append(entries, "added")

Sizes(entries) == ((Len(entries) - 1) .. (Len(entries) + 1)) \ {0}

\* What the embedder or the runtime offers.
Offered == InVersion(lib.made, embedder)

\* The functions an application of this version can call, and where in the
\* table each finds its entry.
Callable == [f \in { g \in DOMAIN lib.calls : \E i \in 1 .. client :
                       i <= Len(lib.fields) /\ lib.fields[i] = lib.calls[g] } |->
               CHOOSE i \in DOMAIN lib.fields : lib.fields[i] = lib.calls[f]]

Init ==
  /\ lib \in NativeLibraries \cup NaclLibraries
  /\ embedder \in Sizes(lib.fields)
  /\ client \in Sizes(lib.fields)
  /\ table = [i \in 1 .. client |-> NoEntry]
  /\ valid = FALSE
  /\ process = "new"
  /\ pc = [t \in Threads |-> "idle"]
  /\ copied = [t \in Threads |-> 0]

----------------------------------------------------------------------------
\* Native

\* MojoSet...Thunks: the table it leaves and the size it returns.
MojoSetSystemThunks_exact(offered) ==  \* Mutant: takes only a table of its own size
  [table |-> IF Len(offered) = client THEN SubSeq(offered, 1, client) ELSE table,
   returned |-> client]

MojoSetSystemThunks(offered) ==
  [table |-> IF Len(offered) >= client THEN SubSeq(offered, 1, client) ELSE table,
   returned |-> client]

\* An embedder gives the library its table before it runs any of its code and
\* gives up when the library expects a larger one.
Load ==
  /\ process = "new"
  /\ Native
  /\ LET set == MojoSetSystemThunks(Offered)
     IN /\ table' = set.table
        /\ process' = IF set.returned > embedder THEN "refused" ELSE "running"
  /\ UNCHANGED <<lib, embedder, client, valid, pc, copied>>

\* The Python modules' loader: the size the library expects is not looked at.
SetSystemThunks ==
  /\ process = "new"
  /\ lib = SystemLibrary
  /\ table' = MojoSetSystemThunks(Offered).table
  /\ process' = "running"
  /\ UNCHANGED <<lib, embedder, client, valid, pc, copied>>

----------------------------------------------------------------------------
\* NaCl

\* The runtime starts the program, which has no tables.
Start ==
  /\ process = "new"
  /\ ~Native
  /\ process' = "running"
  /\ UNCHANGED <<lib, embedder, client, table, valid, pc, copied>>

\* The test of the flag, at the start of every function.
TestValid(t) ==
  /\ ~Native
  /\ pc' = [pc EXCEPT ![t] = IF valid THEN "call" ELSE "query"]
  /\ UNCHANGED <<lib, embedder, client, table, valid, process, copied>>

\* nacl_interface_query: a table that fits is written, one entry after the
\* other.
QueryEntry(t) ==
  /\ pc[t] = "query"
  /\ embedder <= client
  /\ copied[t] < embedder
  /\ copied' = [copied EXCEPT ![t] = @ + 1]
  /\ table' = [table EXCEPT ![copied[t] + 1] = Offered[copied[t] + 1]]
  /\ UNCHANGED <<lib, embedder, client, valid, process, pc>>

QueryReturns(t) ==
  /\ pc[t] = "query"
  /\ embedder > client \/ copied[t] = embedder
  /\ pc' = [pc EXCEPT ![t] = "check"]
  /\ UNCHANGED <<lib, embedder, client, table, valid, process, copied>>

\* rc, the size of the table that was written, must be the one expected.
Interface(t) ==
  /\ pc[t] = "check"
  /\ copied' = [copied EXCEPT ![t] = 0]
  /\ IF copied[t] = client
       THEN /\ valid' = TRUE
            /\ pc' = [pc EXCEPT ![t] = "call"]
            /\ UNCHANGED process
       ELSE /\ process' = lib.missing
            /\ pc' = [pc EXCEPT ![t] = "idle"]
            /\ UNCHANGED valid
  /\ UNCHANGED <<lib, embedder, client, table>>

----------------------------------------------------------------------------
\* A thread begins a call of any of the functions; natively the entry is used
\* at once.
Begin(t) ==
  /\ pc[t] = "idle"
  /\ \/ /\ Native
        /\ pc' = [pc EXCEPT ![t] = "call"]
        /\ UNCHANGED <<lib, embedder, client, table, valid, process, copied>>
     \/ TestValid(t)

\* The call through the entry of some function, and its return.  A null entry
\* is asserted against natively, and otherwise called: either ends the process.
Call(t) ==
  /\ pc[t] = "call"
  /\ pc' = [pc EXCEPT ![t] = "idle"]
  /\ \E f \in DOMAIN Callable :
       process' = IF table[Callable[f]] = NoEntry THEN "aborted" ELSE process
  /\ UNCHANGED <<lib, embedder, client, table, valid, copied>>

Running(t) ==
  /\ process = "running"
  /\ Begin(t) \/ QueryEntry(t) \/ QueryReturns(t) \/ Interface(t) \/ Call(t)

Next == Load \/ SetSystemThunks \/ Start \/ \E t \in Threads : Running(t)

Spec == Init /\ [][Next]_vars

----------------------------------------------------------------------------
\* The Python loader went on although the library's header is the newer one:
\* the table stays as it was, without entries.
LoadedUnchecked ==
  /\ lib = SystemLibrary
  /\ embedder < client
  /\ \A i \in DOMAIN table : table[i] = NoEntry

(***************************************************************************)
(* A function that goes through the table reaches the embedder's function   *)
(* of its own name: the entry is there, the embedder listed its functions   *)
(* in the order of the fields, and that holds for headers of different      *)
(* versions, and for every thread of a NaCl program, also while another     *)
(* one is still fetching the table.  The exception is a Python program in   *)
(* an embedder older than it: its loader ignores that the table was not     *)
(* taken, and every call fails on a null entry; none reaches another        *)
(* function.                                                                *)
(***************************************************************************)
CallsReachNamesake ==
  \A t \in Threads : pc[t] = "call" /\ process = "running" =>
    (\A f \in DOMAIN Callable : table[Callable[f]] = f) \/ LoadedUnchecked
============================================================================
