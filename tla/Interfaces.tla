------------------------------ MODULE Interfaces ------------------------------
(***************************************************************************)
(* The C++ classes through which a program owns message pipes:             *)
(* InterfaceHandle, InterfaceRequest, InterfacePtr, Binding and            *)
(* SynchronousInterfacePtr, the proxies and stubs of the generated code    *)
(* and the control messages about versions.  An end of a pipe is moved     *)
(* from variable to variable, into routers, into messages and back out of  *)
(* them; a pointer's version follows its pipe.                             *)
(*                                                                         *)
(* The router appears as its owners see it: one step per message it sends  *)
(* or dispatches.  What may happen during a dispatch is module CppRouter.  *)
(***************************************************************************)
EXTENDS Naturals, Sequences, FiniteSets

CONSTANTS
    Ptrs,           \* the program's InterfacePtr variables
    Infos,          \* its InterfaceHandle variables
    Requests,       \* its InterfaceRequest variables
    Bindings,       \* its Binding objects
    MaxPipes,       \* bound: pipes created in a behaviour
    MaxMessages,    \* bound: messages sent by clients in a behaviour
    MaxTogether,    \* bound: pipes created and messages sent, together
    Versions        \* versions RequireVersion is called with

Pipes == 1 .. MaxPipes
Ends == Pipes \X {0, 1}
NoEnd == <<0, 0>>
Peer(e) == <<e[1], 1 - e[2]>>

(***************************************************************************)
(* Interface::Version_ where the second end of a pipe is served: the odd   *)
(* pipes lead to processes built from a newer interface.                   *)
(***************************************************************************)
Version_(p) == p % 2

VARIABLES
    ends,      \* the system: is an end open, which messages wait there
    created,   \* number of pipes so far
    ptrs,      \* InterfacePtr -> its InterfacePtrState
    infos,     \* InterfaceHandle -> handle_ and version_
    requests,  \* InterfaceRequest -> handle_
    bindings,  \* Binding -> internal_router_
    sync,      \* a SynchronousInterfacePtr, and the call it blocks in
    sent,      \* number of messages clients have sent
    floor,     \* pipe -> highest version RequireVersion was called with
    ran,       \* pipes on which a call was executed against its floor
    orphans,   \* requests whose callback is gone or got another's answer
    misled     \* pipes whose pointer has a version that is not theirs

\* Only the properties read these.
history == <<floor, ran, orphans, misled>>
vars == <<ends, created, ptrs, infos, requests, bindings, sync, sent, history>>

-----------------------------------------------------------------------------
(* The system's pipes.  Closing an end destroys what nobody will read,     *)
(* with the ends that travel in it.                                        *)

InQueue(e, sys) == {sys[e].queue[k].handle : k \in DOMAIN sys[e].queue} \ {NoEnd}

\* A message holds at most one end, so a chain is no longer than the ends.
Doomed(E, sys) ==
    LET close[n \in 0 .. 2 * MaxPipes] ==
            IF n = 0 THEN E
            ELSE LET D == close[n - 1] IN D \cup UNION {InQueue(e, sys) : e \in D}
    IN  close[2 * MaxPipes]

CloseRaw(E, sys) ==
    IF E \subseteq {NoEnd} THEN sys
    ELSE LET D == Doomed(E \ {NoEnd}, sys)
         IN  [e \in Ends |-> IF e \in D THEN [open |-> FALSE, queue |-> <<>>] ELSE sys[e]]

CreateMessagePipe(sys) ==
    [e \in Ends |-> IF e[1] = created + 1 THEN [open |-> TRUE, queue |-> <<>>] ELSE sys[e]]

WriteMessageRaw(e, m, sys) == [sys EXCEPT ![Peer(e)].queue = Append(@, m)]

-----------------------------------------------------------------------------
(* Messages and the router.                                                *)

NoHandle == [handle |-> NoEnd, version |-> 0]

Message(kind, n) ==
    [kind |-> kind, id |-> 0, n |-> n, version |-> 0, floor |-> 0,
     carries |-> "nothing", handle |-> NoEnd]

NoRouter == [made |-> FALSE, pipe |-> NoEnd, error |-> FALSE, drop_writes |-> FALSE,
             next_request_id |-> 0, responders |-> {}]

NewRouter(e) == [NoRouter EXCEPT !.made = TRUE, !.pipe = e]

\* Mutant: the message's handles are forgotten whatever the write returned.
Accept_forgets_handles(r, m, sys, rejected) ==
    IF r.error THEN [router |-> r, sys |-> sys, ok |-> FALSE]
    ELSE IF r.drop_writes \/ ~sys[Peer(r.pipe)].open
    THEN [router |-> [r EXCEPT !.drop_writes = TRUE], sys |-> sys, ok |-> TRUE]
    ELSE IF rejected THEN [router |-> r, sys |-> sys, ok |-> FALSE]
    ELSE [router |-> r, sys |-> WriteMessageRaw(r.pipe, m, sys), ok |-> TRUE]

\* The result of Connector::Accept: the router, the system, the returned
\* value.  The system may reject a message, which leaves the pipe as it was.
\* What is not written is closed by the Message's destructor.
Accept(r, m, sys, rejected) ==
    LET unwritten == CloseRaw({m.handle}, sys)
    IN  IF r.error THEN [router |-> r, sys |-> unwritten, ok |-> FALSE]
        ELSE IF r.drop_writes \/ ~sys[Peer(r.pipe)].open
        THEN [router |-> [r EXCEPT !.drop_writes = TRUE], sys |-> unwritten, ok |-> TRUE]
        ELSE IF rejected THEN [router |-> r, sys |-> unwritten, ok |-> FALSE]
        ELSE [router |-> r, sys |-> WriteMessageRaw(r.pipe, m, sys), ok |-> TRUE]

Registered(R, id, responder) ==
    {x \in R : x.id # id} \cup {[responder EXCEPT !.id = id]}

\* Mutant: the request id is not advanced.
AcceptWithResponder_same_id(r, m, responder, sys, rejected) ==
    LET a == Accept([r EXCEPT !.next_request_id = 2], [m EXCEPT !.id = 1], sys, rejected)
    IN  [a EXCEPT !.router.responders = IF a.ok THEN Registered(@, 1, responder) ELSE @]

AcceptWithResponder(r, m, responder, sys, rejected) ==
    LET id == IF r.next_request_id = 0 THEN 1 ELSE r.next_request_id
        a  == Accept([r EXCEPT !.next_request_id = id + 1], [m EXCEPT !.id = id], sys, rejected)
    IN  [a EXCEPT !.router.responders = IF a.ok THEN Registered(@, id, responder) ELSE @]

NotifyError(r) == [r EXCEPT !.error = TRUE, !.pipe = NoEnd]

Readable(r) == r.made /\ ~r.error /\ ends[r.pipe].queue # <<>>
PeerClosed(r) == r.made /\ ~r.error /\ ends[r.pipe].queue = <<>> /\ ~ends[Peer(r.pipe)].open

Consumed(e) == [ends EXCEPT ![e].queue = Tail(@)]

-----------------------------------------------------------------------------
(* InterfacePtrState.                                                      *)

NoState == [handle |-> NoEnd, waiter |-> FALSE, version |-> 0, router |-> NoRouter]

End(s) == IF s.router.made THEN s.router.pipe ELSE s.handle

is_bound(s) == s.handle # NoEnd \/ s.router.made

StateBind(info) == [NoState EXCEPT !.handle = info.handle, !.waiter = TRUE, !.version = info.version]

ConfigureProxyIfNecessary(s) ==
    IF s.router.made \/ ~s.waiter THEN s
    ELSE [s EXCEPT !.router = NewRouter(s.handle), !.handle = NoEnd, !.waiter = FALSE]

Create(info) == IF info.handle # NoEnd THEN StateBind(info) ELSE NoState

-----------------------------------------------------------------------------
NoSync == [pipe |-> NoEnd, version |-> 0, call |-> 0]

Init ==
    /\ ends = [e \in Ends |-> [open |-> FALSE, queue |-> <<>>]]
    /\ created = 0
    /\ ptrs = [i \in Ptrs |-> NoState]
    /\ infos = [h \in Infos |-> NoHandle]
    /\ requests = [q \in Requests |-> NoEnd]
    /\ bindings = [b \in Bindings |-> NoRouter]
    /\ sync = NoSync
    /\ sent = 0
    /\ floor = [p \in Pipes |-> 0]
    /\ ran = {} /\ orphans = {} /\ misled = {}

MayCreate == created < MaxPipes /\ created + sent < MaxTogether
MaySend == sent < MaxMessages /\ created + sent < MaxTogether

NewPipe(s) == <<created + 1, s>>

\* GetProxy(&info), and GetProxy(&ptr) through Create.
GetProxy(h, q) ==
    /\ MayCreate
    /\ created' = created + 1
    /\ ends' = CreateMessagePipe(CloseRaw({infos[h].handle, requests[q]}, ends))
    /\ infos' = [infos EXCEPT ![h] = [handle |-> NewPipe(0), version |-> 0]]
    /\ requests' = [requests EXCEPT ![q] = NewPipe(1)]
    /\ UNCHANGED <<ptrs, bindings, sync, sent, history>>

GetProxyPtr(i, q) ==
    /\ MayCreate
    /\ created' = created + 1
    /\ ends' = CreateMessagePipe(CloseRaw({End(ptrs[i]), requests[q]}, ends))
    /\ ptrs' = [ptrs EXCEPT ![i] = Create([handle |-> NewPipe(0), version |-> 0])]
    /\ requests' = [requests EXCEPT ![q] = NewPipe(1)]
    /\ UNCHANGED <<infos, bindings, sync, sent, history>>

\* ptr.Bind(std::move(info)).
PtrBind(i, h) ==
    /\ ends' = CloseRaw({End(ptrs[i])}, ends)
    /\ ptrs' = [ptrs EXCEPT ![i] = Create(infos[h])]
    /\ infos' = [infos EXCEPT ![h] = NoHandle]
    /\ UNCHANGED <<created, requests, bindings, sync, sent, history>>

reset(i) ==
    /\ is_bound(ptrs[i])
    /\ ends' = CloseRaw({End(ptrs[i])}, ends)
    /\ ptrs' = [ptrs EXCEPT ![i] = NoState]
    /\ UNCHANGED <<created, infos, requests, bindings, sync, sent, history>>

Swap(s, t) == <<t, s>>

\* ptr = std::move(other): reset(), then Swap.
MoveAssign(i, j) ==
    LET swapped == Swap(NoState, ptrs[j])
    IN  /\ i # j /\ is_bound(ptrs[j])
        /\ ends' = CloseRaw({End(ptrs[i])}, ends)
        /\ ptrs' = [ptrs EXCEPT ![i] = swapped[1], ![j] = swapped[2]]
        /\ UNCHANGED <<created, infos, requests, bindings, sync, sent, history>>

\* info = ptr.PassInterfaceHandle(): the callbacks go with the router.
PassInterfaceHandle(i, h) ==
    /\ is_bound(ptrs[i])
    /\ ends' = CloseRaw({infos[h].handle}, ends)
    /\ infos' = [infos EXCEPT ![h] = [handle |-> End(ptrs[i]), version |-> ptrs[i].version]]
    /\ ptrs' = [ptrs EXCEPT ![i] = NoState]
    /\ orphans' = orphans \cup {x.n : x \in ptrs[i].router.responders}
    /\ UNCHANGED <<created, requests, bindings, sync, sent, floor, ran, misled>>

-----------------------------------------------------------------------------
(* Binding.                                                                *)

BindRequest(b, q) ==
    /\ ~bindings[b].made /\ requests[q] # NoEnd
    /\ bindings' = [bindings EXCEPT ![b] = NewRouter(requests[q])]
    /\ requests' = [requests EXCEPT ![q] = NoEnd]
    /\ UNCHANGED <<ends, created, ptrs, infos, sync, sent, history>>

\* binding.Bind(&info): a new pipe, both ends at once.
BindHandle(b, h) ==
    /\ ~bindings[b].made /\ MayCreate
    /\ created' = created + 1
    /\ ends' = CreateMessagePipe(CloseRaw({infos[h].handle}, ends))
    /\ infos' = [infos EXCEPT ![h] = [handle |-> NewPipe(0), version |-> Version_(created + 1)]]
    /\ bindings' = [bindings EXCEPT ![b] = NewRouter(NewPipe(1))]
    /\ UNCHANGED <<ptrs, requests, sync, sent, history>>

Close(b) ==
    /\ bindings[b].made
    /\ ends' = CloseRaw({bindings[b].pipe}, ends)
    /\ bindings' = [bindings EXCEPT ![b] = NoRouter]
    /\ UNCHANGED <<created, ptrs, infos, requests, sync, sent, history>>

\* request = binding.Unbind(): unread messages stay in the pipe.
Unbind(b, q) ==
    /\ bindings[b].made
    /\ ends' = CloseRaw({requests[q]}, ends)
    /\ requests' = [requests EXCEPT ![q] = bindings[b].pipe]
    /\ bindings' = [bindings EXCEPT ![b] = NoRouter]
    /\ UNCHANGED <<created, ptrs, infos, sync, sent, history>>

\* request = nullptr.
DropRequest(q) ==
    /\ requests[q] # NoEnd
    /\ ends' = CloseRaw({requests[q]}, ends)
    /\ requests' = [requests EXCEPT ![q] = NoEnd]
    /\ UNCHANGED <<created, ptrs, infos, bindings, sync, sent, history>>

\* The InterfaceHandle goes out of scope, or is assigned nullptr.
DropHandle(h) ==
    /\ infos[h].handle # NoEnd
    /\ ends' = CloseRaw({infos[h].handle}, ends)
    /\ infos' = [infos EXCEPT ![h] = NoHandle]
    /\ UNCHANGED <<created, ptrs, requests, bindings, sync, sent, history>>

-----------------------------------------------------------------------------
(* The proxy: methods and control messages.                                *)

Floor(s) == IF End(s) = NoEnd THEN 0 ELSE floor[End(s)[1]]

Method(kind, s) == [Message(kind, sent + 1) EXCEPT !.floor = Floor(s)]

\* What the state and the system are after a message was accepted or not.
Sends(i, s, a) ==
    /\ MaySend
    /\ sent' = sent + 1
    /\ ptrs' = [ptrs EXCEPT ![i] = [s EXCEPT !.router = a.router]]
    /\ ends' = a.sys

Configured(i) == ConfigureProxyIfNecessary(ptrs[i])

Call(i) ==
    LET s == Configured(i)
    IN  /\ is_bound(ptrs[i])
        /\ \E rejected \in BOOLEAN :
             Sends(i, s, Accept(s.router, Method("call", s), ends, rejected))
        /\ UNCHANGED <<created, infos, requests, bindings, sync, history>>

\* A method with an InterfaceHandle, or with an InterfaceRequest, as its
\* parameter.  Nobody sends a pipe through itself.
CallWithHandle(i, h) ==
    LET s == Configured(i)
        m == [Method("call", s) EXCEPT !.carries = "handle", !.handle = infos[h].handle,
                                       !.version = infos[h].version]
    IN  /\ is_bound(ptrs[i])
        /\ infos[h].handle # NoEnd /\ infos[h].handle[1] # End(s)[1]
        /\ \E rejected \in BOOLEAN :
             Sends(i, s, Accept(s.router, m, ends, rejected))
        /\ infos' = [infos EXCEPT ![h] = NoHandle]
        /\ UNCHANGED <<created, requests, bindings, sync, history>>

CallWithRequest(i, q) ==
    LET s == Configured(i)
        m == [Method("call", s) EXCEPT !.carries = "request", !.handle = requests[q]]
    IN  /\ is_bound(ptrs[i])
        /\ requests[q] # NoEnd /\ requests[q][1] # End(s)[1]
        /\ \E rejected \in BOOLEAN :
             Sends(i, s, Accept(s.router, m, ends, rejected))
        /\ requests' = [requests EXCEPT ![q] = NoEnd]
        /\ UNCHANGED <<created, infos, bindings, sync, history>>

\* The callback of a method knows nothing of the pointer; the one of
\* QueryVersion has captured the InterfacePtrState it was called on.
Responder(kind, i) == [kind |-> kind, id |-> 0, n |-> sent + 1, state |-> i]

CallWithCallback(i) ==
    LET s == Configured(i)
    IN  /\ is_bound(ptrs[i])
        /\ \E rejected \in BOOLEAN :
             Sends(i, s, AcceptWithResponder(s.router, Method("request", s), Responder("reply", i), ends, rejected))
        /\ UNCHANGED <<created, infos, requests, bindings, sync, history>>

QueryVersion(i) ==
    LET s == Configured(i)
    IN  /\ is_bound(ptrs[i])
        /\ \E rejected \in BOOLEAN :
             Sends(i, s, AcceptWithResponder(s.router, Method("query", s), Responder("version", i), ends, rejected))
        /\ UNCHANGED <<created, infos, requests, bindings, sync, history>>

\* The callback's wrapper stores the version in the state it captured.
CallsBack(x, version, states) ==
    IF x.kind = "version" THEN [states EXCEPT ![x.state].version = version] ELSE states

\* The version a callback finds in a response: what a response to another kind
\* of request has in its place can be anything.
VersionsIn(m) == IF m.kind = "version" THEN {m.version} ELSE Versions \cup {0}

Raised(s, v) ==
    [p \in Pipes |-> IF p = End(s)[1] /\ v > floor[p] THEN v ELSE floor[p]]

RequireMessage(s, v) == [Method("require", s) EXCEPT !.version = v]

\* Mutant: the version is noted but the other side is not told.
RequireVersion_unsent(i, v) ==
    LET s == Configured(i)
    IN  /\ is_bound(ptrs[i]) /\ MaySend
        /\ ptrs' = [ptrs EXCEPT ![i] = [s EXCEPT !.version = IF v > @ THEN v ELSE @]]
        /\ floor' = Raised(s, v)
        /\ UNCHANGED <<ends, created, infos, requests, bindings, sync, sent, ran, orphans, misled>>

\* The version is noted before the message is written, and stays when that is
\* rejected.
RequireVersion(i, v) ==
    LET s == Configured(i)
    IN  /\ is_bound(ptrs[i])
        /\ floor' = Raised(s, v)
        /\ \/ /\ v <= s.version
              /\ ptrs' = [ptrs EXCEPT ![i] = s]
              /\ UNCHANGED <<ends, sent, misled>>
           \/ /\ v > s.version
              /\ \E rejected \in BOOLEAN :
                   LET a == Accept(s.router, RequireMessage(s, v), ends, rejected)
                   IN  /\ Sends(i, [s EXCEPT !.version = v], a)
                       /\ misled' = IF a.ok THEN misled ELSE misled \cup {End(s)[1]}
        /\ UNCHANGED <<created, infos, requests, bindings, sync, ran, orphans>>

-----------------------------------------------------------------------------
(* The stub: one message read by the router of a binding.                  *)

Runs(m, p) == ran' = IF m.floor > Version_(p) THEN ran \cup {p} ELSE ran

StubAccept(b) ==
    LET r == bindings[b]
        m == Head(ends[r.pipe].queue)
    IN  /\ Readable(r) /\ m.kind = "call"
        /\ Runs(m, r.pipe[1])
        \* The implementation keeps what it is given, or drops it.
        /\ \/ /\ ends' = CloseRaw({m.handle}, Consumed(r.pipe))
              /\ UNCHANGED <<infos, requests>>
           \/ \E h \in Infos :
                /\ m.carries = "handle"
                /\ ends' = CloseRaw({infos[h].handle}, Consumed(r.pipe))
                /\ infos' = [infos EXCEPT ![h] = [handle |-> m.handle, version |-> m.version]]
                /\ UNCHANGED requests
           \/ \E q \in Requests :
                /\ m.carries = "request"
                /\ ends' = CloseRaw({requests[q]}, Consumed(r.pipe))
                /\ requests' = [requests EXCEPT ![q] = m.handle]
                /\ UNCHANGED infos
        /\ UNCHANGED <<created, ptrs, bindings, sync, sent, floor, orphans, misled>>

Replies(b, reply) ==
    LET r == bindings[b]
    IN  /\ \E rejected \in BOOLEAN :
             LET a == Accept(r, reply, Consumed(r.pipe), rejected)
             IN  /\ ends' = a.sys
                 /\ bindings' = [bindings EXCEPT ![b] = a.router]
        /\ UNCHANGED <<created, ptrs, infos, requests, sync, sent, floor, orphans, misled>>

StubAcceptWithResponder(b) ==
    LET r == bindings[b]
        m == Head(ends[r.pipe].queue)
    IN  /\ Readable(r) /\ m.kind = "request"
        /\ Runs(m, r.pipe[1])
        /\ Replies(b, [Message("reply", m.n) EXCEPT !.id = m.id])

\* ControlMessageHandler::Run
Run(b) ==
    LET r == bindings[b]
        m == Head(ends[r.pipe].queue)
    IN  /\ Readable(r) /\ m.kind = "query"
        /\ Replies(b, [Message("version", m.n) EXCEPT !.id = m.id, !.version = Version_(r.pipe[1])])
        /\ UNCHANGED ran

Supports(p, m) == Version_(p) >= m.version

\* ControlMessageHandler::RunOrClosePipe: false makes the connector fail.
RunOrClosePipe(b) ==
    LET r == bindings[b]
        m == Head(ends[r.pipe].queue)
        ok == Supports(r.pipe[1], m)
    IN  /\ Readable(r) /\ m.kind = "require"
        /\ ends' = IF ok THEN Consumed(r.pipe) ELSE CloseRaw({r.pipe}, Consumed(r.pipe))
        /\ bindings' = [bindings EXCEPT ![b] = IF ok THEN @ ELSE NotifyError(@)]
        /\ UNCHANGED <<created, ptrs, infos, requests, sync, sent, history>>

BindingError(b) ==
    /\ PeerClosed(bindings[b])
    /\ ends' = CloseRaw({bindings[b].pipe}, ends)
    /\ bindings' = [bindings EXCEPT ![b] = NotifyError(@)]
    /\ UNCHANGED <<created, ptrs, infos, requests, sync, sent, history>>

-----------------------------------------------------------------------------
(* The router of a pointer: responses and errors.                          *)

PtrError(i) ==
    /\ PeerClosed(ptrs[i].router)
    /\ ends' = CloseRaw({ptrs[i].router.pipe}, ends)
    /\ ptrs' = [ptrs EXCEPT ![i].router = NotifyError(@)]
    /\ UNCHANGED <<created, infos, requests, bindings, sync, sent, history>>

\* A response nobody waits for makes the connector fail.
HandleIncomingMessage(i) ==
    LET r == ptrs[i].router
        m == Head(ends[r.pipe].queue)
        found == {x \in r.responders : x.id = m.id}
    IN  /\ Readable(r)
        /\ \/ /\ found = {}
              /\ ends' = CloseRaw({r.pipe}, Consumed(r.pipe))
              /\ ptrs' = [ptrs EXCEPT ![i].router = NotifyError(@)]
              /\ UNCHANGED <<orphans, misled>>
           \/ \E x \in found, version \in VersionsIn(m) :
                /\ ends' = Consumed(r.pipe)
                /\ ptrs' = CallsBack(x, version, [ptrs EXCEPT ![i].router.responders = @ \ {x}])
                /\ orphans' = IF x.n = m.n THEN orphans ELSE orphans \cup {x.n}
                /\ misled' = IF x.kind = "version" /\ (x.state # i \/ x.n # m.n)
                             THEN misled \cup {End(ptrs[x.state])[1]} ELSE misled
        /\ UNCHANGED <<created, infos, requests, bindings, sync, sent, floor, ran>>

-----------------------------------------------------------------------------
(* SynchronousInterfacePtr and SynchronousConnector.                       *)

Idle == sync.call = 0

\* sync = SynchronousInterfacePtr::Create(std::move(info)).
SyncCreate(h) ==
    /\ Idle /\ infos[h].handle # NoEnd
    /\ ends' = CloseRaw({sync.pipe}, ends)
    /\ sync' = [pipe |-> infos[h].handle, version |-> infos[h].version, call |-> 0]
    /\ infos' = [infos EXCEPT ![h] = NoHandle]
    /\ UNCHANGED <<created, ptrs, requests, bindings, sent, history>>

SyncPassInterfaceHandle(h) ==
    /\ Idle /\ sync.pipe # NoEnd
    /\ ends' = CloseRaw({infos[h].handle}, ends)
    /\ infos' = [infos EXCEPT ![h] = [handle |-> sync.pipe, version |-> sync.version]]
    /\ sync' = NoSync
    /\ UNCHANGED <<created, ptrs, requests, bindings, sent, history>>

SyncMessage(kind) == [Message(kind, sent + 1) EXCEPT !.floor = floor[sync.pipe[1]]]

\* Write: the request id stays 0.  A write that fails, because the other end is
\* closed or for another reason, is the end of the call.
Write(kind) ==
    /\ Idle /\ sync.pipe # NoEnd /\ MaySend
    /\ sent' = sent + 1
    /\ \/ UNCHANGED <<ends, sync>>
       \/ /\ ends[Peer(sync.pipe)].open
          /\ ends' = WriteMessageRaw(sync.pipe, SyncMessage(kind), ends)
          /\ sync' = [sync EXCEPT !.call = IF kind = "request" THEN sent + 1 ELSE 0]
    /\ UNCHANGED <<created, ptrs, infos, requests, bindings, history>>

\* BlockingRead returns the next message, or that there will be none.
BlockingRead ==
    /\ ~Idle
    /\ \/ /\ ends[sync.pipe].queue # <<>>
          /\ ends' = Consumed(sync.pipe)
          /\ orphans' = IF Head(ends[sync.pipe].queue).n = sync.call THEN orphans
                        ELSE orphans \cup {sync.call}
       \/ /\ ends[sync.pipe].queue = <<>> /\ ~ends[Peer(sync.pipe)].open
          /\ UNCHANGED <<ends, orphans>>
    /\ sync' = [sync EXCEPT !.call = 0]
    /\ UNCHANGED <<created, ptrs, infos, requests, bindings, sent, floor, ran, misled>>

-----------------------------------------------------------------------------
Proxy(i) ==
    \/ Call(i) \/ CallWithCallback(i) \/ QueryVersion(i)
    \/ \E h \in Infos : CallWithHandle(i, h)
    \/ \E q \in Requests : CallWithRequest(i, q)
    \/ \E v \in Versions : RequireVersion(i, v)

Dispatch ==
    \/ \E b \in Bindings :
         StubAccept(b) \/ StubAcceptWithResponder(b) \/ Run(b) \/ RunOrClosePipe(b) \/ BindingError(b)
    \/ \E i \in Ptrs : HandleIncomingMessage(i) \/ PtrError(i)

Moves ==
    \/ \E i \in Ptrs, q \in Requests : GetProxyPtr(i, q)
    \/ \E i \in Ptrs, h \in Infos : PtrBind(i, h) \/ PassInterfaceHandle(i, h)
    \/ \E i, j \in Ptrs : MoveAssign(i, j)
    \/ \E i \in Ptrs : reset(i)
    \/ \E h \in Infos, q \in Requests : GetProxy(h, q)
    \/ \E b \in Bindings, q \in Requests : BindRequest(b, q) \/ Unbind(b, q)
    \/ \E b \in Bindings, h \in Infos : BindHandle(b, h)
    \/ \E b \in Bindings : Close(b)
    \/ \E q \in Requests : DropRequest(q)
    \/ \E h \in Infos : DropHandle(h)

Synchronous ==
    \/ \E h \in Infos : SyncCreate(h) \/ SyncPassInterfaceHandle(h)
    \/ \E kind \in {"call", "request"} : Write(kind)
    \/ BlockingRead

Next == (\E i \in Ptrs : Proxy(i)) \/ Dispatch \/ Moves \/ Synchronous

Spec == Init /\ [][Next]_vars

-----------------------------------------------------------------------------
(***************************************************************************)
(* Every end of a pipe is open as long as, and only as long as, exactly    *)
(* one thing owns it: a variable, a router, or a message under way.  No    *)
(* sequence of moves, binds, errors and failed writes leaks an end (its    *)
(* peer would wait for ever) or leaves it to two owners (it would be       *)
(* closed under one of them).                                              *)
(***************************************************************************)
Owners(e) ==
      Cardinality({i \in Ptrs : e \in {ptrs[i].handle, ptrs[i].router.pipe}})
    + Cardinality({h \in Infos : infos[h].handle = e})
    + Cardinality({q \in Requests : requests[q] = e})
    + Cardinality({b \in Bindings : bindings[b].pipe = e})
    + Cardinality({d \in Ends : e \in InQueue(d, ends)})
    + IF sync.pipe = e THEN 1 ELSE 0

OneOwner ==
    \A e \in Ends : Owners(e) = IF ends[e].open THEN 1 ELSE 0

(***************************************************************************)
(* A response under way to a pointer, or to a blocked synchronous call,    *)
(* is for a request of that very pointer, and its id names the callback of *)
(* that request: no callback gets the answer to another question, and no   *)
(* response breaks the connection it arrives on.  The exception are        *)
(* orphans, the responses to requests whose pipe was passed on before they *)
(* were answered: the next router on the pipe numbers its requests from 1  *)
(* again, so that such a response is taken for another's, whose own then   *)
(* is an orphan as well, or breaks the connection.                         *)
(***************************************************************************)
ResponsesFindCallers ==
    /\ \A i \in Ptrs : LET r == ptrs[i].router IN
         r.pipe # NoEnd =>
           \A k \in DOMAIN ends[r.pipe].queue :
             LET m == ends[r.pipe].queue[k]
             IN  \/ m.n \in orphans
                 \/ \E x \in r.responders : x.id = m.id /\ x.n = m.n /\ x.kind = m.kind
    /\ sync.pipe # NoEnd =>
         \A k \in DOMAIN ends[sync.pipe].queue :
           ends[sync.pipe].queue[k].n \in orphans \cup {sync.call}

(***************************************************************************)
(* interface_ptr.h: "After calling RequireVersion() with a version not     *)
(* supported by the remote side, all subsequent calls to interface methods *)
(* will be ignored", by whichever pointer the pipe has been passed to.     *)
(* The exception are pipes misled about their version: the message of an   *)
(* earlier RequireVersion was rejected by the system, or the answer to     *)
(* QueryVersion was stored in a pointer that has another pipe by now       *)
(* because the asking one was moved, or was that of an orphan.             *)
(***************************************************************************)
UnsupportedCallsIgnored == ran \subseteq misled
=============================================================================
