------------------------------ MODULE Application ------------------------------
(***************************************************************************)
(* A C++ application under RunApplication(): ApplicationImplBase, its      *)
(* service providers and the services they start, which live in strong     *)
(* bindings and binding sets, all served by one run loop through the       *)
(* default async waiter of the environment.                                *)
(*                                                                         *)
(* Modules RunLoop and CppRouter have the loop and the connector in full;  *)
(* here a connector waits with at most one handler, a ready handler makes  *)
(* it read until its pipe is empty, and an error runs the handler its      *)
(* owner has set.                                                          *)
(***************************************************************************)
EXTENDS Naturals, Sequences, FiniteSets

CONSTANTS
    Providers,    \* connections other applications open
    Services,     \* requests they make for a service
    NameSets,     \* the sets of services a connection may be given
    FallbackNames,\* services the fallback service provider offers
    Kinds,        \* how services keep their requests: functions to the kinds
    MaxCalls,     \* bound: calls the clients of services make
    App, Shell, NoConn

Conns == {App, Shell} \cup Providers \cup Services

\* A StrongBinding, a BindingSet, or a StrongBindingSet.
AllKinds == {"strong", "set", "strong_set"}
SetKinds == {"set", "strong_set"}

ASSUME KindsAssumption == Kinds \subseteq [Services -> AllKinds]

ASSUME ConnsAssumption ==
    /\ IsFiniteSet(Conns)
    /\ App # Shell /\ {App, Shell} \cap (Providers \cup Services) = {}
    /\ Providers \cap Services = {}
    /\ NoConn \notin Conns
    /\ {"call", "RequestQuit"} \cap Conns = {}

VARIABLES
    conns,     \* connector -> life, async_wait_id_
    queues,    \* connector -> messages it can read
    peers,     \* connectors whose other end is open
    handlers,  \* wait id -> the connector its callback is for, or NoConn
    Kind,      \* the kinds of this behaviour's services
    loop,      \* running, quitting, destroying, gone
    at,        \* the connector in whose callback the thread is
    providers, \* service_provider_impls_
    names,     \* provider -> kinds of services added to it
    bindings,  \* bindings_ of the BindingSet and of the StrongBindingSet, by kind
    impls,     \* services whose self-owned implementation exists
    told,      \* what the shell has asked for so far
    calls,     \* number of calls made to services
    results    \* how often a result was stored in the ResultHolder

vars == <<Kind, conns, queues, peers, handlers, loop, at, providers, names, bindings, impls, told, calls, results>>

-----------------------------------------------------------------------------
(* The default async waiter: an id is the address of a RunLoopHandlerImpl, *)
(* which a later wait may get again.                                       *)

Ids == 1 .. Cardinality(Conns)
FreeId(hs) == CHOOSE id \in Ids : hs[id] = NoConn

AsyncWait(c, cs, hs) ==
    LET id == FreeId(hs)
    IN  [conns |-> [cs EXCEPT ![c].wait = id], handlers |-> [hs EXCEPT ![id] = c]]

\* The handler deletes itself before it calls back.
\* Mutant: the handler stays registered during the callback.
NotifyCallback_kept(id, hs) == hs

NotifyCallback(id, hs) == [hs EXCEPT ![id] = NoConn]

-----------------------------------------------------------------------------
(* Connectors.  Closing a pipe destroys the requests that wait in it.      *)

InPipes(C) == {s \in Providers \cup Services : \E c \in C : \E k \in DOMAIN queues[c] : queues[c][k] = s}

\* The connectors C are destroyed with their waits; so are the requests in
\* their pipes, and the requests in those.
Lost(C) == C \cup InPipes(C) \cup InPipes(InPipes(C))

Destroyed(C, cs) ==
    [c \in Conns |-> IF c \in Lost(C) THEN [life |-> "dead", wait |-> 0] ELSE cs[c]]

Cancelled(C, hs) == [id \in Ids |-> IF hs[id] \in C THEN NoConn ELSE hs[id]]

Emptied(C) == [c \in Conns |-> IF c \in Lost(C) THEN <<>> ELSE queues[c]]

Live == {c \in Conns : conns[c].life = "live"}

-----------------------------------------------------------------------------
Init ==
    /\ handlers = [id \in Ids |-> IF id = 1 THEN App ELSE NoConn]
    /\ conns = [c \in Conns |-> IF c = App THEN [life |-> "live", wait |-> 1] ELSE [life |-> "none", wait |-> 0]]
    /\ queues = [c \in Conns |-> <<>>]
    /\ peers = {App}
    /\ Kind \in Kinds
    /\ loop = "running"
    /\ at = NoConn
    /\ providers = {}
    /\ names = [p \in Providers |-> {}]
    /\ bindings = [k \in SetKinds |-> {}]
    /\ impls = {}
    /\ told = {}
    /\ calls = 0
    /\ results = 0

(***************************************************************************)
(* The other ends.  The shell initializes the application first and asks   *)
(* it to quit at most once.                                                *)
(***************************************************************************)
Send(c, m) ==
    /\ c \in peers /\ conns[c].life \in {"sent", "live"}
    /\ queues' = [queues EXCEPT ![c] = Append(@, m)]

ShellSends(m) ==
    /\ m \notin told /\ (m = Shell \/ Shell \in told)
    /\ Send(App, m)
    /\ told' = told \cup {m}
    /\ conns' = IF m = "RequestQuit" THEN conns ELSE [conns EXCEPT ![m].life = "sent"]
    /\ peers' = IF m = "RequestQuit" THEN peers ELSE peers \cup {m}
    /\ UNCHANGED <<handlers, loop, at, providers, names, bindings, impls, results, calls>>

ClientConnects(p, s) ==
    /\ conns[s].life = "none"
    /\ Send(p, s)
    /\ conns' = [conns EXCEPT ![s].life = "sent"]
    /\ peers' = peers \cup {s}
    /\ UNCHANGED <<handlers, loop, at, providers, names, bindings, impls, told, calls, results>>

ClientCalls(s) ==
    /\ calls < MaxCalls
    /\ Send(s, "call")
    /\ calls' = calls + 1
    /\ UNCHANGED <<conns, peers, handlers, loop, at, providers, names, bindings, impls, told, results>>

PeerCloses(c) ==
    /\ c \in peers
    /\ peers' = peers \ {c}
    /\ UNCHANGED <<conns, queues, handlers, loop, at, providers, names, bindings, impls, told, calls, results, calls>>

-----------------------------------------------------------------------------
(* Termination.                                                            *)

Quit == IF loop = "running" THEN "quitting" ELSE loop

\* RunApplication() takes it away before the run loop's destructor runs.
GetCurrentResultHolder == loop \in {"running", "quitting"}

TerminateApplication ==
    /\ loop' = Quit
    /\ results' = IF GetCurrentResultHolder THEN results + 1 ELSE results

\* What an error handler leaves: the connectors C are gone with their owners.
Release(C, cs, hs) ==
    /\ conns' = Destroyed(C, cs)
    /\ handlers' = Cancelled(Lost(C), hs)
    /\ queues' = Emptied(C)

\* No binding is twice in a set's vector, and nobody asks for their order.
Erase(set, s) == set \ {s}

\* StrongBinding::OnConnectionError
OnConnectionError(s) == impls \ {s}

\* A service's error handler: the binding goes, and with it its
\* implementation if that is its own.
\* Mutant: the StrongBindingSet forgets to erase the binding.
ServiceGone_kept(s, cs, hs) ==
    /\ Release({s}, cs, hs)
    /\ impls' = OnConnectionError(s)
    /\ bindings' = [bindings EXCEPT !["set"] = Erase(@, s)]

ServiceGone(s, cs, hs) ==
    /\ Release({s}, cs, hs)
    /\ impls' = OnConnectionError(s)
    /\ bindings' = [k \in SetKinds |-> Erase(bindings[k], s)]

\* The error handler of shell_.
\* Mutant: the connections are dropped but the application goes on.
ShellGone_goes_on(cs, hs) ==
    /\ Release(providers, cs, hs)
    /\ providers' = {}
    /\ UNCHANGED <<loop, results>>

ShellGone(cs, hs) ==
    /\ Release(providers, cs, hs)
    /\ providers' = {}
    /\ TerminateApplication

\* Connector::NotifyError and the connection error handler.
NotifyError(c, hs) ==
    LET cs == [conns EXCEPT ![c] = [life |-> "error", wait |-> 0]]
    IN  \/ /\ c = App \/ c \in Providers
           /\ Release({}, cs, hs)
           /\ UNCHANGED <<providers, bindings, impls, loop, results>>
        \/ /\ c = Shell
           /\ ShellGone(cs, hs)
           /\ UNCHANGED <<bindings, impls>>
        \/ /\ c \in Services
           /\ ServiceGone(c, cs, hs)
           /\ UNCHANGED <<providers, loop, results>>

-----------------------------------------------------------------------------
(* The run loop and the connectors' callbacks.                             *)

\* A pipe with messages, or without a peer, is ready.
HandleReady(id) ==
    LET c == handlers[id]
    IN  /\ loop = "running" /\ at = NoConn /\ c # NoConn
        /\ queues[c] # <<>>
        /\ handlers' = NotifyCallback(id, handlers)
        /\ conns' = [conns EXCEPT ![c].wait = 0]
        /\ at' = c
        /\ UNCHANGED <<queues, peers, loop, providers, names, bindings, impls, told, calls, results>>

HandleError(id) ==
    LET c == handlers[id]
    IN  /\ at = NoConn /\ c # NoConn
        /\ \/ loop = "running" /\ queues[c] = <<>> /\ c \notin peers
           \/ loop = "destroying"
        /\ NotifyError(c, NotifyCallback(id, handlers))
        /\ UNCHANGED <<peers, at, names, told, calls>>

WaitToReadMore ==
    LET w == AsyncWait(at, conns, handlers)
    IN  /\ at # NoConn /\ queues[at] = <<>> /\ at \in peers
        /\ conns' = w.conns /\ handlers' = w.handlers
        /\ at' = NoConn
        /\ UNCHANGED <<queues, peers, loop, providers, names, bindings, impls, told, calls, results>>

ReadFails ==
    /\ at # NoConn /\ queues[at] = <<>> /\ at \notin peers
    /\ NotifyError(at, handlers)
    /\ at' = NoConn
    /\ UNCHANGED <<peers, names, told, calls>>

LoopEnds ==
    /\ at = NoConn
    /\ loop = "quitting" \/ (loop = "running" /\ \A id \in Ids : handlers[id] = NoConn)
    /\ loop' = "destroying"
    /\ UNCHANGED <<conns, queues, peers, handlers, at, providers, names, bindings, impls, told, calls, results>>

LoopDestroyed ==
    /\ loop = "destroying" /\ \A id \in Ids : handlers[id] = NoConn
    /\ loop' = "gone"
    /\ UNCHANGED <<conns, queues, peers, handlers, at, providers, names, bindings, impls, told, calls, results, calls>>

-----------------------------------------------------------------------------
(* Messages.                                                               *)

Bound(c) ==
    LET w == AsyncWait(c, [conns EXCEPT ![c].life = "live"], handlers)
    IN  conns' = w.conns /\ handlers' = w.handlers

Reads(c, m) == at = c /\ queues[c] # <<>> /\ Head(queues[c]) = m

Consumed == [queues EXCEPT ![at] = Tail(@)]

Initialize ==
    /\ Reads(App, Shell)
    /\ Bound(Shell)
    /\ queues' = Consumed
    /\ UNCHANGED <<peers, loop, at, providers, names, bindings, impls, told, calls, results>>

AddService(p, ks) == [names EXCEPT ![p] = @ \cup ks]

\* OnAcceptConnection returns true, having added services, or false.
AcceptConnection(p) ==
    /\ Reads(App, p)
    /\ \/ /\ Bound(p)
          /\ \E ks \in NameSets : names' = AddService(p, ks)
          /\ providers' = providers \cup {p}
          /\ queues' = Consumed
       \/ /\ conns' = Destroyed({p}, conns)
          /\ queues' = [Emptied({p}) EXCEPT ![at] = Tail(@)]
          /\ UNCHANGED <<handlers, providers, names>>
    /\ UNCHANGED <<peers, loop, at, bindings, impls, told, calls, results>>

RequestQuit ==
    /\ Reads(App, "RequestQuit")
    /\ TerminateApplication
    /\ queues' = Consumed
    /\ UNCHANGED <<conns, peers, handlers, at, providers, names, bindings, impls, told, calls>>

\* ServiceProviderImpl::ConnectToService: the handler for the name takes the
\* request, or the request is dropped and its pipe closed.
AddBinding(s) ==
    IF Kind[s] = "strong" THEN bindings ELSE [bindings EXCEPT ![Kind[s]] = @ \cup {s}]

\* The request handler of a self-owned service: new Impl(request).
NewImpl(s) == IF Kind[s] = "set" THEN impls ELSE impls \cup {s}

\* A ServiceConnectorImpl hands the request to the handler.
TakesRequest(s) ==
    /\ Bound(s)
    /\ bindings' = AddBinding(s)
    /\ impls' = NewImpl(s)

Offered(p) == names[p] \cup FallbackNames

ConnectToService(s) ==
    /\ at \in Providers /\ Reads(at, s)
    /\ \/ /\ Kind[s] \in Offered(at)
          /\ TakesRequest(s)
          /\ queues' = Consumed
       \/ /\ Kind[s] \notin Offered(at)
          /\ conns' = Destroyed({s}, conns)
          /\ queues' = [Emptied({s}) EXCEPT ![at] = Tail(@)]
          /\ UNCHANGED <<handlers, bindings, impls>>
    /\ UNCHANGED <<peers, loop, at, providers, names, told, calls, results>>

\* A call a service implementation just executes.
Called ==
    /\ at \in Services /\ Reads(at, "call")
    /\ queues' = Consumed
    /\ UNCHANGED <<conns, peers, handlers, loop, at, providers, names, bindings, impls, told, calls, results>>

\* A call in which the application withdraws a service from a connection.
RemoveServiceForName(p, k) ==
    /\ at \in Services /\ Reads(at, "call")
    /\ k \in names[p]
    /\ names' = [names EXCEPT ![p] = @ \ {k}]
    /\ queues' = Consumed
    /\ UNCHANGED <<conns, peers, handlers, loop, at, providers, bindings, impls, told, calls, results>>

\* A call in which a self-owned implementation deletes itself; one in a
\* StrongBindingSet first has its binding removed.
RemoveBindings(s) == [bindings EXCEPT !["strong_set"] = Erase(@, s)]

DeletesItself ==
    /\ at \in impls /\ Reads(at, "call")
    /\ Release({at}, conns, handlers)
    /\ impls' = impls \ {at}
    /\ bindings' = RemoveBindings(at)
    /\ at' = NoConn
    /\ UNCHANGED <<peers, loop, providers, names, told, calls, results>>

\* The application object follows its run loop: ~ApplicationImplBase, and
\* the destructors of the sets, which call CloseAllBindings.
CloseAllBindings == [k \in SetKinds |-> {}]

SetMembers == {s \in Services : \E k \in SetKinds : s \in bindings[k]}

ApplicationDestroyed ==
    /\ loop = "gone" /\ conns[App].life # "dead"
    /\ Release({App, Shell} \cup providers \cup SetMembers, conns, handlers)
    /\ providers' = {}
    /\ impls' = impls \ SetMembers
    /\ bindings' = CloseAllBindings
    /\ UNCHANGED <<peers, loop, at, names, told, calls, results>>

-----------------------------------------------------------------------------
Environment ==
    \/ \E m \in Providers \cup {Shell, "RequestQuit"} : ShellSends(m)
    \/ \E p \in Providers, s \in Services : ClientConnects(p, s)
    \/ \E s \in Services : ClientCalls(s)
    \/ \E c \in Conns : PeerCloses(c)

Dispatch ==
    \/ Initialize \/ RequestQuit \/ Called \/ DeletesItself
    \/ \E p \in Providers : AcceptConnection(p)
    \/ \E s \in Services : ConnectToService(s)
    \/ \E p \in providers, k \in AllKinds : RemoveServiceForName(p, k)

Program ==
    \/ Dispatch \/ WaitToReadMore \/ ReadFails \/ LoopEnds \/ LoopDestroyed \/ ApplicationDestroyed
    \/ \E id \in Ids : HandleReady(id) \/ HandleError(id)

Next == (Environment \/ Program) /\ UNCHANGED Kind

Spec == Init /\ [][Next]_vars

\* The thread runs as long as it can; no order of ready handles is assumed.
Fairness == WF_vars(Program /\ UNCHANGED Kind)

LiveSpec == Spec /\ Fairness

-----------------------------------------------------------------------------
(***************************************************************************)
(* A connector's async_wait_id_ is the address of a live handler whose     *)
(* callback is for that connector, every handler belongs to a connector    *)
(* that is alive and knows it, and a connector that is not being read      *)
(* always waits: no callback into a deleted object, no cancellation of     *)
(* somebody else's wait, no deaf connection.                               *)
(***************************************************************************)
WaitsMatchHandlers ==
    /\ \A c \in Conns : conns[c].wait # 0 => handlers[conns[c].wait] = c
    /\ \A id \in Ids : handlers[id] # NoConn => conns[handlers[id]] = [life |-> "live", wait |-> id]
    /\ \A c \in Live \ {at} : conns[c].wait # 0

(***************************************************************************)
(* The sets hold exactly the bindings that are alive, so the assertion of  *)
(* their error handlers cannot fail, and a self-owned implementation lives *)
(* exactly as long as its binding.                                         *)
(***************************************************************************)
ImplsLiveWithBindings ==
    /\ SetMembers = {s \in Services \cap Live : Kind[s] # "strong"}
    /\ impls = {s \in Services \cap Live : Kind[s] # "set"}

(***************************************************************************)
(* An initialized application whose shell is gone, or that was asked to    *)
(* quit, returns from RunApplication().                                    *)
(***************************************************************************)
QuitsEventually ==
    (conns[Shell].life = "live" /\ (Shell \notin peers \/ "RequestQuit" \in told)) ~> loop = "gone"

-----------------------------------------------------------------------------
(* What the invariants rest on.                                            *)

Requests == Conns \ {App}
Contents == Requests \cup {"call", "RequestQuit"}
Lives == {"none", "sent", "live", "error", "dead"}

TypeOK ==
    /\ conns \in [Conns -> [life : Lives, wait : Ids \cup {0}]]
    /\ queues \in [Conns -> Seq(Contents)]
    /\ handlers \in [Ids -> Conns \cup {NoConn}]
    /\ at \in Conns \cup {NoConn}
    /\ Kind \in [Services -> AllKinds]
    /\ providers \subseteq Providers
    /\ bindings \in [SetKinds -> SUBSET Services]

\* The connector that is being read is alive and does not wait; none is after the loop's end.
ReadsWithoutWait ==
    /\ at # NoConn => conns[at] = [life |-> "live", wait |-> 0]
    /\ loop = "gone" \/ loop = "destroying" => at = NoConn

\* A request in a pipe is that of a connector which is not bound yet, and in no other message.
RequestsSent ==
    \A c \in Conns : \A k \in DOMAIN queues[c] :
      queues[c][k] \in Requests =>
        /\ conns[queues[c][k]].life = "sent"
        /\ queues[c][k] = Shell => c = App
        /\ \A d \in Conns : \A j \in DOMAIN queues[d] :
             queues[d][j] = queues[c][k] => d = c /\ j = k

\* What the shell has not mentioned is neither in a message nor bound, and what has become a
\* service provider is in no message.
TellsFirst ==
    /\ \A m \in Providers \cup {Shell} : m \notin told => conns[m].life \notin {"sent", "live"}
    /\ \A p \in providers : p \in told /\ conns[p].life # "sent"

\* The bindings by the set they are in.
BindingsByKind ==
    /\ \A k \in SetKinds : bindings[k] = {s \in Services \cap Live : Kind[s] = k}
    /\ impls = {s \in Services \cap Live : Kind[s] # "set"}

Inv ==
    /\ TypeOK
    /\ WaitsMatchHandlers /\ ReadsWithoutWait
    /\ RequestsSent /\ TellsFirst
    /\ BindingsByKind
=============================================================================
