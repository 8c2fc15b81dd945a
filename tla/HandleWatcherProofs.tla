-------------------------- MODULE HandleWatcherProofs --------------------------
(***************************************************************************)
(* What holds of the Dart handle watcher for any handles, ports, commands  *)
(* and stopping threads, and however long it runs.                         *)
(***************************************************************************)
EXTENDS HandleWatcher, FiniteSetTheorems, WellFoundedInduction, TLAPS

--------------------------------------------------------------------------------
(* The operators of the model.                                             *)

\* Some natural numbers have a least one.
LEMMA LeastExists ==
  ASSUME NEW S \in SUBSET Nat, S # {}
  PROVE  \E x \in S : \A y \in S : x =< y
<1>1. PICK x \in S : \A y \in S : ~ (<<y, x>> \in OpToRel(<, Nat))
  BY NatLessThanWellFounded, WFMin
<1>2. \A y \in S : y < x => <<y, x>> \in OpToRel(<, Nat)
  BY DEF OpToRel
<1>3. \A y \in S : ~ (y < x)
  BY <1>1, <1>2
<1>4. x \in Nat /\ \A y \in S : y \in Nat
  OBVIOUS
<1> QED
  BY <1>3, <1>4

\* Some row numbers have a greatest one.
LEMMA GreatestExists ==
  ASSUME NEW n \in Nat, NEW S \in SUBSET (1 .. n), S # {}
  PROVE  \E x \in S : \A y \in S : y =< x
<1> DEFINE T == {n - y : y \in S}
<1>0. \A y \in S : y \in 1 .. n /\ n - y \in Nat
  OBVIOUS
<1>1. T \in SUBSET Nat /\ T # {}
  BY <1>0
<1>2. PICK z \in T : \A t \in T : z =< t
  BY <1>1, LeastExists
<1>3. PICK x \in S : z = n - x
  BY <1>2
<1>4. \A y \in S : n - x =< n - y
  BY <1>2, <1>3
<1> QED
  BY <1>3, <1>4

\* SwapRemove, as in RemoveHandleAtIndex: one entry less, the last one in its place.
LEMMA SwapRemoved ==
  ASSUME NEW S, NEW s \in Seq(S), NEW n \in 1 .. Len(s)
  PROVE  /\ SwapRemove(s, n) \in Seq(S)
         /\ Len(SwapRemove(s, n)) = Len(s) - 1
         /\ \A i \in 1 .. Len(s) - 1 :
              SwapRemove(s, n)[i] = IF i = n THEN s[Len(s)] ELSE s[i]
<1> DEFINE t == [s EXCEPT ![n] = s[Len(s)]]
<1>1. t \in Seq(S) /\ Len(t) = Len(s)
  OBVIOUS
<1>2. SwapRemove(s, n) = SubSeq(t, 1, Len(s) - 1)
  BY <1>1 DEF SwapRemove
<1>3. \A i \in 1 .. Len(s) - 1 : t[i] = IF i = n THEN s[Len(s)] ELSE s[i]
  OBVIOUS
<1> HIDE DEF t
<1> QED
  BY <1>1, <1>2, <1>3

\* The timer that is due next is one of the timers.
LEMMA NextTimerIsOne ==
  ASSUME TypeOK, timers # {}
  PROVE  NextTimer \in timers
<1> DEFINE D == {t.deadline : t \in timers}
<1>1. D \in SUBSET Nat /\ D # {}
  BY DEF TypeOK
<1>2. PICK d \in D : \A e \in D : d =< e
  BY <1>1, LeastExists
<1>3. \E t \in timers : \A u \in timers : t.deadline =< u.deadline
  BY <1>2
<1> QED
  BY <1>3 DEF NextTimer

--------------------------------------------------------------------------------
(* The vectors and the map.                                                *)

\* The map leads back from a handle to its entry, and only the control handle
\* has the first one.
LEMMA RowFacts ==
  ASSUME RowsInv
  PROVE  /\ Len(wait_many_handles) \in Nat
         /\ CONTROL_HANDLE_INDEX \in Indices
         /\ \A h \in DOMAIN handle_to_index_map :
              /\ handle_to_index_map[h] \in Indices
              /\ wait_many_handles[handle_to_index_map[h]] = h
              /\ h # ControlHandle => handle_to_index_map[h] # CONTROL_HANDLE_INDEX
         /\ \A i \in Indices \ {CONTROL_HANDLE_INDEX} : wait_many_handles[i] \in Handles
         /\ \A i, j \in Indices : wait_many_handles[i] = wait_many_handles[j] => i = j
<1> USE DEF RowsInv, ColumnsTypeOK, IndexMapAgrees, ControlFirst, Indices, CONTROL_HANDLE_INDEX
<1>1. Len(wait_many_handles) \in Nat /\ CONTROL_HANDLE_INDEX \in Indices
  OBVIOUS
<1>2. \A i, j \in Indices : wait_many_handles[i] = wait_many_handles[j] => i = j
  OBVIOUS
<1>3. \A i \in Indices : wait_many_handles[i] \in Handles \cup {ControlHandle}
  OBVIOUS
<1>4. \A i \in Indices \ {CONTROL_HANDLE_INDEX} : wait_many_handles[i] \in Handles
  BY <1>1, <1>2, <1>3
<1>5. ASSUME NEW h \in DOMAIN handle_to_index_map
      PROVE  /\ handle_to_index_map[h] \in Indices
             /\ wait_many_handles[handle_to_index_map[h]] = h
  BY <1>5
<1> QED
  BY <1>1, <1>2, <1>4, <1>5

\* One entry of every column goes, and the last one takes its place.
LEMMA RowsRemoved ==
  ASSUME RowsInv, NEW index \in Indices \ {CONTROL_HANDLE_INDEX},
         RemoveHandleAtIndex(index), bound' = bound
  PROVE  /\ RowsInv'
         /\ DOMAIN handle_to_index_map' = DOMAIN handle_to_index_map \ {wait_many_handles[index]}
         /\ Len(wait_many_handles') = Len(wait_many_handles) - 1
         /\ \A i \in 1 .. Len(wait_many_handles) - 1 :
              LET k == IF i = index THEN Len(wait_many_handles) ELSE i
              IN /\ wait_many_handles'[i] = wait_many_handles[k]
                 /\ wait_many_signals'[i] = wait_many_signals[k]
                 /\ wait_many_signals_state'[i] = wait_many_signals_state[k]
<1> USE DEF CONTROL_HANDLE_INDEX
<1>1. PICK n \in Nat : n = Len(wait_many_handles)
  BY RowFacts
<1>2. /\ index \in 2 .. n /\ Indices = 1 .. n
      /\ Len(wait_many_signals) = n /\ Len(wait_many_signals_state) = n /\ Len(handle_ports) = n
  BY <1>1 DEF Indices, RowsInv, ColumnsTypeOK
<1> DEFINE From(i) == IF i = index THEN n ELSE i
<1>3. /\ wait_many_handles' \in Seq(Handles \cup {ControlHandle})
      /\ Len(wait_many_handles') = n - 1
      /\ \A i \in 1 .. n - 1 : wait_many_handles'[i] = wait_many_handles[From(i)]
  <2>1. /\ wait_many_handles \in Seq(Handles \cup {ControlHandle}) /\ Len(wait_many_handles) = n
        /\ wait_many_handles' = SwapRemove(wait_many_handles, index)
    BY <1>1, <1>2 DEF RemoveHandleAtIndex, RowsInv, ColumnsTypeOK
  <2>2. index \in 1 .. Len(wait_many_handles)
    BY <1>2, <2>1
  <2> QED
    BY <2>1, <2>2, SwapRemoved
<1>4. /\ wait_many_signals' \in Seq(SUBSET MOJO_HANDLE_SIGNAL_ALL)
      /\ Len(wait_many_signals') = n - 1
      /\ \A i \in 1 .. n - 1 : wait_many_signals'[i] = wait_many_signals[From(i)]
  <2>1. /\ wait_many_signals \in Seq(SUBSET MOJO_HANDLE_SIGNAL_ALL) /\ Len(wait_many_signals) = n
        /\ wait_many_signals' = SwapRemove(wait_many_signals, index)
    BY <1>1, <1>2 DEF RemoveHandleAtIndex, RowsInv, ColumnsTypeOK
  <2>2. index \in 1 .. Len(wait_many_signals)
    BY <1>2, <2>1
  <2> QED
    BY <2>1, <2>2, SwapRemoved
<1>5. /\ wait_many_signals_state' \in Seq(SUBSET MOJO_HANDLE_SIGNAL_ALL)
      /\ Len(wait_many_signals_state') = n - 1
      /\ \A i \in 1 .. n - 1 : wait_many_signals_state'[i] = wait_many_signals_state[From(i)]
  <2>1. /\ wait_many_signals_state \in Seq(SUBSET MOJO_HANDLE_SIGNAL_ALL) /\ Len(wait_many_signals_state) = n
        /\ wait_many_signals_state' = SwapRemove(wait_many_signals_state, index)
    BY <1>1, <1>2 DEF RemoveHandleAtIndex, RowsInv, ColumnsTypeOK
  <2>2. index \in 1 .. Len(wait_many_signals_state)
    BY <1>2, <2>1
  <2> QED
    BY <2>1, <2>2, SwapRemoved
<1>6. /\ handle_ports' \in Seq(Ports \cup {ILLEGAL_PORT})
      /\ Len(handle_ports') = n - 1
      /\ \A i \in 1 .. n - 1 : handle_ports'[i] = handle_ports[From(i)]
  <2>1. /\ handle_ports \in Seq(Ports \cup {ILLEGAL_PORT}) /\ Len(handle_ports) = n
        /\ handle_ports' = SwapRemove(handle_ports, index)
    BY <1>1, <1>2 DEF RemoveHandleAtIndex, RowsInv, ColumnsTypeOK
  <2>2. index \in 1 .. Len(handle_ports)
    BY <1>2, <2>1
  <2> QED
    BY <2>1, <2>2, SwapRemoved
<1>7. ColumnsTypeOK'
  BY <1>3, <1>4, <1>5, <1>6 DEF ColumnsTypeOK
<1>8. \A i \in 1 .. n - 1 : From(i) \in 1 .. n /\ From(i) # index
  BY <1>2
<1>9. \A k \in 1 .. n : k # index => \E i \in 1 .. n - 1 : From(i) = k
  <2>1. SUFFICES ASSUME NEW k \in 1 .. n, k # index
                 PROVE  \E i \in 1 .. n - 1 : From(i) = k
    OBVIOUS
  <2>2. CASE k = n
    <3>1. index \in 1 .. n - 1 /\ From(index) = k
      BY <1>2, <2>1, <2>2
    <3> QED
      BY <3>1
  <2>3. CASE k # n
    <3>1. k \in 1 .. n - 1 /\ From(k) = k
      BY <1>2, <2>1, <2>3
    <3> QED
      BY <3>1
  <2> QED
    BY <2>2, <2>3
<1>10. /\ \A i, j \in 1 .. n : wait_many_handles[i] = wait_many_handles[j] => i = j
       /\ DOMAIN handle_to_index_map = {wait_many_handles[i] : i \in 1 .. n}
       /\ \A i \in 1 .. n : handle_to_index_map[wait_many_handles[i]] = i
  BY <1>2, RowFacts DEF RowsInv, IndexMapAgrees
<1>11. /\ DOMAIN handle_to_index_map' = DOMAIN handle_to_index_map \ {wait_many_handles[index]}
       /\ \A g \in DOMAIN handle_to_index_map \ {wait_many_handles[index]} :
            handle_to_index_map'[g] =
              IF g = wait_many_handles[n] THEN index ELSE handle_to_index_map[g]
  BY <1>1 DEF RemoveHandleAtIndex
<1> HIDE DEF From
<1>12. DOMAIN handle_to_index_map' = {wait_many_handles'[i] : i \in 1 .. n - 1}
  <2>1. ASSUME NEW g \in DOMAIN handle_to_index_map'
        PROVE  \E i \in 1 .. n - 1 : g = wait_many_handles'[i]
    <3>1. PICK k \in 1 .. n : g = wait_many_handles[k] /\ k # index
      BY <2>1, <1>10, <1>11
    <3> QED
      BY <3>1, <1>9, <1>3
  <2>2. ASSUME NEW i \in 1 .. n - 1
        PROVE  wait_many_handles'[i] \in DOMAIN handle_to_index_map'
    <3>1. From(i) \in 1 .. n /\ From(i) # index
      BY <1>8
    <3>2. wait_many_handles[From(i)] # wait_many_handles[index]
      BY <3>1, <1>2, <1>10
    <3> QED
      BY <3>1, <3>2, <1>3, <1>10, <1>11
  <2> QED
    BY <2>1, <2>2
<1>13. ASSUME NEW i \in 1 .. n - 1
       PROVE  handle_to_index_map'[wait_many_handles'[i]] = i
  <2>1. PICK k \in 1 .. n : k = From(i) /\ k # index
    BY <1>8
  <2>2. /\ wait_many_handles'[i] = wait_many_handles[k]
        /\ wait_many_handles[k] \in DOMAIN handle_to_index_map \ {wait_many_handles[index]}
    BY <2>1, <1>2, <1>3, <1>10
  <2>3. handle_to_index_map'[wait_many_handles[k]] =
          IF wait_many_handles[k] = wait_many_handles[n] THEN index ELSE k
    BY <2>2, <1>10, <1>11
  <2>4. wait_many_handles[k] = wait_many_handles[n] <=> k = n
    BY <1>2, <1>10
  <2>5. IF k = n THEN i = index ELSE k = i
    BY <2>1, <1>2 DEF From
  <2> QED
    BY <2>2, <2>3, <2>4, <2>5
<1>14. Indices' = 1 .. n - 1
  BY <1>3 DEF Indices
<1>15. IndexMapAgrees'
  BY <1>12, <1>13, <1>14 DEF IndexMapAgrees
<1>16. ControlFirst'
  <2>1. 1 \in 1 .. n - 1 /\ From(1) = 1
    BY <1>2 DEF From
  <2> QED
    BY <2>1, <1>3, <1>4, <1>2 DEF ControlFirst, RowsInv
<1>17. PortsBound'
  <2>1. SUFFICES ASSUME NEW i \in 1 .. n - 1, i # 1
                 PROVE  handle_ports'[i] = bound[wait_many_handles'[i]]
    BY <1>14 DEF PortsBound
  <2>2. From(i) \in 1 .. n /\ From(i) # 1
    BY <2>1, <1>2 DEF From
  <2>3. handle_ports[From(i)] = bound[wait_many_handles[From(i)]]
    BY <2>2, <1>2 DEF RowsInv, PortsBound
  <2> QED
    BY <2>3, <1>3, <1>6
<1> QED
  BY <1>1, <1>3, <1>4, <1>5, <1>7, <1>11, <1>15, <1>16, <1>17 DEF RowsInv, From

\* Nothing happens to the entries.
LEMMA RowsKept ==
  ASSUME RowsInv, UNCHANGED <<columns, bound>>
  PROVE  RowsInv'
BY DEF columns, RowsInv, ColumnsTypeOK, IndexMapAgrees, ControlFirst, PortsBound, Indices

\* A handle that is not watched yet gets the last entry, one that is keeps its own.
LEMMA RowsAdded ==
  ASSUME RowsInv, bound \in [Handles -> Ports \cup {ILLEGAL_PORT}],
         NEW h \in Handles, NEW signals \in SUBSET MOJO_HANDLE_SIGNAL_ALL,
         NEW port \in Ports \cup {ILLEGAL_PORT}, AddHandle(h, signals, port)
  PROVE  RowsInv' /\ bound' \in [Handles -> Ports \cup {ILLEGAL_PORT}]
<1> USE DEF CONTROL_HANDLE_INDEX
<1>1. CASE h \in DOMAIN handle_to_index_map
  <2>1. PICK index \in Indices \ {1} : index = handle_to_index_map[h]
    BY <1>1, HandlesAssumption, RowFacts
  <2>2. CASE handle_ports[index] # port
    <3>1. UNCHANGED <<columns, bound>>
      BY <1>1, <2>1, <2>2 DEF AddHandle
    <3> QED
      BY <3>1, RowsKept
  <2>3. CASE handle_ports[index] = port
    <3>1. /\ wait_many_signals' =
               [wait_many_signals EXCEPT ![index] = wait_many_signals[index] \cup signals]
          /\ UNCHANGED <<wait_many_handles, wait_many_signals_state, handle_ports,
                         handle_to_index_map, bound>>
      BY <1>1, <2>1, <2>3 DEF AddHandle
    <3>2. /\ wait_many_signals \in Seq(SUBSET MOJO_HANDLE_SIGNAL_ALL)
          /\ index \in 1 .. Len(wait_many_signals) /\ index # 1
      BY <2>1 DEF RowsInv, ColumnsTypeOK, Indices
    <3>3. wait_many_signals[index] \cup signals \in SUBSET MOJO_HANDLE_SIGNAL_ALL
      BY <3>2
    <3>4. /\ wait_many_signals' \in Seq(SUBSET MOJO_HANDLE_SIGNAL_ALL)
          /\ Len(wait_many_signals') = Len(wait_many_signals)
          /\ wait_many_signals'[1] = wait_many_signals[1]
      BY <3>1, <3>2, <3>3
    <3>5. ColumnsTypeOK'
      BY <3>1, <3>4 DEF RowsInv, ColumnsTypeOK
    <3> QED
      BY <3>1, <3>4, <3>5 DEF RowsInv, IndexMapAgrees, ControlFirst, PortsBound, Indices
  <2> QED
    BY <2>2, <2>3
<1>2. CASE h \notin DOMAIN handle_to_index_map
  <2>1. PICK n \in Nat : n = Len(wait_many_handles)
    BY RowFacts
  <2>2. /\ wait_many_handles \in Seq(Handles \cup {ControlHandle})
        /\ wait_many_signals \in Seq(SUBSET MOJO_HANDLE_SIGNAL_ALL)
        /\ wait_many_signals_state \in Seq(SUBSET MOJO_HANDLE_SIGNAL_ALL)
        /\ handle_ports \in Seq(Ports \cup {ILLEGAL_PORT})
        /\ Len(wait_many_signals) = n /\ Len(wait_many_signals_state) = n
        /\ Len(handle_ports) = n /\ Indices = 1 .. n /\ n >= 1
    BY <2>1 DEF RowsInv, ColumnsTypeOK, ControlFirst, Indices
  <2>3. /\ wait_many_handles' = Append(wait_many_handles, h)
        /\ wait_many_signals' = Append(wait_many_signals, signals)
        /\ wait_many_signals_state' = Append(wait_many_signals_state, {})
        /\ handle_ports' = Append(handle_ports, port)
        /\ bound' = [bound EXCEPT ![h] = port]
    BY <1>2 DEF AddHandle
  <2>4. /\ DOMAIN handle_to_index_map' = DOMAIN handle_to_index_map \cup {h}
        /\ handle_to_index_map'[h] = n + 1
        /\ \A g \in DOMAIN handle_to_index_map : handle_to_index_map'[g] = handle_to_index_map[g]
    BY <1>2, <2>1 DEF AddHandle
  <2>5. ColumnsTypeOK' /\ Indices' = 1 .. n + 1
    BY <2>1, <2>2, <2>3 DEF ColumnsTypeOK, Indices
  <2>6. /\ \A i \in 1 .. n : wait_many_handles'[i] = wait_many_handles[i]
        /\ \A i \in 1 .. n : handle_ports'[i] = handle_ports[i]
        /\ wait_many_handles'[n + 1] = h /\ handle_ports'[n + 1] = port
        /\ wait_many_signals'[1] = wait_many_signals[1]
    BY <2>1, <2>2, <2>3
  <2>7. IndexMapAgrees'
    <3>1. /\ DOMAIN handle_to_index_map = {wait_many_handles[i] : i \in 1 .. n}
          /\ \A i \in 1 .. n : handle_to_index_map[wait_many_handles[i]] = i
      BY <2>2 DEF RowsInv, IndexMapAgrees
    <3>2. DOMAIN handle_to_index_map' = {wait_many_handles'[i] : i \in 1 .. n + 1}
      BY <3>1, <2>4, <2>6
    <3>3. ASSUME NEW i \in 1 .. n + 1
          PROVE  handle_to_index_map'[wait_many_handles'[i]] = i
      <4>1. CASE i = n + 1
        BY <4>1, <2>4, <2>6
      <4>2. CASE i # n + 1
        BY <4>2, <3>1, <2>4, <2>6
      <4> QED
        BY <4>1, <4>2
    <3> QED
      BY <3>2, <3>3, <2>5 DEF IndexMapAgrees
  <2>8. ControlFirst'
    <3>1. Len(wait_many_handles') >= 1 /\ 1 \in 1 .. n
      BY <2>1, <2>2, <2>3
    <3> QED
      BY <3>1, <2>6 DEF ControlFirst, RowsInv
  <2>9. PortsBound'
    <3>1. SUFFICES ASSUME NEW i \in 1 .. n + 1, i # 1
                   PROVE  handle_ports'[i] = bound'[wait_many_handles'[i]]
      BY <2>5 DEF PortsBound
    <3>2. CASE i = n + 1
      BY <3>2, <2>3, <2>6
    <3>3. CASE i # n + 1
      <4>1. i \in 1 .. n /\ handle_ports[i] = bound[wait_many_handles[i]]
        BY <3>1, <3>3, <2>2 DEF RowsInv, PortsBound
      <4>2. wait_many_handles[i] \in DOMAIN handle_to_index_map /\ wait_many_handles[i] \in Handles
        BY <3>1, <4>1, <2>2, RowFacts DEF RowsInv, IndexMapAgrees
      <4>3. bound'[wait_many_handles[i]] = bound[wait_many_handles[i]]
        BY <1>2, <4>2, <2>3
      <4> QED
        BY <4>1, <4>3, <2>6
    <3> QED
      BY <3>2, <3>3
  <2> QED
    BY <2>3, <2>5, <2>7, <2>8, <2>9 DEF RowsInv
<1> QED
  BY <1>1, <1>2

\* RemoveHandle, also for a handle that is not watched.
LEMMA RowsRemoveHandle ==
  ASSUME RowsInv, NEW h \in Handles, RemoveHandle(h), bound' = bound
  PROVE  RowsInv' /\ DOMAIN handle_to_index_map' = DOMAIN handle_to_index_map \ {h}
<1>1. CASE h \in DOMAIN handle_to_index_map
  <2>1. PICK index \in Indices \ {CONTROL_HANDLE_INDEX} :
          index = handle_to_index_map[h] /\ wait_many_handles[index] = h
    BY <1>1, HandlesAssumption, RowFacts
  <2> QED
    BY <1>1, <2>1, RowsRemoved DEF RemoveHandle
<1>2. CASE h \notin DOMAIN handle_to_index_map
  BY <1>2 DEF RemoveHandle, columns, RowsInv, ColumnsTypeOK, IndexMapAgrees, ControlFirst,
              PortsBound, Indices
<1> QED
  BY <1>1, <1>2

--------------------------------------------------------------------------------
(* The steps of the other threads.                                         *)

\* What stopping threads, isolates, their peers and the clock can do to the watcher: a
\* command may come, time may pass, the thread may be started and, when it has ended, joined.
Aside ==
  /\ UNCHANGED <<columns, timers, locals, posted, bound>>
  /\ now' = now \/ now' = now + 1
  /\ pipe' = pipe \/ \E c \in Commands \cup {Shutdown} : pipe' = Append(pipe, c)
  /\ \/ UNCHANGED <<pc, producerOpen>>
     \/ pc = "unstarted" /\ pc' = "spawned" /\ producerOpen' = TRUE
     \/ pc = "exited" /\ UNCHANGED pc

\* HandleWatcher's own steps are aside.
LEMMA StoppersAside ==
  ASSUME Start \/ Register \/ \E s \in Stoppers : Stop(s) \/ StopAll(s) \/ Stopping(s)
  PROVE  Aside
<1> USE DEF Aside, system, watcherState
<1>1. CASE Start
  BY <1>1 DEF Start
<1>2. CASE Register
  BY <1>2 DEF Register
<1>3. ASSUME NEW s \in Stoppers, Stop(s) \/ StopAll(s)
      PROVE  Aside
  BY <1>3 DEF Stop, StopAll
<1>4. ASSUME NEW s \in Stoppers, SendCommand(s)
      PROVE  Aside
  BY <1>4 DEF SendCommand, SendShutdown
<1>5. ASSUME NEW s \in Stoppers, Join(s)
      PROVE  Aside
  BY <1>5 DEF Join
<1> QED
  BY <1>1, <1>2, <1>3, <1>4, <1>5 DEF Stopping

\* So are the steps of isolates, peers and the clock.
LEMMA IsolatesAside ==
  ASSUME \/ SendControlData \/ Tick
         \/ \E h \in Handles : \/ MojoHandle_Close(h) \/ ReadMessage(h)
                               \/ PeerWrites(h) \/ PeerCloses(h)
  PROVE  Aside
<1> USE DEF Aside, system, untouched, threads
<1>1. CASE SendControlData
  <2>1. PICK c \in Commands : pipe' = Append(pipe, c)
    BY <1>1 DEF SendControlData
  <2> QED
    BY <1>1, <2>1 DEF SendControlData
<1>2. CASE Tick
  BY <1>2 DEF Tick
<1>3. ASSUME NEW h \in Handles,
             MojoHandle_Close(h) \/ ReadMessage(h) \/ PeerWrites(h) \/ PeerCloses(h)
      PROVE  Aside
  BY <1>3 DEF MojoHandle_Close, MojoClose, ReadMessage, PeerWrites, PeerCloses
<1> QED
  BY <1>1, <1>2, <1>3

\* None of them disturbs what the watcher relies on.
LEMMA AsideOK ==
  ASSUME Inv, Aside
  PROVE  Inv'
<1>1. /\ pc \in Running <=> pc' \in Running
      /\ pc' \in {"results", "prune", "remove"} => pc = pc'
      /\ pc' \in {"unstarted", "spawned", "exited"} \cup Running
  BY DEF Aside, Inv, TypeOK, Running
<1>2. now \in Nat /\ now' \in Nat /\ now =< now'
  BY DEF Aside, Inv, TypeOK
<1>3. pipe' \in Seq(Commands \cup {Shutdown}) /\ (pipe # <<>> => pipe' # <<>>)
  <2>1. pipe \in Seq(Commands \cup {Shutdown})
    BY DEF Inv, TypeOK
  <2>2. \A c \in Commands \cup {Shutdown} :
          Append(pipe, c) \in Seq(Commands \cup {Shutdown}) /\ Append(pipe, c) # <<>>
    BY <2>1
  <2> QED
    BY <2>1, <2>2 DEF Aside
<1>4. TypeOK'
  BY <1>1, <1>2, <1>3 DEF Aside, Inv, TypeOK, locals
<1>5. PostsAreTrue'
  <2>1. SUFFICES ASSUME NEW m \in posted
                 PROVE  /\ m.kind = "signal" => m.port = bound[m.handle] /\ m.signals # {}
                        /\ m.kind = "timer" => m.deadline =< now'
    BY DEF PostsAreTrue, Aside
  <2>2. /\ m.kind = "signal" => m.port = bound[m.handle] /\ m.signals # {}
        /\ m.kind = "timer" => m.deadline =< now /\ m.deadline \in Nat
    BY DEF Inv, TypeOK, PostsAreTrue
  <2> QED
    BY <1>2, <2>2
<1>6. ThreadInv'
  <2>1. RowsInv => RowsInv'
    BY RowsKept DEF Aside
  <2> QED
    BY <1>1, <2>1 DEF Aside, Inv, ThreadInv, Running
<1>7. ControlSeen'
  BY <1>1, <1>3 DEF Aside, Inv, ControlSeen, columns, locals
<1>8. ReportedGo'
  BY <1>1 DEF Aside, Inv, ReportedGo, columns, locals, Indices, Happened
<1>9. PrunedWatched'
  BY <1>1 DEF Aside, Inv, PrunedWatched, columns, locals
<1> QED
  BY <1>4, <1>5, <1>6, <1>7, <1>8, <1>9 DEF Inv

--------------------------------------------------------------------------------
(* The steps of the watcher: timers and waiting.                           *)

\* A step of the running thread that leaves its entries alone and posts nothing.
Quiet ==
  /\ UNCHANGED <<pipe, now, bound, timers, columns, producerOpen>>
  /\ pc \in Running /\ pc' \in Running
  /\ posted' = {}
  /\ result' \in {"OK", "CANCELLED", "FAILED_PRECONDITION", "INVALID_ARGUMENT"}

LEMMA QuietOK ==
  ASSUME Inv, Quiet
  PROVE  TypeOK' /\ ThreadInv' /\ PostsAreTrue'
<1>1. TypeOK'
  BY DEF Quiet, Inv, TypeOK
<1>2. ThreadInv'
  BY RowsKept DEF Quiet, Inv, ThreadInv
<1> QED
  BY <1>1, <1>2 DEF Quiet, PostsAreTrue

\* ProcessTimers.
LEMMA CompleteNextTimerOK ==
  ASSUME Inv, CompleteNextTimer
  PROVE  Inv'
<1>1. /\ UNCHANGED <<system, pipe, pc, columns, locals, threads, bound>>
      /\ pc = "timers" /\ timers # {} /\ now >= NextTimerDeadline
      /\ timers' = timers \ {NextTimer}
  BY DEF CompleteNextTimer, HasTimers
<1>2. NextTimerDeadline \in Nat
  BY <1>1, NextTimerIsOne DEF Inv, TypeOK, NextTimerDeadline
<1>3. \A m \in posted' : m.kind = "timer" /\ m.deadline = NextTimerDeadline
  BY DEF CompleteNextTimer
<1>4. TypeOK'
  BY <1>1, <1>2, <1>3 DEF Inv, TypeOK, system, locals
<1>5. PostsAreTrue'
  <2>1. now' = now /\ now \in Nat
    BY <1>1 DEF system, Inv, TypeOK
  <2> QED
    BY <1>1, <1>2, <1>3, <2>1 DEF PostsAreTrue
<1>6. ThreadInv'
  BY <1>1, RowsKept DEF Inv, ThreadInv, threads
<1> QED
  BY <1>1, <1>4, <1>5, <1>6 DEF Inv, ControlSeen, ReportedGo, PrunedWatched

\* The deadline of the wait is computed; the wait ends without a signal.
LEMMA TimersOK ==
  ASSUME Inv, TimersDone \/ WaitDeadline \/ DeadlineExceeded
  PROVE  Inv'
<1>1. Quiet /\ pc' \in {"deadline", "call", "timers"}
  BY DEF TimersDone, WaitDeadline, DeadlineExceeded, Quiet, Inv, TypeOK, Running, system,
         locals, threads
<1> QED
  BY <1>1, QuietOK DEF Inv, ControlSeen, ReportedGo, PrunedWatched

\* MojoWaitMany is called.
LEMMA CallWaitManyOK ==
  ASSUME Inv, CallWaitMany
  PROVE  Inv'
<1>1. /\ pc = "call"
      /\ \/ pc' = "waiting" /\ result' = result
         \/ pc' = "results" /\ result' = "INVALID_ARGUMENT"
  BY Zenon DEF CallWaitMany
<1>2. Quiet
  BY <1>1 DEF CallWaitMany, Quiet, Inv, TypeOK, Running, system, threads
<1> QED
  BY <1>1, <1>2, QuietOK DEF Inv, ControlSeen, ReportedGo, PrunedWatched

\* MojoWaitMany returns: the control pipe's writer is there.
LEMMA WaitManyReturnsOK ==
  ASSUME Inv, WaitManyReturns
  PROVE  Inv'
<1>1. /\ UNCHANGED <<system, pipe, wait_many_handles, wait_many_signals, handle_ports,
                     handle_to_index_map, timers, threads, bound>>
      /\ pc = "waiting" /\ pc' = "results" /\ posted' = {}
      /\ result' \in {"OK", "CANCELLED", "FAILED_PRECONDITION"}
      /\ wait_many_signals_state' =
           [i \in Indices |->
              IF IsOpen(wait_many_handles[i]) THEN Satisfied(wait_many_handles[i]) ELSE {}]
  BY DEF WaitManyReturns
<1>2. RowsInv /\ producerOpen
  BY <1>1 DEF Inv, ThreadInv, Running
<1>3. TypeOK'
  BY <1>1 DEF Inv, TypeOK, Running, system
<1>4. PostsAreTrue'
  BY <1>1 DEF PostsAreTrue
<1>5. PICK n \in Nat : n = Len(wait_many_handles) /\ Indices = 1 .. n /\ n >= 1
  BY <1>2, RowFacts DEF RowsInv, ControlFirst, Indices
<1>6. \A h : Satisfied(h) \in SUBSET MOJO_HANDLE_SIGNAL_ALL
  BY DEF Satisfied, MOJO_HANDLE_SIGNAL_ALL
<1>7. /\ wait_many_signals_state' \in Seq(SUBSET MOJO_HANDLE_SIGNAL_ALL)
      /\ Len(wait_many_signals_state') = n
      /\ wait_many_signals_state'[1] = Satisfied(ControlHandle)
  <2>1. wait_many_signals_state' \in [1 .. n -> SUBSET MOJO_HANDLE_SIGNAL_ALL]
    BY <1>1, <1>5, <1>6
  <2>2. 1 \in Indices /\ wait_many_handles[1] = ControlHandle /\ IsOpen(ControlHandle)
    BY <1>2, <1>5 DEF RowsInv, ControlFirst, CONTROL_HANDLE_INDEX, IsOpen
  <2>3. wait_many_signals_state'[1] = Satisfied(ControlHandle)
    BY <1>1, <2>2
  <2> QED
    BY <2>1, <2>3
<1>8. ThreadInv'
  <2>1. ColumnsTypeOK'
    BY <1>1, <1>2, <1>5, <1>7 DEF RowsInv, ColumnsTypeOK
  <2>2. IndexMapAgrees' /\ ControlFirst' /\ PortsBound'
    BY <1>1, <1>2 DEF RowsInv, IndexMapAgrees, ControlFirst, PortsBound, Indices
  <2> QED
    BY <1>1, <1>2, <2>1, <2>2 DEF RowsInv, ThreadInv, threads
<1>9. ControlSeen'
  <2>1. /\ "READABLE" \in Satisfied(ControlHandle) => pipe # <<>>
        /\ "PEER_CLOSED" \notin Satisfied(ControlHandle)
    BY <1>2 DEF Satisfied
  <2> QED
    BY <1>1, <1>7, <2>1 DEF ControlSeen, CONTROL_HANDLE_INDEX
<1> QED
  BY <1>1, <1>3, <1>4, <1>8, <1>9 DEF Inv, ReportedGo, PrunedWatched

--------------------------------------------------------------------------------
(* The steps of the watcher: what a wait leads to.                         *)

\* PruneClosedHandles looks for closed handles: each is watched, and the control handle
\* is open and has its writer.
LEMMA PruneClosedHandlesOK ==
  ASSUME Inv, PruneClosedHandles
  PROVE  Inv'
<1>1. /\ pc = "results" /\ pc' = "prune" /\ UNCHANGED <<columns, result>>
      /\ closed_handles' = [i \in ClosedIndices |-> wait_many_handles[i]]
  BY DEF PruneClosedHandles
<1>2. Quiet
  BY <1>1 DEF PruneClosedHandles, Quiet, Inv, TypeOK, Running, system, threads
<1>3. RowsInv
  BY <1>1 DEF Inv, ThreadInv, Running
<1>4. ClosedIndices \subseteq Indices \ {CONTROL_HANDLE_INDEX}
  <2>1. ClosedIndices \subseteq Indices
    BY DEF ClosedIndices
  <2>2. CASE result = "INVALID_ARGUMENT"
    <3>1. ~ ShouldCloseHandle(wait_many_handles[CONTROL_HANDLE_INDEX])
      BY <1>3 DEF RowsInv, ControlFirst, ShouldCloseHandle, IsOpen
    <3> QED
      BY <2>1, <2>2, <3>1 DEF ClosedIndices
  <2>3. CASE result # "INVALID_ARGUMENT"
    <3>1. "PEER_CLOSED" \notin wait_many_signals_state[CONTROL_HANDLE_INDEX]
      BY <1>1, <2>3 DEF Inv, ControlSeen
    <3> QED
      BY <2>1, <2>3, <3>1 DEF ClosedIndices
  <2> QED
    BY <2>2, <2>3
<1>5. \A i \in Indices : i \in Nat
  BY <1>3, RowFacts DEF Indices
<1>6. \A i \in Indices \ {CONTROL_HANDLE_INDEX} :
        wait_many_handles[i] \in DOMAIN handle_to_index_map \ {ControlHandle}
  BY <1>3, HandlesAssumption, RowFacts DEF RowsInv, IndexMapAgrees
<1>7. \A i, j \in Indices : wait_many_handles[i] = wait_many_handles[j] => i = j
  BY <1>3, RowFacts
<1>8. PrunedWatched'
  <2>1. /\ DOMAIN closed_handles' = ClosedIndices
        /\ \A i \in ClosedIndices : closed_handles'[i] = wait_many_handles[i]
    BY <1>1
  <2>2. handle_to_index_map' = handle_to_index_map
    BY <1>1 DEF columns
  <2> QED
    BY <1>4, <1>5, <1>6, <1>7, <2>1, <2>2 DEF PrunedWatched
<1> QED
  BY <1>1, <1>2, <1>8, QuietOK DEF Inv, ControlSeen, ReportedGo

\* The next of them is closed: its port hears of it, and the others stay watched.
LEMMA CloseNextPrunedOK ==
  ASSUME Inv, CloseNextPruned
  PROVE  Inv'
<1>1. /\ pc = "prune" /\ DOMAIN closed_handles # {} /\ DOMAIN closed_handles \subseteq Nat
      /\ UNCHANGED <<pipe, pc, timers, until, result, to_remove, threads, bound>>
  BY DEF CloseNextPruned, Inv, PrunedWatched
<1>2. PICK i \in DOMAIN closed_handles :
        /\ PruneHandle(closed_handles[i])
        /\ closed_handles' = [j \in DOMAIN closed_handles \ {i} |-> closed_handles[j]]
  <2>1. \E i \in DOMAIN closed_handles : \A j \in DOMAIN closed_handles : i =< j
    BY <1>1, LeastExists
  <2>2. PICK i \in DOMAIN closed_handles :
          i = CHOOSE k \in DOMAIN closed_handles : \A j \in DOMAIN closed_handles : k =< j
    BY <2>1
  <2> QED
    BY <2>2 DEF CloseNextPruned
<1>3. RowsInv /\ producerOpen
  BY <1>1 DEF Inv, ThreadInv, Running
<1>4. PICK h \in Handles : h = closed_handles[i] /\ h \in DOMAIN handle_to_index_map
  <2>1. closed_handles[i] \in DOMAIN handle_to_index_map \ {ControlHandle}
    BY <1>1 DEF Inv, PrunedWatched
  <2>2. \A g \in DOMAIN handle_to_index_map : g \in Handles \cup {ControlHandle}
    BY <1>3 DEF RowsInv, ColumnsTypeOK, IndexMapAgrees, Indices
  <2> QED
    BY <2>1, <2>2
<1>5. /\ RemoveHandle(h) /\ now' = now
      /\ posted' = Signalled(handle_ports[handle_to_index_map[h]], h, {"PEER_CLOSED"})
  BY <1>2, <1>4 DEF PruneHandle, MojoClose
<1>6. RowsInv' /\ DOMAIN handle_to_index_map' = DOMAIN handle_to_index_map \ {h}
  BY <1>1, <1>3, <1>5, RowsRemoveHandle
<1>7. \A m \in posted' : /\ m.kind = "signal" /\ m.handle = h /\ m.signals = {"PEER_CLOSED"}
                         /\ m.port = handle_ports[handle_to_index_map[h]]
  BY <1>5 DEF Signalled
<1>8. handle_ports[handle_to_index_map[h]] = bound[h]
  BY <1>3, <1>4, HandlesAssumption, RowFacts DEF RowsInv, PortsBound
<1>9. TypeOK'
  BY <1>1, <1>5, <1>7 DEF Inv, TypeOK
<1>10. PostsAreTrue'
  BY <1>1, <1>7, <1>8 DEF PostsAreTrue
<1>11. ThreadInv'
  BY <1>1, <1>3, <1>6 DEF ThreadInv, threads, Running
<1>12. PrunedWatched'
  <2>1. /\ DOMAIN closed_handles' = DOMAIN closed_handles \ {i}
        /\ \A j \in DOMAIN closed_handles \ {i} : closed_handles'[j] = closed_handles[j]
    BY <1>2
  <2>2. \A j \in DOMAIN closed_handles \ {i} :
          /\ closed_handles[j] \in DOMAIN handle_to_index_map \ {ControlHandle}
          /\ closed_handles[j] # h
          /\ \A k \in DOMAIN closed_handles : closed_handles[j] = closed_handles[k] => j = k
    BY <1>1, <1>4 DEF Inv, PrunedWatched
  <2> QED
    BY <1>1, <1>6, <2>1, <2>2 DEF PrunedWatched
<1> QED
  BY <1>1, <1>9, <1>10, <1>11, <1>12 DEF Inv, ControlSeen, ReportedGo

LEMMA PruningDoneOK ==
  ASSUME Inv, PruningDone
  PROVE  Inv'
<1>1. Quiet /\ pc' = "timers"
  BY DEF PruningDone, Quiet, Running, system, threads
<1> QED
  BY <1>1, QuietOK DEF Inv, ControlSeen, ReportedGo, PrunedWatched

\* ProcessWaitManyResults: every post is for the port of its entry.
LEMMA ProcessWaitManyResultsOK ==
  ASSUME Inv, ProcessWaitManyResults
  PROVE  Inv'
<1>1. /\ pc = "results" /\ result = "OK" /\ pc' = "remove"
      /\ to_remove' = {i \in Indices \ {CONTROL_HANDLE_INDEX} : Happened(i) # {}}
      /\ UNCHANGED <<system, pipe, columns, timers, result, threads, bound>>
  BY DEF ProcessWaitManyResults
<1>2. RowsInv /\ producerOpen
  BY <1>1 DEF Inv, ThreadInv, Running
<1>3. ASSUME NEW m \in posted'
      PROVE  m.kind = "signal" /\ m.port = bound[m.handle] /\ m.signals # {}
  <2>1. posted' = UNION {Signalled(handle_ports[i], wait_many_handles[i], Happened(i)) :
                           i \in to_remove'}
    BY DEF ProcessWaitManyResults
  <2>2. PICK i \in to_remove' : m \in Signalled(handle_ports[i], wait_many_handles[i], Happened(i))
    BY <1>3, <2>1
  <2>3. /\ m.kind = "signal" /\ m.port = handle_ports[i] /\ m.handle = wait_many_handles[i]
        /\ m.signals = Happened(i)
    BY <2>2 DEF Signalled
  <2>4. Happened(i) # {} /\ handle_ports[i] = bound[wait_many_handles[i]]
    BY <1>1, <1>2, <2>2 DEF RowsInv, PortsBound
  <2> QED
    BY <2>3, <2>4
<1>4. TypeOK'
  BY <1>1, <1>3 DEF Inv, TypeOK, Running, system
<1>5. PostsAreTrue'
  BY <1>1, <1>3 DEF PostsAreTrue
<1>6. ThreadInv'
  BY <1>1, <1>2, RowsKept DEF ThreadInv, threads
<1>7. ControlSeen'
  BY <1>1 DEF Inv, ControlSeen, columns
<1>8. ReportedGo'
  BY <1>1 DEF ReportedGo, columns, Indices, Happened
<1> QED
  BY <1>1, <1>4, <1>5, <1>6, <1>7, <1>8 DEF Inv, PrunedWatched

\* The highest of the reported entries goes: the last entry, which takes its place, was
\* not reported, or is the one that goes.
LEMMA RemoveNextOK ==
  ASSUME Inv, RemoveNext
  PROVE  Inv'
<1>1. /\ pc = "remove" /\ to_remove # {} /\ posted' = {}
      /\ UNCHANGED <<system, pipe, pc, timers, result, threads, bound>>
  BY DEF RemoveNext
<1>2. RowsInv /\ producerOpen
  BY <1>1 DEF Inv, ThreadInv, Running
<1>3. PICK n \in Nat : n = Len(wait_many_handles) /\ Indices = 1 .. n
  BY <1>2, RowFacts DEF Indices
<1>4. to_remove = {j \in 2 .. n : Happened(j) # {}}
  BY <1>1, <1>3 DEF Inv, ReportedGo, CONTROL_HANDLE_INDEX
<1>5. PICK i \in to_remove : /\ \A j \in to_remove : j =< i
                             /\ RemoveHandleAtIndex(i) /\ to_remove' = to_remove \ {i}
  <2>1. \E i \in to_remove : \A j \in to_remove : j =< i
    <3>1. to_remove \in SUBSET (1 .. n)
      BY <1>4
    <3> QED
      BY <1>1, <3>1, GreatestExists
  <2>2. PICK i \in to_remove : /\ \A j \in to_remove : j =< i
                               /\ i = CHOOSE k \in to_remove : \A j \in to_remove : j =< k
    BY <2>1
  <2> QED
    BY <2>2 DEF RemoveNext
<1>6. i \in 2 .. n /\ i \in Indices \ {CONTROL_HANDLE_INDEX}
  BY <1>3, <1>4 DEF CONTROL_HANDLE_INDEX
<1>7. /\ RowsInv' /\ Len(wait_many_handles') = n - 1
      /\ \A j \in 1 .. n - 1 :
           LET k == IF j = i THEN n ELSE j
           IN /\ wait_many_handles'[j] = wait_many_handles[k]
              /\ wait_many_signals'[j] = wait_many_signals[k]
              /\ wait_many_signals_state'[j] = wait_many_signals_state[k]
  BY <1>1, <1>2, <1>3, <1>5, <1>6, RowsRemoved
<1>8. TypeOK'
  BY <1>1 DEF Inv, TypeOK, system
<1>9. PostsAreTrue'
  BY <1>1 DEF PostsAreTrue
<1>10. ThreadInv'
  BY <1>1, <1>2, <1>7 DEF ThreadInv, threads
<1>11. ControlSeen'
  <2>1. wait_many_signals_state'[1] = wait_many_signals_state[1]
    BY <1>6, <1>7
  <2> QED
    BY <1>1, <2>1 DEF Inv, ControlSeen, CONTROL_HANDLE_INDEX
<1>12. ReportedGo'
  <2>1. Indices' = 1 .. n - 1
    BY <1>7 DEF Indices
  <2>2. ASSUME NEW j \in 2 .. n - 1
        PROVE  j \in to_remove' <=> Happened(j)' # {}
    <3>1. CASE j = i
      <4>1. Happened(j)' = Happened(n)
        BY <1>7, <3>1 DEF Happened
      <4>2. n \notin to_remove /\ n \in 2 .. n
        BY <1>5, <1>6, <3>1
      <4> QED
        BY <4>1, <4>2, <1>4, <1>5, <3>1
    <3>2. CASE j # i
      <4>1. Happened(j)' = Happened(j)
        BY <1>7, <3>2 DEF Happened
      <4> QED
        BY <4>1, <1>4, <1>5, <3>2
    <3> QED
      BY <3>1, <3>2
  <2>3. to_remove' \subseteq 2 .. n - 1
    BY <1>4, <1>5, <1>6
  <2>4. to_remove' = {j \in 2 .. n - 1 : Happened(j)' # {}}
    BY <2>2, <2>3
  <2>5. Indices' \ {1} = 2 .. n - 1
    BY <2>1
  <2>6. ReportedGo' <=> (pc' = "remove" => to_remove' = {j \in Indices' \ {1} : Happened(j)' # {}})
    BY DEF ReportedGo, CONTROL_HANDLE_INDEX
  <2> QED
    BY <2>4, <2>5, <2>6
<1> QED
  BY <1>1, <1>8, <1>9, <1>10, <1>11, <1>12 DEF Inv, PrunedWatched

--------------------------------------------------------------------------------
(* The steps of the watcher: control messages, the start and the end.      *)

\* A message that was signalled is there, and is a command.
LEMMA MessageThere ==
  ASSUME Inv, ProcessControlMessage
  PROVE  /\ pipe # <<>> /\ Head(pipe) \in Commands \cup {Shutdown}
         /\ Tail(pipe) \in Seq(Commands \cup {Shutdown})
<1>1. pc = "remove" /\ Happened(CONTROL_HANDLE_INDEX) # {}
  BY DEF ProcessControlMessage
<1>2. "READABLE" \in wait_many_signals_state[CONTROL_HANDLE_INDEX]
  BY <1>1 DEF Inv, ThreadInv, Running, RowsInv, ControlFirst, Happened
<1>3. pipe # <<>>
  BY <1>1, <1>2 DEF Inv, ControlSeen
<1>4. pipe \in Seq(Commands \cup {Shutdown})
  BY DEF Inv, TypeOK
<1> QED
  BY <1>3, <1>4

\* What a command does to the entries, the timers and the ports.
LEMMA CommandOK ==
  ASSUME Inv, ProcessControlMessage
  PROVE  /\ RowsInv' /\ now' = now
         /\ bound' \in [Handles -> Ports \cup {ILLEGAL_PORT}]
         /\ \A t \in timers' : t.deadline \in Nat
         /\ \A m \in posted' : m.kind \notin {"signal", "timer"}
<1>1. PICK c \in Commands \cup {Shutdown} : c = Head(pipe)
  BY MessageThere
<1>2. RowsInv /\ bound \in [Handles -> Ports \cup {ILLEGAL_PORT}]
  BY DEF ProcessControlMessage, Inv, TypeOK, ThreadInv, Running
<1>3. \A t \in timers : t.deadline \in Nat
  BY DEF Inv, TypeOK
<1>4. CASE /\ c.op = "Add"
           /\ AddHandle(c.handle, c.signals, c.port)
           /\ UNCHANGED <<system, timers, shutdown, closing>>
  <2>1. c \in Commands
    BY <1>4 DEF Shutdown, Command
  <2>2. /\ c.handle \in Handles /\ c.signals \in SUBSET MOJO_HANDLE_SIGNAL_ALL
        /\ c.port \in Ports \cup {ILLEGAL_PORT}
    BY <1>4, <2>1, CommandsAssumption
  <2>3. RowsInv' /\ bound' \in [Handles -> Ports \cup {ILLEGAL_PORT}]
    BY <1>2, <1>4, <2>2, RowsAdded
  <2>4. \A m \in posted' : m.kind = "already bound"
    <3>1. \/ posted' = {}
          \/ posted' = {[kind |-> "already bound", port |-> p] : p \in {c.port} \ {ILLEGAL_PORT}}
      <4>1. CASE c.handle \notin DOMAIN handle_to_index_map
        BY <1>4, <4>1 DEF AddHandle
      <4>2. CASE c.handle \in DOMAIN handle_to_index_map
        BY <1>4, <4>2 DEF AddHandle
      <4> QED
        BY <4>1, <4>2
    <3>2. ASSUME NEW m \in posted' PROVE m.kind = "already bound"
      <4>1. PICK p \in {c.port} : m = [kind |-> "already bound", port |-> p]
        BY <3>1
      <4> QED
        BY <4>1
    <3> QED
      BY <3>2
  <2> QED
    BY <1>3, <1>4, <2>3, <2>4 DEF system
<1>5. CASE /\ c.op = "Remove"
           /\ RemoveHandle(c.handle)
           /\ posted' = {}
           /\ UNCHANGED <<system, timers, shutdown, closing, bound>>
  <2>1. c \in Commands
    BY <1>5 DEF Shutdown, Command
  <2>2. c.handle \in Handles
    BY <1>5, <2>1, CommandsAssumption
  <2>3. RowsInv'
    BY <1>2, <1>5, <2>2, RowsRemoveHandle
  <2> QED
    BY <1>2, <1>3, <1>5, <2>3 DEF system
<1>6. CASE /\ c.op = "Close"
           /\ CloseHandle(c.handle, c.port)
           /\ UNCHANGED <<timers, shutdown, bound>>
  <2>1. c \in Commands
    BY <1>6 DEF Shutdown, Command
  <2>2. c.handle \in Handles
    BY <1>6, <2>1, CommandsAssumption
  <2>3. RowsInv'
    BY <1>2, <1>6, <2>2, RowsRemoveHandle DEF CloseHandle
  <2>4. now' = now /\ \A m \in posted' : m.kind = "null"
    BY <1>6 DEF CloseHandle, MojoClose, PostNull
  <2> QED
    BY <1>2, <1>3, <1>6, <2>3, <2>4
<1>7. CASE /\ c.op = "Timer"
           /\ UpdateTimer(c.deadline, c.port)
           /\ posted' = {}
           /\ UNCHANGED <<system, columns, shutdown, closing, bound>>
  <2>1. c \in Commands
    BY <1>7 DEF Shutdown, Command
  <2>2. c.deadline \in Int
    BY <2>1, CommandsAssumption
  <2>3. \A t \in timers' : t \in timers \/ (c.deadline >= 0 /\ t.deadline = c.deadline)
    BY <1>7, <2>2 DEF UpdateTimer
  <2>4. RowsInv'
    BY <1>2, <1>7, RowsKept
  <2> QED
    BY <1>2, <1>3, <1>7, <2>2, <2>3, <2>4 DEF system
<1>8. CASE /\ c.op = "Shutdown"
           /\ shutdown' = TRUE
           /\ posted' = {}
           /\ UNCHANGED <<system, columns, timers, closing, bound>>
  <2>1. RowsInv'
    BY <1>2, <1>8, RowsKept
  <2> QED
    BY <1>2, <1>3, <1>8, <2>1 DEF system
<1> QED
  BY <1>1, <1>4, <1>5, <1>6, <1>7, <1>8 DEF ProcessControlMessage

LEMMA ProcessControlMessageOK ==
  ASSUME Inv, ProcessControlMessage
  PROVE  Inv'
<1>1. /\ pipe' = Tail(pipe) /\ UNCHANGED <<locals, threads>>
      /\ pc = "remove" /\ pc' \in {"ending", "timers"}
  BY DEF ProcessControlMessage
<1>2. TypeOK'
  BY <1>1, MessageThere, CommandOK DEF Inv, TypeOK, Running, locals
<1>3. ThreadInv'
  BY <1>1, CommandOK DEF Inv, ThreadInv, Running, threads
<1>4. PostsAreTrue'
  BY CommandOK DEF PostsAreTrue
<1> QED
  BY <1>1, <1>2, <1>3, <1>4 DEF Inv, ControlSeen, ReportedGo, PrunedWatched

LEMMA NoControlMessageOK ==
  ASSUME Inv, NoControlMessage
  PROVE  Inv'
<1>1. Quiet /\ pc' = "timers"
  BY DEF NoControlMessage, Quiet, Running, system, threads, locals, Inv, TypeOK
<1> QED
  BY <1>1, QuietOK DEF Inv, ControlSeen, ReportedGo, PrunedWatched

\* ThreadMain: the control handle has the first entry.
LEMMA ThreadMainOK ==
  ASSUME Inv, ThreadMain
  PROVE  Inv'
<1>1. /\ pc = "spawned" /\ pc' = "timers" /\ posted' = {}
      /\ UNCHANGED <<system, pipe, timers, locals, threads, bound>>
      /\ wait_many_handles' = <<ControlHandle>>
      /\ wait_many_signals' = <<{"READABLE"}>>
      /\ wait_many_signals_state' = <<{}>>
      /\ handle_ports' = <<ILLEGAL_PORT>>
      /\ handle_to_index_map' = [h \in {ControlHandle} |-> 1]
  BY DEF ThreadMain, CONTROL_HANDLE_INDEX
<1>2. Indices' = {1} /\ wait_many_handles'[1] = ControlHandle /\ Len(wait_many_handles') = 1
  BY <1>1 DEF Indices
<1>3. ColumnsTypeOK'
  <2>1. {"READABLE"} \in SUBSET MOJO_HANDLE_SIGNAL_ALL /\ {} \in SUBSET MOJO_HANDLE_SIGNAL_ALL
    BY DEF MOJO_HANDLE_SIGNAL_ALL
  <2> QED
    BY <1>1, <2>1 DEF ColumnsTypeOK
<1>4. IndexMapAgrees' /\ ControlFirst' /\ PortsBound'
  BY <1>1, <1>2 DEF IndexMapAgrees, ControlFirst, PortsBound, CONTROL_HANDLE_INDEX
<1>5. ThreadInv'
  BY <1>1, <1>3, <1>4 DEF Inv, ThreadInv, RowsInv, threads, Running
<1>6. TypeOK' /\ PostsAreTrue'
  BY <1>1 DEF Inv, TypeOK, PostsAreTrue, Running, system, locals
<1> QED
  BY <1>1, <1>5, <1>6 DEF Inv, ControlSeen, ReportedGo, PrunedWatched

LEMMA RunEndsOK ==
  ASSUME Inv, RunEnds
  PROVE  Inv'
<1>1. /\ pc = "ending" /\ pc' = "exited" /\ posted' = {} /\ pipe' = <<>> /\ timers' = {}
      /\ UNCHANGED <<system, locals, threads, bound>>
  BY DEF RunEnds
<1>2. TypeOK' /\ PostsAreTrue'
  BY <1>1 DEF Inv, TypeOK, PostsAreTrue, system, locals
<1> QED
  BY <1>1, <1>2 DEF Inv, ThreadInv, Running, ControlSeen, ReportedGo, PrunedWatched

--------------------------------------------------------------------------------
(* The theorems.                                                           *)

LEMMA InitOK ==
  ASSUME Init
  PROVE  Inv
<1>1. TypeOK
  BY DEF Init, TypeOK
<1> QED
  BY <1>1 DEF Init, Inv, ThreadInv, Running, ControlSeen, ReportedGo, PrunedWatched, PostsAreTrue

LEMMA NextOK ==
  ASSUME Inv, [Next]_vars
  PROVE  Inv'
<1>1. CASE Watcher
  BY <1>1, ThreadMainOK, CompleteNextTimerOK, TimersOK, CallWaitManyOK, WaitManyReturnsOK,
     PruneClosedHandlesOK, CloseNextPrunedOK, PruningDoneOK, ProcessWaitManyResultsOK,
     RemoveNextOK, ProcessControlMessageOK, NoControlMessageOK, RunEndsOK
  DEF Watcher
<1>2. CASE UNCHANGED vars
  <2>1. Aside
    BY <1>2 DEF vars, Aside, system, threads
  <2> QED
    BY <2>1, AsideOK
<1> QED
  BY <1>1, <1>2, AsideOK, StoppersAside, IsolatesAside DEF Next

\* The inductive invariant of the watcher: the vectors and the map of HandleWatcherThreadState
\* agree between all steps, and what Run remembers across steps is not stale when it is used.
THEOREM WatcherInvHolds == Spec => []Inv
<1>1. Init => Inv
  BY InitOK
<1>2. Inv /\ [Next]_vars => Inv'
  BY NextOK
<1> QED
  BY <1>1, <1>2, PTL DEF Spec

\* Every port hears about the handle it subscribed to, with a signal that happened, however
\* often RemoveHandleAtIndex has swapped entries; and about timers whose deadline has passed.
THEOREM PortsHearTheTruth == Spec => []PostsAreTrue
<1>1. Inv => PostsAreTrue
  BY DEF Inv
<1> QED
  BY <1>1, WatcherInvHolds, PTL

\* The second loop of ProcessWaitManyResults removes the entries the first one reported, all
\* of them and no others: going from the highest index down, a swap moves none of them.
THEOREM ReportedEntriesGo == Spec => []ReportedGo
<1>1. Inv => ReportedGo
  BY DEF Inv
<1> QED
  BY <1>1, WatcherInvHolds, PTL

\* The thread fails none of its MOJO_CHECKs.
THEOREM WatcherChecks == Spec => []ChecksHold
<1>1. ASSUME Inv
      PROVE  ChecksHold
  <2>1. ASSUME pc \in Running
        PROVE  /\ Len(wait_many_handles) >= 1 /\ Len(wait_many_signals) = Len(wait_many_handles)
               /\ \A h \in DOMAIN handle_to_index_map :
                    /\ handle_to_index_map[h] \in Indices
                    /\ wait_many_handles[handle_to_index_map[h]] = h
                    /\ h # ControlHandle => handle_to_index_map[h] # CONTROL_HANDLE_INDEX
    BY <1>1, <2>1, RowFacts DEF Inv, ThreadInv, RowsInv, ColumnsTypeOK, ControlFirst
  <2>2. \A h \in Handles : h # ControlHandle
    BY HandlesAssumption
  <2>3. ASSUME pc = "prune", NEW i \in DOMAIN closed_handles
        PROVE  handle_to_index_map[closed_handles[i]] # CONTROL_HANDLE_INDEX
    BY <1>1, <2>1, <2>3 DEF Inv, PrunedWatched, Running
  <2>4. ASSUME pc = "remove"
        PROVE  /\ CONTROL_HANDLE_INDEX \notin to_remove
               /\ Happened(CONTROL_HANDLE_INDEX) # {} => pipe # <<>>
    <3>1. CONTROL_HANDLE_INDEX \notin to_remove
      BY <1>1, <2>4 DEF Inv, ReportedGo
    <3>2. wait_many_signals[CONTROL_HANDLE_INDEX] = {"READABLE"}
      BY <1>1, <2>4 DEF Inv, ThreadInv, RowsInv, ControlFirst, Running
    <3> QED
      BY <1>1, <2>4, <3>1, <3>2 DEF Inv, ControlSeen, Happened
  <2>5. ASSUME pc \in Running
        PROVE  Cardinality(DOMAIN handle_to_index_map) = Len(wait_many_handles)
    <3>1. RowsInv
      BY <1>1, <2>5 DEF Inv, ThreadInv
    <3>2. PICK n \in Nat : n = Len(wait_many_handles) /\ Indices = 1 .. n
      BY <3>1, RowFacts DEF Indices
    <3>3. wait_many_handles \in Bijection(1 .. n, DOMAIN handle_to_index_map)
      BY <3>1, <3>2, RowFacts
      DEF RowsInv, ColumnsTypeOK, IndexMapAgrees, Bijection, Injection, Surjection, IsInjective
    <3> QED
      BY <3>2, <3>3, FS_CountingElements DEF ExistsBijection
  <2> QED
    BY <2>1, <2>2, <2>3, <2>4, <2>5 DEF ChecksHold
<1> QED
  BY <1>1, WatcherInvHolds, PTL

--------------------------------------------------------------------------------
(* Stopping, and commands that somebody waits for.                         *)

\* The steps of the watcher that neither read the pipe nor end the thread.
LEMMA WatcherElsewhere ==
  ASSUME Watcher
  PROVE  \/ ProcessControlMessage \/ RunEnds
         \/ UNCHANGED <<pipe, stop, registered, closing>>
              /\ pc \notin {"unstarted", "ending", "exited"} /\ pc' # "unstarted"
<1> USE DEF threads
<1>1. CASE ThreadMain \/ CompleteNextTimer \/ TimersDone \/ WaitDeadline
  BY <1>1 DEF ThreadMain, CompleteNextTimer, TimersDone, WaitDeadline
<1>2. CASE CallWaitMany
  <2>1. pc' # "unstarted"
    BY <1>2 DEF CallWaitMany
  <2> QED
    BY <1>2, <2>1 DEF CallWaitMany
<1>3. CASE WaitManyReturns \/ DeadlineExceeded \/ PruneClosedHandles \/ PruningDone
  BY <1>3 DEF WaitManyReturns, DeadlineExceeded, PruneClosedHandles, PruningDone
<1>4. CASE CloseNextPruned
  BY <1>4 DEF CloseNextPruned, PruneHandle
<1>5. CASE ProcessWaitManyResults \/ RemoveNext \/ NoControlMessage
  BY <1>5 DEF ProcessWaitManyResults, RemoveNext, NoControlMessage
<1> QED
  BY <1>1, <1>2, <1>3, <1>4, <1>5 DEF Watcher

LEMMA StopInvStep ==
  ASSUME StopInv, [Next]_vars
  PROVE  StopInv'
<1> USE DEF StopInv, JoinedOnce
<1>1. CASE Watcher
  <2>1. UNCHANGED <<stop, registered>> /\ pc # "unstarted" /\ pc' # "unstarted"
    BY <1>1, WatcherElsewhere DEF ProcessControlMessage, RunEnds, threads
  <2> QED
    BY <2>1
<1>2. CASE Start
  BY <1>2 DEF Start
<1>3. CASE Register
  BY <1>3 DEF Register, watcherState
<1>4. ASSUME NEW s \in Stoppers, Stop(s) \/ StopAll(s)
      PROVE  StopInv'
  <2>1. /\ stop[s] = "idle" /\ UNCHANGED pc
        /\ registered' = IF registered = "yes" THEN "removed" ELSE registered
        /\ stop' = [stop EXCEPT ![s] = IF registered = "yes" THEN "send" ELSE "missed"]
    BY <1>4 DEF Stop, StopAll, RemoveLocked, watcherState
  <2>2. CASE registered = "yes"
    <3>1. \A t \in Stoppers : stop[t] \notin {"send", "join", "stopped"}
      BY <2>2
    <3> QED
      BY <2>1, <2>2, <3>1
  <2>3. CASE registered # "yes"
    BY <2>1, <2>3
  <2> QED
    BY <2>2, <2>3
<1>5. ASSUME NEW s \in Stoppers, Stopping(s)
      PROVE  StopInv'
  <2>1. /\ UNCHANGED <<pc, registered>> /\ stop[s] \in {"send", "join"}
        /\ \E a \in {"join", "stopped"} : stop' = [stop EXCEPT ![s] = a]
    BY <1>5 DEF Stopping, SendCommand, Join, watcherState
  <2> QED
    BY <2>1
<1>6. CASE \/ SendControlData \/ Tick \/ UNCHANGED vars
           \/ \E h \in Handles : \/ MojoHandle_Close(h) \/ ReadMessage(h)
                                 \/ PeerWrites(h) \/ PeerCloses(h)
  <2>1. UNCHANGED <<pc, stop, registered>>
    BY <1>6 DEF SendControlData, Tick, MojoHandle_Close, ReadMessage, PeerWrites, PeerCloses,
                untouched, threads, vars
  <2> QED
    BY <2>1
<1> QED
  BY <1>1, <1>2, <1>3, <1>4, <1>5, <1>6 DEF Next

\* Commands are read in the order they came: the others stay.
LEMMA CommandRead ==
  ASSUME Inv, CommandsPending, ProcessControlMessage
  PROVE  CommandsPending'
<1>1. /\ pipe # <<>> /\ pipe \in Seq(Commands \cup {Shutdown}) /\ pipe' = Tail(pipe)
      /\ pc = "remove" /\ pc' = (IF shutdown' THEN "ending" ELSE "timers")
      /\ UNCHANGED stop
  BY MessageThere DEF ProcessControlMessage, Inv, TypeOK, threads
<1>2. \A k \in DOMAIN pipe : k = 1 \/ (k - 1 \in DOMAIN pipe' /\ pipe'[k - 1] = pipe[k])
  BY <1>1
<1>3. pipe[1].op = "Shutdown" => pc' = "ending"
  BY <1>1 DEF ProcessControlMessage
<1>4. /\ closing' \subseteq closing
      /\ pipe[1].op = "Close" => pipe[1].port \notin closing'
  <2>1. pipe[1] = Head(pipe)
    BY <1>1
  <2>2. CASE pipe[1].op = "Close"
    BY <2>1, <2>2 DEF ProcessControlMessage, CloseHandle, PostNull
  <2>3. CASE pipe[1].op # "Close"
    BY <2>1, <2>3 DEF ProcessControlMessage
  <2> QED
    BY <2>2, <2>3
<1>5. ASSUME NEW s \in Stoppers, stop'[s] = "join", pc' # "ending"
      PROVE  \E k \in DOMAIN pipe' : pipe'[k].op = "Shutdown"
  <2>1. PICK k \in DOMAIN pipe : pipe[k].op = "Shutdown"
    BY <1>1, <1>5 DEF CommandsPending
  <2> QED
    BY <1>2, <1>3, <1>5, <2>1
<1>6. ASSUME NEW p \in closing'
      PROVE  \E k \in DOMAIN pipe' : pipe'[k].op = "Close" /\ pipe'[k].port = p
  <2>1. PICK k \in DOMAIN pipe : pipe[k].op = "Close" /\ pipe[k].port = p
    BY <1>1, <1>4, <1>6 DEF CommandsPending
  <2> QED
    BY <1>2, <1>4, <1>6, <2>1
<1> QED
  BY <1>5, <1>6 DEF CommandsPending

\* A command is sent, and the ones sent before are still there.
LEMMA CommandSent ==
  ASSUME Inv, NEW c
  PROVE  /\ \A k \in DOMAIN pipe : k \in DOMAIN Append(pipe, c) /\ Append(pipe, c)[k] = pipe[k]
         /\ \E k \in DOMAIN Append(pipe, c) : Append(pipe, c)[k] = c
<1>1. pipe \in Seq(Commands \cup {Shutdown})
  BY DEF Inv, TypeOK
<1>2. PICK n \in Nat : n = Len(pipe) /\ DOMAIN pipe = 1 .. n
  BY <1>1
<1>3. /\ DOMAIN Append(pipe, c) = 1 .. n + 1 /\ Append(pipe, c)[n + 1] = c
      /\ \A k \in 1 .. n : Append(pipe, c)[k] = pipe[k]
  BY <1>1, <1>2
<1> QED
  BY <1>2, <1>3

LEMMA CommandsPendingStep ==
  ASSUME Inv, StopInv, CommandsPending, [Next]_vars
  PROVE  CommandsPending'
<1>1. CASE Watcher
  <2>1. CASE RunEnds
    BY <2>1 DEF RunEnds, CommandsPending
  <2>2. CASE /\ UNCHANGED <<pipe, stop, registered, closing>>
             /\ pc \notin {"unstarted", "ending", "exited"} /\ pc' # "unstarted"
    BY <2>2 DEF CommandsPending
  <2> QED
    BY <1>1, <2>1, <2>2, CommandRead, WatcherElsewhere
<1>2. CASE \/ Start \/ Register \/ Tick \/ UNCHANGED vars
           \/ \E s \in Stoppers : Stop(s) \/ StopAll(s) \/ Join(s)
           \/ \E h \in Handles : \/ MojoHandle_Close(h) \/ ReadMessage(h)
                                 \/ PeerWrites(h) \/ PeerCloses(h)
  <2>1. /\ UNCHANGED <<pipe, closing>>
        /\ pc' = pc \/ (pc = "unstarted" /\ pc' = "spawned")
    BY <1>2 DEF Start, Register, Tick, Stop, StopAll, Join, MojoHandle_Close, ReadMessage,
                PeerWrites, PeerCloses, untouched, watcherState, vars
  <2>2. \A s \in Stoppers : stop'[s] = "join" => stop[s] = "join"
    BY <1>2 DEF StopInv, Start, Register, Tick, Stop, StopAll, Join, MojoHandle_Close,
                ReadMessage, PeerWrites, PeerCloses, untouched, threads, vars
  <2> QED
    BY <2>1, <2>2 DEF CommandsPending
<1>3. ASSUME NEW s \in Stoppers, SendCommand(s)
      PROVE  CommandsPending'
  <2>1. /\ UNCHANGED <<pc, closing>>
        /\ pc \notin {"ending", "exited"} => pipe' = Append(pipe, Shutdown)
    BY <1>3 DEF SendCommand, SendShutdown, watcherState
  <2>2. Shutdown.op = "Shutdown"
    BY DEF Shutdown, Command
  <2>3. CASE pc \in {"ending", "exited"}
    BY <2>1, <2>3 DEF CommandsPending
  <2>4. CASE pc \notin {"ending", "exited"}
    <3>1. /\ \A k \in DOMAIN pipe : k \in DOMAIN pipe' /\ pipe'[k] = pipe[k]
          /\ \E k \in DOMAIN pipe' : pipe'[k].op = "Shutdown"
      BY <2>1, <2>2, <2>4, CommandSent
    <3> QED
      BY <2>1, <2>4, <3>1 DEF CommandsPending
  <2> QED
    BY <2>3, <2>4
<1>4. CASE SendControlData
  <2>1. PICK c \in Commands :
          /\ pipe' = Append(pipe, c)
          /\ closing' = IF c.op = "Close" THEN closing \cup ({c.port} \ {ILLEGAL_PORT})
                                          ELSE closing
    BY <1>4 DEF SendControlData
  <2>2. UNCHANGED <<pc, stop>>
    BY <1>4 DEF SendControlData, untouched, threads
  <2>3. /\ \A k \in DOMAIN pipe : k \in DOMAIN pipe' /\ pipe'[k] = pipe[k]
        /\ \E k \in DOMAIN pipe' : pipe'[k] = c
    BY <2>1, CommandSent
  <2> QED
    BY <2>1, <2>2, <2>3 DEF CommandsPending
<1> QED
  BY <1>1, <1>2, <1>3, <1>4 DEF Next, Stopping

\* Stop and StopAll, called by any number of threads: one of them joins the watcher thread
\* and closes its control pipe, the others find it gone.
THEOREM OneStopperJoins == Spec => []JoinedOnce
<1>1. Init => StopInv
  BY DEF Init, StopInv, JoinedOnce
<1>2. StopInv /\ [Next]_vars => StopInv'
  BY StopInvStep
<1>3. StopInv => JoinedOnce
  BY DEF StopInv
<1> QED
  BY <1>1, <1>2, <1>3, PTL DEF Spec

\* No command that somebody waits for is lost: what StopReturns and CloseAnswered need for
\* safety, besides the fairness of the thread.
THEOREM CommandsNotLost == Spec => []CommandsPending
<1>1. Init => StopInv /\ CommandsPending
  BY DEF Init, StopInv, JoinedOnce, CommandsPending
<1>2. Inv /\ StopInv /\ CommandsPending /\ [Next]_vars => StopInv' /\ CommandsPending'
  BY StopInvStep, CommandsPendingStep
<1> QED
  BY <1>1, <1>2, WatcherInvHolds, PTL DEF Spec
================================================================================
