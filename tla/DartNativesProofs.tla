--------------------------- MODULE DartNativesProofs ---------------------------
(***************************************************************************)
(* What holds of the natives of the Dart embedder for any isolates, sizes, *)
(* handles and messages.                                                   *)
(***************************************************************************)
EXTENDS DartNatives, FiniteSetTheorems, WellFoundedInduction, TLAPS

USE BoundsAssumption, DartNativesAssumption

--------------------------------------------------------------------------------
(* The system calls: states stay states, and a call opens no handle but    *)
(* those it returns.                                                       *)

Tells(s, t, hs) ==
  /\ t \in System
  /\ \A h \in Handles : t.table[h] # 0 => s.table[h] # 0 \/ \E k \in DOMAIN hs : hs[k] = h

\* The queue of a pipe.
LEMMA Queues ==
  ASSUME NEW S, NEW q \in Seq(S), NEW x \in S
  PROVE  /\ Append(q, x) \in Seq(S)
         /\ q # <<>> => Head(q) \in S /\ Tail(q) \in Seq(S)
OBVIOUS

\* The ends of a new pipe, of a buffer and of what is closed.
LEMMA NewEnds ==
  ASSUME NEW e \in Ends, NEW kind \in PipeKinds
  PROVE  /\ [NoEnd EXCEPT !.kind = kind, !.peer = e] \in EndStates
         /\ [NoEnd EXCEPT !.kind = "closed"] \in EndStates
         /\ [NoEnd EXCEPT !.kind = "buffer"] \in EndStates
<1>1. <<>> \in Seq(Messages)
  OBVIOUS
<1>2. NoEnd \in EndRecords
  BY <1>1 DEF NoEnd, EndRecords
<1>3. [NoEnd EXCEPT !.kind = kind, !.peer = e] \in EndRecords
      /\ [NoEnd EXCEPT !.kind = kind, !.peer = e].peer = e
  BY <1>2 DEF EndRecords
<1>4. [NoEnd EXCEPT !.kind = "closed"] \in EndRecords
      /\ [NoEnd EXCEPT !.kind = "closed"].kind \notin PipeKinds
  BY <1>2 DEF EndRecords, PipeKinds
<1>5. [NoEnd EXCEPT !.kind = "buffer"] \in EndRecords
      /\ [NoEnd EXCEPT !.kind = "buffer"].kind \notin PipeKinds
  BY <1>2 DEF EndRecords, PipeKinds
<1> QED
  BY <1>3, <1>4, <1>5 DEF EndStates

\* An end stays one when its messages, its bytes or its phase change.
LEMMA FieldChanges ==
  ASSUME NEW f \in [Ends -> EndStates], NEW e, NEW n \in Int, NEW q \in Seq(Messages)
  PROVE  /\ [f EXCEPT ![e].level = n] \in [Ends -> EndStates]
         /\ [f EXCEPT ![e].phase = n] \in [Ends -> EndStates]
         /\ [f EXCEPT ![e].inbox = q] \in [Ends -> EndStates]
<1>1. ASSUME NEW x \in EndStates
      PROVE  /\ [x EXCEPT !.level = n] \in EndStates
             /\ [x EXCEPT !.phase = n] \in EndStates
             /\ [x EXCEPT !.inbox = q] \in EndStates
  BY DEF EndStates, EndRecords
<1>2. CASE e \in Ends
  BY <1>1, <1>2
<1>3. CASE e \notin Ends
  BY <1>3
<1> QED
  BY <1>2, <1>3

\* A state with other ends.
LEMMA EndsChange ==
  ASSUME NEW s \in System, NEW f \in [Ends -> EndStates]
  PROVE  /\ [s EXCEPT !.ends = f] \in System
         /\ [s EXCEPT !.ends = f].table = s.table
         /\ [s EXCEPT !.ends = f].next = s.next
BY DEF System

\* Handles are entered where NewHandles says.
LEMMA Entered ==
  ASSUME NEW s \in System, NEW es \in Seq(Ends)
  PROVE  Tells(s, Enter(s, es), NewHandles(s, Len(es)))
<1> DEFINE tb == [h \in Handles |-> IF h - s.next + 1 \in DOMAIN es
                                    THEN es[h - s.next + 1] ELSE s.table[h]]
<1>1. /\ s.next \in Int /\ s.table \in [Handles -> Ends \cup {0}]
      /\ Len(es) \in Nat /\ DOMAIN es = 1 .. Len(es)
  BY DEF System
<1>2. tb \in [Handles -> Ends \cup {0}]
  BY <1>1
<1>3. Enter(s, es) = [s EXCEPT !.table = tb, !.next = s.next + Len(es)]
  BY DEF Enter
<1>4. ASSUME NEW h \in Handles, tb[h] # 0, s.table[h] = 0
      PROVE  \E k \in DOMAIN NewHandles(s, Len(es)) : NewHandles(s, Len(es))[k] = h
  <2>1. h - s.next + 1 \in 1 .. Len(es) /\ h \in Int
    BY <1>1, <1>4 DEF Handles
  <2>2. NewHandles(s, Len(es))[h - s.next + 1] = h
    BY <1>1, <2>1 DEF NewHandles
  <2> QED
    BY <2>1, <2>2 DEF NewHandles
<1>5. PICK n \in Int : n = s.next + Len(es)
  BY <1>1
<1> HIDE DEF tb
<1>6. Enter(s, es) \in System /\ Enter(s, es).table = tb
  BY <1>2, <1>3, <1>5 DEF System
<1> QED
  BY <1>4, <1>6 DEF Tells

\* Creating a pipe.
LEMMA PipeCreated ==
  ASSUME NEW s \in System, NEW kind0 \in PipeKinds, NEW kind1 \in PipeKinds,
         RoomForEnds(s, 2)
  PROVE  Tells(s, CreatePipe(s, kind0, kind1).s, CreatePipe(s, kind0, kind1).handles)
<1> DEFINE e == s.made + 1
           x0 == [NoEnd EXCEPT !.kind = kind0, !.peer = e + 1]
           x1 == [NoEnd EXCEPT !.kind = kind1, !.peer = e]
           t == [s EXCEPT !.made = @ + 2, !.ends[e] = x0, !.ends[e + 1] = x1]
<1>1. e \in Ends /\ e + 1 \in Ends /\ s.made + 2 \in Nat
  BY DEF System, RoomForEnds, Ends
<1>2. /\ CreatePipe(s, kind0, kind1).s = Enter(t, <<e, e + 1>>)
      /\ CreatePipe(s, kind0, kind1).handles = NewHandles(s, 2)
  BY DEF CreatePipe
<1>3. PICK e0 \in Ends, e1 \in Ends, m \in Nat : e0 = e /\ e1 = e + 1 /\ m = s.made + 2
  BY <1>1
<1> HIDE DEF e
<1>4. x0 \in EndStates /\ x1 \in EndStates
  BY <1>3, NewEnds
<1> HIDE DEF x0, x1
<1>5. [s.ends EXCEPT ![e0] = x0, ![e1] = x1] \in [Ends -> EndStates]
  BY <1>4 DEF System
<1>6. t \in System /\ t.table = s.table /\ t.next = s.next
  BY <1>3, <1>5 DEF System
<1> HIDE DEF t
<1>7. <<e0, e1>> \in Seq(Ends) /\ Len(<<e0, e1>>) = 2
  OBVIOUS
<1>8. Tells(t, Enter(t, <<e0, e1>>), NewHandles(t, 2))
  <2>1. PICK es \in Seq(Ends) : es = <<e0, e1>>
    BY <1>7
  <2> QED
    BY <1>6, <1>7, <2>1, Entered
<1>9. NewHandles(t, 2) = NewHandles(s, 2)
  BY <1>6 DEF NewHandles
<1> QED
  BY <1>2, <1>3, <1>6, <1>8, <1>9 DEF Tells

\* Creating a buffer.
LEMMA BufferCreated ==
  ASSUME NEW s \in System, RoomForEnds(s, 1)
  PROVE  Tells(s, CreateBuffer(s).s, CreateBuffer(s).handles)
<1> DEFINE e == s.made + 1
           x == [NoEnd EXCEPT !.kind = "buffer"]
           t == [s EXCEPT !.made = @ + 1, !.ends[e] = x]
<1>1. e \in Ends /\ e \in Nat
  BY DEF System, RoomForEnds, Ends
<1>2. CreateBuffer(s).s = Enter(t, <<e>>) /\ CreateBuffer(s).handles = NewHandles(s, 1)
  BY DEF CreateBuffer
<1>3. x \in EndStates
  BY <1>1, "message" \in PipeKinds, NewEnds DEF PipeKinds
<1>4. PICK e0 \in Ends : e0 = e /\ e0 = s.made + 1 /\ e0 \in Nat
  BY <1>1
<1> HIDE DEF e, x
<1>5. [s.ends EXCEPT ![e0] = x] \in [Ends -> EndStates]
  BY <1>3 DEF System
<1>6. t \in System /\ t.table = s.table /\ t.next = s.next
  BY <1>4, <1>5 DEF System
<1> HIDE DEF t
<1>7. <<e0>> \in Seq(Ends) /\ Len(<<e0>>) = 1
  OBVIOUS
<1>8. Tells(t, Enter(t, <<e0>>), NewHandles(t, 1))
  <2>1. PICK es \in Seq(Ends) : es = <<e0>>
    BY <1>7
  <2> QED
    BY <1>6, <1>7, <2>1, Entered
<1>9. NewHandles(t, 1) = NewHandles(s, 1)
  BY <1>6 DEF NewHandles
<1> QED
  BY <1>2, <1>4, <1>6, <1>8, <1>9 DEF Tells

\* Closing a handle.
LEMMA EndsClosed ==
  ASSUME NEW s \in System, NEW es
  PROVE  CloseEnds(s, es) \in System /\ CloseEnds(s, es).table = s.table
<1> DEFINE f == [e \in Ends |-> IF e \in Carried(s, es) THEN [NoEnd EXCEPT !.kind = "closed"]
                               ELSE s.ends[e]]
<1>1. [NoEnd EXCEPT !.kind = "closed"] \in EndStates
  BY 1 \in Ends, "message" \in PipeKinds, NewEnds DEF Ends, PipeKinds
<1>2. f \in [Ends -> EndStates]
  BY <1>1 DEF System
<1>3. CloseEnds(s, es) = [s EXCEPT !.ends = f]
  BY DEF CloseEnds
<1> HIDE DEF f
<1> QED
  BY <1>2, <1>3 DEF System

LEMMA Closed ==
  ASSUME NEW s \in System, NEW h
  PROVE  Tells(s, MojoClose(s, h).s, <<>>)
<1>1. CASE ~Valid(s, h)
  BY <1>1 DEF MojoClose, Result, Tells
<1>2. CASE Valid(s, h)
  <2> DEFINE t == CloseEnds(s, {s.table[h]})
  <2>1. t \in System /\ t.table = s.table
    BY EndsClosed
  <2>2. MojoClose(s, h).s = [t EXCEPT !.table[h] = 0]
    BY <1>2 DEF MojoClose, Result
  <2> HIDE DEF t
  <2> QED
    BY <2>1, <2>2 DEF System, Tells
<1> QED
  BY <1>1, <1>2

\* A call that only looks.
LEMMA Looked ==
  ASSUME NEW s \in System, NEW hs
  PROVE  Tells(s, s, hs)
BY DEF Tells

\* A call that changes the ends.
LEMMA Moved ==
  ASSUME NEW s \in System, NEW f \in [Ends -> EndStates]
  PROVE  Tells(s, [s EXCEPT !.ends = f], <<>>)
<1>1. PICK t \in System : t = [s EXCEPT !.ends = f] /\ t.table = s.table
  BY EndsChange
<1> QED
  BY <1>1 DEF Tells

LEMMA Duplicated ==
  ASSUME NEW s \in System, NEW h, RoomForEnds(s, 1)
  PROVE  Tells(s, MojoDuplicateBufferHandle(s, h).s, MojoDuplicateBufferHandle(s, h).handles)
<1>1. CASE IsA(s, h, {"buffer"})
  BY <1>1, BufferCreated DEF MojoDuplicateBufferHandle
<1>2. CASE ~IsA(s, h, {"buffer"})
  BY <1>2, Looked DEF MojoDuplicateBufferHandle
<1> QED
  BY <1>1, <1>2

\* A handle of a kind leads to an end, and one of a pipe to its other end.
LEMMA LeadsToEnd ==
  ASSUME NEW s \in System, NEW h, NEW kinds, IsA(s, h, kinds)
  PROVE  /\ s.table[h] \in Ends /\ EndOf(s, h) \in EndStates
         /\ EndOf(s, h).level \in Int /\ EndOf(s, h).phase \in Int
         /\ EndOf(s, h).inbox \in Seq(Messages)
         /\ kinds \subseteq PipeKinds => PeerOf(s, h) \in Ends
<1>1. s.table[h] \in Ends
  BY DEF IsA, System
<1>2. EndOf(s, h) \in EndStates /\ EndOf(s, h).kind \in kinds
  BY <1>1 DEF IsA, EndOf, System
<1> QED
  BY <1>1, <1>2 DEF EndStates, EndRecords, PeerOf

\* Writing a message: the handles in it leave the table.
LEMMA MessageWritten ==
  ASSUME NEW s \in System, NEW h, NEW bytes \in Int, NEW hs \in Seq(Int)
  PROVE  Tells(s, MojoWriteMessage(s, h, bytes, hs).s, <<>>)
<1> DEFINE msg == [bytes |-> bytes, ends |-> [k \in DOMAIN hs |-> s.table[hs[k]]]]
           e == PeerOf(s, h)
           q == Append(s.ends[e].inbox, msg)
           tb == [x \in Handles |-> IF \E k \in DOMAIN hs : hs[k] = x THEN 0 ELSE s.table[x]]
           t == [s EXCEPT !.ends[e].inbox = Append(@, msg), !.table = tb]
<1>1. \/ MojoWriteMessage(s, h, bytes, hs).s = s
      \/ /\ \A k \in DOMAIN hs : Valid(s, hs[k])
         /\ MojoWriteMessage(s, h, bytes, hs).s = t
  BY DEF MojoWriteMessage, Result
<1>2. CASE MojoWriteMessage(s, h, bytes, hs).s = s
  BY <1>2, Looked
<1>3. CASE (\A k \in DOMAIN hs : Valid(s, hs[k])) /\ MojoWriteMessage(s, h, bytes, hs).s = t
  <2>1. msg \in Messages
    <3>1. \A k \in DOMAIN hs : s.table[hs[k]] \in Ends
      BY <1>3 DEF Valid, System
    <3>2. [k \in DOMAIN hs |-> s.table[hs[k]]] \in [1 .. Len(hs) -> Ends] /\ Len(hs) \in Nat
      BY <3>1
    <3>3. PICK es : es = [k \in DOMAIN hs |-> s.table[hs[k]]]
      OBVIOUS
    <3>4. es \in Seq(Ends)
      BY <3>2, <3>3
    <3> QED
      BY <3>3, <3>4 DEF Messages
  <2>2. tb \in [Handles -> Ends \cup {0}] /\ \A x \in Handles : tb[x] # 0 => s.table[x] # 0
    BY DEF System
  <2>3. s.ends \in [Ends -> EndStates]
    BY DEF System
  <2> HIDE DEF msg, tb, e
  <2>4. PICK f \in [Ends -> EndStates] : f = [s.ends EXCEPT ![e].inbox = Append(@, msg)]
    <3>1. CASE e \in Ends
      <4>1. s.ends[e].inbox \in Seq(Messages)
        BY <2>3, <3>1 DEF EndStates, EndRecords
      <4>2. PICK q0 \in Seq(Messages) : q0 = Append(s.ends[e].inbox, msg)
        BY <2>1, <4>1, Queues
      <4> QED
        BY <2>3, <4>2, FieldChanges
    <3>2. CASE e \notin Ends
      BY <2>3, <3>2
    <3> QED
      BY <3>1, <3>2
  <2>5. t = [s EXCEPT !.ends = f, !.table = tb]
    BY <2>4
  <2>6. t \in System /\ t.table = tb
    BY <2>2, <2>5 DEF System
  <2> QED
    BY <1>3, <2>2, <2>6 DEF Tells
<1> QED
  BY <1>1, <1>2, <1>3

\* Reading a message, asking for its sizes, or dropping one that is too large.
LEMMA MessageRead ==
  ASSUME NEW s \in System, NEW h, NEW bytes \in Int, NEW handles \in Int, NEW discard \in BOOLEAN
  PROVE  LET r == MojoReadMessage(s, h, bytes, handles, discard)
         IN /\ Tells(s, r.s, r.got)
            /\ r.bytes \in Int /\ r.handles \in Int
            /\ handles = 0 => DOMAIN r.got = {}
<1> DEFINE r == MojoReadMessage(s, h, bytes, handles, discard)
           e == s.table[h]
           msg == Head(s.ends[e].inbox)
           popped == [s EXCEPT !.ends[e].inbox = Tail(@)]
           es == {msg.ends[k] : k \in DOMAIN msg.ends}
<1>1. CASE ~IsA(s, h, {"message"}) \/ Queued(s, h) = <<>>
  <2>1. r.s = s /\ r.bytes = bytes /\ r.handles = handles /\ r.got = <<>>
    BY <1>1 DEF MojoReadMessage
  <2> QED
    BY <2>1, Looked
<1>2. CASE IsA(s, h, {"message"}) /\ Queued(s, h) # <<>>
  <2>1. e \in Ends /\ s.ends[e].inbox \in Seq(Messages) /\ s.ends[e].inbox # <<>>
    BY <1>2, LeadsToEnd DEF Queued, EndOf
  <2>2. msg \in Messages /\ Tail(s.ends[e].inbox) \in Seq(Messages)
    BY <2>1
  <2>3. msg.bytes \in Int /\ msg.ends \in Seq(Ends) /\ Len(msg.ends) \in Nat
    <3>1. PICK m \in Messages : m = msg
      BY <2>2
    <3>2. m.bytes \in Int /\ m.ends \in Seq(Ends)
      BY DEF Messages
    <3>3. Len(m.ends) \in Nat
      BY <3>2
    <3> HIDE DEF msg
    <3> QED
      BY <3>1, <3>2, <3>3
  <2>4. PICK q \in Seq(Messages) : q = Tail(s.ends[e].inbox)
    BY <2>2
  <2>5. PICK f \in [Ends -> EndStates] : f = [s.ends EXCEPT ![e].inbox = q]
    BY FieldChanges DEF System
  <2>6. popped = [s EXCEPT !.ends = f]
    BY <2>4, <2>5
  <2>7. popped \in System /\ popped.table = s.table /\ popped.next = s.next
    BY <2>6, EndsChange
  <2>8. /\ r.bytes = msg.bytes /\ r.handles = Len(msg.ends)
        /\ \/ /\ r.s = Enter(popped, msg.ends) /\ r.got = NewHandles(s, Len(msg.ends))
              /\ Len(msg.ends) <= handles
           \/ r.s \in {CloseEnds(popped, es), s} /\ r.got = <<>>
    BY <1>2 DEF MojoReadMessage
  <2> HIDE DEF popped, msg, es
  <2>9. Tells(popped, Enter(popped, msg.ends), NewHandles(popped, Len(msg.ends)))
    BY <2>3, <2>7, Entered
  <2>10. NewHandles(popped, Len(msg.ends)) = NewHandles(s, Len(msg.ends))
    BY <2>7 DEF NewHandles
  <2>11. Tells(s, Enter(popped, msg.ends), NewHandles(s, Len(msg.ends)))
    BY <2>7, <2>9, <2>10 DEF Tells
  <2>12. Tells(s, CloseEnds(popped, es), <<>>)
    BY <2>7, EndsClosed DEF Tells
  <2>13. handles = 0 => DOMAIN r.got = {}
    <3>1. ASSUME NEW n \in Nat, n <= 0 PROVE DOMAIN NewHandles(s, n) = {}
      BY <3>1 DEF NewHandles
    <3> QED
      BY <2>3, <2>8, <3>1
  <2> QED
    BY <2>3, <2>8, <2>11, <2>12, <2>13, Looked
<1> QED
  BY <1>1, <1>2

\* What a data pipe has room for, and what it holds.
LEMMA Amounts ==
  ASSUME NEW s \in System, NEW h
  PROVE  Space(s, h) \in Int /\ Available(s, h) \in Int
<1>1. Space(s, h) \in Int
  <2>1. CASE IsA(s, h, {"producer"}) /\ PeerOpen(s, h)
    <3>1. PeerOf(s, h) \in Ends
      BY <2>1, LeadsToEnd DEF PipeKinds
    <3>2. s.ends[PeerOf(s, h)].level \in Int
      BY <3>1 DEF System, EndStates, EndRecords
    <3> QED
      BY <2>1, <3>2 DEF Space
  <2>2. CASE ~(IsA(s, h, {"producer"}) /\ PeerOpen(s, h))
    BY <2>2 DEF Space
  <2> QED
    BY <2>1, <2>2
<1>2. Available(s, h) \in Int
  BY LeadsToEnd DEF Available
<1> QED
  BY <1>1, <1>2

LEMMA Transferred ==
  ASSUME NEW s \in System, NEW h, NEW kind, NEW n \in Int, NEW limit \in Int
  PROVE  /\ Transfer(s, h, kind, n, limit).n \in Int
         /\ Transfer(s, h, kind, n, limit).res = "OK" => IsA(s, h, {kind})
BY DEF Transfer, Least

\* Bytes are moved at the consumer's end.
LEMMA LevelMoves ==
  ASSUME NEW s \in System, NEW e, NEW n \in Int
  PROVE  /\ Tells(s, [s EXCEPT !.ends[e].level = @ + n], <<>>)
         /\ Tells(s, [s EXCEPT !.ends[e].level = @ - n], <<>>)
         /\ Tells(s, [s EXCEPT !.ends[e].phase = n], <<>>)
<1>1. s.ends \in [Ends -> EndStates] /\ <<>> \in Seq(Messages)
  BY DEF System
<1>2. [s.ends EXCEPT ![e].phase = n] \in [Ends -> EndStates]
  BY <1>1, FieldChanges
<1>3. /\ [s.ends EXCEPT ![e].level = @ + n] \in [Ends -> EndStates]
      /\ [s.ends EXCEPT ![e].level = @ - n] \in [Ends -> EndStates]
  <2>1. CASE e \in Ends
    <3>1. s.ends[e].level \in Int
      BY <1>1, <2>1 DEF EndStates, EndRecords
    <3>2. PICK a \in Int, b \in Int : a = s.ends[e].level + n /\ b = s.ends[e].level - n
      BY <3>1
    <3> QED
      BY <1>1, <3>2, FieldChanges
  <2>2. CASE e \notin Ends
    BY <1>1, <2>2
  <2> QED
    BY <2>1, <2>2
<1>4. PICK f1 \in [Ends -> EndStates] : f1 = [s.ends EXCEPT ![e].level = @ + n]
  BY <1>3
<1>5. PICK f2 \in [Ends -> EndStates] : f2 = [s.ends EXCEPT ![e].level = @ - n]
  BY <1>3
<1>6. PICK f3 \in [Ends -> EndStates] : f3 = [s.ends EXCEPT ![e].phase = n]
  BY <1>2
<1>7. /\ [s EXCEPT !.ends[e].level = @ + n] = [s EXCEPT !.ends = f1]
      /\ [s EXCEPT !.ends[e].level = @ - n] = [s EXCEPT !.ends = f2]
      /\ [s EXCEPT !.ends[e].phase = n] = [s EXCEPT !.ends = f3]
  BY <1>4, <1>5, <1>6
<1> QED
  BY <1>7, Moved

\* Writing, reading and querying data.
LEMMA DataMoved ==
  ASSUME NEW s \in System, NEW h, NEW n \in Int
  PROVE  /\ Tells(s, MojoWriteData(s, h, n).s, <<>>)
         /\ Tells(s, MojoReadData(s, h, n).s, <<>>)
         /\ Tells(s, MojoQueryData(s, h).s, <<>>)
<1>1. Tells(s, MojoWriteData(s, h, n).s, <<>>)
  <2>1. PICK k \in Int : k = Transfer(s, h, "producer", n, Space(s, h)).n
    BY Amounts, Transferred
  <2> QED
    BY <2>1, LevelMoves, Looked DEF MojoWriteData
<1>2. Tells(s, MojoReadData(s, h, n).s, <<>>)
  <2>1. PICK k \in Int : k = Transfer(s, h, "consumer", n, Available(s, h)).n
    BY Amounts, Transferred
  <2> QED
    BY <2>1, LevelMoves, Looked DEF MojoReadData
<1>3. Tells(s, MojoQueryData(s, h).s, <<>>)
  BY Looked DEF MojoQueryData
<1> QED
  BY <1>1, <1>2, <1>3

\* Two-phase operations.
LEMMA PhaseBegun ==
  ASSUME NEW s \in System, NEW h, NEW kind, NEW limit \in Int
  PROVE  Tells(s, MojoBegin(s, h, kind, limit).s, <<>>) /\ MojoBegin(s, h, kind, limit).n \in Int
<1>1. PICK k \in Int : k = Transfer(s, h, kind, limit, limit).n
  BY Transferred
<1> QED
  BY <1>1, LevelMoves, Looked DEF MojoBegin

LEMMA PhaseEnded ==
  ASSUME NEW s \in System, NEW h, NEW n \in Int
  PROVE  /\ Tells(s, MojoEndWriteData(s, h, n).s, <<>>)
         /\ Tells(s, MojoEndReadData(s, h, n).s, <<>>)
<1> DEFINE t == [s EXCEPT !.ends[s.table[h]].phase = 0]
<1>1. Tells(s, t, <<>>)
  BY 0 \in Int, LevelMoves
<1>2. t \in System
  BY <1>1 DEF Tells
<1>3. /\ Tells(t, [t EXCEPT !.ends[PeerOf(t, h)].level = @ + n], <<>>)
      /\ Tells(t, [t EXCEPT !.ends[t.table[h]].level = @ - n], <<>>)
  BY <1>2, LevelMoves
<1>4. /\ Tells(s, [t EXCEPT !.ends[PeerOf(t, h)].level = @ + n], <<>>)
      /\ Tells(s, [t EXCEPT !.ends[t.table[h]].level = @ - n], <<>>)
  BY <1>1, <1>3 DEF Tells
<1>5. MojoEndWriteData(s, h, n).s \in {s, t, [t EXCEPT !.ends[PeerOf(t, h)].level = @ + n]}
  BY DEF MojoEndWriteData, MojoEnd, Result
<1>6. MojoEndReadData(s, h, n).s \in {s, t, [t EXCEPT !.ends[t.table[h]].level = @ - n]}
  BY DEF MojoEndReadData, MojoEnd, Result
<1> QED
  BY <1>1, <1>4, <1>5, <1>6, Looked

--------------------------------------------------------------------------------
(* The heap.                                                               *)

Free(hp) == {o \in Objects : hp[o] = NoObject}

\* There is a next free object as long as there is one.
LEMMA FreshIsFree ==
  ASSUME NEW hp, Free(hp) # {}
  PROVE  Fresh(hp) \in Objects /\ hp[Fresh(hp)] = NoObject
<1>1. Free(hp) \in SUBSET Nat
  BY DEF Free, Objects
<1>2. \E x \in Free(hp) : \A y \in Free(hp) : ~ (<<y, x>> \in OpToRel(<, Nat))
  BY <1>1, NatLessThanWellFounded, WFMin
<1>3. \A x, y \in Nat : y < x => <<y, x>> \in OpToRel(<, Nat)
  BY DEF OpToRel
<1>4. PICK x \in Free(hp) : \A y \in Free(hp) : ~ (y < x)
  BY <1>1, <1>2, <1>3
<1>5. /\ x \in Objects /\ hp[x] = NoObject
      /\ \A p \in 1 .. (x - 1) : hp[p] # NoObject
  BY <1>4 DEF Free, Objects
<1> QED
  BY <1>5 DEF Fresh

\* Room(n) counts the free objects.
LEMMA FreeCounted ==
  ASSUME NEW hp
  PROVE  /\ Cardinality(Free(hp)) \in Nat
         /\ Cardinality(Free(hp)) >= 1 => Free(hp) # {}
         /\ \A x \in Free(hp) : Cardinality(Free(hp) \ {x}) = Cardinality(Free(hp)) - 1
<1>1. IsFiniteSet(Objects)
  BY FS_Interval DEF Objects
<1>2. IsFiniteSet(Free(hp))
  BY <1>1, FS_Subset DEF Free
<1>3. Cardinality(Free(hp)) \in Nat
  BY <1>2, FS_CardinalityType
<1>4. Cardinality(Free(hp)) >= 1 => Free(hp) # {}
  BY FS_EmptySet
<1>5. \A x \in Free(hp) : Cardinality(Free(hp) \ {x}) = Cardinality(Free(hp)) - 1
  BY <1>2, FS_RemoveElement
<1> QED
  BY <1>3, <1>4, <1>5

LEMMA RoomIsFree ==
  ASSUME Room(1)
  PROVE  Fresh(heap) \in Objects /\ heap[Fresh(heap)] = NoObject
BY FreeCounted, FreshIsFree DEF Room, Free

LEMMA NewObjects ==
  ASSUME NEW kind \in {"typed", "array", "mapping", "region", "instance"}, NEW n \in Int,
         NEW h \in Int
  PROVE  /\ Object(kind, n, h) \in HeapObjects
         /\ Object(kind, n, h).kind = kind /\ Object(kind, n, h).size = n
BY DEF Object, HeapObjects

\* The objects that own native memory.
Owners(hp) == {o \in Objects : hp[o].kind \in {"array", "mapping"}}

\* A new object takes the place of none.
LEMMA Allocated ==
  ASSUME NEW hp \in [Objects -> HeapObjects], NEW o \in Objects, hp[o] = NoObject,
         NEW x \in HeapObjects, x.kind # "none",
         NEW hq, hq[o] = x, \A p \in Objects \ {o} : hq[p] = hp[p]
  PROVE  /\ hq[o] # NoObject
         /\ \A p \in Objects : hp[p] # NoObject => hq[p] = hp[p]
         /\ x.kind \in {"array", "mapping"} => Owners(hq) = Owners(hp) \cup {o}
         /\ x.kind \notin {"array", "mapping"} => Owners(hq) = Owners(hp)
         /\ Free(hq) = Free(hp) \ {o}
<1>1. NoObject.kind = "none"
  BY DEF NoObject, Object
<1>2. x # NoObject
  BY <1>1
<1> QED
  BY <1>1, <1>2 DEF Owners, Free

\* Typed data f fits n bytes or handles: it is there, large enough and the one
\* there was or a free object, and nothing else of the heap has changed.
Fits(f, hp, o, n) ==
  /\ f.hp \in [Objects -> HeapObjects]
  /\ f.mem = Owners(f.hp)
  /\ f.o \in Objects \cup {Null}
  /\ f.o # Null => f.hp[f.o] # NoObject
  /\ n > 0 => f.o \in Objects /\ f.hp[f.o].size >= n
  /\ f.o = o \/ (f.o \in Objects /\ hp[f.o] = NoObject)
  /\ \A p \in Objects : hp[p] # NoObject => f.hp[p] = hp[p]
  /\ TooSmall(o, n) => Cardinality(Free(f.hp)) = Cardinality(Free(hp)) - 1
  /\ ~TooSmall(o, n) => f.hp = hp

LEMMA Fitted ==
  ASSUME NEW hp \in [Objects -> HeapObjects], NEW o \in Objects \cup {Null}, NEW n \in Int,
         heap \in [Objects -> HeapObjects],
         o # Null => heap[o] # NoObject /\ hp[o] = heap[o],
         TooSmall(o, n) => Free(hp) # {}
  PROVE  Fits(Fitting(hp, Owners(hp), o, n), hp, o, n)
<1> DEFINE m == Owners(hp)
<1>f. PICK f : f = Fitting(hp, m, o, n)
  OBVIOUS
<1> DEFINE x == Fresh(hp)
           ob == TypedData("array", n)
<1>z. Null \notin Objects
  BY DEF Null, Objects
<1>1. CASE TooSmall(o, n)
  <2>1. x \in Objects /\ hp[x] = NoObject
    BY <1>1, FreshIsFree
  <2>2. ob \in HeapObjects /\ ob.kind = "array" /\ ob.size = n
    <3>1. PICK kind \in {"typed", "array", "mapping", "region", "instance"}, h \in Int :
            kind = "array" /\ h = MOJO_HANDLE_INVALID
      BY DEF MOJO_HANDLE_INVALID
    <3>2. ob = Object(kind, n, h)
      BY <3>1 DEF TypedData
    <3> HIDE DEF ob
    <3> QED
      BY <3>1, <3>2, NewObjects
  <2>3. f.hp = [hp EXCEPT ![x] = ob] /\ f.mem = m \cup {x} /\ f.o = x
    BY <1>1, <1>f DEF Fitting
  <2> HIDE DEF x, ob
  <2>4. /\ f.hp \in [Objects -> HeapObjects]
        /\ f.hp[x] = ob /\ f.hp[x] # NoObject
        /\ \A p \in Objects : hp[p] # NoObject => f.hp[p] = hp[p]
        /\ Owners(f.hp) = Owners(hp) \cup {x}
        /\ Free(f.hp) = Free(hp) \ {x}
    <3>1. PICK p \in Objects, y \in HeapObjects : p = x /\ y = ob
      BY <2>1, <2>2
    <3>4. PICK hq : hq = f.hp
      OBVIOUS
    <3>2. /\ hp[p] = NoObject /\ hq \in [Objects -> HeapObjects]
          /\ hq[p] = y /\ \A r \in Objects \ {p} : hq[r] = hp[r]
          /\ y.kind # "none" /\ y.kind \in {"array", "mapping"}
      BY <2>1, <2>2, <2>3, <3>1, <3>4
    <3>3. /\ hq[p] # NoObject
          /\ \A r \in Objects : hp[r] # NoObject => hq[r] = hp[r]
          /\ Owners(hq) = Owners(hp) \cup {p}
          /\ Free(hq) = Free(hp) \ {p}
      BY <3>2, Allocated
    <3> QED
      BY <3>1, <3>2, <3>3, <3>4
  <2>5. x \in Free(hp)
    BY <2>1 DEF Free
  <2>6. Cardinality(Free(f.hp)) = Cardinality(Free(hp)) - 1
    BY <2>4, <2>5, FreeCounted
  <2> QED
    <3>1. f.hp[f.o].size >= n
      BY <2>2, <2>3, <2>4
    <3>2. f.mem = Owners(f.hp)
      BY <2>3, <2>4
    <3> QED
      BY <1>1, <1>f, <2>1, <2>3, <2>4, <2>6, <3>1, <3>2 DEF Fits
<1>2. CASE ~TooSmall(o, n)
  <2>1. f.hp = hp /\ f.mem = m /\ f.o = o
    BY <1>2, <1>f DEF Fitting
  <2>2. n > 0 => o \in Objects /\ hp[o].size >= n
    <3> SUFFICES ASSUME n > 0 PROVE o \in Objects /\ hp[o].size >= n
      OBVIOUS
    <3>1. o \in Objects /\ ~(heap[o].size < n)
      BY <1>2 DEF TooSmall, Length, Size
    <3>2. hp[o] = heap[o] /\ heap[o].size \in Int
      BY <1>z, <3>1 DEF HeapObjects
    <3> QED
      BY <3>1, <3>2
  <2> QED
    BY <1>2, <1>f, <2>1, <2>2 DEF Fits
<1> QED
  BY <1>1, <1>2

--------------------------------------------------------------------------------
(* The two halves of the invariant: the system, and the Dart heap.         *)

SysInv == sys \in System /\ HandlesTold

DartTypes ==
  /\ heap \in [Objects -> HeapObjects]
  /\ acquired \subseteq Objects
  /\ result \in [Isolates -> [data : Objects \cup {Null}, handles : Objects \cup {Null}]]
  /\ call \in [Isolates -> CallRecords \cup {NoCall}]

DartInv == DartTypes /\ MemoryHasOwner /\ RefsAlive /\ RefsApart /\ ReadStaysInBuffer

LEMMA Halves == Inv <=> SysInv /\ DartInv
BY DEF Inv, TypeOK, SysInv, DartInv, DartTypes

\* The handles a call returns are told.
LEMMA HandlesReturned ==
  ASSUME SysInv, NEW hs, Tells(sys, sys', hs), told \subseteq told',
         \A k \in DOMAIN hs : hs[k] \in Handles => hs[k] \in told'
  PROVE  SysInv'
BY DEF SysInv, Tells, HandlesTold, Valid

\* A call that returns none.
LEMMA NoneReturned ==
  ASSUME SysInv, Tells(sys, sys', <<>>), UNCHANGED told
  PROVE  SysInv'
BY DEF SysInv, Tells, HandlesTold, Valid

LEMMA SysKept ==
  ASSUME SysInv, UNCHANGED <<sys, told>>
  PROVE  SysInv'
BY DEF SysInv, HandlesTold

LEMMA DartKept ==
  ASSUME DartInv, UNCHANGED dart
  PROVE  DartInv'
BY DEF dart, DartInv, DartTypes, MemoryHasOwner, RefsAlive, RefsApart, Refs, ReadStaysInBuffer

\* What a list and a call of an isolate are.
LEMMA ListsAndCalls ==
  ASSUME DartTypes, NEW i \in Isolates
  PROVE  /\ result[i] \in [data : Objects \cup {Null}, handles : Objects \cup {Null}]
         /\ call[i].on => call[i] \in CallRecords
         /\ Refs(i) \subseteq Objects \cup {Null}
<1>1. result[i] \in [data : Objects \cup {Null}, handles : Objects \cup {Null}]
  BY DEF DartTypes
<1>2. call[i].on => call[i] \in CallRecords
  BY DEF DartTypes, NoCall
<1>3. {result[i].data, result[i].handles} \subseteq Objects \cup {Null}
  BY <1>1
<1>4. call[i].on => {call[i].data, call[i].handles} \subseteq Objects \cup {Null}
  BY <1>2 DEF CallRecords
<1> QED
  BY <1>1, <1>2, <1>3, <1>4 DEF Refs

\* The heap changes, but not the objects that are in use.
LEMMA HeapChanges ==
  ASSUME DartInv, heap' \in [Objects -> HeapObjects], mem' = Owners(heap'),
         \A i \in Isolates : \A o \in Refs(i) \ {Null} : heap'[o] = heap[o],
         acquired \subseteq acquired', acquired' \subseteq Objects, UNCHANGED <<result, call>>
  PROVE  DartInv'
<1>1. DartTypes'
  BY DEF DartInv, DartTypes
<1>2. MemoryHasOwner'
  BY DEF MemoryHasOwner, Owners
<1>3. \A i \in Isolates : Refs(i)' = Refs(i)
  BY DEF Refs
<1>4. RefsAlive' /\ RefsApart'
  BY <1>3 DEF DartInv, RefsAlive, RefsApart
<1>5. ReadStaysInBuffer'
  <2> SUFFICES ASSUME NEW i \in Isolates, call[i].on
               PROVE  /\ call[i].blen > 0 => /\ call[i].data \in acquired'
                                             /\ heap'[call[i].data].size >= call[i].blen
                      /\ call[i].hlen > 0 => /\ call[i].handles \in acquired'
                                             /\ heap'[call[i].handles].size >= call[i].hlen
    BY DEF ReadStaysInBuffer
  <2>1. call[i].data \in Refs(i) /\ call[i].handles \in Refs(i)
    BY DEF Refs
  <2>2. Null \notin acquired
    BY DEF DartInv, DartTypes, Objects, Null
  <2> QED
    BY <2>1, <2>2 DEF DartInv, ReadStaysInBuffer
<1> QED
  BY <1>1, <1>2, <1>4, <1>5 DEF DartInv

\* One isolate's list or call changes: it refers to what it did, or to free
\* objects, and releases nothing of the others.
LEMMA OneMoves ==
  ASSUME DartInv, NEW j \in Isolates, DartTypes', mem' = Owners(heap'),
         \A i \in Isolates \ {j} : result'[i] = result[i] /\ call'[i] = call[i],
         \A i \in Isolates : \A o \in Refs(i) \ {Null} : heap'[o] = heap[o],
         \A o \in Refs(j)' \ {Null} : heap'[o] # NoObject /\ (o \in Refs(j) \/ heap[o] = NoObject),
         \A i \in Isolates \ {j} : Refs(i) \cap acquired \subseteq acquired',
         call'[j].on =>
           /\ call'[j].blen > 0 => /\ call'[j].data \in acquired'
                                  /\ heap'[call'[j].data].size >= call'[j].blen
           /\ call'[j].hlen > 0 => /\ call'[j].handles \in acquired'
                                  /\ heap'[call'[j].handles].size >= call'[j].hlen
  PROVE  DartInv'
<1>1. MemoryHasOwner'
  BY DEF MemoryHasOwner, Owners
<1>2. \A i \in Isolates \ {j} : Refs(i)' = Refs(i)
  BY DEF Refs
<1>3. RefsAlive'
  BY <1>2 DEF DartInv, RefsAlive
<1>4. ASSUME NEW i \in Isolates \ {j} PROVE Refs(i)' \cap Refs(j)' \subseteq {Null}
  BY <1>2 DEF DartInv, RefsAlive, RefsApart
<1>5. RefsApart'
  BY <1>2, <1>4 DEF DartInv, RefsApart
<1>6. ASSUME NEW i \in Isolates \ {j}, call[i].on
      PROVE  /\ call[i].blen > 0 => /\ call[i].data \in acquired'
                                    /\ heap'[call[i].data].size >= call[i].blen
             /\ call[i].hlen > 0 => /\ call[i].handles \in acquired'
                                    /\ heap'[call[i].handles].size >= call[i].hlen
  <2>1. call[i].data \in Refs(i) /\ call[i].handles \in Refs(i)
    BY <1>6 DEF Refs
  <2>2. Null \notin acquired
    BY DEF DartInv, DartTypes, Objects, Null
  <2> QED
    BY <1>6, <2>1, <2>2 DEF DartInv, ReadStaysInBuffer
<1>7. ReadStaysInBuffer'
  BY <1>6 DEF ReadStaysInBuffer
<1> QED
  BY <1>1, <1>3, <1>5, <1>7 DEF DartInv

--------------------------------------------------------------------------------
(* The natives.                                                            *)

LEMMA InitOK ==
  ASSUME Init
  PROVE  Inv
<1>1. <<>> \in Seq(Messages)
  OBVIOUS
<1>2. NoEnd \in EndStates
  BY <1>1 DEF NoEnd, EndStates, EndRecords, PipeKinds
<1>3. EmptySystem \in System
  BY <1>2 DEF EmptySystem, System
<1>4. SysInv
  BY <1>3 DEF Init, SysInv, HandlesTold, Valid, EmptySystem
<1>5. NoObject \in HeapObjects /\ NoObject.kind = "none"
  BY DEF NoObject, Object, HeapObjects, MOJO_HANDLE_INVALID
<1>6. DartTypes
  BY <1>5 DEF Init, DartTypes, EmptyList
<1>7. MemoryHasOwner
  BY <1>5 DEF Init, MemoryHasOwner
<1>8. \A i \in Isolates : Refs(i) = {Null} /\ ~call[i].on
  BY DEF Init, Refs, EmptyList, NoCall
<1>9. RefsAlive /\ RefsApart /\ ReadStaysInBuffer
  BY <1>8 DEF RefsAlive, RefsApart, ReadStaysInBuffer
<1> QED
  BY <1>4, <1>6, <1>7, <1>9, Halves DEF DartInv

\* Nothing but what the native returns changes.
LEMMA NothingOK ==
  ASSUME Inv, UNCHANGED <<sys, told, dart>>
  PROVE  Inv'
<1>1. SysInv' /\ DartInv'
  BY Halves, SysKept, DartKept
<1> QED
  BY <1>1 DEF Inv, TypeOK, SysInv, DartInv, DartTypes

\* A native that only calls the system.
LEMMA CallsOK ==
  ASSUME Inv, NEW r, NEW hs, Tells(sys, r.s, hs), Calls(r, hs)
  PROVE  Inv'
<1>1. /\ sys' = r.s /\ told' = told \cup ({hs[k] : k \in DOMAIN hs} \ {MOJO_HANDLE_INVALID})
      /\ UNCHANGED dart
  BY DEF Calls
<1>2. \A k \in DOMAIN hs : hs[k] \in Handles => hs[k] \in told'
  BY <1>1 DEF Handles, MOJO_HANDLE_INVALID
<1>3. SysInv'
  BY <1>1, <1>2, Halves, HandlesReturned
<1>4. DartInv'
  BY <1>1, Halves, DartKept
<1> QED
  BY <1>3, <1>4 DEF Inv, TypeOK, SysInv, DartInv, DartTypes

\* A handle that the Dart program passes is an integer.
LEMMA SomeInt ==
  ASSUME NEW kinds, NEW h \in Some(kinds)
  PROVE  h \in Int
BY DEF Some, IsA, Handles, MOJO_HANDLE_INVALID

LEMMA CreateOK ==
  ASSUME Inv, NEW h,
         MojoSharedBuffer_Create \/ MojoSharedBuffer_Duplicate(h)
           \/ MojoDataPipe_Create \/ MojoMessagePipe_Create
  PROVE  Inv'
<1>0. sys \in System
  BY DEF Inv, TypeOK
<1>1. CASE MojoSharedBuffer_Create
  <2>1. PICK r : r = CreateBuffer(sys)
    OBVIOUS
  <2>2. Tells(sys, r.s, r.handles) /\ Calls(r, r.handles)
    BY <1>0, <1>1, <2>1, BufferCreated DEF MojoSharedBuffer_Create
  <2> QED
    BY <2>2, CallsOK
<1>2. CASE MojoSharedBuffer_Duplicate(h)
  <2>1. PICK r : r = MojoDuplicateBufferHandle(sys, h)
    OBVIOUS
  <2>2. Tells(sys, r.s, r.handles) /\ Calls(r, r.handles)
    BY <1>0, <1>2, <2>1, Duplicated DEF MojoSharedBuffer_Duplicate
  <2> QED
    BY <2>2, CallsOK
<1>3. CASE MojoDataPipe_Create
  <2>1. PICK r : r = CreatePipe(sys, "producer", "consumer")
    OBVIOUS
  <2>2. Tells(sys, r.s, r.handles) /\ Calls(r, r.handles)
    BY <1>0, <1>3, <2>1, PipeCreated DEF MojoDataPipe_Create, PipeKinds
  <2> QED
    BY <2>2, CallsOK
<1>4. CASE MojoMessagePipe_Create
  <2>1. PICK r : r = CreatePipe(sys, "message", "message")
    OBVIOUS
  <2>2. Tells(sys, r.s, r.handles) /\ Calls(r, r.handles)
    BY <1>0, <1>4, <2>1, PipeCreated DEF MojoMessagePipe_Create, PipeKinds
  <2> QED
    BY <2>2, CallsOK
<1> QED
  BY <1>1, <1>2, <1>3, <1>4

\* Waiting and asking.
LEMMA LookOK ==
  ASSUME Inv, NEW res, Calls(Result(res, sys), <<>>)
  PROVE  Inv'
<1>1. sys \in System
  BY DEF Inv, TypeOK
<1>2. PICK r : r = Result(res, sys)
  OBVIOUS
<1>3. r.s = sys
  BY <1>2 DEF Result
<1>4. Tells(sys, r.s, <<>>)
  BY <1>1, <1>3, Looked
<1> QED
  BY <1>2, <1>4, CallsOK

LEMMA WaitOK ==
  ASSUME Inv, NEW h, NEW hs, NEW signals,
         \/ MojoHandle_Wait(h, signals) \/ MojoHandle_WaitMany(hs, signals)
         \/ MojoSharedBuffer_GetInformation(h)
  PROVE  Inv'
<1>1. CASE MojoHandle_Wait(h, signals)
  BY <1>1, LookOK DEF MojoHandle_Wait
<1>2. CASE MojoHandle_WaitMany(hs, signals)
  BY <1>2, LookOK DEF MojoHandle_WaitMany
<1>3. CASE MojoSharedBuffer_GetInformation(h)
  BY <1>3, LookOK DEF MojoSharedBuffer_GetInformation
<1> QED
  BY <1>1, <1>2, <1>3

LEMMA CloseOK ==
  ASSUME Inv, NEW h, MojoHandle_Close(h)
  PROVE  Inv'
<1>1. PICK r : r = MojoClose(sys, h)
  OBVIOUS
<1>2. Tells(sys, r.s, <<>>)
  BY <1>1, Closed DEF Inv, TypeOK
<1> QED
  BY <1>1, <1>2, CallsOK DEF MojoHandle_Close

\* Moving data, and ending a two-phase operation.
LEMMA DataOK ==
  ASSUME Inv, NEW h, NEW n \in Int,
         \/ MojoDataPipe_WriteData(h, n) \/ MojoDataPipe_ReadData(h, n)
         \/ MojoDataPipe_EndWriteData(h, n) \/ MojoDataPipe_EndReadData(h, n)
  PROVE  Inv'
<1>0. sys \in System
  BY DEF Inv, TypeOK
<1>1. CASE MojoDataPipe_WriteData(h, n)
  <2>1. CASE n = 0
    BY <1>1, <2>1, NothingOK DEF MojoDataPipe_WriteData, SetNullReturn
  <2>2. CASE n # 0
    <3>1. PICK r : r = MojoWriteData(sys, h, n)
      OBVIOUS
    <3>2. Tells(sys, r.s, <<>>) /\ Calls(r, <<>>)
      BY <1>0, <1>1, <2>2, <3>1, DataMoved DEF MojoDataPipe_WriteData
    <3> QED
      BY <3>2, CallsOK
  <2> QED
    BY <2>1, <2>2
<1>2. CASE MojoDataPipe_ReadData(h, n)
  <2>1. PICK r : r = IF n = 0 THEN MojoQueryData(sys, h) ELSE MojoReadData(sys, h, n)
    OBVIOUS
  <2>2. Tells(sys, r.s, <<>>)
    BY <1>0, <2>1, DataMoved
  <2> QED
    BY <1>2, <2>1, <2>2, CallsOK DEF MojoDataPipe_ReadData
<1>3. CASE MojoDataPipe_EndWriteData(h, n)
  <2>1. PICK r : r = MojoEndWriteData(sys, h, n)
    OBVIOUS
  <2>2. Tells(sys, r.s, <<>>)
    BY <1>0, <2>1, PhaseEnded
  <2> QED
    BY <1>3, <2>1, <2>2, CallsOK DEF MojoDataPipe_EndWriteData
<1>4. CASE MojoDataPipe_EndReadData(h, n)
  <2>1. PICK r : r = MojoEndReadData(sys, h, n)
    OBVIOUS
  <2>2. Tells(sys, r.s, <<>>)
    BY <1>0, <2>1, PhaseEnded
  <2> QED
    BY <1>4, <2>1, <2>2, CallsOK DEF MojoDataPipe_EndReadData
<1> QED
  BY <1>1, <1>2, <1>3, <1>4

\* Messages.
LEMMA WriteOK ==
  ASSUME Inv, NEW h, NEW n \in Int, NEW hs \in Seq(Int), MojoMessagePipe_Write(h, n, hs)
  PROVE  Inv'
<1>1. Tells(sys, sys', <<>>)
  BY MessageWritten DEF Inv, TypeOK, MojoMessagePipe_Write
<1>2. UNCHANGED <<told, dart>>
  BY DEF MojoMessagePipe_Write
<1>3. SysInv' /\ DartInv'
  BY <1>1, <1>2, Halves, NoneReturned, DartKept
<1> QED
  BY <1>3 DEF Inv, TypeOK, SysInv, DartInv, DartTypes

LEMMA ReadOK ==
  ASSUME Inv, NEW h, NEW bytes \in Int, NEW n \in Int, NEW discard \in BOOLEAN,
         MojoMessagePipe_Read(h, bytes, n, discard)
  PROVE  Inv'
<1>1. PICK r : r = MojoReadMessage(sys, h, bytes, n, discard)
  OBVIOUS
<1>2. Tells(sys, r.s, r.got)
  BY <1>1, MessageRead DEF Inv, TypeOK
<1>3. Calls(r, r.got)
  BY <1>1 DEF MojoMessagePipe_Read
<1> QED
  BY <1>2, <1>3, CallsOK

\* A native that makes one object, in a place that is free.
LEMMA NewObjectOK ==
  ASSUME Inv, Room(1), NEW kind \in {"typed", "array", "mapping", "region", "instance"},
         NEW n \in Int, NEW h \in Int,
         heap' = [heap EXCEPT ![Fresh(heap)] = Object(kind, n, h)],
         mem' = IF kind \in {"array", "mapping"} THEN mem \cup {Fresh(heap)} ELSE mem
  PROVE  /\ Fresh(heap) \in Objects /\ heap[Fresh(heap)] = NoObject
         /\ heap'[Fresh(heap)] # NoObject
         /\ heap' \in [Objects -> HeapObjects] /\ mem' = Owners(heap')
         /\ \A p \in Objects : heap[p] # NoObject => heap'[p] = heap[p]
<1>1. PICK x \in HeapObjects : x = Object(kind, n, h) /\ x.kind = kind
  BY NewObjects
<1>2. PICK o \in Objects : o = Fresh(heap) /\ heap[o] = NoObject
  BY RoomIsFree
<1>3. heap \in [Objects -> HeapObjects] /\ mem = Owners(heap)
  BY DEF Inv, TypeOK, MemoryHasOwner, Owners
<1>4. heap' = [heap EXCEPT ![o] = x]
  BY <1>1, <1>2
<1>5. PICK hq : hq = heap'
  OBVIOUS
<1>6. /\ hq \in [Objects -> HeapObjects] /\ hq[o] = x
      /\ \A p \in Objects \ {o} : hq[p] = heap[p]
  BY <1>3, <1>4, <1>5
<1>7. /\ hq[o] # NoObject
      /\ \A p \in Objects : heap[p] # NoObject => hq[p] = heap[p]
      /\ x.kind \in {"array", "mapping"} => Owners(hq) = Owners(heap) \cup {o}
      /\ x.kind \notin {"array", "mapping"} => Owners(hq) = Owners(heap)
  <2>1. x.kind # "none"
    BY <1>1
  <2>2. PICK hp \in [Objects -> HeapObjects] : hp = heap
    BY <1>3
  <2>3. hp[o] = NoObject /\ \A p \in Objects \ {o} : hq[p] = hp[p]
    BY <1>2, <1>6, <2>2
  <2>4. /\ hq[o] # NoObject
        /\ \A p \in Objects : hp[p] # NoObject => hq[p] = hp[p]
        /\ x.kind \in {"array", "mapping"} => Owners(hq) = Owners(hp) \cup {o}
        /\ x.kind \notin {"array", "mapping"} => Owners(hq) = Owners(hp)
    BY <1>6, <2>1, <2>3, Allocated
  <2> QED
    BY <2>2, <2>4
<1> QED
  BY <1>1, <1>2, <1>3, <1>5, <1>6, <1>7

\* Objects that are referred to are none of the free ones.
LEMMA ReferredAlive ==
  ASSUME DartInv
  PROVE  \A i \in Isolates : \A o \in Refs(i) \ {Null} : o \in Objects /\ heap[o] # NoObject
BY ListsAndCalls DEF DartInv, RefsAlive

LEMMA MakeOK ==
  ASSUME Inv, Room(1), NEW kind \in {"typed", "array", "mapping", "region", "instance"},
         NEW n \in Int, NEW h \in Int,
         heap' = [heap EXCEPT ![Fresh(heap)] = Object(kind, n, h)],
         mem' = IF kind \in {"array", "mapping"} THEN mem \cup {Fresh(heap)} ELSE mem,
         UNCHANGED <<acquired, result, call>>
  PROVE  DartInv'
<1>1. DartInv
  BY Halves
<1>2. /\ heap' \in [Objects -> HeapObjects] /\ mem' = Owners(heap')
      /\ \A p \in Objects : heap[p] # NoObject => heap'[p] = heap[p]
  BY NewObjectOK
<1>3. \A i \in Isolates : \A o \in Refs(i) \ {Null} : heap'[o] = heap[o]
  BY <1>1, <1>2, ReferredAlive
<1>4. acquired \subseteq acquired' /\ acquired' \subseteq Objects
  BY <1>1 DEF DartInv, DartTypes
<1> QED
  BY <1>1, <1>2, <1>3, <1>4, HeapChanges

LEMMA RegisterFinalizerOK ==
  ASSUME Inv, NEW h \in Int, MojoHandle_RegisterFinalizer(h)
  PROVE  Inv'
<1>1. CASE h = MOJO_HANDLE_INVALID
  BY <1>1, NothingOK DEF MojoHandle_RegisterFinalizer, SetInvalidArgumentReturn
<1>2. CASE h # MOJO_HANDLE_INVALID
  <2>1. /\ Room(1) /\ heap' = [heap EXCEPT ![Fresh(heap)] = Object("instance", 0, h)]
        /\ UNCHANGED <<mem, acquired, result, call>> /\ UNCHANGED <<sys, told>>
    BY <1>2 DEF MojoHandle_RegisterFinalizer
  <2>2. PICK kind \in {"typed", "array", "mapping", "region", "instance"}, n \in Int :
          kind = "instance" /\ n = 0
    OBVIOUS
  <2>3. /\ heap' = [heap EXCEPT ![Fresh(heap)] = Object(kind, n, h)]
        /\ mem' = IF kind \in {"array", "mapping"} THEN mem \cup {Fresh(heap)} ELSE mem
    BY <2>1, <2>2
  <2>4. DartInv'
    BY <2>1, <2>3, MakeOK
  <2>5. SysInv'
    BY <2>1, Halves, SysKept
  <2> QED
    BY <2>4, <2>5 DEF Inv, TypeOK, SysInv, DartInv, DartTypes
<1> QED
  BY <1>1, <1>2

LEMMA MapOK ==
  ASSUME Inv, NEW h, MojoSharedBuffer_Map(h)
  PROVE  Inv'
<1>1. CASE ~IsA(sys, h, {"buffer"})
  BY <1>1, NothingOK DEF MojoSharedBuffer_Map, SetInvalidArgumentReturn
<1>2. CASE IsA(sys, h, {"buffer"})
  <2>1. /\ Room(1) /\ heap' = [heap EXCEPT ![Fresh(heap)] = Object("mapping", 1, 0)]
        /\ mem' = mem \cup {Fresh(heap)}
        /\ UNCHANGED <<acquired, result, call>> /\ UNCHANGED <<sys, told>>
    BY <1>2 DEF MojoSharedBuffer_Map, TypedData, MOJO_HANDLE_INVALID
  <2>2. PICK kind \in {"typed", "array", "mapping", "region", "instance"}, n \in Int, z \in Int :
          kind = "mapping" /\ n = 1 /\ z = 0
    OBVIOUS
  <2>3. /\ heap' = [heap EXCEPT ![Fresh(heap)] = Object(kind, n, z)]
        /\ mem' = IF kind \in {"array", "mapping"} THEN mem \cup {Fresh(heap)} ELSE mem
    BY <2>1, <2>2
  <2>4. DartInv'
    BY <2>1, <2>3, MakeOK
  <2>5. SysInv'
    BY <2>1, Halves, SysKept
  <2> QED
    BY <2>4, <2>5 DEF Inv, TypeOK, SysInv, DartInv, DartTypes
<1> QED
  BY <1>1, <1>2

\* A region of a data pipe's buffer: Dart shows it and does not own it.
LEMMA BeginOK ==
  ASSUME Inv, NEW r, Tells(sys, r.s, <<>>), r.n \in Int, Begin(r)
  PROVE  Inv'
<1>1. SysInv'
  BY Halves, NoneReturned DEF Begin
<1>2. CASE r.res # "OK"
  <2>1. UNCHANGED dart
    BY <1>2 DEF Begin, dart
  <2> QED
    BY <1>1, <2>1, Halves, DartKept DEF Inv, TypeOK, SysInv, DartInv, DartTypes
<1>3. CASE r.res = "OK"
  <2>1. /\ Room(1) /\ heap' = [heap EXCEPT ![Fresh(heap)] = Object("region", r.n, 0)]
        /\ UNCHANGED <<mem, acquired, result, call>>
    BY <1>3 DEF Begin, TypedData, MOJO_HANDLE_INVALID
  <2>2. PICK kind \in {"typed", "array", "mapping", "region", "instance"}, n \in Int, z \in Int :
          kind = "region" /\ n = r.n /\ z = 0
    OBVIOUS
  <2>3. /\ heap' = [heap EXCEPT ![Fresh(heap)] = Object(kind, n, z)]
        /\ mem' = IF kind \in {"array", "mapping"} THEN mem \cup {Fresh(heap)} ELSE mem
    BY <2>1, <2>2
  <2>4. DartInv'
    BY <2>1, <2>3, MakeOK
  <2> QED
    BY <1>1, <2>4 DEF Inv, TypeOK, SysInv, DartInv, DartTypes
<1> QED
  BY <1>2, <1>3

LEMMA BeginsOK ==
  ASSUME Inv, NEW h, MojoDataPipe_BeginWriteData(h) \/ MojoDataPipe_BeginReadData(h)
  PROVE  Inv'
<1>0. sys \in System
  BY DEF Inv, TypeOK
<1>1. CASE MojoDataPipe_BeginWriteData(h)
  <2>1. PICK r : r = MojoBeginWriteData(sys, h)
    OBVIOUS
  <2>2. Tells(sys, r.s, <<>>) /\ r.n \in Int
    BY <1>0, <2>1, Amounts, PhaseBegun DEF MojoBeginWriteData
  <2> QED
    BY <1>1, <2>1, <2>2, BeginOK DEF MojoDataPipe_BeginWriteData
<1>2. CASE MojoDataPipe_BeginReadData(h)
  <2>1. PICK r : r = MojoBeginReadData(sys, h)
    OBVIOUS
  <2>2. Tells(sys, r.s, <<>>) /\ r.n \in Int
    BY <1>0, <2>1, Amounts, PhaseBegun DEF MojoBeginReadData
  <2> QED
    BY <1>2, <2>1, <2>2, BeginOK DEF MojoDataPipe_BeginReadData
<1> QED
  BY <1>1, <1>2

\* The garbage collector: the object is referred to by nobody, and its memory
\* goes with it.
LEMMA CollectOK ==
  ASSUME Inv, NEW o \in Objects, Collect(o)
  PROVE  Inv'
<1>1. DartInv /\ SysInv
  BY Halves
<1>2. /\ ~InUse(o) /\ heap' = [heap EXCEPT ![o] = NoObject] /\ Finalize(o)
      /\ UNCHANGED <<acquired, result, call, told>>
  BY DEF Collect
<1>3. heap \in [Objects -> HeapObjects] /\ mem = Owners(heap)
  BY <1>1 DEF DartInv, DartTypes, MemoryHasOwner, Owners
<1>4. NoObject \in HeapObjects /\ NoObject.kind = "none"
  BY DEF NoObject, Object, HeapObjects, MOJO_HANDLE_INVALID
<1>5. heap' \in [Objects -> HeapObjects]
  BY <1>2, <1>3, <1>4
<1>6. Owners(heap') = Owners(heap) \ {o}
  BY <1>2, <1>3, <1>4 DEF Owners
<1>7. mem' = Owners(heap')
  BY <1>2, <1>3, <1>6 DEF Finalize, Owners
<1>8. \A i \in Isolates : o \notin Refs(i)
  BY <1>2 DEF InUse, Refs
<1>9. \A i \in Isolates : \A p \in Refs(i) \ {Null} : heap'[p] = heap[p]
  BY <1>1, <1>2, <1>3, <1>8, ReferredAlive
<1>10. acquired \subseteq acquired' /\ acquired' \subseteq Objects
  BY <1>1, <1>2 DEF DartInv, DartTypes
<1>11. DartInv'
  BY <1>1, <1>2, <1>5, <1>7, <1>9, <1>10, HeapChanges
<1>12. SysInv'
  <2>1. CASE sys' = MojoClose(sys, heap[o].handle).s
    BY <1>1, <1>2, <2>1, Closed, NoneReturned DEF SysInv
  <2>2. CASE UNCHANGED sys
    BY <1>1, <1>2, <2>2, SysKept
  <2> QED
    BY <1>2, <2>1, <2>2 DEF Finalize
<1> QED
  BY <1>11, <1>12 DEF Inv, TypeOK, SysInv, DartInv, DartTypes

\* A new list, with new typed data or without.
LEMMA NewListOK ==
  ASSUME Inv, NEW j \in Isolates, NewList(j)
  PROVE  Inv'
<1>1. DartInv /\ SysInv
  BY Halves
<1>2. SysInv'
  BY <1>1, SysKept DEF NewList
<1>3. UNCHANGED <<mem, acquired, call>> /\ ~call[j].on
  BY DEF NewList, Idle
<1>4. PICK d \in Objects \cup {Null} :
        /\ result' = [result EXCEPT ![j] = [data |-> d, handles |-> Null]]
        /\ heap' \in [Objects -> HeapObjects] /\ mem' = Owners(heap')
        /\ \A p \in Objects : heap[p] # NoObject => heap'[p] = heap[p]
        /\ d # Null => heap[d] = NoObject /\ heap'[d] # NoObject
  <2>1. CASE result' = [result EXCEPT ![j] = EmptyList] /\ UNCHANGED heap
    BY <1>1, <1>3, <2>1 DEF EmptyList, DartInv, DartTypes, MemoryHasOwner, Owners
  <2>2. CASE /\ Room(1)
             /\ \E n \in Sizes : heap' = [heap EXCEPT ![Fresh(heap)] = TypedData("typed", n)]
             /\ result' = [result EXCEPT ![j] = [EmptyList EXCEPT !.data = Fresh(heap)]]
    <3>0. PICK n \in Sizes : heap' = [heap EXCEPT ![Fresh(heap)] = TypedData("typed", n)]
      BY <2>2
    <3>1. PICK z \in Int, kind \in {"typed", "array", "mapping", "region", "instance"} :
            kind = "typed" /\ z = MOJO_HANDLE_INVALID
      BY DEF MOJO_HANDLE_INVALID
    <3>2. /\ n \in Int
          /\ heap' = [heap EXCEPT ![Fresh(heap)] = Object(kind, n, z)]
          /\ mem' = IF kind \in {"array", "mapping"} THEN mem \cup {Fresh(heap)} ELSE mem
      BY <1>3, <3>0, <3>1 DEF TypedData
    <3>3. /\ Fresh(heap) \in Objects /\ heap[Fresh(heap)] = NoObject
          /\ heap'[Fresh(heap)] # NoObject
          /\ heap' \in [Objects -> HeapObjects] /\ mem' = Owners(heap')
          /\ \A p \in Objects : heap[p] # NoObject => heap'[p] = heap[p]
      <4>1. Room(1)
        BY <2>2
      <4> QED
        BY <3>2, <4>1, NewObjectOK
    <3>4. result' = [result EXCEPT ![j] = [data |-> Fresh(heap), handles |-> Null]]
      <4>1. ASSUME NEW x PROVE [EmptyList EXCEPT !.data = x] = [data |-> x, handles |-> Null]
        BY DEF EmptyList
      <4>2. result' = [result EXCEPT ![j] = [EmptyList EXCEPT !.data = Fresh(heap)]]
        BY <2>2
      <4>3. [EmptyList EXCEPT !.data = Fresh(heap)] = [data |-> Fresh(heap), handles |-> Null]
        BY <4>1
      <4> QED
        BY <4>2, <4>3
    <3> QED
      BY <3>3, <3>4
  <2> QED
    BY <2>1, <2>2 DEF NewList
<1>5. /\ result'[j] = [data |-> d, handles |-> Null]
      /\ \A i \in Isolates \ {j} : result'[i] = result[i] /\ call'[i] = call[i]
  BY <1>1, <1>3, <1>4 DEF DartInv, DartTypes
<1>6. DartTypes'
  <2>1. [data |-> d, handles |-> Null] \in [data : Objects \cup {Null}, handles : Objects \cup {Null}]
    OBVIOUS
  <2> QED
    BY <1>1, <1>3, <1>4, <2>1 DEF DartInv, DartTypes
<1>7. \A i \in Isolates : \A o \in Refs(i) \ {Null} : heap'[o] = heap[o]
  BY <1>1, <1>4, ReferredAlive
<1>8. Refs(j)' = {d, Null}
  BY <1>3, <1>5 DEF Refs
<1>9. \A o \in Refs(j)' \ {Null} : heap'[o] # NoObject /\ (o \in Refs(j) \/ heap[o] = NoObject)
  BY <1>4, <1>8
<1>10. \A i \in Isolates \ {j} : Refs(i) \cap acquired \subseteq acquired'
  BY <1>3
<1>11. DartInv'
  BY <1>1, <1>3, <1>4, <1>5, <1>6, <1>7, <1>9, <1>10, OneMoves
<1> QED
  BY <1>2, <1>11 DEF Inv, TypeOK, SysInv, DartInv, DartTypes

LEMMA BadHandleOK ==
  ASSUME Inv, NEW j \in Isolates, Write_BadHandle(j)
  PROVE  Inv'
<1>1. DartInv /\ SysInv
  BY Halves
<1>2. SysInv'
  BY <1>1, SysKept DEF Write_BadHandle
<1>3. result[j].data \in Objects
  BY <1>1, ListsAndCalls DEF Write_BadHandle, Size, DartInv
<1>4. acquired \subseteq acquired' /\ acquired' \subseteq Objects
  BY <1>1, <1>3 DEF Write_BadHandle, DartInv, DartTypes
<1>5. UNCHANGED <<heap, mem, result, call>>
  BY DEF Write_BadHandle
<1>6. heap' \in [Objects -> HeapObjects] /\ mem' = Owners(heap')
  BY <1>1, <1>5 DEF DartInv, DartTypes, MemoryHasOwner, Owners
<1>7. DartInv'
  BY <1>1, <1>4, <1>5, <1>6, HeapChanges
<1> QED
  BY <1>2, <1>7 DEF Inv, TypeOK, SysInv, DartInv, DartTypes

\* The read of QueryAndRead: the isolate gives back its own data only.
LEMMA QueryAndReadOK ==
  ASSUME Inv, NEW j \in Isolates, QueryAndRead(j)
  PROVE  Inv'
<1>1. DartInv /\ SysInv /\ sys \in System
  BY Halves DEF SysInv
<1>2. call[j].on /\ call[j] \in CallRecords
  BY <1>1, ListsAndCalls DEF QueryAndRead, DartInv
<1>3. /\ call[j].h \in Int /\ call[j].blen \in Int /\ call[j].hlen \in Int
      /\ call[j].discard \in BOOLEAN
      /\ call[j].data \in Objects \cup {Null} /\ call[j].handles \in Objects \cup {Null}
  BY <1>2 DEF CallRecords
<1>4. PICK r : r = Reads(j)
  OBVIOUS
<1>5. Tells(sys, r.s, r.got)
  BY <1>1, <1>3, <1>4, MessageRead DEF Reads
<1>6. sys' = r.s /\ told' = told \cup {r.got[k] : k \in DOMAIN r.got}
  BY <1>4 DEF QueryAndRead
<1>7. SysInv'
  BY <1>1, <1>5, <1>6, HandlesReturned
<1>8. /\ acquired' = acquired \ Released(j) /\ UNCHANGED <<heap, mem>>
      /\ result' = [result EXCEPT ![j] = [data |-> call[j].data, handles |-> call[j].handles]]
      /\ call' = [call EXCEPT ![j] = NoCall]
  BY DEF QueryAndRead
<1>9. /\ result'[j] = [data |-> call[j].data, handles |-> call[j].handles]
      /\ call'[j] = NoCall
      /\ \A i \in Isolates \ {j} : result'[i] = result[i] /\ call'[i] = call[i]
  BY <1>1, <1>8 DEF DartInv, DartTypes
<1>10. ~call'[j].on
  BY <1>9 DEF NoCall
<1>11. DartTypes'
  <2>1. [data |-> call[j].data, handles |-> call[j].handles]
          \in [data : Objects \cup {Null}, handles : Objects \cup {Null}]
    BY <1>3
  <2> QED
    BY <1>1, <1>8, <2>1 DEF DartInv, DartTypes
<1>12. mem' = Owners(heap')
  BY <1>1, <1>8 DEF DartInv, MemoryHasOwner, Owners
<1>13. Refs(j)' = {call[j].data, call[j].handles}
  BY <1>9, <1>10 DEF Refs
<1>14. {call[j].data, call[j].handles} \subseteq Refs(j) /\ Released(j) \subseteq Refs(j)
  BY <1>2 DEF Refs, Released
<1>15. \A o \in Refs(j)' \ {Null} : heap'[o] # NoObject /\ (o \in Refs(j) \/ heap[o] = NoObject)
  BY <1>1, <1>8, <1>13, <1>14, ReferredAlive
<1>16. ASSUME NEW i \in Isolates \ {j} PROVE Refs(i) \cap acquired \subseteq acquired'
  <2>1. Refs(i) \cap Released(j) \subseteq {Null}
    BY <1>1, <1>14 DEF DartInv, RefsApart
  <2>2. Null \notin acquired
    BY <1>1 DEF DartInv, DartTypes, Objects, Null
  <2> QED
    BY <1>8, <2>1, <2>2
<1>17. \A i \in Isolates : \A o \in Refs(i) \ {Null} : heap'[o] = heap[o]
  BY <1>8
<1>18. DartInv'
  BY <1>1, <1>9, <1>10, <1>11, <1>12, <1>15, <1>16, <1>17, OneMoves
<1> QED
  BY <1>7, <1>18 DEF Inv, TypeOK, SysInv, DartInv, DartTypes

\* The query of QueryAndRead: data and handles are made to fit one after the
\* other, so that the room for both is there when the second takes its place.
LEMMA QueryOK ==
  ASSUME Inv, NEW j \in Isolates, NEW h \in Int, NEW discard \in BOOLEAN, Query(j, h, discard)
  PROVE  Inv'
<1>1. DartInv /\ SysInv /\ sys \in System
  BY Halves DEF SysInv
<1>2. PICK q : q = MojoReadMessage(sys, h, 0, 0, FALSE)
  OBVIOUS
<1>3. PICK a \in Objects \cup {Null}, b \in Objects \cup {Null} :
        a = result[j].data /\ b = result[j].handles
  BY <1>1, ListsAndCalls DEF DartInv
<1>4. PICK d : d = Fitting(heap, mem, a, q.bytes)
  OBVIOUS
<1>5. PICK e : e = Fitting(d.hp, d.mem, b, q.handles)
  OBVIOUS
<1>6. PICK taken : taken = {o \in {d.o} : q.bytes > 0} \cup {o \in {e.o} : q.handles > 0}
  OBVIOUS
<1>m. PICK measured : measured = {o \in {a} : q.bytes > 0} \cup {o \in {b} : q.handles > 0}
  OBVIOUS
<1>7. /\ Idle(j) /\ sys' = q.s /\ heap' = e.hp /\ mem' = e.mem
      /\ acquired' = (acquired \ measured) \cup taken
      /\ Room((IF TooSmall(a, q.bytes) THEN 1 ELSE 0) + (IF TooSmall(b, q.handles) THEN 1 ELSE 0))
      /\ call' = [call EXCEPT ![j] = [on |-> TRUE, h |-> h, discard |-> discard, blen |-> q.bytes,
                                      hlen |-> q.handles, data |-> d.o, handles |-> e.o]]
      /\ UNCHANGED <<result, told>>
  BY <1>2, <1>3, <1>4, <1>5, <1>6, <1>m DEF Query
<1>8. /\ Tells(sys, q.s, q.got) /\ DOMAIN q.got = {}
      /\ q.bytes \in Int /\ q.handles \in Int
  BY <1>1, <1>2, MessageRead, 0 \in Int
<1>9. SysInv'
  BY <1>1, <1>7, <1>8, HandlesReturned
<1>10. PICK n \in Int, m \in Int : n = q.bytes /\ m = q.handles
  BY <1>8
<1>11. /\ heap \in [Objects -> HeapObjects] /\ mem = Owners(heap)
       /\ a # Null => heap[a] # NoObject
       /\ b # Null => heap[b] # NoObject
  <2>1. a \in Refs(j) /\ b \in Refs(j)
    BY <1>3 DEF Refs
  <2> QED
    BY <1>1, <2>1, ReferredAlive DEF DartInv, DartTypes, MemoryHasOwner, Owners
<1>12. /\ TooSmall(a, n) => Cardinality(Free(heap)) >= 1
       /\ TooSmall(b, m) => Cardinality(Free(heap)) >= 1
       /\ TooSmall(a, n) /\ TooSmall(b, m) => Cardinality(Free(heap)) >= 2
  <2>1. Cardinality(Free(heap)) \in Nat
    BY FreeCounted
  <2> QED
    BY <1>7, <1>10, <2>1 DEF Room, Free
<1>13. Fits(d, heap, a, n)
  <2>1. PICK hp \in [Objects -> HeapObjects] : hp = heap
    BY <1>11
  <2>2. /\ a # Null => heap[a] # NoObject /\ hp[a] = heap[a]
        /\ TooSmall(a, n) => Free(hp) # {}
    BY <1>11, <1>12, <2>1, FreeCounted
  <2>3. Fits(Fitting(hp, Owners(hp), a, n), hp, a, n)
    BY <1>11, <2>2, Fitted
  <2> QED
    BY <1>4, <1>10, <1>11, <2>1, <2>3
<1>14. Fits(e, d.hp, b, m)
  <2>1. PICK hp \in [Objects -> HeapObjects] : hp = d.hp
    BY <1>13 DEF Fits
  <2>2. b # Null => heap[b] # NoObject /\ hp[b] = heap[b]
    BY <1>11, <1>13, <2>1 DEF Fits
  <2>3. TooSmall(b, m) => Free(hp) # {}
    <3>1. Cardinality(Free(heap)) \in Nat
      BY FreeCounted
    <3>2. TooSmall(b, m) => Cardinality(Free(hp)) >= 1
      BY <1>12, <1>13, <2>1, <3>1 DEF Fits
    <3> QED
      BY <3>2, FreeCounted
  <2>4. Fits(Fitting(hp, Owners(hp), b, m), hp, b, m)
    BY <1>11, <2>2, <2>3, Fitted
  <2>5. d.mem = Owners(hp)
    BY <1>13, <2>1 DEF Fits
  <2> QED
    BY <1>5, <1>10, <2>1, <2>4, <2>5
<1>15. PICK c \in CallRecords :
         /\ c.on /\ c.blen = n /\ c.hlen = m /\ c.data = d.o /\ c.handles = e.o
         /\ call' = [call EXCEPT ![j] = c]
  <2>1. PICK x \in Objects \cup {Null}, y \in Objects \cup {Null} : x = d.o /\ y = e.o
    BY <1>13, <1>14 DEF Fits
  <2>2. [on |-> TRUE, h |-> h, discard |-> discard, blen |-> n, hlen |-> m,
         data |-> x, handles |-> y] \in CallRecords
    BY DEF CallRecords
  <2>3. call' = [call EXCEPT ![j] = [on |-> TRUE, h |-> h, discard |-> discard, blen |-> n,
                                    hlen |-> m, data |-> x, handles |-> y]]
    BY <1>7, <1>10, <2>1
  <2> QED
    BY <2>1, <2>2, <2>3
<1>16. call'[j] = c /\ \A i \in Isolates \ {j} : result'[i] = result[i] /\ call'[i] = call[i]
  BY <1>1, <1>7, <1>15 DEF DartInv, DartTypes
<1>17. /\ n > 0 => d.o \in acquired'
       /\ m > 0 => e.o \in acquired'
       /\ acquired \ {a, b} \subseteq acquired' /\ acquired' \subseteq Objects
  BY <1>1, <1>6, <1>m, <1>7, <1>10, <1>13, <1>14 DEF DartInv, DartTypes, Fits
<1>18. DartTypes'
  <2>1. heap' \in [Objects -> HeapObjects] /\ acquired' \subseteq Objects /\ UNCHANGED result
    BY <1>7, <1>14, <1>17 DEF Fits
  <2>2. call' \in [Isolates -> CallRecords \cup {NoCall}]
    BY <1>1, <1>15 DEF DartInv, DartTypes
  <2> QED
    BY <1>1, <2>1, <2>2 DEF DartInv, DartTypes
<1>19. mem' = Owners(heap')
  BY <1>7, <1>14 DEF Fits
<1>20. \A p \in Objects : heap[p] # NoObject => heap'[p] = heap[p]
  BY <1>7, <1>13, <1>14 DEF Fits
<1>21. \A i \in Isolates : \A o \in Refs(i) \ {Null} : heap'[o] = heap[o]
  BY <1>1, <1>20, ReferredAlive
<1>22. Refs(j)' = {a, b, d.o, e.o}
  BY <1>3, <1>7, <1>15, <1>16 DEF Refs
<1>23. \A o \in Refs(j)' \ {Null} : heap'[o] # NoObject /\ (o \in Refs(j) \/ heap[o] = NoObject)
  <2>1. a \in Refs(j) /\ b \in Refs(j)
    BY <1>3 DEF Refs
  <2>2. \A o \in {a, b} \ {Null} : heap'[o] # NoObject
    BY <1>11, <1>20
  <2>3. d.o # Null => heap'[d.o] # NoObject /\ (d.o = a \/ heap[d.o] = NoObject)
    BY <1>7, <1>13, <1>14 DEF Fits
  <2>4. e.o # Null => heap'[e.o] # NoObject /\ (e.o = b \/ heap[e.o] = NoObject)
    BY <1>7, <1>13, <1>14 DEF Fits
  <2> QED
    BY <1>22, <2>1, <2>2, <2>3, <2>4
<1>24. \A i \in Isolates \ {j} : Refs(i) \cap acquired \subseteq acquired'
  <2> SUFFICES ASSUME NEW i \in Isolates \ {j}, NEW o \in Refs(i) \cap acquired
               PROVE  o \notin {a, b}
    BY <1>17
  <2>1. a \in Refs(j) /\ b \in Refs(j)
    BY <1>3 DEF Refs
  <2>2. o # Null
    BY <1>1 DEF DartInv, DartTypes, Null, Objects
  <2> QED
    BY <1>1, <2>1, <2>2 DEF DartInv, RefsApart
<1>25. /\ call'[j].blen > 0 => /\ call'[j].data \in acquired'
                              /\ heap'[call'[j].data].size >= call'[j].blen
       /\ call'[j].hlen > 0 => /\ call'[j].handles \in acquired'
                              /\ heap'[call'[j].handles].size >= call'[j].hlen
  <2>1. n > 0 => heap'[d.o].size >= n
    <3>1. Null \notin Objects
      BY DEF Null, Objects
    <3>2. n > 0 => heap'[d.o] = d.hp[d.o]
      BY <1>7, <1>13, <1>14, <3>1 DEF Fits
    <3> QED
      BY <1>13, <3>2 DEF Fits
  <2>2. m > 0 => heap'[e.o].size >= m
    BY <1>7, <1>14 DEF Fits
  <2> QED
    BY <1>15, <1>16, <1>17, <2>1, <2>2
<1>26. DartInv'
  BY <1>1, <1>16, <1>18, <1>19, <1>21, <1>23, <1>24, <1>25, OneMoves
<1> QED
  BY <1>9, <1>26 DEF Inv, TypeOK, SysInv, DartInv, DartTypes

LEMMA NextOK ==
  ASSUME Inv, [Next]_vars
  PROVE  Inv'
<1>1. CASE UNCHANGED vars
  BY <1>1, NothingOK DEF vars, state, dart
<1>2. CASE CHECK_INTEGER_ARGUMENT
  BY <1>2, NothingOK DEF CHECK_INTEGER_ARGUMENT, SetNullReturn, SetInvalidArgumentReturn
<1>3. CASE \E o \in Objects : Collect(o)
  BY <1>3, CollectOK
<1>4. CASE \E h \in AnyHandle : \/ MojoHandle_RegisterFinalizer(h) \/ MojoHandle_Close(h)
                                \/ MojoHandle_Wait(h, {"READABLE"})
  BY <1>4, SomeInt, RegisterFinalizerOK, CloseOK, WaitOK DEF AnyHandle
<1>5. CASE \E hs \in {{}, told} : MojoHandle_WaitMany(hs, {"READABLE"})
  BY <1>5, WaitOK
<1>6. CASE MojoSharedBuffer_Create \/ MojoDataPipe_Create \/ MojoMessagePipe_Create
  BY <1>6, CreateOK
<1>7. CASE \E h \in Some({"buffer"}) : \/ MojoSharedBuffer_Duplicate(h) \/ MojoSharedBuffer_Map(h)
                                       \/ MojoSharedBuffer_GetInformation(h)
  BY <1>7, CreateOK, MapOK, WaitOK
<1>8. CASE \E h \in Some({"producer"}), n \in 0 .. Capacity :
              \/ MojoDataPipe_BeginWriteData(h) \/ MojoDataPipe_EndWriteData(h, n)
              \/ MojoDataPipe_WriteData(h, n)
  <2>1. \A n \in 0 .. Capacity : n \in Int
    OBVIOUS
  <2> QED
    BY <1>8, <2>1, BeginsOK, DataOK
<1>9. CASE \E h \in Some({"consumer"}), n \in 0 .. Capacity :
              \/ MojoDataPipe_BeginReadData(h) \/ MojoDataPipe_EndReadData(h, n)
              \/ MojoDataPipe_ReadData(h, n)
  <2>1. \A n \in 0 .. Capacity : n \in Int
    OBVIOUS
  <2> QED
    BY <1>9, <2>1, BeginsOK, DataOK
<1>10. CASE \E h \in Some({"message"}), n \in Sizes :
              \/ \E hs \in HandleLists : MojoMessagePipe_Write(h, n, hs)
              \/ \E k \in 0 .. 1, discard \in Flags : MojoMessagePipe_Read(h, n, k, discard)
  <2>1. HandleLists \subseteq Seq(Int)
    <3>1. \A h \in AnyHandle : h \in Int
      BY SomeInt DEF AnyHandle
    <3>2. \A h \in Int : <<h>> \in Seq(Int)
      OBVIOUS
    <3>3. <<>> \in Seq(Int)
      OBVIOUS
    <3> QED
      BY <3>1, <3>2, <3>3 DEF HandleLists
  <2>2. Sizes \subseteq Int /\ 0 .. 1 \subseteq Int /\ Flags \subseteq BOOLEAN
    OBVIOUS
  <2>3. PICK h \in Some({"message"}), n \in Sizes :
              \/ \E hs \in HandleLists : MojoMessagePipe_Write(h, n, hs)
              \/ \E k \in 0 .. 1, discard \in Flags : MojoMessagePipe_Read(h, n, k, discard)
    BY <1>10
  <2>4. n \in Int
    BY <2>2
  <2>5. CASE \E hs \in HandleLists : MojoMessagePipe_Write(h, n, hs)
    BY <2>1, <2>4, <2>5, WriteOK
  <2>6. CASE \E k \in 0 .. 1, discard \in Flags : MojoMessagePipe_Read(h, n, k, discard)
    <3>1. PICK k \in 0 .. 1, discard \in Flags : MojoMessagePipe_Read(h, n, k, discard)
      BY <2>6
    <3>2. k \in Int /\ discard \in BOOLEAN
      BY <2>2
    <3> QED
      BY <2>4, <3>1, <3>2, ReadOK
  <2> QED
    BY <2>3, <2>5, <2>6
<1>11. CASE \E i \in Isolates : NewList(i) \/ Write_BadHandle(i) \/ QueryAndRead(i)
  BY <1>11, NewListOK, BadHandleOK, QueryAndReadOK
<1>12. CASE \E i \in Isolates : \E h \in Some({"message"}) :
              QueryFails(i, h) \/ \E discard \in Flags : Query(i, h, discard)
  <2>1. PICK i \in Isolates, h \in Some({"message"}) :
              QueryFails(i, h) \/ \E discard \in Flags : Query(i, h, discard)
    BY <1>12
  <2>2. CASE QueryFails(i, h)
    BY <2>2, NothingOK DEF QueryFails
  <2>3. CASE \E discard \in Flags : Query(i, h, discard)
    BY <2>3, SomeInt, QueryOK
  <2> QED
    BY <2>1, <2>2, <2>3
<1> QED
  BY <1>1, <1>2, <1>3, <1>4, <1>5, <1>6, <1>7, <1>8, <1>9, <1>10, <1>11, <1>12 DEF Next

--------------------------------------------------------------------------------
(* The theorems.                                                           *)

\* The invariant of the natives: the system's tables lead to ends, every open
\* handle is known to Dart, native memory is owned, and what the isolates refer
\* to is alive and apart.
THEOREM InvHolds == Spec => []Inv
<1>1. Init => Inv
  BY InitOK
<1>2. Inv /\ [Next]_vars => Inv'
  BY NextOK
<1> QED
  BY <1>1, <1>2, PTL DEF Spec

\* No native loses a handle: what creating, duplicating and reading return is
\* all that opens, in mojo_natives.cc as in the system it calls.
THEOREM NoHandleLost == Spec => []HandlesTold
<1>1. Inv => HandlesTold
  BY DEF Inv
<1> QED
  BY <1>1, InvHolds, PTL

\* Arrays and mappings live exactly as long as the Dart objects that show them:
\* the finalizers neither leak nor free early.
THEOREM MemoryOwned == Spec => []MemoryHasOwner
<1>1. Inv => MemoryHasOwner
  BY DEF Inv
<1> QED
  BY <1>1, InvHolds, PTL

\* Between its two system calls QueryAndRead holds data as large as it says,
\* for any number of isolates that read, close and collect meanwhile.
THEOREM ReadsFit == Spec => []ReadStaysInBuffer
<1>1. Inv => ReadStaysInBuffer
  BY DEF Inv
<1> QED
  BY <1>1, InvHolds, PTL
================================================================================
