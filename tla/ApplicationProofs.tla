--------------------------- MODULE ApplicationProofs ---------------------------
(***************************************************************************)
(* What holds of an application for any connections, services and kinds:   *)
(* its connectors' waits and its services' lifetimes.                      *)
(***************************************************************************)
EXTENDS Application, FiniteSetTheorems, FunctionTheorems, TLAPS

USE ConnsAssumption, KindsAssumption

--------------------------------------------------------------------------------
(* Connectors and handlers.                                                *)

ConnRecords == [life : Lives, wait : Ids \cup {0}]

\* cs are the connectors, hs the handlers, and a is being read.
WaitsOK(cs, hs, a) ==
    /\ cs \in [Conns -> ConnRecords] /\ hs \in [Ids -> Conns \cup {NoConn}]
    /\ a \in Conns \cup {NoConn}
    /\ \A c \in Conns : cs[c].wait # 0 => hs[cs[c].wait] = c
    /\ \A id \in Ids : hs[id] # NoConn => cs[hs[id]].life = "live" /\ cs[hs[id]].wait = id
    /\ \A c \in Conns \ {a} : cs[c].life = "live" => cs[c].wait # 0
    /\ a # NoConn => cs[a].life = "live" /\ cs[a].wait = 0

LEMMA Records ==
  ASSUME NEW x \in ConnRecords
  PROVE  /\ x.life \in Lives /\ x.wait \in Ids \cup {0}
         /\ \A l, w : x = [life |-> l, wait |-> w] <=> x.life = l /\ x.wait = w
BY DEF ConnRecords

LEMMA IdsAreNumbers ==
  /\ Ids = 1 .. Cardinality(Conns) /\ Cardinality(Conns) \in Nat
  /\ 0 \notin Ids
BY FS_CardinalityType DEF Ids

LEMMA WaitsMeaning ==
  ASSUME NEW cs, NEW hs, NEW a
  PROVE  WaitsOK(cs, hs, a) <=>
           /\ cs \in [Conns -> ConnRecords]
           /\ hs \in [Ids -> Conns \cup {NoConn}] /\ a \in Conns \cup {NoConn}
           /\ \A c \in Conns : cs[c].wait # 0 => hs[cs[c].wait] = c
           /\ \A id \in Ids : hs[id] # NoConn => cs[hs[id]] = [life |-> "live", wait |-> id]
           /\ \A c \in {d \in Conns : cs[d].life = "live"} \ {a} : cs[c].wait # 0
           /\ a # NoConn => cs[a] = [life |-> "live", wait |-> 0]
<1> SUFFICES ASSUME cs \in [Conns -> ConnRecords], hs \in [Ids -> Conns \cup {NoConn}],
                    a \in Conns \cup {NoConn}
             PROVE  WaitsOK(cs, hs, a) <=>
                      /\ \A c \in Conns : cs[c].wait # 0 => hs[cs[c].wait] = c
                      /\ \A id \in Ids : hs[id] # NoConn => cs[hs[id]] = [life |-> "live", wait |-> id]
                      /\ \A c \in {d \in Conns : cs[d].life = "live"} \ {a} : cs[c].wait # 0
                      /\ a # NoConn => cs[a] = [life |-> "live", wait |-> 0]
  BY DEF WaitsOK
<1>1. ASSUME NEW c \in Conns, NEW l, NEW w
      PROVE  cs[c] = [life |-> l, wait |-> w] <=> cs[c].life = l /\ cs[c].wait = w
  BY Records
<1>2. \A id \in Ids : hs[id] # NoConn =>
               (cs[hs[id]] = [life |-> "live", wait |-> id]
                  <=> cs[hs[id]].life = "live" /\ cs[hs[id]].wait = id)
  BY <1>1
<1>3. a # NoConn => (cs[a] = [life |-> "live", wait |-> 0] <=> cs[a].life = "live" /\ cs[a].wait = 0)
  BY <1>1
<1> QED
  BY <1>2, <1>3 DEF WaitsOK

\* Somebody without a wait finds a free id: there are as many as connectors.
LEMMA IdIsFree ==
  ASSUME NEW cs, NEW hs, NEW a, WaitsOK(cs, hs, a), NEW c \in Conns, cs[c].wait = 0
  PROVE  FreeId(hs) \in Ids /\ hs[FreeId(hs)] = NoConn
<1> DEFINE Free == {id \in Ids : hs[id] = NoConn}
<1>1. Free # {}
  <2> SUFFICES ASSUME \A id \in Ids : hs[id] # NoConn PROVE FALSE
    OBVIOUS
  <2>1. hs \in [Ids -> Conns \ {c}]
    BY IdsAreNumbers DEF WaitsOK
  <2>2. \A i, j \in Ids : hs[i] = hs[j] => i = j
    BY DEF WaitsOK
  <2>3. hs \in Injection(Ids, Conns \ {c})
    BY <2>1, <2>2, Fun_IsInj
  <2>4. IsFiniteSet(Conns \ {c}) /\ Cardinality(Conns \ {c}) = Cardinality(Conns) - 1
    BY FS_RemoveElement
  <2>5. Cardinality(Ids) <= Cardinality(Conns \ {c})
    BY <2>3, <2>4, FS_Injection
  <2>6. Cardinality(Ids) = Cardinality(Conns)
    <3>1. PICK n \in Nat : n = Cardinality(Conns)
      BY IdsAreNumbers
    <3>2. Cardinality(1 .. n) = IF 1 > n THEN 0 ELSE n - 1 + 1
      BY FS_Interval
    <3> QED
      BY <3>1, <3>2 DEF Ids
  <2> QED
    BY <2>4, <2>5, <2>6, IdsAreNumbers
<1> QED
  BY <1>1 DEF FreeId

\* A connector starts to wait: one that is bound, or the one being read.
LEMMA WaitStarts ==
  ASSUME NEW cs, NEW hs, NEW a, WaitsOK(cs, hs, a), NEW c \in Conns, NEW id \in Ids,
         hs[id] = NoConn, cs[c].wait = 0, c = a \/ cs[c].life # "live",
         NEW cs2 \in [Conns -> ConnRecords], cs2[c].life = "live", cs2[c].wait = id,
         \A d \in Conns \ {c} : cs2[d] = cs[d],
         NEW hs2 \in [Ids -> Conns \cup {NoConn}], hs2[id] = c,
         \A i \in Ids \ {id} : hs2[i] = hs[i],
         NEW b, b = IF c = a THEN NoConn ELSE a
  PROVE  WaitsOK(cs2, hs2, b)
<1>1. \A d \in Conns : cs2[d].wait # 0 => hs2[cs2[d].wait] = d
  <2>1. ASSUME NEW d \in Conns \ {c}, cs[d].wait # 0 PROVE hs2[cs[d].wait] = d
    <3>1. cs[d].wait \in Ids /\ hs[cs[d].wait] = d
      BY <2>1, Records DEF WaitsOK
    <3> QED
      BY <3>1
  <2> QED
    BY <2>1
<1>2. \A i \in Ids : hs2[i] # NoConn => cs2[hs2[i]].life = "live" /\ cs2[hs2[i]].wait = i
  <2>1. ASSUME NEW i \in Ids \ {id}, hs[i] # NoConn
        PROVE  cs2[hs[i]].life = "live" /\ cs2[hs[i]].wait = i
    <3>1. hs[i] \in Conns /\ cs[hs[i]].life = "live" /\ cs[hs[i]].wait = i
      BY <2>1 DEF WaitsOK
    <3>2. hs[i] # c
      BY <3>1, IdsAreNumbers
    <3> QED
      BY <3>1, <3>2
  <2> QED
    BY <2>1
<1>3. \A d \in Conns \ {b} : cs2[d].life = "live" => cs2[d].wait # 0
  BY IdsAreNumbers DEF WaitsOK
<1>4. b \in Conns \cup {NoConn} /\ (b # NoConn => cs2[b].life = "live" /\ cs2[b].wait = 0)
  BY DEF WaitsOK
<1> QED
  BY <1>1, <1>2, <1>3, <1>4 DEF WaitsOK

\* A handler is called and deleted.
LEMMA WaitEnds ==
  ASSUME NEW cs, NEW hs, WaitsOK(cs, hs, NoConn), NEW id \in Ids, hs[id] # NoConn,
         NEW cs2 \in [Conns -> ConnRecords],
         cs2[hs[id]].life = "live", cs2[hs[id]].wait = 0,
         \A d \in Conns \ {hs[id]} : cs2[d] = cs[d],
         NEW hs2 \in [Ids -> Conns \cup {NoConn}], hs2[id] = NoConn,
         \A i \in Ids \ {id} : hs2[i] = hs[i]
  PROVE  WaitsOK(cs2, hs2, hs[id])
<1>0. hs[id] \in Conns /\ cs[hs[id]].wait = id
  BY DEF WaitsOK
<1>1. \A d \in Conns : cs2[d].wait # 0 => hs2[cs2[d].wait] = d
  <2>1. ASSUME NEW d \in Conns \ {hs[id]}, cs[d].wait # 0 PROVE hs2[cs[d].wait] = d
    <3>1. cs[d].wait \in Ids /\ hs[cs[d].wait] = d
      BY <2>1, Records DEF WaitsOK
    <3> QED
      BY <3>1
  <2> QED
    BY <2>1
<1>2. \A i \in Ids : hs2[i] # NoConn => cs2[hs2[i]].life = "live" /\ cs2[hs2[i]].wait = i
  <2>1. ASSUME NEW i \in Ids \ {id}, hs[i] # NoConn
        PROVE  cs2[hs[i]].life = "live" /\ cs2[hs[i]].wait = i
    <3>1. hs[i] \in Conns /\ cs[hs[i]].life = "live" /\ cs[hs[i]].wait = i
      BY <2>1 DEF WaitsOK
    <3>2. hs[i] # hs[id]
      BY <1>0, <3>1
    <3> QED
      BY <3>1, <3>2
  <2> QED
    BY <2>1
<1>3. \A d \in Conns \ {hs[id]} : cs2[d].life = "live" => cs2[d].wait # 0
  BY DEF WaitsOK
<1> QED
  BY <1>0, <1>1, <1>2, <1>3 DEF WaitsOK

\* Connectors go, with their handlers.
ConnsWithout(D, cs, cs2) ==
    \A d \in Conns : IF d \in D THEN cs2[d].life # "live" /\ cs2[d].wait = 0 ELSE cs2[d] = cs[d]

HandlersWithout(D, hs, hs2) ==
    \A i \in Ids : hs2[i] = IF hs[i] \in D /\ hs[i] # NoConn THEN NoConn ELSE hs[i]

ReadWithout(D, a, b) == b = IF a \in D THEN NoConn ELSE a

LEMMA WaitsGo ==
  ASSUME NEW cs, NEW hs, NEW a, WaitsOK(cs, hs, a), NEW D,
         NEW cs2 \in [Conns -> ConnRecords], ConnsWithout(D, cs, cs2),
         NEW hs2 \in [Ids -> Conns \cup {NoConn}], HandlersWithout(D, hs, hs2),
         NEW b, ReadWithout(D, a, b)
  PROVE  WaitsOK(cs2, hs2, b)
<1> USE DEF ConnsWithout, HandlersWithout, ReadWithout
<1>1. \A d \in Conns : cs2[d].wait # 0 => hs2[cs2[d].wait] = d
  <2>1. ASSUME NEW d \in Conns \ D, cs[d].wait # 0 PROVE hs2[cs[d].wait] = d
    <3>1. cs[d].wait \in Ids /\ hs[cs[d].wait] = d
      BY <2>1, Records DEF WaitsOK
    <3> QED
      BY <3>1
  <2> QED
    BY <2>1
<1>2. \A i \in Ids : hs2[i] # NoConn => cs2[hs2[i]].life = "live" /\ cs2[hs2[i]].wait = i
  <2>1. ASSUME NEW i \in Ids, hs[i] # NoConn, hs[i] \notin D
        PROVE  cs2[hs[i]].life = "live" /\ cs2[hs[i]].wait = i
    <3>1. hs[i] \in Conns /\ cs[hs[i]].life = "live" /\ cs[hs[i]].wait = i
      BY <2>1 DEF WaitsOK
    <3> QED
      BY <2>1, <3>1
  <2> QED
    BY <2>1
<1>3. \A d \in Conns \ {b} : cs2[d].life = "live" => cs2[d].wait # 0
  BY DEF WaitsOK
<1>4. b \in Conns \cup {NoConn} /\ (b # NoConn => cs2[b].life = "live" /\ cs2[b].wait = 0)
  BY DEF WaitsOK
<1> QED
  BY <1>1, <1>2, <1>3, <1>4 DEF WaitsOK

--------------------------------------------------------------------------------
(* Pipes.                                                                  *)

\* cs are the connectors, qs what their pipes hold.
QueuesOK(cs, qs) ==
    /\ qs \in [Conns -> Seq(Contents)]
    /\ \A c \in Conns : \A k \in DOMAIN qs[c] :
         qs[c][k] \in Requests =>
           /\ cs[qs[c][k]].life = "sent"
           /\ qs[c][k] = Shell => c = App
           /\ \A d \in Conns : \A j \in DOMAIN qs[d] : qs[d][j] = qs[c][k] => d = c /\ j = k

LEMMA QueuesMeaning ==
  QueuesOK(conns, queues) <=> queues \in [Conns -> Seq(Contents)] /\ RequestsSent
BY DEF QueuesOK, RequestsSent

LEMMA AppendGives ==
  ASSUME NEW S, NEW q \in Seq(S), NEW m \in S
  PROVE  /\ Append(q, m) \in Seq(S)
         /\ \A k \in DOMAIN Append(q, m) :
              \/ k \in DOMAIN q /\ Append(q, m)[k] = q[k]
              \/ k = Len(q) + 1 /\ Append(q, m)[k] = m
OBVIOUS

LEMMA TailGives ==
  ASSUME NEW S, NEW q \in Seq(S), q # <<>>
  PROVE  /\ Tail(q) \in Seq(S) /\ Head(q) \in S /\ 1 \in DOMAIN q /\ q[1] = Head(q)
         /\ \A k \in DOMAIN Tail(q) : k \in Nat /\ k # 0 /\ k + 1 \in DOMAIN q /\ Tail(q)[k] = q[k + 1]
OBVIOUS

\* A message is written; a request in it is of a connector that was in none.
SentInto(qs, c, m, qs2) ==
    /\ qs2 \in [Conns -> Seq(Contents)] /\ qs2[c] = Append(qs[c], m)
    /\ \A d \in Conns \ {c} : qs2[d] = qs[d]

LEMMA SendSends ==
  ASSUME NEW qs \in [Conns -> Seq(Contents)], NEW c \in Conns, NEW m \in Contents
  PROVE  SentInto(qs, c, m, [qs EXCEPT ![c] = Append(@, m)])
<1>1. Append(qs[c], m) \in Seq(Contents)
  BY AppendGives
<1> QED
  BY <1>1 DEF SentInto

LivesSent(cs, c, m, cs2) ==
    /\ m \in Requests => cs[m].life # "sent" /\ cs2[m].life = "sent" /\ (m = Shell => c = App)
    /\ \A d \in Conns : d # m => cs2[d].life = cs[d].life

LEMMA MessageSent ==
  ASSUME NEW cs, NEW qs, QueuesOK(cs, qs), NEW c \in Conns, NEW m \in Contents,
         NEW cs2, LivesSent(cs, c, m, cs2), NEW qs2, SentInto(qs, c, m, qs2)
  PROVE  QueuesOK(cs2, qs2)
<1> USE DEF LivesSent, SentInto
<1>1. ASSUME NEW d \in Conns, NEW k \in DOMAIN qs2[d]
      PROVE  \/ k \in DOMAIN qs[d] /\ qs2[d][k] = qs[d][k]
             \/ d = c /\ k = Len(qs[c]) + 1 /\ qs2[d][k] = m
  <2>1. qs[c] \in Seq(Contents)
    BY DEF QueuesOK
  <2> QED
    BY <2>1, AppendGives
<1>2. ASSUME NEW d \in Conns, NEW k \in DOMAIN qs[d], qs[d][k] \in Requests
      PROVE  /\ cs[qs[d][k]].life = "sent" /\ qs[d][k] # m /\ qs[d][k] \in Conns
             /\ qs[d][k] = Shell => d = App
  BY <1>2 DEF QueuesOK, Requests
<1>3. ASSUME NEW d \in Conns, NEW k \in DOMAIN qs2[d], qs2[d][k] \in Requests
      PROVE  cs2[qs2[d][k]].life = "sent" /\ (qs2[d][k] = Shell => d = App)
  <2>1. CASE k \in DOMAIN qs[d] /\ qs2[d][k] = qs[d][k]
    <3>1. PICK x : x = qs[d][k] /\ x \in Requests
      BY <1>3, <2>1
    <3>2. cs[x].life = "sent" /\ x # m /\ x \in Conns /\ (x = Shell => d = App)
      BY <1>2, <2>1, <3>1
    <3>3. cs2[x].life = "sent"
      BY <3>2
    <3> QED
      BY <2>1, <3>1, <3>2, <3>3
  <2>2. CASE d = c /\ k = Len(qs[c]) + 1 /\ qs2[d][k] = m
    BY <1>3, <2>2
  <2> QED
    BY <1>1, <2>1, <2>2
<1>4. ASSUME NEW d \in Conns, NEW k \in DOMAIN qs2[d], qs2[d][k] \in Requests,
             NEW e \in Conns, NEW j \in DOMAIN qs2[e], qs2[e][j] = qs2[d][k]
      PROVE  e = d /\ j = k
  <2>1. CASE k \in DOMAIN qs[d] /\ qs2[d][k] = qs[d][k]
    <3>1. qs[d][k] \in Requests /\ qs[d][k] # m
      BY <1>2, <1>4, <2>1
    <3>2. j \in DOMAIN qs[e] /\ qs[e][j] = qs[d][k]
      BY <1>1, <1>4, <2>1, <3>1
    <3> QED
      BY <2>1, <3>1, <3>2 DEF QueuesOK
  <2>2. CASE d = c /\ k = Len(qs[c]) + 1 /\ qs2[d][k] = m
    <3>1. ~ (j \in DOMAIN qs[e] /\ qs2[e][j] = qs[e][j])
      BY <1>2, <1>4, <2>2
    <3> QED
      BY <1>1, <2>2, <3>1
  <2> QED
    BY <1>1, <2>1, <2>2
<1> QED
  BY <1>3, <1>4 DEF QueuesOK

\* What is left in qs2 when messages of qs are read or pipes closed, and has to be of
\* connectors that wait to be bound.
KeptFrom(qs, qs2) ==
    \A c \in Conns : \/ qs2[c] = <<>>
                     \/ qs2[c] = qs[c]
                     \/ qs[c] # <<>> /\ qs2[c] = Tail(qs[c])

RequestsOf(qs, cs) ==
    \A c \in Conns : \A k \in DOMAIN qs[c] : qs[c][k] \in Requests => cs[qs[c][k]].life = "sent"

LEMMA MessagesKept ==
  ASSUME NEW cs, NEW qs, QueuesOK(cs, qs), NEW cs2, NEW qs2 \in [Conns -> Seq(Contents)],
         KeptFrom(qs, qs2), RequestsOf(qs2, cs2)
  PROVE  QueuesOK(cs2, qs2)
<1>0. \A c \in Conns : qs[c] \in Seq(Contents)
  BY DEF QueuesOK
<1>1. ASSUME NEW c \in Conns
      PROVE  \E o \in {0, 1} : \A k \in DOMAIN qs2[c] :
               k \in Nat /\ k + o \in DOMAIN qs[c] /\ qs2[c][k] = qs[c][k + o]
  <2>1. CASE qs2[c] = <<>>
    BY <2>1
  <2>2. CASE qs2[c] = qs[c]
    <3>1. \A k \in DOMAIN qs[c] : k \in Nat /\ k + 0 = k
      BY <1>0
    <3> QED
      BY <2>2, <3>1
  <2>3. CASE qs[c] # <<>> /\ qs2[c] = Tail(qs[c])
    BY <1>0, <2>3, TailGives
  <2> QED
    BY <2>1, <2>2, <2>3 DEF KeptFrom
<1>2. ASSUME NEW c \in Conns, NEW k \in DOMAIN qs2[c], qs2[c][k] \in Requests
      PROVE  qs2[c][k] = Shell => c = App
  <2>1. PICK x : x \in DOMAIN qs[c] /\ qs2[c][k] = qs[c][x]
    BY <1>1
  <2>2. qs[c][x] \in Requests
    BY <1>2, <2>1
  <2>3. qs[c][x] = Shell => c = App
    BY <2>1, <2>2 DEF QueuesOK
  <2> QED
    BY <2>1, <2>3
<1>3. ASSUME NEW c \in Conns, NEW k \in DOMAIN qs2[c], qs2[c][k] \in Requests,
             NEW d \in Conns, NEW j \in DOMAIN qs2[d], qs2[d][j] = qs2[c][k]
      PROVE  d = c /\ j = k
  <2>1. PICK o \in {0, 1} : \A i \in DOMAIN qs2[c] :
               i \in Nat /\ i + o \in DOMAIN qs[c] /\ qs2[c][i] = qs[c][i + o]
    BY <1>1
  <2>2. PICK p \in {0, 1} : \A i \in DOMAIN qs2[d] :
               i \in Nat /\ i + p \in DOMAIN qs[d] /\ qs2[d][i] = qs[d][i + p]
    BY <1>1
  <2>3. PICK x : x = k + o /\ x \in DOMAIN qs[c] /\ qs2[c][k] = qs[c][x] /\ k \in Nat
    BY <2>1
  <2>4. PICK y : y = j + p /\ y \in DOMAIN qs[d] /\ qs2[d][j] = qs[d][y] /\ j \in Nat
    BY <2>2
  <2>5. d = c /\ y = x
    BY <1>3, <2>3, <2>4 DEF QueuesOK
  <2>6. j + o = k + o
    <3>1. j + o \in DOMAIN qs[c] /\ qs2[c][j] = qs[c][j + o]
      BY <2>1, <2>5
    <3>2. PICK z : z = j + o /\ z \in DOMAIN qs[c] /\ qs2[c][j] = qs[c][z]
      BY <3>1
    <3>3. z = x
      BY <1>3, <2>3, <2>5, <3>2 DEF QueuesOK
    <3> QED
      BY <2>3, <3>2, <3>3
  <2> QED
    BY <2>3, <2>4, <2>5, <2>6
<1> QED
  BY <1>2, <1>3 DEF QueuesOK, RequestsOf

--------------------------------------------------------------------------------
(* Connectors that go, and the requests they take along.                   *)

LiveIn(cs) == {c \in Conns : cs[c].life = "live"}

LEMMA RequestNames ==
  /\ Providers \cup Services \subseteq Requests /\ Shell \in Requests /\ App \notin Requests
  /\ Requests \subseteq Conns /\ App \in Conns
  /\ "RequestQuit" \notin Conns /\ "call" \notin Conns
  /\ Requests \subseteq Contents /\ "RequestQuit" \in Contents /\ "call" \in Contents
BY DEF Requests, Contents, Conns

LEMMA LostSent ==
  ASSUME QueuesOK(conns, queues), NEW C \in SUBSET Conns
  PROVE  /\ C \subseteq Lost(C) /\ Lost(C) \subseteq Conns
         /\ \A x \in Lost(C) \ C : conns[x].life = "sent"
<1>1. ASSUME NEW D \in SUBSET Conns
      PROVE  InPipes(D) \subseteq Conns /\ \A x \in InPipes(D) : conns[x].life = "sent"
  BY RequestNames DEF InPipes, QueuesOK
<1>2. InPipes(InPipes(C)) \subseteq Conns /\ \A x \in InPipes(InPipes(C)) : conns[x].life = "sent"
  BY <1>1
<1> QED
  BY <1>1, <1>2 DEF Lost

\* A request of Lost(C) that lies in the pipe of a connector which stays is one of C.
LEMMA LostClosed ==
  ASSUME QueuesOK(conns, queues), NEW C \in SUBSET Conns, NEW c \in Conns \ Lost(C),
         NEW k \in DOMAIN queues[c], queues[c][k] \in Lost(C)
  PROVE  queues[c][k] \in C
<1>1. ASSUME NEW D \in SUBSET Conns, c \notin D, queues[c][k] \in InPipes(D)
      PROVE  FALSE
  <2>1. PICK d \in D : \E j \in DOMAIN queues[d] : queues[d][j] = queues[c][k]
    BY <1>1 DEF InPipes
  <2>2. queues[c][k] \in Requests
    BY <1>1, RequestNames DEF InPipes
  <2>3. d = c
    BY <2>1, <2>2 DEF QueuesOK
  <2> QED
    BY <1>1, <2>3
<1>2. InPipes(C) \in SUBSET Conns
  BY RequestNames DEF InPipes
<1>3. c \notin C /\ c \notin InPipes(C)
  BY DEF Lost
<1>4. queues[c][k] \notin InPipes(C) /\ queues[c][k] \notin InPipes(InPipes(C))
  BY <1>1, <1>2, <1>3
<1> QED
  BY <1>4 DEF Lost

\* The connectors C are released, those of E have just had an error.
LEMMA Released ==
  ASSUME WaitsOK(conns, handlers, at), QueuesOK(conns, queues),
         NEW C \in SUBSET Conns, \A x \in C : conns[x].life = "sent" => x \in {App, Shell} /\ App \in C,
         NEW E \in SUBSET Conns, \A x \in E : conns[x].life = "live",
         NEW cs \in [Conns -> ConnRecords],
         \A d \in Conns : IF d \in E THEN cs[d].life = "error" /\ cs[d].wait = 0 ELSE cs[d] = conns[d],
         NEW hs \in [Ids -> Conns \cup {NoConn}],
         \A i \in Ids : hs[i] = IF handlers[i] \in E THEN NoConn ELSE handlers[i],
         Release(C, cs, hs),
         at' = IF at \in C \cup E THEN NoConn ELSE at
  PROVE  /\ WaitsOK(conns', handlers', at') /\ QueuesOK(conns', queues')
         /\ LiveIn(conns') = LiveIn(conns) \ (C \cup E)
         /\ \A d \in Conns : conns'[d].life = "sent" => conns[d].life = "sent"
<1>1. /\ C \subseteq Lost(C) /\ Lost(C) \subseteq Conns
      /\ \A x \in Lost(C) \ C : conns[x].life = "sent"
  BY LostSent
<1>2. PICK L \in SUBSET Conns : L = Lost(C)
  BY <1>1
<1>3. /\ conns' \in [Conns -> ConnRecords]
      /\ \A d \in Conns : IF d \in L THEN conns'[d].life = "dead" /\ conns'[d].wait = 0 ELSE conns'[d] = cs[d]
  <2>1. PICK r : r = [life |-> "dead", wait |-> 0]
    OBVIOUS
  <2>2. r \in ConnRecords /\ r.life = "dead" /\ r.wait = 0
    BY <2>1 DEF ConnRecords, Lives
  <2>3. conns' = [d \in Conns |-> IF d \in L THEN r ELSE cs[d]]
    BY <1>2, <2>1 DEF Release, Destroyed
  <2> QED
    BY <2>2, <2>3
<1>4. \A d \in Conns : IF d \in L \cup E THEN conns'[d].life # "live" /\ conns'[d].wait = 0
                                        ELSE conns'[d] = conns[d]
  BY <1>3
<1>5. /\ handlers' \in [Ids -> Conns \cup {NoConn}]
      /\ \A i \in Ids : handlers'[i] = IF hs[i] \in L THEN NoConn ELSE hs[i]
  BY <1>2 DEF Release, Cancelled
<1>6. \A i \in Ids : handlers'[i] = IF handlers[i] \in L \cup E /\ handlers[i] # NoConn THEN NoConn ELSE handlers[i]
  BY <1>5
<1>7. at' = IF at \in L \cup E THEN NoConn ELSE at
  <2>1. at # NoConn => at \in Conns /\ conns[at].life = "live"
    BY DEF WaitsOK
  <2> QED
    BY <1>1, <1>2, <2>1
<1>8. WaitsOK(conns', handlers', at')
  <2>1. PICK D : D = L \cup E
    OBVIOUS
  <2>2. ConnsWithout(D, conns, conns')
    BY <1>4, <2>1 DEF ConnsWithout
  <2>3. HandlersWithout(D, handlers, handlers')
    BY <1>6, <2>1 DEF HandlersWithout
  <2>4. ReadWithout(D, at, at')
    BY <1>7, <2>1 DEF ReadWithout
  <2> QED
    BY <1>3, <1>5, <2>2, <2>3, <2>4, WaitsGo
<1>9. QueuesOK(conns', queues')
  <2>1. /\ queues' \in [Conns -> Seq(Contents)]
        /\ \A c \in Conns : queues'[c] = IF c \in L THEN <<>> ELSE queues[c]
    BY <1>2 DEF Release, Emptied, QueuesOK
  <2>2. ASSUME NEW c \in Conns, NEW k \in DOMAIN queues'[c], queues'[c][k] \in Requests
        PROVE  conns'[queues'[c][k]].life = "sent"
    <3>1. c \notin L /\ queues'[c] = queues[c]
      BY <2>1, <2>2
    <3>2. k \in DOMAIN queues[c] /\ queues[c][k] \in Requests
      BY <2>2, <3>1
    <3>3. PICK x : x = queues[c][k]
      OBVIOUS
    <3>4. x \in Conns /\ conns[x].life = "sent" /\ (x = Shell => c = App)
      BY <3>2, <3>3, RequestNames DEF QueuesOK
    <3>5. x \in L => x \in C
      BY <1>2, <3>1, <3>2, <3>3, LostClosed
    <3>6. x \notin C
      BY <1>1, <1>2, <3>1, <3>2, <3>3, <3>4, RequestNames
    <3> QED
      BY <1>4, <3>1, <3>3, <3>4, <3>5, <3>6
  <2>3. KeptFrom(queues, queues')
    BY <2>1 DEF KeptFrom
  <2>4. RequestsOf(queues', conns')
    BY <2>2 DEF RequestsOf
  <2> QED
    BY <2>1, <2>3, <2>4, MessagesKept
<1>10. LiveIn(conns') = LiveIn(conns) \ (C \cup E)
  BY <1>1, <1>2, <1>4 DEF LiveIn
<1>11. \A d \in Conns : conns'[d].life = "sent" => conns[d].life = "sent"
  BY <1>3
<1> QED
  BY <1>8, <1>9, <1>10, <1>11

\* Who is not alive does not wait.
LEMMA NoWait ==
  ASSUME NEW cs, NEW hs, NEW a, WaitsOK(cs, hs, a), NEW c \in Conns, cs[c].life # "live"
  PROVE  cs[c].wait = 0
<1>1. cs[c].wait \in Ids \cup {0}
  BY Records DEF WaitsOK
<1> QED
  BY <1>1 DEF WaitsOK

\* The message at the front of the pipe that is being read is taken from qs.
FrontTaken(qs) ==
    /\ qs \in [Conns -> Seq(Contents)]
    /\ qs[at] = Tail(queues[at]) /\ \A c \in Conns \ {at} : qs[c] = queues[c]

LEMMA ConsumedTaken ==
  ASSUME QueuesOK(conns, queues), at \in Conns, queues[at] # <<>>
  PROVE  FrontTaken(Consumed)
<1>1. queues \in [Conns -> Seq(Contents)] /\ Tail(queues[at]) \in Seq(Contents)
  BY TailGives DEF QueuesOK
<1> QED
  BY <1>1 DEF Consumed, FrontTaken

\* It is in no pipe afterwards.
FrontGone(m, qs) ==
    \A c \in Conns : \A k \in DOMAIN qs[c] :
      qs[c][k] \in Requests =>
        /\ qs[c][k] # m /\ conns[qs[c][k]].life = "sent"
        /\ \E j \in DOMAIN queues[c] : queues[c][j] = qs[c][k]

LEMMA Front ==
  ASSUME QueuesOK(conns, queues), at \in Conns, queues[at] # <<>>, NEW m, m = Head(queues[at]),
         NEW qs, FrontTaken(qs)
  PROVE  /\ m \in Requests => conns[m].life = "sent"
         /\ FrontGone(m, qs)
<1>1. /\ 1 \in DOMAIN queues[at] /\ queues[at][1] = m
      /\ \A k \in DOMAIN Tail(queues[at]) :
           k \in Nat /\ k # 0 /\ k + 1 \in DOMAIN queues[at] /\ Tail(queues[at])[k] = queues[at][k + 1]
  BY TailGives DEF QueuesOK
<1>3. m \in Requests => conns[m].life = "sent"
  BY <1>1 DEF QueuesOK
<1>4. ASSUME NEW c \in Conns, NEW k \in DOMAIN queues[c], queues[c][k] = m, m \in Requests
      PROVE  c = at /\ k = 1
  BY <1>1, <1>4 DEF QueuesOK
<1>5. ASSUME NEW c \in Conns, NEW k \in DOMAIN qs[c], qs[c][k] \in Requests
      PROVE  /\ qs[c][k] # m /\ conns[qs[c][k]].life = "sent"
             /\ \E j \in DOMAIN queues[c] : queues[c][j] = qs[c][k]
  <2>1. PICK j \in DOMAIN queues[c] : queues[c][j] = qs[c][k] /\ (c = at => j # 1)
    <3>1. CASE c = at
      <4>1. k \in DOMAIN Tail(queues[at]) /\ qs[c][k] = Tail(queues[at])[k]
        BY <3>1 DEF FrontTaken
      <4>2. k + 1 \in DOMAIN queues[at] /\ queues[at][k + 1] = qs[c][k] /\ k + 1 # 1
        BY <1>1, <4>1
      <4> QED
        BY <3>1, <4>2
    <3>2. CASE c # at
      BY <3>2 DEF FrontTaken
    <3> QED
      BY <3>1, <3>2
  <2>2. queues[c][j] \in Requests
    BY <1>5, <2>1
  <2>3. conns[queues[c][j]].life = "sent"
    BY <2>2 DEF QueuesOK
  <2>4. queues[c][j] # m
    BY <1>4, <2>1, <2>2
  <2> QED
    BY <2>1, <2>3, <2>4
<1> QED
  BY <1>3, <1>5 DEF FrontGone

\* A message without a request, or one whose connector is bound, is read.
LEMMA MessageRead ==
  ASSUME QueuesOK(conns, queues), at \in Conns, queues[at] # <<>>, NEW m, m = Head(queues[at]),
         NEW qs, FrontTaken(qs),
         NEW cs2, \A d \in Conns : d # m => cs2[d].life = conns[d].life
  PROVE  QueuesOK(cs2, qs)
<1>1. KeptFrom(queues, qs)
  BY DEF FrontTaken, KeptFrom
<1>2. ASSUME NEW c \in Conns, NEW k \in DOMAIN qs[c], qs[c][k] \in Requests
      PROVE  cs2[qs[c][k]].life = "sent"
  <2>1. qs[c][k] # m /\ conns[qs[c][k]].life = "sent" /\ qs[c][k] \in Conns
    <3>1. FrontGone(m, qs)
      BY Front
    <3> QED
      BY <1>2, <3>1, RequestNames DEF FrontGone
  <2> QED
    BY <2>1
<1>3. qs \in [Conns -> Seq(Contents)]
  BY DEF FrontTaken
<1>4. RequestsOf(qs, cs2)
  BY <1>2 DEF RequestsOf
<1> QED
  BY <1>1, <1>3, <1>4, MessagesKept

\* The connector of the message at the front is not bound; it goes, with what it takes along.
LEMMA RequestLost ==
  ASSUME QueuesOK(conns, queues), at \in Conns, queues[at] # <<>>, NEW m, m = Head(queues[at]),
         NEW C \in SUBSET Conns, \A x : x \in C <=> x = m,
         NEW qs, FrontTaken(qs),
         NEW qs2 \in [Conns -> Seq(Contents)],
         \A c \in Conns : qs2[c] = IF c \in Lost(C) THEN <<>> ELSE qs[c],
         NEW cs2, \A d \in Conns \ Lost(C) : cs2[d] = conns[d]
  PROVE  QueuesOK(cs2, qs2)
<1>1. KeptFrom(queues, qs2)
  BY DEF FrontTaken, KeptFrom
<1>2. ASSUME NEW c \in Conns, NEW k \in DOMAIN qs2[c], qs2[c][k] \in Requests
      PROVE  cs2[qs2[c][k]].life = "sent"
  <2>0. DOMAIN <<>> = {}
    OBVIOUS
  <2>1. c \notin Lost(C) /\ qs2[c] = qs[c]
    BY <1>2, <2>0
  <2>2. PICK x : x = qs[c][k] /\ x = qs2[c][k] /\ k \in DOMAIN qs[c]
    BY <1>2, <2>1
  <2>5. x \in Requests /\ x \in Conns
    BY <1>2, <2>2, RequestNames
  <2>6. qs[c][k] # m /\ conns[qs[c][k]].life = "sent" /\ \E j \in DOMAIN queues[c] : queues[c][j] = qs[c][k]
    <3>1. FrontGone(m, qs)
      BY Front
    <3>2. k \in DOMAIN qs[c] /\ qs[c][k] \in Requests
      BY <2>2, <2>5
    <3> QED
      BY <3>1, <3>2 DEF FrontGone
  <2>3. x # m /\ conns[x].life = "sent" /\ \E j \in DOMAIN queues[c] : queues[c][j] = x
    BY <2>2, <2>6
  <2>4. x \in Lost(C) => x \in C
    BY <2>1, <2>3, LostClosed
  <2> QED
    BY <2>2, <2>3, <2>4, <2>5
<1>3. RequestsOf(qs2, cs2)
  BY <1>2 DEF RequestsOf
<1> QED
  BY <1>1, <1>3, MessagesKept

LEMMA RequestBound ==
  ASSUME WaitsOK(conns, handlers, at), QueuesOK(conns, queues),
         at \in Conns, queues[at] # <<>>, NEW m \in Requests, m = Head(queues[at]),
         Bound(m), queues' = Consumed, at' = at
  PROVE  /\ WaitsOK(conns', handlers', at') /\ QueuesOK(conns', queues')
         /\ LiveIn(conns') = LiveIn(conns) \cup {m}
         /\ conns[m].life = "sent"
         /\ \A d \in Conns : conns'[d].life = "sent" => conns[d].life = "sent"
<1>1. m \in Conns /\ conns[m].life = "sent"
  BY ConsumedTaken, Front, RequestNames
<1>2. conns[m].wait = 0
  BY <1>1, NoWait
<1>3. PICK id \in Ids : id = FreeId(handlers) /\ handlers[id] = NoConn
  BY <1>1, <1>2, IdIsFree
<1>4. /\ conns' \in [Conns -> ConnRecords] /\ conns'[m].life = "live" /\ conns'[m].wait = id
      /\ \A d \in Conns \ {m} : conns'[d] = conns[d]
  <2>1. PICK r : r = [conns[m] EXCEPT !.life = "live"]
    OBVIOUS
  <2>2. PICK x : x = [r EXCEPT !.wait = id]
    OBVIOUS
  <2>3. conns \in [Conns -> ConnRecords] /\ conns[m] \in ConnRecords
    BY <1>1 DEF WaitsOK
  <2>4. r \in ConnRecords /\ r.life = "live"
    BY <2>1, <2>3 DEF ConnRecords, Lives
  <2>5. x \in ConnRecords /\ x.life = "live" /\ x.wait = id
    BY <2>2, <2>4 DEF ConnRecords, Lives
  <2>6. conns' = [[conns EXCEPT ![m] = r] EXCEPT ![m] = x]
    <3>1. [conns EXCEPT ![m].life = "live"] = [conns EXCEPT ![m] = r]
      BY <1>1, <2>1, <2>3
    <3>2. PICK cs \in [Conns -> ConnRecords] : cs = [conns EXCEPT ![m] = r]
      BY <1>1, <2>3, <2>4
    <3>3. cs[m] = r
      BY <1>1, <2>3, <3>2
    <3>4. conns' = [cs EXCEPT ![m].wait = id]
      BY <1>3, <3>1, <3>2 DEF Bound, AsyncWait
    <3>5. conns' = [cs EXCEPT ![m] = x]
      BY <1>1, <2>2, <3>2, <3>3, <3>4
    <3> QED
      BY <3>2, <3>5
  <2> QED
    BY <1>1, <2>3, <2>4, <2>5, <2>6
<1>5. /\ handlers' \in [Ids -> Conns \cup {NoConn}] /\ handlers'[id] = m
      /\ \A i \in Ids \ {id} : handlers'[i] = handlers[i]
  <2>1. handlers' = [handlers EXCEPT ![id] = m]
    BY <1>3 DEF Bound, AsyncWait
  <2>2. handlers \in [Ids -> Conns \cup {NoConn}]
    BY DEF WaitsOK
  <2> QED
    BY <1>1, <2>1, <2>2
<1>6. at' = IF m = at THEN NoConn ELSE at
  BY <1>1 DEF WaitsOK
<1>7. WaitsOK(conns', handlers', at')
  BY <1>1, <1>2, <1>3, <1>4, <1>5, <1>6, WaitStarts
<1>8. QueuesOK(conns', queues')
  <2>1. \A d \in Conns : d # m => conns'[d].life = conns[d].life
    BY <1>4
  <2>2. FrontTaken(queues')
    BY ConsumedTaken
  <2> QED
    BY <2>1, <2>2, MessageRead
<1> QED
  BY <1>1, <1>4, <1>7, <1>8 DEF LiveIn

LEMMA RequestDropped ==
  ASSUME WaitsOK(conns, handlers, at), QueuesOK(conns, queues),
         at \in Conns, queues[at] # <<>>, NEW m \in Requests, m = Head(queues[at]),
         conns' = Destroyed({m}, conns), queues' = [Emptied({m}) EXCEPT ![at] = Tail(@)],
         handlers' = handlers, at' = at
  PROVE  /\ WaitsOK(conns', handlers', at') /\ QueuesOK(conns', queues')
         /\ LiveIn(conns') = LiveIn(conns)
         /\ \A d \in Conns : conns'[d].life = "sent" => conns[d].life = "sent"
<1>1. m \in Conns /\ conns[m].life = "sent"
  BY ConsumedTaken, Front, RequestNames
<1>2. PICK C : C = {m}
  OBVIOUS
<1>3. C \in SUBSET Conns
  BY <1>1, <1>2
<1>4. PICK L \in SUBSET Conns : L = Lost(C) /\ C \subseteq L /\ \A x \in L : conns[x].life = "sent"
  BY <1>1, <1>2, <1>3, LostSent
<1>5. /\ conns \in [Conns -> ConnRecords] /\ handlers \in [Ids -> Conns \cup {NoConn}]
      /\ conns[at].life = "live"
  BY DEF WaitsOK
<1>6. at \notin L
  BY <1>4, <1>5
<1>7. /\ conns' \in [Conns -> ConnRecords]
      /\ \A d \in Conns : IF d \in L THEN conns'[d].life = "dead" /\ conns'[d].wait = 0 ELSE conns'[d] = conns[d]
  <2>1. PICK r : r = [life |-> "dead", wait |-> 0]
    OBVIOUS
  <2>2. r \in ConnRecords /\ r.life = "dead" /\ r.wait = 0
    BY <2>1 DEF ConnRecords, Lives
  <2>3. conns' = [d \in Conns |-> IF d \in L THEN r ELSE conns[d]]
    BY <1>2, <1>4, <2>1 DEF Destroyed
  <2> QED
    BY <1>5, <2>2, <2>3
<1>8. WaitsOK(conns', handlers', at')
  <2>1. ConnsWithout(L, conns, conns')
    BY <1>7 DEF ConnsWithout
  <2>2. \A i \in Ids : handlers[i] \in L => handlers[i] = NoConn
    BY <1>4 DEF WaitsOK
  <2>3. ASSUME NEW hs2 \in [Ids -> Conns \cup {NoConn}], \A i \in Ids : hs2[i] = handlers[i],
               NEW b, b = at
        PROVE  WaitsOK(conns', hs2, b)
    <3>1. HandlersWithout(L, handlers, hs2)
      BY <2>2, <2>3 DEF HandlersWithout
    <3>2. ReadWithout(L, at, b)
      BY <1>6, <2>3 DEF ReadWithout
    <3> QED
      BY <1>7, <2>1, <3>1, <3>2, WaitsGo
  <2> QED
    BY <1>5, <2>3
<1>9. QueuesOK(conns', queues')
  <2>1. queues \in [Conns -> Seq(Contents)] /\ Tail(queues[at]) \in Seq(Contents)
    BY TailGives DEF QueuesOK
  <2>2. Emptied(C) = [c \in Conns |-> IF c \in L THEN <<>> ELSE queues[c]]
    BY <1>4 DEF Emptied
  <2>3. PICK q \in [Conns -> Seq(Contents)] :
          q = Emptied(C) /\ \A c \in Conns : q[c] = IF c \in L THEN <<>> ELSE queues[c]
    <3>1. <<>> \in Seq(Contents)
      OBVIOUS
    <3>2. [c \in Conns |-> IF c \in L THEN <<>> ELSE queues[c]] \in [Conns -> Seq(Contents)]
      BY <2>1, <3>1
    <3> QED
      BY <2>2, <3>2
  <2>4. PICK qs : qs = Consumed /\ FrontTaken(qs)
    BY ConsumedTaken
  <2>5. queues' = [q EXCEPT ![at] = Tail(queues[at])]
    BY <1>2, <1>6, <2>3
  <2>6. PICK qs2 \in [Conns -> Seq(Contents)] :
          qs2 = queues' /\ \A c \in Conns : qs2[c] = IF c \in L THEN <<>> ELSE qs[c]
    <3>1. [q EXCEPT ![at] = Tail(queues[at])] \in [Conns -> Seq(Contents)]
      BY <2>1, <2>3
    <3>2. \A c \in Conns : [q EXCEPT ![at] = Tail(queues[at])][c] = IF c \in L THEN <<>> ELSE qs[c]
      BY <1>6, <2>3, <2>4 DEF FrontTaken
    <3> QED
      BY <2>5, <3>1, <3>2
  <2>7. \A d \in Conns \ Lost(C) : conns'[d] = conns[d]
    BY <1>4, <1>7
  <2>8. QueuesOK(conns', qs2)
    BY <1>2, <1>3, <1>4, <2>4, <2>6, <2>7, RequestLost
  <2> QED
    BY <2>6, <2>8
<1> QED
  BY <1>4, <1>7, <1>8, <1>9 DEF LiveIn

--------------------------------------------------------------------------------
(* The invariant: waits, pipes, and the rest.                              *)

LEMMA InvParts ==
  Inv <=> /\ WaitsOK(conns, handlers, at) /\ QueuesOK(conns, queues)
          /\ Kind \in [Services -> AllKinds] /\ providers \subseteq Providers
          /\ bindings \in [SetKinds -> SUBSET Services]
          /\ (loop = "gone" \/ loop = "destroying" => at = NoConn)
          /\ TellsFirst /\ BindingsByKind
<1>1. WaitsOK(conns, handlers, at) <=>
           /\ conns \in [Conns -> ConnRecords]
           /\ handlers \in [Ids -> Conns \cup {NoConn}] /\ at \in Conns \cup {NoConn}
           /\ \A c \in Conns : conns[c].wait # 0 => handlers[conns[c].wait] = c
           /\ \A id \in Ids : handlers[id] # NoConn => conns[handlers[id]] = [life |-> "live", wait |-> id]
           /\ \A c \in {d \in Conns : conns[d].life = "live"} \ {at} : conns[c].wait # 0
           /\ at # NoConn => conns[at] = [life |-> "live", wait |-> 0]
  BY WaitsMeaning
<1> QED
  BY <1>1 DEF Inv, TypeOK, ConnRecords, WaitsMatchHandlers, Live, ReadsWithoutWait, RequestsSent, QueuesOK

LEMMA InvPartsPrime ==
  ASSUME WaitsOK(conns', handlers', at'), QueuesOK(conns', queues'),
         Kind' \in [Services -> AllKinds], providers' \subseteq Providers,
         bindings' \in [SetKinds -> SUBSET Services],
         loop' = "gone" \/ loop' = "destroying" => at' = NoConn,
         TellsFirst', BindingsByKind'
  PROVE  Inv'
<1>1. WaitsOK(conns', handlers', at') <=>
           /\ conns' \in [Conns -> ConnRecords]
           /\ handlers' \in [Ids -> Conns \cup {NoConn}] /\ at' \in Conns \cup {NoConn}
           /\ \A c \in Conns : conns'[c].wait # 0 => handlers'[conns'[c].wait] = c
           /\ \A id \in Ids : handlers'[id] # NoConn => conns'[handlers'[id]] = [life |-> "live", wait |-> id]
           /\ \A c \in {d \in Conns : conns'[d].life = "live"} \ {at'} : conns'[c].wait # 0
           /\ at' # NoConn => conns'[at'] = [life |-> "live", wait |-> 0]
  BY WaitsMeaning
<1> QED
  BY <1>1 DEF Inv, TypeOK, ConnRecords, WaitsMatchHandlers, Live, ReadsWithoutWait, RequestsSent, QueuesOK

\* No service comes to life or dies.
LEMMA BindingsStay ==
  ASSUME BindingsByKind, bindings' = bindings, impls' = impls, Kind' = Kind,
         Services \cap LiveIn(conns') = Services \cap LiveIn(conns)
  PROVE  BindingsByKind'
BY DEF BindingsByKind, LiveIn, Live

\* Nobody the shell has not mentioned is sent or comes to life.
LEMMA TellsFirstStays ==
  ASSUME TellsFirst, told' = told, providers' \subseteq providers, providers \subseteq Providers,
         LiveIn(conns') \subseteq LiveIn(conns),
         \A d \in Conns : conns'[d].life = "sent" => conns[d].life = "sent"
  PROVE  TellsFirst'
<1>1. Providers \cup {Shell} \subseteq Conns
  BY DEF Conns
<1>2. \A d \in Conns : conns'[d].life = "live" => conns[d].life = "live"
  BY DEF LiveIn
<1> QED
  BY <1>1, <1>2 DEF TellsFirst

LEMMA InvInit == Init => Inv
<1> SUFFICES ASSUME Init PROVE Inv
  OBVIOUS
<1> USE DEF Init
<1>1. Cardinality(Conns) \in Nat /\ Cardinality(Conns) # 0 /\ 1 \in Ids
  <2>1. Cardinality(Conns) \in Nat /\ (Cardinality(Conns) = 0 <=> Conns = {})
    BY FS_CardinalityType, FS_EmptySet
  <2>2. Cardinality(Conns) # 0
    BY <2>1, RequestNames
  <2> QED
    BY <2>1, <2>2 DEF Ids
<1>2. /\ conns \in [Conns -> ConnRecords]
      /\ \A c \in Conns : IF c = App THEN conns[c].life = "live" /\ conns[c].wait = 1
                                     ELSE conns[c].life = "none" /\ conns[c].wait = 0
  <2>1. PICK r : r = [life |-> "live", wait |-> 1]
    OBVIOUS
  <2>2. PICK x : x = [life |-> "none", wait |-> 0]
    OBVIOUS
  <2>3. r \in ConnRecords /\ r.life = "live" /\ r.wait = 1
    BY <1>1, <2>1 DEF ConnRecords, Lives
  <2>4. x \in ConnRecords /\ x.life = "none" /\ x.wait = 0
    BY <2>2 DEF ConnRecords, Lives
  <2>5. conns = [c \in Conns |-> IF c = App THEN r ELSE x]
    BY <2>1, <2>2
  <2> QED
    BY <2>3, <2>4, <2>5
<1>3. /\ handlers \in [Ids -> Conns \cup {NoConn}]
      /\ \A id \in Ids : handlers[id] = IF id = 1 THEN App ELSE NoConn
  BY RequestNames
<1>4. WaitsOK(conns, handlers, at)
  BY <1>1, <1>2, <1>3, RequestNames DEF WaitsOK
<1>5. QueuesOK(conns, queues)
  <2>1. queues \in [Conns -> Seq(Contents)] /\ \A c \in Conns : queues[c] = <<>>
    OBVIOUS
  <2> QED
    BY <2>1 DEF QueuesOK
<1>6. Kind \in [Services -> AllKinds]
  OBVIOUS
<1>7. TellsFirst
  BY <1>2, RequestNames DEF TellsFirst
<1>8. BindingsByKind
  BY <1>2, RequestNames DEF BindingsByKind, Live
<1> QED
  BY <1>4, <1>5, <1>6, <1>7, <1>8, InvParts

--------------------------------------------------------------------------------
(* The other ends.                                                         *)

\* A request is sent for a connector that is in no message.
LEMMA RequestMade ==
  ASSUME WaitsOK(conns, handlers, at), QueuesOK(conns, queues),
         NEW c \in Conns, NEW m \in Requests, m = Shell => c = App,
         conns[m].life # "sent", conns[m].life # "live",
         conns' = [conns EXCEPT ![m].life = "sent"],
         queues' = [queues EXCEPT ![c] = Append(@, m)],
         handlers' = handlers, at' = at
  PROVE  /\ WaitsOK(conns', handlers', at') /\ QueuesOK(conns', queues')
         /\ LiveIn(conns') = LiveIn(conns)
         /\ \A d \in Conns : d # m => conns'[d] = conns[d]
<1>1. m \in Conns /\ conns[m].wait = 0
  BY NoWait, RequestNames
<1>2. /\ conns \in [Conns -> ConnRecords] /\ handlers \in [Ids -> Conns \cup {NoConn}]
      /\ at # NoConn => conns[at].life = "live"
  BY DEF WaitsOK
<1>3. PICK cs \in [Conns -> ConnRecords] :
        /\ cs = conns' /\ cs[m].life = "sent" /\ cs[m].wait = 0
        /\ \A d \in Conns : d # m => cs[d] = conns[d]
  <2>1. PICK r : r = [conns[m] EXCEPT !.life = "sent"]
    OBVIOUS
  <2>2. r \in ConnRecords /\ r.life = "sent" /\ r.wait = 0
    <3>1. conns[m] \in ConnRecords
      BY <1>1, <1>2
    <3> QED
      BY <1>1, <2>1, <3>1 DEF ConnRecords, Lives
  <2>3. conns' = [conns EXCEPT ![m] = r]
    BY <1>1, <1>2, <2>1
  <2> QED
    BY <1>1, <1>2, <2>2, <2>3
<1>4. WaitsOK(cs, handlers, at)
  <2>1. ConnsWithout({m}, conns, cs)
    BY <1>3 DEF ConnsWithout
  <2>2. HandlersWithout({m}, handlers, handlers)
    BY DEF HandlersWithout, WaitsOK
  <2>3. ReadWithout({m}, at, at)
    BY <1>2 DEF ReadWithout
  <2>4. PICK D : D = {m}
    OBVIOUS
  <2> QED
    BY <1>2, <1>3, <2>1, <2>2, <2>3, <2>4, WaitsGo
<1>5. QueuesOK(cs, queues')
  <2>1. queues \in [Conns -> Seq(Contents)] /\ m \in Contents
    BY RequestNames DEF QueuesOK
  <2>2. SentInto(queues, c, m, queues')
    BY <2>1, SendSends
  <2>3. LivesSent(conns, c, m, cs)
    BY <1>3 DEF LivesSent
  <2> QED
    BY <2>1, <2>2, <2>3, MessageSent
<1>6. LiveIn(cs) = LiveIn(conns)
  BY <1>1, <1>3 DEF LiveIn
<1> QED
  BY <1>3, <1>4, <1>5, <1>6

LEMMA ShellSendsInv ==
  ASSUME Inv, NEW m \in Providers \cup {Shell, "RequestQuit"}, ShellSends(m), UNCHANGED Kind
  PROVE  Inv'
<1> USE InvParts
<1>1. /\ handlers' = handlers /\ at' = at /\ loop' = loop /\ providers' = providers
      /\ bindings' = bindings /\ impls' = impls
      /\ queues' = [queues EXCEPT ![App] = Append(@, m)] /\ told' = told \cup {m} /\ m \notin told
  BY DEF ShellSends, Send
<1>2. CASE m = "RequestQuit"
  <2>1. conns' = conns
    BY <1>2 DEF ShellSends
  <2>2. queues \in [Conns -> Seq(Contents)] /\ m \in Contents /\ m \notin Requests
    BY <1>2, RequestNames DEF QueuesOK
  <2>3. SentInto(queues, App, m, queues')
    BY <1>1, <2>2, RequestNames, SendSends
  <2>4. LivesSent(conns, App, m, conns)
    BY <2>2 DEF LivesSent
  <2>5. QueuesOK(conns, queues')
    BY <2>2, <2>3, <2>4, RequestNames, MessageSent
  <2>6. TellsFirst'
    BY <1>1, <2>1 DEF TellsFirst
  <2>7. BindingsByKind'
    BY <1>1, <2>1, BindingsStay
  <2> QED
    BY <1>1, <2>1, <2>5, <2>6, <2>7, InvPartsPrime
<1>3. CASE m \in Providers \cup {Shell}
  <2>1. m \in Requests /\ conns' = [conns EXCEPT ![m].life = "sent"]
    BY <1>3, RequestNames DEF ShellSends
  <2>2. conns[m].life # "sent" /\ conns[m].life # "live"
    BY <1>1, <1>3 DEF TellsFirst
  <2>3. /\ WaitsOK(conns', handlers', at') /\ QueuesOK(conns', queues')
        /\ LiveIn(conns') = LiveIn(conns)
        /\ \A d \in Conns : d # m => conns'[d] = conns[d]
    BY <1>1, <2>1, <2>2, RequestNames, RequestMade
  <2>4. TellsFirst'
    <3>1. Providers \cup {Shell} \subseteq Conns
      BY DEF Conns
    <3>2. \A d \in Providers \cup {Shell} : d # m => conns'[d].life = conns[d].life
      BY <2>3, <3>1
    <3>3. \A d \in Providers \cup {Shell} : d \notin told' => d \notin told /\ d # m
      BY <1>1
    <3>4. \A p \in providers : p # m /\ p \in Providers
      BY <1>1 DEF TellsFirst
    <3>5. \A d \in Providers \cup {Shell} : d \notin told' => conns'[d].life \notin {"sent", "live"}
      BY <3>2, <3>3 DEF TellsFirst
    <3>6. \A p \in providers' : p \in told' /\ conns'[p].life # "sent"
      BY <1>1, <3>2, <3>4 DEF TellsFirst
    <3> QED
      BY <3>5, <3>6 DEF TellsFirst
  <2>5. BindingsByKind'
    BY <1>1, <2>3, BindingsStay
  <2> QED
    BY <1>1, <2>3, <2>4, <2>5, InvPartsPrime
<1> QED
  BY <1>2, <1>3

LEMMA ClientConnectsInv ==
  ASSUME Inv, NEW p \in Providers, NEW s \in Services, ClientConnects(p, s), UNCHANGED Kind
  PROVE  Inv'
<1> USE InvParts
<1>1. /\ handlers' = handlers /\ at' = at /\ loop' = loop /\ providers' = providers
      /\ bindings' = bindings /\ impls' = impls /\ told' = told
      /\ queues' = [queues EXCEPT ![p] = Append(@, s)]
      /\ conns' = [conns EXCEPT ![s].life = "sent"] /\ conns[s].life = "none"
  BY DEF ClientConnects, Send
<1>2. p \in Conns /\ s \in Requests /\ s # Shell
  BY RequestNames
<1>3. /\ WaitsOK(conns', handlers', at') /\ QueuesOK(conns', queues')
      /\ LiveIn(conns') = LiveIn(conns)
      /\ \A d \in Conns : d # s => conns'[d] = conns[d]
  BY <1>1, <1>2, RequestMade
<1>4. TellsFirst'
  <2>1. \A d \in Providers \cup {Shell} : conns'[d] = conns[d]
    BY <1>3 DEF Conns
  <2> QED
    BY <1>1, <2>1 DEF TellsFirst
<1>5. BindingsByKind'
  BY <1>1, <1>3, BindingsStay
<1> QED
  BY <1>1, <1>3, <1>4, <1>5, InvPartsPrime

LEMMA ClientCallsInv ==
  ASSUME Inv, NEW s \in Services, ClientCalls(s), UNCHANGED Kind
  PROVE  Inv'
<1> USE InvParts
<1>1. /\ handlers' = handlers /\ at' = at /\ loop' = loop /\ providers' = providers
      /\ bindings' = bindings /\ impls' = impls /\ told' = told /\ conns' = conns
      /\ queues' = [queues EXCEPT ![s] = Append(@, "call")]
  BY DEF ClientCalls, Send
<1>2. s \in Conns /\ queues \in [Conns -> Seq(Contents)] /\ "call" \in Contents /\ "call" \notin Requests
  BY RequestNames DEF QueuesOK
<1>3. SentInto(queues, s, "call", queues')
  BY <1>1, <1>2, SendSends
<1>4. LivesSent(conns, s, "call", conns)
  BY <1>2 DEF LivesSent
<1>5. QueuesOK(conns, queues')
  BY <1>2, <1>3, <1>4, MessageSent
<1>6. TellsFirst' /\ BindingsByKind'
  BY <1>1, BindingsStay DEF TellsFirst
<1> QED
  BY <1>1, <1>5, <1>6, InvPartsPrime

--------------------------------------------------------------------------------
(* The run loop and the connectors' callbacks.                             *)

LEMMA HandleReadyInv ==
  ASSUME Inv, NEW id \in Ids, HandleReady(id), UNCHANGED Kind
  PROVE  Inv'
<1> USE InvParts
<1>1. /\ loop = "running" /\ loop' = loop /\ at = NoConn /\ handlers[id] # NoConn
      /\ handlers' = [handlers EXCEPT ![id] = NoConn]
      /\ conns' = [conns EXCEPT ![handlers[id]].wait = 0] /\ at' = handlers[id]
      /\ queues' = queues /\ providers' = providers /\ bindings' = bindings /\ impls' = impls /\ told' = told
  BY DEF HandleReady, NotifyCallback
<1>2. PICK c \in Conns : c = handlers[id] /\ conns[c].life = "live"
  BY <1>1 DEF WaitsOK
<1>3. conns \in [Conns -> ConnRecords] /\ handlers \in [Ids -> Conns \cup {NoConn}]
  BY DEF WaitsOK
<1>4. PICK cs \in [Conns -> ConnRecords] :
        cs = conns' /\ cs[c].life = "live" /\ cs[c].wait = 0 /\ \A d \in Conns \ {c} : cs[d] = conns[d]
  <2>1. PICK r : r = [conns[c] EXCEPT !.wait = 0]
    OBVIOUS
  <2>2. conns[c] \in ConnRecords
    BY <1>3
  <2>3. r \in ConnRecords /\ r.life = "live" /\ r.wait = 0
    BY <1>2, <2>1, <2>2 DEF ConnRecords
  <2>4. conns' = [conns EXCEPT ![c] = r]
    BY <1>1, <1>2, <1>3, <2>1
  <2> QED
    BY <1>3, <2>3, <2>4
<1>5. PICK hs \in [Ids -> Conns \cup {NoConn}] :
        hs = handlers' /\ hs[id] = NoConn /\ \A i \in Ids \ {id} : hs[i] = handlers[i]
  <2>1. handlers' \in [Ids -> Conns \cup {NoConn}]
    BY <1>1, <1>3
  <2>2. handlers'[id] = NoConn /\ \A i \in Ids \ {id} : handlers'[i] = handlers[i]
    BY <1>1, <1>3
  <2> QED
    BY <2>1, <2>2
<1>6. WaitsOK(conns, handlers, NoConn)
  BY <1>1
<1>7. WaitsOK(cs, hs, handlers[id])
  BY <1>1, <1>2, <1>4, <1>5, <1>6, WaitEnds
<1>8. \A d \in Conns : cs[d].life = conns[d].life
  BY <1>2, <1>4
<1>9. QueuesOK(cs, queues)
  BY <1>8, RequestNames DEF QueuesOK
<1>10. LiveIn(cs) = LiveIn(conns)
  BY <1>8 DEF LiveIn
<1>11. TellsFirst'
  BY <1>1, <1>4, <1>8, <1>10, TellsFirstStays
<1>12. BindingsByKind'
  BY <1>1, <1>4, <1>10, BindingsStay
<1> QED
  BY <1>1, <1>4, <1>5, <1>7, <1>9, <1>11, <1>12, InvPartsPrime

LEMMA WaitToReadMoreInv ==
  ASSUME Inv, WaitToReadMore, UNCHANGED Kind
  PROVE  Inv'
<1> USE InvParts
<1>1. PICK id : id = FreeId(handlers)
  OBVIOUS
<1>2. /\ at # NoConn /\ at' = NoConn /\ loop' = loop
      /\ conns' = [conns EXCEPT ![at].wait = id] /\ handlers' = [handlers EXCEPT ![id] = at]
      /\ queues' = queues /\ providers' = providers /\ bindings' = bindings /\ impls' = impls /\ told' = told
  BY <1>1 DEF WaitToReadMore, AsyncWait
<1>3. /\ at \in Conns /\ conns[at].life = "live" /\ conns[at].wait = 0
      /\ conns \in [Conns -> ConnRecords] /\ handlers \in [Ids -> Conns \cup {NoConn}]
  BY <1>2 DEF WaitsOK
<1>4. id \in Ids /\ handlers[id] = NoConn
  BY <1>1, <1>3, IdIsFree
<1>5. PICK cs \in [Conns -> ConnRecords] :
        cs = conns' /\ cs[at].life = "live" /\ cs[at].wait = id /\ \A d \in Conns \ {at} : cs[d] = conns[d]
  <2>1. PICK r : r = [conns[at] EXCEPT !.wait = id]
    OBVIOUS
  <2>2. conns[at] \in ConnRecords
    BY <1>3
  <2>3. r \in ConnRecords /\ r.life = "live" /\ r.wait = id
    BY <1>3, <1>4, <2>1, <2>2 DEF ConnRecords
  <2>4. conns' = [conns EXCEPT ![at] = r]
    BY <1>2, <1>3, <2>1
  <2> QED
    BY <1>3, <2>3, <2>4
<1>6. PICK hs \in [Ids -> Conns \cup {NoConn}] :
        hs = handlers' /\ hs[id] = at /\ \A i \in Ids \ {id} : hs[i] = handlers[i]
  <2>1. handlers' \in [Ids -> Conns \cup {NoConn}]
    BY <1>2, <1>3, <1>4
  <2>2. handlers'[id] = at /\ \A i \in Ids \ {id} : handlers'[i] = handlers[i]
    BY <1>2, <1>3, <1>4
  <2> QED
    BY <2>1, <2>2
<1>7. WaitsOK(cs, hs, NoConn)
  BY <1>3, <1>4, <1>5, <1>6, WaitStarts
<1>8. \A d \in Conns : cs[d].life = conns[d].life
  BY <1>3, <1>5
<1>9. QueuesOK(cs, queues)
  BY <1>8, RequestNames DEF QueuesOK
<1>10. LiveIn(cs) = LiveIn(conns)
  BY <1>8 DEF LiveIn
<1>11. TellsFirst'
  BY <1>2, <1>5, <1>8, <1>10, TellsFirstStays
<1>12. BindingsByKind'
  BY <1>2, <1>5, <1>10, BindingsStay
<1> QED
  BY <1>2, <1>5, <1>6, <1>7, <1>9, <1>11, <1>12, InvPartsPrime

\* The service s is gone, with its binding and its implementation.
LEMMA BindingGone ==
  ASSUME BindingsByKind, bindings \in [SetKinds -> SUBSET Services], Kind' = Kind, NEW s,
         Services \cap LiveIn(conns') = (Services \cap LiveIn(conns)) \ {s},
         \A k \in SetKinds : bindings'[k] = bindings[k] \ {s}, impls' = impls \ {s}
  PROVE  BindingsByKind'
BY DEF BindingsByKind, LiveIn, Live

\* Connector::NotifyError with c's handler gone.
LEMMA NotifyErrorInv ==
  ASSUME Inv, NEW c \in Conns, conns[c].life = "live", at \in {NoConn, c}, at' = NoConn,
         NEW hs \in [Ids -> Conns \cup {NoConn}],
         \A i \in Ids : hs[i] = IF handlers[i] = c THEN NoConn ELSE handlers[i],
         NotifyError(c, hs), told' = told, Kind' = Kind
  PROVE  Inv'
<1> USE InvParts
<1>1. conns \in [Conns -> ConnRecords]
  BY DEF WaitsOK
<1>2. PICK cs \in [Conns -> ConnRecords] :
        /\ cs = [conns EXCEPT ![c] = [life |-> "error", wait |-> 0]]
        /\ \A d \in Conns : IF d \in {c} THEN cs[d].life = "error" /\ cs[d].wait = 0 ELSE cs[d] = conns[d]
  <2>1. PICK r : r = [life |-> "error", wait |-> 0]
    OBVIOUS
  <2>2. r \in ConnRecords /\ r.life = "error" /\ r.wait = 0
    BY <2>1 DEF ConnRecords, Lives
  <2>3. [conns EXCEPT ![c] = r] \in [Conns -> ConnRecords]
    BY <1>1, <2>2
  <2>4. \A d \in Conns : IF d \in {c} THEN [conns EXCEPT ![c] = r][d] = r
                                      ELSE [conns EXCEPT ![c] = r][d] = conns[d]
    BY <1>1
  <2> QED
    BY <2>1, <2>2, <2>3, <2>4
<1>3. ASSUME NEW C \in SUBSET Conns, Release(C, cs, hs), \A x \in C : conns[x].life # "sent"
      PROVE  /\ WaitsOK(conns', handlers', at') /\ QueuesOK(conns', queues')
             /\ LiveIn(conns') = LiveIn(conns) \ (C \cup {c})
             /\ \A d \in Conns : conns'[d].life = "sent" => conns[d].life = "sent"
  <2>1. PICK E \in SUBSET Conns : E = {c}
    OBVIOUS
  <2>2. \A i \in Ids : hs[i] = IF handlers[i] \in E THEN NoConn ELSE handlers[i]
    BY <2>1
  <2>3. at' = IF at \in C \cup E THEN NoConn ELSE at
    BY <2>1
  <2>4. \A d \in Conns : IF d \in E THEN cs[d].life = "error" /\ cs[d].wait = 0 ELSE cs[d] = conns[d]
    BY <1>2, <2>1
  <2>5. \A x \in E : conns[x].life = "live"
    BY <2>1
  <2>6. /\ WaitsOK(conns', handlers', at') /\ QueuesOK(conns', queues')
        /\ LiveIn(conns') = LiveIn(conns) \ (C \cup E)
        /\ \A d \in Conns : conns'[d].life = "sent" => conns[d].life = "sent"
    BY <1>3, <2>2, <2>3, <2>4, <2>5, Released
  <2> QED
    BY <2>1, <2>6
<1>4. CASE c \notin Services /\ c # Shell
  <2>1. /\ Release({}, cs, hs) /\ providers' = providers /\ bindings' = bindings /\ impls' = impls
        /\ loop' = loop
    BY <1>2, <1>4 DEF NotifyError
  <2>2. /\ WaitsOK(conns', handlers', at') /\ QueuesOK(conns', queues')
        /\ LiveIn(conns') = LiveIn(conns) \ ({} \cup {c})
        /\ \A d \in Conns : conns'[d].life = "sent" => conns[d].life = "sent"
    BY <1>3, <2>1
  <2>3. TellsFirst'
    BY <2>1, <2>2, TellsFirstStays
  <2>4. BindingsByKind'
    BY <1>4, <2>1, <2>2, BindingsStay
  <2> QED
    BY <2>1, <2>2, <2>3, <2>4, InvPartsPrime
<1>5. CASE c = Shell
  <2>1. /\ Release(providers, cs, hs) /\ providers' = {} /\ bindings' = bindings /\ impls' = impls
        /\ loop' = Quit
    BY <1>2, <1>5 DEF NotifyError, ShellGone, TerminateApplication
  <2>2. providers \in SUBSET Conns /\ \A x \in providers : conns[x].life # "sent"
    BY DEF TellsFirst, Conns
  <2>3. /\ WaitsOK(conns', handlers', at') /\ QueuesOK(conns', queues')
        /\ LiveIn(conns') = LiveIn(conns) \ (providers \cup {c})
        /\ \A d \in Conns : conns'[d].life = "sent" => conns[d].life = "sent"
    BY <1>3, <2>1, <2>2
  <2>4. TellsFirst'
    BY <2>1, <2>3, TellsFirstStays
  <2>5. BindingsByKind'
    BY <1>5, <2>1, <2>3, BindingsStay
  <2> QED
    BY <2>1, <2>3, <2>4, <2>5, InvPartsPrime
<1>6. CASE c \in Services
  <2>1. /\ Release({c}, cs, hs) /\ providers' = providers /\ loop' = loop
        /\ bindings' = [k \in SetKinds |-> bindings[k] \ {c}] /\ impls' = impls \ {c}
    BY <1>2, <1>6 DEF NotifyError, ServiceGone, Erase, OnConnectionError
  <2>2. /\ WaitsOK(conns', handlers', at') /\ QueuesOK(conns', queues')
        /\ LiveIn(conns') = LiveIn(conns) \ ({c} \cup {c})
        /\ \A d \in Conns : conns'[d].life = "sent" => conns[d].life = "sent"
    BY <1>3, <2>1
  <2>3. TellsFirst'
    BY <2>1, <2>2, TellsFirstStays
  <2>4. bindings' \in [SetKinds -> SUBSET Services] /\ \A k \in SetKinds : bindings'[k] = bindings[k] \ {c}
    BY <2>1
  <2>5. BindingsByKind'
    BY <2>1, <2>2, <2>4, BindingGone
  <2> QED
    BY <2>1, <2>2, <2>3, <2>4, <2>5, InvPartsPrime
<1> QED
  BY <1>4, <1>5, <1>6

LEMMA HandleErrorInv ==
  ASSUME Inv, NEW id \in Ids, HandleError(id), UNCHANGED Kind
  PROVE  Inv'
<1> USE InvParts
<1>1. PICK hs : hs = [handlers EXCEPT ![id] = NoConn]
  OBVIOUS
<1>2. /\ at = NoConn /\ at' = at /\ handlers[id] # NoConn /\ told' = told
      /\ NotifyError(handlers[id], hs)
  BY <1>1 DEF HandleError, NotifyCallback
<1>3. PICK c \in Conns : c = handlers[id] /\ conns[c].life = "live" /\ conns[c].wait = id
  BY <1>2 DEF WaitsOK
<1>4. handlers \in [Ids -> Conns \cup {NoConn}]
      /\ \A i \in Ids : handlers[i] # NoConn => conns[handlers[i]].wait = i
  BY DEF WaitsOK
<1>5. /\ hs \in [Ids -> Conns \cup {NoConn}]
      /\ \A i \in Ids : hs[i] = IF handlers[i] = c THEN NoConn ELSE handlers[i]
  BY <1>1, <1>3, <1>4
<1> QED
  BY <1>2, <1>3, <1>5, NotifyErrorInv

LEMMA ReadFailsInv ==
  ASSUME Inv, ReadFails, UNCHANGED Kind
  PROVE  Inv'
<1> USE InvParts
<1>1. at # NoConn /\ at' = NoConn /\ told' = told /\ NotifyError(at, handlers)
  BY DEF ReadFails
<1>2. at \in Conns /\ conns[at].life = "live" /\ conns[at].wait = 0
  BY <1>1 DEF WaitsOK
<1>3. /\ handlers \in [Ids -> Conns \cup {NoConn}]
      /\ \A i \in Ids : handlers[i] = IF handlers[i] = at THEN NoConn ELSE handlers[i]
  BY <1>2, IdsAreNumbers DEF WaitsOK
<1> QED
  BY <1>1, <1>2, <1>3, NotifyErrorInv

--------------------------------------------------------------------------------
(* Messages.                                                               *)

LEMMA InitializeInv ==
  ASSUME Inv, Initialize, UNCHANGED Kind
  PROVE  Inv'
<1> USE InvParts
<1>1. /\ at = App /\ queues[at] # <<>> /\ Head(queues[at]) = Shell /\ Bound(Shell) /\ queues' = Consumed
      /\ loop' = loop /\ at' = at /\ providers' = providers /\ bindings' = bindings /\ impls' = impls
      /\ told' = told
  BY DEF Initialize, Reads
<1>2. /\ WaitsOK(conns', handlers', at') /\ QueuesOK(conns', queues')
      /\ LiveIn(conns') = LiveIn(conns) \cup {Shell} /\ conns[Shell].life = "sent"
      /\ \A d \in Conns : conns'[d].life = "sent" => conns[d].life = "sent"
  BY <1>1, RequestNames, RequestBound
<1>3. TellsFirst'
  <2>1. Providers \cup {Shell} \subseteq Conns
    BY DEF Conns
  <2>2. Shell \in told
    BY <1>2 DEF TellsFirst
  <2>3. \A d \in Conns \ {Shell} : conns'[d].life = "live" => conns[d].life = "live"
    BY <1>2 DEF LiveIn
  <2> QED
    BY <1>1, <1>2, <2>1, <2>2, <2>3 DEF TellsFirst
<1>4. BindingsByKind'
  BY <1>1, <1>2, BindingsStay
<1> QED
  BY <1>1, <1>2, <1>3, <1>4, InvPartsPrime

LEMMA AcceptConnectionInv ==
  ASSUME Inv, NEW p \in Providers, AcceptConnection(p), UNCHANGED Kind
  PROVE  Inv'
<1> USE InvParts
<1>1. /\ at = App /\ queues[at] # <<>> /\ Head(queues[at]) = p
      /\ loop' = loop /\ at' = at /\ bindings' = bindings /\ impls' = impls /\ told' = told
  BY DEF AcceptConnection, Reads
<1>2. at \in Conns /\ p \in Requests /\ p \notin Services
  BY <1>1, RequestNames
<1>3. CASE Bound(p) /\ providers' = providers \cup {p} /\ queues' = Consumed
  <2>1. /\ WaitsOK(conns', handlers', at') /\ QueuesOK(conns', queues')
        /\ LiveIn(conns') = LiveIn(conns) \cup {p} /\ conns[p].life = "sent"
        /\ \A d \in Conns : conns'[d].life = "sent" => conns[d].life = "sent"
    BY <1>1, <1>2, <1>3, RequestBound
  <2>2. TellsFirst'
    <3>1. Providers \cup {Shell} \subseteq Conns
      BY DEF Conns
    <3>2. p \in told
      BY <2>1 DEF TellsFirst
    <3>3. \A d \in Conns \ {p} : conns'[d].life = "live" => conns[d].life = "live"
      BY <2>1 DEF LiveIn
    <3>4. conns'[p].life = "live"
      BY <2>1, <3>1 DEF LiveIn
    <3> QED
      BY <1>1, <1>3, <2>1, <3>1, <3>2, <3>3, <3>4 DEF TellsFirst
  <2>3. BindingsByKind'
    BY <1>1, <1>2, <2>1, BindingsStay
  <2> QED
    BY <1>1, <1>3, <2>1, <2>2, <2>3, InvPartsPrime
<1>4. CASE /\ conns' = Destroyed({p}, conns) /\ queues' = [Emptied({p}) EXCEPT ![at] = Tail(@)]
           /\ handlers' = handlers /\ providers' = providers
  <2>1. /\ WaitsOK(conns', handlers', at') /\ QueuesOK(conns', queues')
        /\ LiveIn(conns') = LiveIn(conns)
        /\ \A d \in Conns : conns'[d].life = "sent" => conns[d].life = "sent"
    BY <1>1, <1>2, <1>4, RequestDropped
  <2>2. TellsFirst'
    BY <1>1, <1>4, <2>1, TellsFirstStays
  <2>3. BindingsByKind'
    BY <1>1, <2>1, BindingsStay
  <2> QED
    BY <1>1, <1>4, <2>1, <2>2, <2>3, InvPartsPrime
<1> QED
  BY <1>3, <1>4 DEF AcceptConnection

LEMMA ConnectToServiceInv ==
  ASSUME Inv, NEW s \in Services, ConnectToService(s), UNCHANGED Kind
  PROVE  Inv'
<1> USE InvParts
<1>1. /\ at \in Providers /\ queues[at] # <<>> /\ Head(queues[at]) = s
      /\ loop' = loop /\ at' = at /\ providers' = providers /\ told' = told
  BY DEF ConnectToService, Reads
<1>2. at \in Conns /\ s \in Requests
  BY <1>1, RequestNames
<1>3. CASE Bound(s) /\ bindings' = AddBinding(s) /\ impls' = NewImpl(s) /\ queues' = Consumed
  <2>1. /\ WaitsOK(conns', handlers', at') /\ QueuesOK(conns', queues')
        /\ LiveIn(conns') = LiveIn(conns) \cup {s} /\ conns[s].life = "sent"
        /\ \A d \in Conns : conns'[d].life = "sent" => conns[d].life = "sent"
    BY <1>1, <1>2, <1>3, RequestBound
  <2>2. TellsFirst'
    <3>1. Providers \cup {Shell} \subseteq Conns \ {s}
      BY DEF Conns
    <3>2. \A d \in Conns \ {s} : conns'[d].life = "live" => conns[d].life = "live"
      BY <2>1 DEF LiveIn
    <3> QED
      BY <1>1, <2>1, <3>1, <3>2 DEF TellsFirst
  <2>3. PICK k \in AllKinds : k = Kind[s]
    OBVIOUS
  <2>4. /\ bindings' \in [SetKinds -> SUBSET Services]
        /\ \A j \in SetKinds : bindings'[j] = IF j = k THEN bindings[j] \cup {s} ELSE bindings[j]
    BY <1>3, <2>3 DEF AddBinding, AllKinds, SetKinds
  <2>5. impls' = IF k = "set" THEN impls ELSE impls \cup {s}
    BY <1>3, <2>3 DEF NewImpl
  <2>6. BindingsByKind'
    <3>1. Services \cap LiveIn(conns') = (Services \cap LiveIn(conns)) \cup {s}
      BY <2>1
    <3> QED
      BY <2>3, <2>4, <2>5, <3>1 DEF BindingsByKind, LiveIn, Live
  <2> QED
    BY <1>1, <2>1, <2>2, <2>4, <2>6, InvPartsPrime
<1>4. CASE /\ conns' = Destroyed({s}, conns) /\ queues' = [Emptied({s}) EXCEPT ![at] = Tail(@)]
           /\ handlers' = handlers /\ bindings' = bindings /\ impls' = impls
  <2>1. /\ WaitsOK(conns', handlers', at') /\ QueuesOK(conns', queues')
        /\ LiveIn(conns') = LiveIn(conns)
        /\ \A d \in Conns : conns'[d].life = "sent" => conns[d].life = "sent"
    BY <1>1, <1>2, <1>4, RequestDropped
  <2>2. TellsFirst'
    BY <1>1, <2>1, TellsFirstStays
  <2>3. BindingsByKind'
    BY <1>4, <2>1, BindingsStay
  <2> QED
    BY <1>1, <1>4, <2>1, <2>2, <2>3, InvPartsPrime
<1> QED
  BY <1>3, <1>4 DEF ConnectToService, TakesRequest

\* A message is read that has no request in it.
LEMMA CallInv ==
  ASSUME Inv, at \in Conns, queues[at] # <<>>, Head(queues[at]) \notin Requests, queues' = Consumed,
         loop' \in {loop, Quit}, UNCHANGED <<conns, handlers, at, providers, bindings, impls, told, Kind>>
  PROVE  Inv'
<1> USE InvParts
<1>1. QueuesOK(conns, queues')
  <2>1. \A d \in Conns : d # Head(queues[at]) => conns[d].life = conns[d].life
    OBVIOUS
  <2>2. FrontTaken(queues')
    BY ConsumedTaken
  <2>3. PICK m : m = Head(queues[at])
    OBVIOUS
  <2> QED
    BY <2>1, <2>2, <2>3, MessageRead
<1>2. TellsFirst' /\ BindingsByKind'
  BY BindingsStay DEF TellsFirst
<1>3. loop' = "gone" \/ loop' = "destroying" => at' = NoConn
  BY DEF Quit
<1> QED
  BY <1>1, <1>2, <1>3, InvPartsPrime

LEMMA DeletesItselfInv ==
  ASSUME Inv, DeletesItself, UNCHANGED Kind
  PROVE  Inv'
<1> USE InvParts
<1>1. /\ at \in impls /\ Release({at}, conns, handlers) /\ impls' = impls \ {at}
      /\ bindings' = [bindings EXCEPT !["strong_set"] = @ \ {at}]
      /\ at' = NoConn /\ loop' = loop /\ providers' = providers /\ told' = told
  BY DEF DeletesItself, RemoveBindings, Erase
<1>2. at \in Services /\ at \in Conns /\ conns[at].life = "live" /\ Kind[at] # "set"
  BY <1>1 DEF BindingsByKind, Live
<1>3. conns \in [Conns -> ConnRecords] /\ handlers \in [Ids -> Conns \cup {NoConn}]
  BY DEF WaitsOK
<1>4. /\ WaitsOK(conns', handlers', at') /\ QueuesOK(conns', queues')
      /\ LiveIn(conns') = LiveIn(conns) \ {at}
      /\ \A d \in Conns : conns'[d].life = "sent" => conns[d].life = "sent"
  <2>0. {at} \in SUBSET Conns /\ \A x \in {at} : conns[x].life # "sent"
    BY <1>2
  <2>1. PICK C \in SUBSET Conns : C = {at} /\ \A x \in C : conns[x].life # "sent"
    BY <2>0
  <2>2. PICK E \in SUBSET Conns : E = {}
    OBVIOUS
  <2>3. Release(C, conns, handlers) /\ at' = IF at \in C \cup E THEN NoConn ELSE at
    BY <1>1, <2>1
  <2>4. \A d \in Conns : IF d \in E THEN conns[d].life = "error" /\ conns[d].wait = 0 ELSE conns[d] = conns[d]
    BY <2>2
  <2>5. \A i \in Ids : handlers[i] = IF handlers[i] \in E THEN NoConn ELSE handlers[i]
    BY <2>2
  <2>6. /\ WaitsOK(conns', handlers', at') /\ QueuesOK(conns', queues')
        /\ LiveIn(conns') = LiveIn(conns) \ (C \cup E)
        /\ \A d \in Conns : conns'[d].life = "sent" => conns[d].life = "sent"
    BY <1>3, <2>1, <2>2, <2>3, <2>4, <2>5, Released
  <2> QED
    BY <2>1, <2>2, <2>6
<1>5. TellsFirst'
  BY <1>1, <1>4, TellsFirstStays
<1>6. bindings' \in [SetKinds -> SUBSET Services] /\ \A k \in SetKinds : bindings'[k] = bindings[k] \ {at}
  <2>1. at \notin bindings["set"]
    BY <1>2 DEF BindingsByKind, SetKinds
  <2> QED
    BY <1>1, <2>1 DEF SetKinds
<1>7. BindingsByKind'
  <2>1. PICK s : s = at
    OBVIOUS
  <2> QED
    BY <1>1, <1>4, <1>6, <2>1, BindingGone
<1> QED
  BY <1>1, <1>4, <1>5, <1>6, <1>7, InvPartsPrime

LEMMA ApplicationDestroyedInv ==
  ASSUME Inv, ApplicationDestroyed, UNCHANGED Kind
  PROVE  Inv'
<1> USE InvParts
<1>1. PICK C : C = {App, Shell} \cup providers \cup SetMembers
  OBVIOUS
<1>2. /\ loop = "gone" /\ loop' = loop /\ at' = at /\ told' = told
      /\ Release(C, conns, handlers) /\ providers' = {} /\ impls' = impls \ SetMembers
      /\ bindings' = [k \in SetKinds |-> {}]
  BY <1>1 DEF ApplicationDestroyed, CloseAllBindings
<1>3. at = NoConn
  BY <1>2
<1>4. SetMembers = {s \in Services \cap Live : Kind[s] # "strong"}
  BY DEF SetMembers, BindingsByKind, SetKinds, AllKinds
<1>5. C \in SUBSET Conns /\ App \in C /\ \A x \in C : conns[x].life = "sent" => x \in {App, Shell} /\ App \in C
  <2>1. \A x \in providers : conns[x].life # "sent"
    BY DEF TellsFirst
  <2>2. \A x \in SetMembers : conns[x].life # "sent"
    BY <1>4 DEF Live
  <2> QED
    BY <1>1, <2>1, <2>2 DEF SetMembers, Conns
<1>6. conns \in [Conns -> ConnRecords] /\ handlers \in [Ids -> Conns \cup {NoConn}]
  BY DEF WaitsOK
<1>7. /\ WaitsOK(conns', handlers', at') /\ QueuesOK(conns', queues')
      /\ LiveIn(conns') = LiveIn(conns) \ C
      /\ \A d \in Conns : conns'[d].life = "sent" => conns[d].life = "sent"
  <2>1. PICK E \in SUBSET Conns : E = {}
    OBVIOUS
  <2>2. at' = IF at \in C \cup E THEN NoConn ELSE at
    BY <1>2, <1>3
  <2>3. \A d \in Conns : IF d \in E THEN conns[d].life = "error" /\ conns[d].wait = 0 ELSE conns[d] = conns[d]
    BY <2>1
  <2>4. \A i \in Ids : handlers[i] = IF handlers[i] \in E THEN NoConn ELSE handlers[i]
    BY <2>1
  <2>5. /\ WaitsOK(conns', handlers', at') /\ QueuesOK(conns', queues')
        /\ LiveIn(conns') = LiveIn(conns) \ (C \cup E)
        /\ \A d \in Conns : conns'[d].life = "sent" => conns[d].life = "sent"
    BY <1>2, <1>5, <1>6, <2>1, <2>2, <2>3, <2>4, Released
  <2> QED
    BY <2>1, <2>5
<1>8. TellsFirst'
  BY <1>2, <1>7, TellsFirstStays
<1>9. BindingsByKind'
  <2>1. Services \cap LiveIn(conns') = {s \in Services \cap LiveIn(conns) : Kind[s] = "strong"}
    <3>1. Live = LiveIn(conns)
      BY DEF Live, LiveIn
    <3>2. Services \cap C = SetMembers
      BY <1>1, <1>4, RequestNames
    <3> QED
      BY <1>4, <1>7, <3>1, <3>2
  <2>2. impls' = {s \in Services \cap LiveIn(conns) : Kind[s] = "strong"}
    BY <1>2, <1>4 DEF BindingsByKind, LiveIn, Live
  <2>3. \A s \in Services \cap LiveIn(conns') : Kind'[s] = "strong"
    BY <2>1
  <2>4. \A k \in SetKinds : k # "strong" /\ bindings'[k] = {}
    BY <1>2 DEF SetKinds
  <2>5. Live' = LiveIn(conns')
    BY DEF Live, LiveIn
  <2> QED
    BY <2>1, <2>2, <2>3, <2>4, <2>5 DEF BindingsByKind
<1> QED
  BY <1>2, <1>7, <1>8, <1>9, InvPartsPrime

--------------------------------------------------------------------------------
LEMMA InvNext == Inv /\ [Next]_vars => Inv'
<1> SUFFICES ASSUME Inv, [Next]_vars PROVE Inv'
  OBVIOUS
<1>1. CASE UNCHANGED vars
  BY <1>1 DEF vars, Inv, TypeOK, WaitsMatchHandlers, Live, ReadsWithoutWait, RequestsSent, TellsFirst, BindingsByKind
<1>2. CASE Environment /\ UNCHANGED Kind
  <2>1. ASSUME NEW m \in Providers \cup {Shell, "RequestQuit"}, ShellSends(m) PROVE Inv'
    BY <1>2, <2>1, ShellSendsInv
  <2>2. ASSUME NEW p \in Providers, NEW s \in Services, ClientConnects(p, s) PROVE Inv'
    BY <1>2, <2>2, ClientConnectsInv
  <2>3. ASSUME NEW s \in Services, ClientCalls(s) PROVE Inv'
    BY <1>2, <2>3, ClientCallsInv
  <2>4. ASSUME NEW c \in Conns, PeerCloses(c) PROVE Inv'
    BY <1>2, <2>4 DEF PeerCloses, Inv, TypeOK, WaitsMatchHandlers, Live, ReadsWithoutWait, RequestsSent, TellsFirst, BindingsByKind
  <2> QED
    BY <1>2, <2>1, <2>2, <2>3, <2>4 DEF Environment
<1>3. CASE Dispatch /\ UNCHANGED Kind
  <2>1. CASE Initialize
    BY <1>3, <2>1, InitializeInv
  <2>2. CASE RequestQuit
    <3>1. /\ at = App /\ queues[at] # <<>> /\ Head(queues[at]) = "RequestQuit" /\ queues' = Consumed
          /\ loop' = Quit /\ UNCHANGED <<conns, handlers, at, providers, bindings, impls, told>>
      BY <2>2 DEF RequestQuit, Reads, TerminateApplication
    <3>2. at \in Conns /\ Head(queues[at]) \notin Requests
      BY <3>1, RequestNames
    <3> QED
      BY <1>3, <3>1, <3>2, CallInv
  <2>3. CASE Called
    <3>1. /\ at \in Services /\ queues[at] # <<>> /\ Head(queues[at]) = "call" /\ queues' = Consumed
          /\ UNCHANGED <<conns, handlers, loop, at, providers, bindings, impls, told>>
      BY <2>3 DEF Called, Reads
    <3>2. at \in Conns /\ Head(queues[at]) \notin Requests
      BY <3>1, RequestNames
    <3> QED
      BY <1>3, <3>1, <3>2, CallInv
  <2>4. CASE DeletesItself
    BY <1>3, <2>4, DeletesItselfInv
  <2>5. ASSUME NEW p \in Providers, AcceptConnection(p) PROVE Inv'
    BY <1>3, <2>5, AcceptConnectionInv
  <2>6. ASSUME NEW s \in Services, ConnectToService(s) PROVE Inv'
    BY <1>3, <2>6, ConnectToServiceInv
  <2>7. ASSUME NEW p \in providers, NEW k \in AllKinds, RemoveServiceForName(p, k) PROVE Inv'
    <3>1. /\ at \in Services /\ queues[at] # <<>> /\ Head(queues[at]) = "call" /\ queues' = Consumed
          /\ UNCHANGED <<conns, handlers, loop, at, providers, bindings, impls, told>>
      BY <2>7 DEF RemoveServiceForName, Reads
    <3>2. at \in Conns /\ Head(queues[at]) \notin Requests
      BY <3>1, RequestNames
    <3> QED
      BY <1>3, <3>1, <3>2, CallInv
  <2> QED
    BY <1>3, <2>1, <2>2, <2>3, <2>4, <2>5, <2>6, <2>7 DEF Dispatch
<1>4. CASE WaitToReadMore /\ UNCHANGED Kind
  BY <1>4, WaitToReadMoreInv
<1>5. CASE ReadFails /\ UNCHANGED Kind
  BY <1>5, ReadFailsInv
<1>6. CASE (LoopEnds \/ LoopDestroyed) /\ UNCHANGED Kind
  <2>1. UNCHANGED <<conns, queues, handlers, at, providers, bindings, impls, told, Kind>> /\ at = NoConn
    BY <1>6 DEF LoopEnds, LoopDestroyed, Inv, ReadsWithoutWait
  <2> QED
    BY <2>1 DEF Inv, TypeOK, WaitsMatchHandlers, Live, ReadsWithoutWait, RequestsSent, TellsFirst, BindingsByKind
<1>7. CASE ApplicationDestroyed /\ UNCHANGED Kind
  BY <1>7, ApplicationDestroyedInv
<1>8. ASSUME NEW id \in Ids, HandleReady(id) \/ HandleError(id), UNCHANGED Kind PROVE Inv'
  BY <1>8, HandleReadyInv, HandleErrorInv
<1> QED
  BY <1>1, <1>2, <1>3, <1>4, <1>5, <1>6, <1>7, <1>8 DEF Next, Program

\* The connectors' waits, the requests in their pipes and the services' bindings are at all
\* times as Inv says, for any number of connections and services of any kinds.
THEOREM InvHolds == Spec => []Inv
<1>1. Init => Inv
  BY InvInit
<1>2. Inv /\ [Next]_vars => Inv'
  BY InvNext
<1> QED
  BY <1>1, <1>2, PTL DEF Spec

\* A connector's async_wait_id_ is the address of a handler of its own, no handler outlives the
\* connector its callback is for, and a connection that is not being read is waited for.
THEOREM WaitsAreTheirOwn == Spec => []WaitsMatchHandlers
<1>1. Inv => WaitsMatchHandlers
  BY DEF Inv
<1> QED
  BY <1>1, InvHolds, PTL

\* The binding sets hold exactly the bindings that are alive, so ~BindingSet and the sets' error
\* handlers find what they look for, and a self-owned implementation is deleted with its binding.
THEOREM ImplsDieWithBindings == Spec => []ImplsLiveWithBindings
<1>1. Inv => ImplsLiveWithBindings
  BY DEF Inv, TypeOK, ImplsLiveWithBindings, BindingsByKind, SetMembers, SetKinds, AllKinds
<1> QED
  BY <1>1, InvHolds, PTL
================================================================================
