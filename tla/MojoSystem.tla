------------------------------ MODULE MojoSystem ------------------------------
(***************************************************************************)
(* The Mojo system calls as far as the Dart natives and the C++ system     *)
(* wrappers rely on them.  The system is not part of the repository: what  *)
(* is here comes from the calls and their declarations.                    *)
(*                                                                         *)
(* A state s of the system is a record: the handle table of the process    *)
(* (an end, or 0), the next handle value (values are not reused) and the   *)
(* ends themselves.  A call is an operator on states that yields its       *)
(* result code, the new state and what it writes to its out parameters.    *)
(***************************************************************************)
EXTENDS Integers, Sequences, FiniteSets

CONSTANTS
  MaxHandles,   \* bound on the handle values given out
  MaxEnds,      \* bound on the ends created
  Capacity      \* bytes a data pipe holds

ASSUME BoundsAssumption == {MaxHandles, MaxEnds, Capacity} \subseteq Nat \ {0}

Handles == 1 .. MaxHandles
Ends == 1 .. MaxEnds
MOJO_HANDLE_INVALID == 0

\* An end: its kind, the other end of its pipe, the messages or the number of bytes it
\* can be read for, and the size of the buffer of a two-phase operation (0: none).
NoEnd == [kind |-> "none", peer |-> 0, inbox |-> <<>>, level |-> 0, phase |-> 0]

\* The states: handles and messages lead to ends, and the ends of pipes to each other.
PipeKinds == {"message", "producer", "consumer"}
Messages == [bytes : Int, ends : Seq(Ends)]
EndRecords ==
  [kind : PipeKinds \cup {"none", "closed", "buffer"}, peer : Ends \cup {0},
   inbox : Seq(Messages), level : Int, phase : Int]
EndStates == {x \in EndRecords : x.kind \in PipeKinds => x.peer \in Ends}
System ==
  [table : [Handles -> Ends \cup {0}], next : Int, ends : [Ends -> EndStates], made : Nat]

EmptySystem ==
  [table |-> [h \in Handles |-> 0], next |-> 1, ends |-> [e \in Ends |-> NoEnd], made |-> 0]

IsA(s, h, kinds) == h \in Handles /\ s.table[h] # 0 /\ s.ends[s.table[h]].kind \in kinds
Valid(s, h) == h \in Handles /\ s.table[h] # 0
EndOf(s, h) == s.ends[s.table[h]]
PeerOf(s, h) == EndOf(s, h).peer
PeerOpen(s, h) == s.ends[PeerOf(s, h)].kind # "closed"

\* Bounds: n more ends with handles, n more handles.
RoomForEnds(s, n) == s.made + n <= MaxEnds /\ s.next + n <= MaxHandles + 1
RoomForHandles(s, n) == s.next + n <= MaxHandles + 1

Result(res, s) == [res |-> res, s |-> s]

\* Handles for a sequence of ends, in order.
Enter(s, es) ==
  [s EXCEPT !.table = [h \in Handles |-> IF h - s.next + 1 \in DOMAIN es
                                           THEN es[h - s.next + 1] ELSE @[h]],
            !.next = @ + Len(es)]
NewHandles(s, n) == [k \in 1 .. n |-> s.next + k - 1]

\* A pipe: ends of the two kinds, and their handles.
CreatePipe(s, kind0, kind1) ==
  LET e == s.made + 1
      t == [s EXCEPT !.made = @ + 2,
                     !.ends[e] = [NoEnd EXCEPT !.kind = kind0, !.peer = e + 1],
                     !.ends[e + 1] = [NoEnd EXCEPT !.kind = kind1, !.peer = e]]
  IN [res |-> "OK", s |-> Enter(t, <<e, e + 1>>), handles |-> NewHandles(s, 2)]

\* One end without a peer: a shared buffer.
CreateBuffer(s) ==
  LET e == s.made + 1
      t == [s EXCEPT !.made = @ + 1, !.ends[e] = [NoEnd EXCEPT !.kind = "buffer"]]
  IN [res |-> "OK", s |-> Enter(t, <<e>>), handles |-> NewHandles(s, 1)]

\* The ends that are in messages queued at the ends es, or at ends in such messages.
Carried(s, es) ==
  LET Inside(fs) == fs \cup {e \in Ends : \E f \in fs : \E k \in DOMAIN s.ends[f].inbox :
                               \E j \in DOMAIN s.ends[f].inbox[k].ends :
                                  s.ends[f].inbox[k].ends[j] = e}
      reach[n \in 0 .. MaxEnds] == IF n = 0 THEN es ELSE Inside(reach[n - 1])
  IN reach[MaxEnds]

CloseEnds(s, es) ==
  [s EXCEPT !.ends = [e \in Ends |-> IF e \in Carried(s, es)
                                       THEN [NoEnd EXCEPT !.kind = "closed"] ELSE @[e]]]

MojoClose(s, h) ==
  IF ~Valid(s, h) THEN Result("INVALID_ARGUMENT", s)
  ELSE Result("OK", [CloseEnds(s, {s.table[h]}) EXCEPT !.table[h] = 0])

\* A handle of the same buffer.
MojoDuplicateBufferHandle(s, h) ==
  IF ~IsA(s, h, {"buffer"})
    THEN [res |-> "INVALID_ARGUMENT", s |-> s, handles |-> <<MOJO_HANDLE_INVALID>>]
    ELSE CreateBuffer(s)

--------------------------------------------------------------------------------
(* Message pipes.                                                          *)

Distinct(hs) == \A j, k \in DOMAIN hs : j # k => hs[j] # hs[k]

MojoWriteMessage(s, h, bytes, hs) ==
  CASE ~IsA(s, h, {"message"}) \/ \E k \in DOMAIN hs : ~Valid(s, hs[k]) ->
         Result("INVALID_ARGUMENT", s)
    [] \/ ~Distinct(hs)
       \/ \E k \in DOMAIN hs : hs[k] = h \/ EndOf(s, hs[k]).phase # 0 -> Result("BUSY", s)
    [] ~PeerOpen(s, h) -> Result("FAILED_PRECONDITION", s)
    [] OTHER ->
         LET msg == [bytes |-> bytes, ends |-> [k \in DOMAIN hs |-> s.table[hs[k]]]]
         IN Result("OK",
              [s EXCEPT !.ends[PeerOf(s, h)].inbox = Append(@, msg),
                        !.table = [x \in Handles |-> IF \E k \in DOMAIN hs : hs[k] = x
                                                       THEN 0 ELSE @[x]]])

Queued(s, h) == IF IsA(s, h, {"message"}) THEN EndOf(s, h).inbox ELSE <<>>

\* bytes and handles: the sizes passed in; the result has the sizes written back.
MojoReadMessage(s, h, bytes, handles, discard) ==
  LET Unread(res) == [res |-> res, s |-> s, bytes |-> bytes, handles |-> handles, got |-> <<>>]
      e == s.table[h]
      msg == Head(s.ends[e].inbox)
      popped == [s EXCEPT !.ends[e].inbox = Tail(@)]
      Sized(res, t, got) == [res |-> res, s |-> t, bytes |-> msg.bytes,
                             handles |-> Len(msg.ends), got |-> got]
  IN CASE ~IsA(s, h, {"message"}) -> Unread("INVALID_ARGUMENT")
       [] IsA(s, h, {"message"}) /\ Queued(s, h) = <<>> ->
            Unread(IF PeerOpen(s, h) THEN "SHOULD_WAIT" ELSE "FAILED_PRECONDITION")
       [] OTHER ->
            IF msg.bytes <= bytes /\ Len(msg.ends) <= handles
              THEN Sized("OK", Enter(popped, msg.ends), NewHandles(s, Len(msg.ends)))
              ELSE Sized("RESOURCE_EXHAUSTED",
                         IF discard THEN CloseEnds(popped, {msg.ends[k] : k \in DOMAIN msg.ends})
                                    ELSE s, <<>>)

--------------------------------------------------------------------------------
(* Data pipes: the bytes in the pipe are counted at the consumer's end.    *)

Least(m, n) == IF m <= n THEN m ELSE n

\* What n bytes can be written or read, or why not.
Transfer(s, h, kind, n, limit) ==
  CASE ~IsA(s, h, {kind}) -> [res |-> "INVALID_ARGUMENT", n |-> n]
    [] IsA(s, h, {kind}) /\ EndOf(s, h).phase # 0 -> [res |-> "BUSY", n |-> n]
    [] OTHER -> CASE kind = "producer" /\ ~PeerOpen(s, h) -> [res |-> "FAILED_PRECONDITION", n |-> n]
                  [] limit = 0 -> [res |-> IF PeerOpen(s, h) THEN "SHOULD_WAIT"
                                           ELSE "FAILED_PRECONDITION", n |-> n]
                  [] OTHER -> [res |-> "OK", n |-> Least(n, limit)]

Space(s, h) == IF IsA(s, h, {"producer"}) /\ PeerOpen(s, h)
                 THEN Capacity - s.ends[PeerOf(s, h)].level ELSE 0
Available(s, h) == IF IsA(s, h, {"consumer"}) THEN EndOf(s, h).level ELSE 0

MojoWriteData(s, h, n) ==
  LET t == Transfer(s, h, "producer", n, Space(s, h))
  IN [res |-> t.res, n |-> t.n,
      s |-> IF t.res # "OK" THEN s ELSE [s EXCEPT !.ends[PeerOf(s, h)].level = @ + t.n]]

MojoReadData(s, h, n) ==
  LET t == Transfer(s, h, "consumer", n, Available(s, h))
  IN [res |-> t.res, n |-> t.n,
      s |-> IF t.res # "OK" THEN s ELSE [s EXCEPT !.ends[s.table[h]].level = @ - t.n]]

\* A query: the number of bytes there are.
MojoQueryData(s, h) ==
  [res |-> IF IsA(s, h, {"consumer"}) THEN "OK" ELSE "INVALID_ARGUMENT",
   n |-> Available(s, h), s |-> s]

MojoBegin(s, h, kind, limit) ==
  LET t == Transfer(s, h, kind, limit, limit)
  IN [res |-> t.res, n |-> t.n,
      s |-> IF t.res # "OK" THEN s ELSE [s EXCEPT !.ends[s.table[h]].phase = t.n]]
MojoBeginWriteData(s, h) == MojoBegin(s, h, "producer", Space(s, h))
MojoBeginReadData(s, h) == MojoBegin(s, h, "consumer", Available(s, h))

\* Ends a two-phase operation, also when the number of bytes is refused.
MojoEnd(s, h, kind, n, Moved(_, _)) ==
  CASE ~IsA(s, h, {kind}) -> Result("INVALID_ARGUMENT", s)
    [] IsA(s, h, {kind}) /\ EndOf(s, h).phase = 0 -> Result("FAILED_PRECONDITION", s)
    [] OTHER -> LET t == [s EXCEPT !.ends[s.table[h]].phase = 0]
                IN IF n > EndOf(s, h).phase THEN Result("INVALID_ARGUMENT", t)
                   ELSE Result("OK", Moved(t, n))
MojoEndWriteData(s, h, n) ==
  MojoEnd(s, h, "producer", n,
          LAMBDA t, k : IF PeerOpen(t, h) THEN [t EXCEPT !.ends[PeerOf(t, h)].level = @ + k] ELSE t)
MojoEndReadData(s, h, n) ==
  MojoEnd(s, h, "consumer", n, LAMBDA t, k : [t EXCEPT !.ends[t.table[h]].level = @ - k])

--------------------------------------------------------------------------------
(* Waits.                                                                  *)

Satisfied(s, h) ==
  {x \in {"READABLE"} : Queued(s, h) # <<>> \/ Available(s, h) > 0}
    \cup {x \in {"WRITABLE"} : (IsA(s, h, {"message"}) /\ PeerOpen(s, h))
                                \/ (Space(s, h) > 0 /\ EndOf(s, h).phase = 0)}
    \cup {x \in {"PEER_CLOSED"} : IsA(s, h, {"message", "producer", "consumer"}) /\ ~PeerOpen(s, h)}
Satisfiable(s, h) ==
  Satisfied(s, h) \cup
    (IF IsA(s, h, {"message", "producer", "consumer"}) /\ PeerOpen(s, h)
       THEN CASE IsA(s, h, {"message"})  -> {"READABLE", "WRITABLE", "PEER_CLOSED"}
              [] IsA(s, h, {"producer"}) -> {"WRITABLE", "PEER_CLOSED"}
              [] IsA(s, h, {"consumer"}) -> {"READABLE", "PEER_CLOSED"}
       ELSE {})

\* What a wait can return with in state s; a handle that is gone may have been closed
\* before the wait or during it.
WaitResults(s, h, signals) ==
  CASE ~Valid(s, h) -> {"INVALID_ARGUMENT", "CANCELLED"}
    [] Valid(s, h) /\ signals \cap Satisfied(s, h) # {} -> {"OK"}
    [] Valid(s, h) /\ signals \cap Satisfiable(s, h) = {} -> {"FAILED_PRECONDITION"}
    [] OTHER -> {"DEADLINE_EXCEEDED"}
================================================================================
