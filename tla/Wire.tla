-------------------------------- MODULE Wire --------------------------------
(***************************************************************************)
(* One message on its way from a writer to a reader, each of them the C or *)
(* the C++ bindings, in the stages a message goes through: built, encoded, *)
(* sent, validated, decoded.  The two may be generated from different      *)
(* versions of the interface.  A message may also reach the reader with    *)
(* one word that is not what these bindings write.                         *)
(***************************************************************************)
EXTENDS WireFormat, TLC

CONSTANTS
  Cases,     \* a sequence: the method or control message, the writer's and the
             \* reader's type of its parameters, a value, who writes and who reads
  Damage,    \* the values a word may be changed to
  Kinds      \* the kinds of message that are sent

C == INSTANCE CBindings
Cpp == INSTANCE CppBindings

VARIABLES
  case,      \* the position in Cases of what is sent
  kind,      \* "oneway", "request" or "response"
  writer,    \* "C" or "Cpp"
  reader,    \* "C" or "Cpp"
  stage,     \* how far the message is
  buf,       \* its memory and handle vector, with the state of the code at work
  changed,   \* whether a word was changed on the way
  unchecked, \* history: the C++ validator accepted without a look at all of it
  result     \* what the reader gets

vars == <<case, kind, writer, reader, stage, buf, changed, unchecked, result>>

Case == Cases[case]

HeaderSize == IF kind = "oneway" THEN 16 ELSE 24

Flags == CASE kind = "oneway" -> 0 [] kind = "request" -> 1 [] kind = "response" -> 2

\* The handles of the receiving process are other numbers.
Received(h) == h + 100

Init ==
  /\ case \in DOMAIN Cases
  /\ kind \in Kinds \cap Case.kinds
  /\ writer \in Case.writers
  /\ reader \in Case.readers
  /\ stage = "new"
  /\ buf = [mem |-> <<>>, ok |-> TRUE]
  /\ changed = FALSE
  /\ unchecked = FALSE
  /\ result = Null

-----------------------------------------------------------------------------
(* Writing *)

\* The C bindings leave the header and the allocation to their user.
CMessage(payload_size) ==
  LET size == HeaderSize + payload_size IN
  [mem |-> SetWord(SetWord(SetWord(SetWord(Blank(size), 0, HeaderSize),
                                   4, IF kind = "oneway" THEN 0 ELSE 1), 8, Case.name), 12, Flags),
   size |-> size, used |-> HeaderSize, handles |-> <<>>, ok |-> TRUE, cap |-> Len(HandlesOf(Case.v))]

\* The proxy of a C++ interface; the stub's responder for a response.  Control
\* messages are built in the same way.
CppMessage(payload_size) ==
  IF kind = "oneway" THEN Cpp!MessageBuilder(Case.name, payload_size)
  ELSE Cpp!MessageWithRequestIDBuilder(Case.name, payload_size, Flags)

\* The message with the value in it; no message if there is no size for it.
Built ==
  LET size == Cpp!GetSerializedSize_(Case.wt, Case.v) IN
  IF writer = "C"
  THEN C!MojomStruct_DeepCopy(CMessage(C!MojomStruct_ComputeSerializedSize(Case.wt, Case.v)),
                              Case.wt, Case.v, HeaderSize)
  ELSE IF size < 0 THEN [buf EXCEPT !.ok = FALSE]
  ELSE Cpp!SerializeParams(CppMessage(size), Case.wt, Case.v)

\* A writer fails on an assertion, on a null pointer, on a copy without room.
Build ==
  /\ stage = "new"
  /\ buf' = Built
  /\ stage' = IF buf'.ok THEN "built" ELSE "failed"
  /\ UNCHANGED <<case, kind, writer, reader, changed, unchecked, result>>

Encode ==
  /\ stage = "built"
  /\ buf' = IF writer = "C"
            THEN C!MojomStruct_EncodePointersAndHandles(buf, Case.wt, HeaderSize,
                   buf.size - HeaderSize)
            ELSE Cpp!EncodePointersAndHandles(buf, Case.wt, HeaderSize)
  /\ stage' = IF buf'.ok THEN "encoded" ELSE "failed"
  /\ UNCHANGED <<case, kind, writer, reader, changed, unchecked, result>>

\* WriteMessage, ReadMessage: the bytes arrive as they are.
Send ==
  /\ stage = "encoded"
  /\ buf' = [buf EXCEPT !.handles = [i \in DOMAIN @ |-> Received(@[i])]]
  /\ stage' = "received"
  /\ UNCHANGED <<case, kind, writer, reader, changed, unchecked, result>>

\* A word that is not what these bindings write.
Change ==
  /\ stage = "received"
  /\ ~changed
  /\ \E i \in DOMAIN buf.mem : \E w \in Damage :
       /\ w # buf.mem[i]
       /\ buf' = [buf EXCEPT !.mem[i] = w]
  /\ changed' = TRUE
  /\ UNCHANGED <<case, kind, writer, reader, stage, unchecked, result>>

-----------------------------------------------------------------------------
(* Reading *)

CHeaderOk == C!MojomMessage_ValidateHeader(buf.mem, buf.size)
CppHeaderOk == Cpp!ValidateHeader(buf.mem, buf.size)

CKindOk ==
  CASE kind = "oneway" -> C!MojomMessage_ValidateRequestWithoutResponse(buf.mem)
    [] kind = "request" -> C!MojomMessage_ValidateRequestExpectingResponse(buf.mem)
    [] kind = "response" -> C!MojomMessage_ValidateResponse(buf.mem)

CppKindOk ==
  CASE kind = "oneway" -> Cpp!ValidateMessageIsRequestWithoutResponse(buf.mem)
    [] kind = "request" -> Cpp!ValidateMessageIsRequestExpectingResponse(buf.mem)
    [] kind = "response" -> Cpp!ValidateMessageIsResponse(buf.mem)

\* The payload starts where the header ends.
Root == Word(buf.mem, 0)

CPayloadOk ==
  C!MojomStruct_Validate(buf.mem, Case.rt, Root, buf.size - Root, Len(buf.handles),
    [next_pointer |-> 0, next_handle_index |-> 0, ok |-> TRUE]).ok

CppPayloadOk == Cpp!ValidateMessagePayload(buf.mem, buf.size, Len(buf.handles), Case.rt)

CppAccepts ==
  IF kind = "response"
  THEN Cpp!ResponseValidator(buf.mem, buf.size, Len(buf.handles), Case.method)
  ELSE Cpp!RequestValidator(buf.mem, buf.size, Len(buf.handles), Case.method, kind = "request")

Accepts(r) ==
  IF r = "C" THEN CHeaderOk /\ CKindOk /\ CPayloadOk ELSE CppHeaderOk /\ CppAccepts

\* The type a message is read as: a C++ stub goes by its name, the receiver of
\* a response by the request.
ReadType ==
  IF reader = "C" \/ kind = "response" THEN Case.rt
  ELSE IF ~Cpp!IsControlMessage(buf.mem) THEN Case.method
  ELSE IF kind = "request" THEN Cpp!RunMessageParams
  ELSE Cpp!RunOrClosePipeMessageParams

\* Whether the union or array o of the message is one of which the C++ decoder
\* or the wrapper follows what the C++ validator does not look at: a null union
\* with an old tag and data, the struct, map or interface of a union, and the
\* handles of an array of interfaces.
PassedOver(o) ==
  LET tag == Word(buf.mem, o.at + 4)
      e == o.type.entries[tag + 1]
      slot == o.at + 8
  IN  \/ /\ o.type.kind = "array"
         /\ o.type.elem = Interface
         /\ Word(buf.mem, o.at + 4) > 0
      \/ /\ o.type.kind = "union"
         /\ tag < Len(o.type.entries)
         /\ IF Word(buf.mem, o.at) # 0 THEN IsStruct(e.type) \/ e.type = Interface
            ELSE \/ IsPointer(e.type) /\ Offset(buf.mem, slot) # 0
                 \/ IsHandle(e.type) /\ Word(buf.mem, slot) # EncodedHandleInvalid

Validate ==
  /\ stage = "received"
  /\ stage' = IF Accepts(reader) THEN "accepted" ELSE "rejected"
  /\ unchecked' = /\ reader = "Cpp"
                  /\ Accepts(reader)
                  /\ \E o \in Reached(buf.mem, ReadType, FALSE, Root) : PassedOver(o)
  /\ UNCHANGED <<case, kind, writer, reader, buf, changed, result>>

\* A C program reads the decoded memory itself; a C++ program gets wrappers.
Decode ==
  /\ stage = "accepted"
  /\ LET b == [mem |-> buf.mem, size |-> buf.size, handles |-> buf.handles,
               ok |-> TRUE, seen |-> {}]
         d == IF reader = "C"
              THEN C!MojomStruct_DecodePointersAndHandles(b, ReadType, Root, buf.size - Root)
              ELSE Cpp!DecodePointersAndHandles(b, ReadType, Root)
     IN  /\ buf' = d
         /\ result' = IF ~d.ok THEN Null
                      ELSE IF reader = "C" THEN ValueAt(ReadType, d.mem, Root)
                      ELSE Cpp!Deserialize_(ReadType, d.mem, Root)
  /\ stage' = "done"
  /\ UNCHANGED <<case, kind, writer, reader, changed, unchecked>>

Next == Build \/ Encode \/ Send \/ Change \/ Validate \/ Decode

Spec == Init /\ [][Next]_vars

-----------------------------------------------------------------------------
(* Properties *)

Legal == WellTyped(Case.wt, FALSE, Case.v)

\* The value as the receiving process numbers its handles.
RECURSIVE Renamed(_)
Renamed(v) ==
  LET dom == DOMAIN v IN
  IF "h" \in dom THEN [v EXCEPT !.h = Received(@)]
  ELSE IF "fields" \in dom THEN [v EXCEPT !.fields = [i \in DOMAIN @ |-> Renamed(@[i])]]
  ELSE IF "elems" \in dom THEN [v EXCEPT !.elems = [i \in DOMAIN @ |-> Renamed(@[i])]]
  ELSE IF "data" \in dom THEN [v EXCEPT !.data = Renamed(@)]
  ELSE v

\* Values that the C++ bindings cannot write: a union of the unknown tag, and
\* one of a null struct, unless nothing is read of the struct for its size.
Unwritable ==
  \E p \in Parts(Case.wt, Case.v) :
    /\ p.type.kind = "union"
    /\ ~IsNull(p.v)
    /\ \/ p.v.tag = UnknownTag
       \/ /\ p.type.entries[p.v.tag + 1].type.kind = "struct"
          /\ IsNull(p.v.data)
          /\ \E i \in DOMAIN p.type.entries[p.v.tag + 1].type.entries :
               ~IsHandle(p.type.entries[p.v.tag + 1].type.entries[i].type)

\* The size computed before a value is written (ComputeSerializedSize,
\* GetSerializedSize_) is enough for what is then written, and no assertion
\* fails on the way, for every value but the unwritable ones of the C++
\* bindings; the C bindings' size is exact.
SizeSuffices ==
  /\ stage = "failed" => writer = "Cpp" /\ Unwritable
  /\ stage = "built" /\ writer = "C" => buf.used = buf.size

\* What the C++ bindings at one of the ends make another value of: the handles
\* of an array of interfaces, which both write and read as plain data; a null
\* union of a C program, of which the reader decodes what its old tag, or the
\* tag 0 it was cleared to, says is in its data; a union of a null struct, of
\* which the reader makes one of an empty struct.
Altered(p) ==
  \/ /\ "Cpp" \in {writer, reader}
     /\ p.type.kind = "array"
     /\ p.type.elem = Interface
     /\ ~IsNull(p.v)
     /\ p.v.elems # <<>>
  \/ /\ writer = "C" /\ reader = "Cpp"
     /\ p.type.kind = "union"
     /\ IsNull(p.v)
     /\ LET tag == IF IsLeftover(p.v) THEN p.v.old_tag ELSE 0
            data == IF IsLeftover(p.v) THEN p.v.old_data ELSE 0
        IN  /\ tag < Len(p.type.entries)
            /\ \/ IsHandle(p.type.entries[tag + 1].type) /\ data # EncodedHandleInvalid
               \/ IsPointer(p.type.entries[tag + 1].type) /\ data # 0
  \/ /\ reader = "Cpp"
     /\ p.type.kind = "union"
     /\ ~IsNull(p.v)
     /\ p.v.tag < Len(p.type.entries)
     /\ p.type.entries[p.v.tag + 1].type.kind = "struct"
     /\ IsNull(p.v.data)

\* What one of the bindings writes the other one accepts and reads back as the
\* same value, up to the fields only one of the two versions of the interface
\* has, with the handles in their places, unless the C++ bindings alter it.
RoundTrip ==
  Legal /\ ~changed /\ (\A p \in Parts(Case.wt, Case.v) : ~Altered(p)) =>
    /\ stage # "rejected"
    /\ stage = "done" => result = SeenAs(Case.rt, Renamed(Case.v))

\* A message that validation accepts is decoded without a failed assertion or
\* an access outside of the message, no two of its objects share memory, and
\* the value read has its type: what may not be null is not, arrays of fixed
\* size have that size, and a map has as many keys as values.  It does not hold
\* of what the C++ validator passes over.
AcceptedDecodes ==
  stage = "done" /\ ~unchecked => buf.ok /\ WellTyped(ReadType, FALSE, result)

\* Every handle of an accepted message is delivered exactly once or stays in
\* the message, which closes it, unless the C++ validator passed it over.
HandlesOnce ==
  stage = "done" /\ ~unchecked =>
    LET got == HandlesOf(result)
        left == SelectSeq(buf.handles, LAMBDA h : h # 0)
    IN  /\ IsInjective(got \o left)
        /\ Len(got \o left) = Len(buf.handles)

\* Where the two differ.  Of a struct newer than both know, C wants the size to
\* be a multiple of 8; of one between two versions it takes a larger size; it
\* takes maps of versions to come; it wants a union that may not be null to have
\* the size of one; and it looks at what the C++ validator passes over.
Disputed(o) ==
  LET num_bytes == Word(buf.mem, o.at)
      version == Word(buf.mem, o.at + 4)
      known == SizeEntry(o.type, version)
  IN  CASE o.type.kind = "struct" ->
             \/ version > LatestVersion(o.type) /\ num_bytes % 8 # 0
             \/ /\ version < LatestVersion(o.type)
                /\ version # known.version
                /\ num_bytes > known.num_bytes
        [] o.type.kind = "map" -> version # 0
        [] o.type.kind = "union" -> PassedOver(o) \/ (~o.nullable /\ num_bytes \notin {0, UnionBytes})
        [] o.type.kind = "array" -> PassedOver(o)
        [] OTHER -> FALSE

\* The two bindings accept the same message headers, agree on what is a request
\* and what a response, and accept the same payloads unless the message holds
\* something they differ on by their own rules.
ValidatorsAgree ==
  stage = "received" =>
    /\ CHeaderOk = CppHeaderOk
    /\ CHeaderOk => CKindOk = CppKindOk
    /\ CHeaderOk /\ CKindOk /\ CPayloadOk # CppPayloadOk =>
         \E o \in Reached(buf.mem, Case.rt, FALSE, Root) : Disputed(o)
=============================================================================
