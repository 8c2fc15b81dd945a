----------------------------- MODULE CBindings ------------------------------
(***************************************************************************)
(* The C bindings library: the functions that size, copy, encode, validate *)
(* and decode a mojom value, each a recursion over the type descriptor.    *)
(* The functions that only differ in the dispatch on the type are one      *)
(* recursive operator each, MojomType_Dispatch*, with one operator for     *)
(* structs, arrays and unions.  An assertion of the code that fails makes  *)
(* the ok field of the result FALSE.                                       *)
(*                                                                         *)
(* Unions inside unions (MOJOM_TYPE_DESCRIPTOR_TYPE_UNION_PTR) are left    *)
(* out.                                                                    *)
(***************************************************************************)
EXTENDS WireFormat

\* MOJOM_INTERNAL_ROUND_TO_8.
RoundTo8(n) == ((n + 7) \div 8) * 8

bits_to_bytes(bits) == (bits + 7) \div 8

\* Mutant: the size of an array is not rounded up.
MojomArray_New_unrounded(t, v) == HeaderBytes + bits_to_bytes(t.elem_num_bits * Len(v.elems))

\* The num_bytes MojomArray_New gives an array: rounded up to 8.
MojomArray_New(t, v) ==
  RoundTo8(HeaderBytes + bits_to_bytes(t.elem_num_bits * Len(v.elems)))

-----------------------------------------------------------------------------
(* Size of the copy of a value, and the copy. *)

RECURSIVE MojomType_DispatchComputeSerializedSize(_, _)

MojomStruct_ComputeSerializedSize(t, v) ==
  FoldLeft(LAMBDA size, i :
             LET e == t.entries[i] IN
             IF \/ ~IsPointer(e.type) /\ e.type.kind # "union"
                \/ v.version < e.min_version
             THEN size
             ELSE size + MojomType_DispatchComputeSerializedSize(e.type, v.fields[i]),
           SizeEntry(t, v.version).num_bytes,
           [i \in 1 .. Len(t.entries) |-> i])

MojomArray_ComputeSerializedSize(t, v) ==
  IF ~IsPointer(t.elem) /\ t.elem.kind # "union" THEN MojomArray_New(t, v)
  ELSE FoldLeft(LAMBDA size, e : size + MojomType_DispatchComputeSerializedSize(t.elem, e),
                MojomArray_New(t, v), v.elems)

\* Only what the union points to: the union itself is part of its container.
MojomUnion_ComputeSerializedSize(t, v) ==
  LET e == t.entries[v.tag + 1]
  IN  IF v.tag < Len(t.entries) /\ IsPointer(e.type)
      THEN MojomType_DispatchComputeSerializedSize(e.type, v.data) ELSE 0

MojomType_DispatchComputeSerializedSize(t, v) ==
  CASE IsNull(v) -> 0
    [] IsStruct(t) -> MojomStruct_ComputeSerializedSize(t, v)
    [] t.kind = "array" -> MojomArray_ComputeSerializedSize(t, v)
    [] t.kind = "union" -> MojomUnion_ComputeSerializedSize(t, v)

\* A copy in progress: s.used bytes of the s.size of the buffer are taken; ok
\* is FALSE once an allocation returned NULL, after which nothing is written.
MojomBuffer_Allocate(s, num_bytes) ==
  IF s.used + RoundTo8(num_bytes) > s.size THEN [s EXCEPT !.ok = FALSE]
  ELSE [s EXCEPT !.used = @ + RoundTo8(num_bytes)]

RECURSIVE MojomType_DispatchDeepCopy(_, _, _, _)

\* The object v is copied to fresh memory, its header with it, and out is
\* made to point to it; then come the fields that are not plain data.
MojomStruct_DeepCopy(s, t, v, out) ==
  LET num_bytes == SizeEntry(t, v.version).num_bytes
      a == s.used
      s1 == MojomBuffer_Allocate(s, num_bytes)
      s2 == [s1 EXCEPT !.mem = SetWord(SetWord(SetWord(@, out, a), a, num_bytes), a + 4, v.version)]
  IN  IF ~s1.ok THEN s1
      ELSE FoldLeft(LAMBDA st, i :
             LET e == t.entries[i] IN
             IF ~st.ok \/ v.version < e.min_version THEN st
             ELSE MojomType_DispatchDeepCopy(st, e.type, v.fields[i],
                                             a + HeaderBytes + e.offset),
             s2, [i \in 1 .. Len(t.entries) |-> i])

MojomArray_DeepCopy(s, t, v, out) ==
  LET num_bytes == MojomArray_New(t, v)
      a == s.used
      s1 == MojomBuffer_Allocate(s, num_bytes)
      s2 == [s1 EXCEPT !.mem = SetWord(SetWord(SetWord(@, out, a), a, num_bytes), a + 4, Len(v.elems))]
  IN  IF ~s1.ok THEN s1
      ELSE IF t.elem = Pod THEN s2
      ELSE FoldLeft(LAMBDA st, i :
             IF ~st.ok THEN st
             ELSE MojomType_DispatchDeepCopy(st, t.elem, v.elems[i],
                    a + HeaderBytes + (i - 1) * ElemBytes(t.elem)),
             s2, [i \in 1 .. Len(v.elems) |-> i])

\* Copied in place, with its data.  A null union has size 0 and whatever tag
\* and data it had before; a tag that is not known fails, but for UNKNOWN.
MojomUnion_DeepCopy(s, t, v, out) ==
  LET s1 == [s EXCEPT !.mem = SetWord(SetWord(@, out, UnionBytes), out + 4, v.tag)]
  IN  IF v.tag >= Len(t.entries) THEN [s1 EXCEPT !.ok = @ /\ v.tag = UnknownTag]
      ELSE MojomType_DispatchDeepCopy(s1, t.entries[v.tag + 1].type, v.data, out + 8)

MojomType_DispatchDeepCopy(s, t, v, out) ==
  CASE t = Pod -> s
    [] IsNull(v) ->
         [s EXCEPT !.mem = IF ~IsLeftover(v) THEN SetWord(@, out, 0)
                           ELSE SetWord(SetWord(@, out + 4, v.old_tag), out + 8, v.old_data)]
    [] IsStruct(t) -> MojomStruct_DeepCopy(s, t, v, out)
    [] t.kind = "array" -> MojomArray_DeepCopy(s, t, v, out)
    [] t.kind = "union" -> MojomUnion_DeepCopy(s, t, v, out)
    [] IsHandle(t) -> [s EXCEPT !.mem = SetWord(@, out, v.h)]

-----------------------------------------------------------------------------
(* Encoding.  s.cap is the capacity of the caller's handle buffer. *)

encode_pointer(s, a, max_offset) ==
  LET p == Word(s.mem, a) IN
  IF p = 0 THEN s
  ELSE [s EXCEPT !.mem = SetWord(@, a, p - a), !.ok = @ /\ p > a /\ p - a < max_offset]

encode_handle(s, nullable, a) ==
  LET h == Word(s.mem, a) IN
  IF h = 0
  THEN [s EXCEPT !.mem = SetWord(@, a, EncodedHandleInvalid), !.ok = @ /\ nullable]
  ELSE [s EXCEPT !.mem = SetWord(@, a, Len(s.handles)),
                 !.handles = Append(@, h),
                 !.ok = @ /\ Len(s.handles) < s.cap]

RECURSIVE MojomType_DispatchEncodePointersAndHandles(_, _, _, _, _)

MojomStruct_EncodePointersAndHandles(s, t, a, size) ==
  FoldLeft(LAMBDA st, e :
             IF Word(st.mem, a + 4) < e.min_version THEN st
             ELSE MojomType_DispatchEncodePointersAndHandles(
                    [st EXCEPT !.ok = @ /\ HeaderBytes + e.offset < size],
                    e.type, e.nullable, a + HeaderBytes + e.offset,
                    size - (HeaderBytes + e.offset)),
           [s EXCEPT !.ok = @ /\ size >= HeaderBytes], t.entries)

MojomArray_EncodePointersAndHandles(s, t, a, size) ==
  LET elem(i) == HeaderBytes + (i - 1) * ElemBytes(t.elem)
      s1 == [s EXCEPT !.ok = @ /\ size >= HeaderBytes /\ size >= Word(s.mem, a)]
  IN  IF t.elem = Pod THEN s1
      ELSE FoldLeft(LAMBDA st, i :
             MojomType_DispatchEncodePointersAndHandles(
               [st EXCEPT !.ok = @ /\ elem(i) < size],
               t.elem, t.nullable, a + elem(i), size - elem(i)),
             s1, [i \in 1 .. Word(s.mem, a + 4) |-> i])

MojomUnion_EncodePointersAndHandles(s, t, a, size) ==
  LET tag == Word(s.mem, a + 4)
      s1 == [s EXCEPT !.ok = @ /\ size >= UnionBytes]
  IN  IF tag >= Len(t.entries) \/ t.entries[tag + 1].type = Pod THEN s1
      ELSE MojomType_DispatchEncodePointersAndHandles(s1,
             t.entries[tag + 1].type, t.entries[tag + 1].nullable, a + 8, size - 8)

MojomType_DispatchEncodePointersAndHandles(s, t, nullable, a, size) ==
  LET p == Word(s.mem, a) IN
  CASE IsPointer(t) /\ nullable /\ p = 0 -> encode_pointer(s, a, size)
    [] IsStruct(t) ->
         MojomStruct_EncodePointersAndHandles(encode_pointer(s, a, size), t, p, size - (p - a))
    [] t.kind = "array" ->
         MojomArray_EncodePointersAndHandles(encode_pointer(s, a, size), t, p, size - (p - a))
    [] t.kind = "union" ->
         IF nullable /\ p = 0 THEN s ELSE MojomUnion_EncodePointersAndHandles(s, t, a, size)
    [] IsHandle(t) -> encode_handle(s, nullable, a)

-----------------------------------------------------------------------------
(* Validation of the message m with num_handles handles.  The context c    *)
(* says from where on pointers may point, which handle index is the first  *)
(* that is not used up, and, with ok FALSE, that an error was returned.    *)

Rejected(c) == [c EXCEPT !.ok = FALSE]

\* Passes over the memory between the last object and the one pointed to.
validate_pointer(m, a, max_offset, nullable, c) ==
  LET o == Offset(m, a) IN
  IF \/ o > max_offset
     \/ o # 0 /\ a + o < c.next_pointer
     \/ o % 8 # 0
     \/ ~nullable /\ o = 0
  THEN Rejected(c)
  ELSE IF o = 0 THEN c ELSE [c EXCEPT !.next_pointer = a + o]

validate_handle(h, num_handles, nullable, c) ==
  IF h = EncodedHandleInvalid THEN (IF nullable THEN c ELSE Rejected(c))
  ELSE IF h >= num_handles \/ h < c.next_handle_index THEN Rejected(c)
  ELSE [c EXCEPT !.next_handle_index = h + 1]

\* Exactly the size of a known version; at least that of the newest known
\* version that is older.
is_valid_size_for_version(m, a, t) ==
  LET known == SizeEntry(t, Word(m, a + 4)) IN
  IF Word(m, a + 4) = known.version THEN Word(m, a) = known.num_bytes
  ELSE Word(m, a) >= known.num_bytes

validate_array_header(m, a, t, size) ==
  /\ size >= HeaderBytes
  /\ Word(m, a) \in HeaderBytes .. size
  /\ t.num_elements \in {0, Word(m, a + 4)}
  /\ Word(m, a) >= HeaderBytes + bits_to_bytes(t.elem_num_bits * Word(m, a + 4))

RECURSIVE MojomType_DispatchValidate(_, _, _, _, _, _, _)

MojomStruct_Validate(m, t, a, size, num_handles, c) ==
  IF \/ size < HeaderBytes
     \/ Word(m, a) > size
     \/ ~is_valid_size_for_version(m, a, t)
     \/ Word(m, a) % 8 # 0
  THEN Rejected(c)
  ELSE FoldLeft(LAMBDA st, e :
         IF ~st.ok \/ Word(m, a + 4) < e.min_version THEN st
         ELSE MojomType_DispatchValidate(m, e.type, e.nullable, a + HeaderBytes + e.offset,
                size - (HeaderBytes + e.offset), num_handles, st),
         [c EXCEPT !.next_pointer = a + Word(m, a)], t.entries)

\* Mutant: a map is validated as a struct.
MojomMap_Validate_struct(m, a, c) == c

\* Keys and values are arrays of as many elements.
MojomMap_Validate(m, a, c) ==
  IF Word(m, a + 8 + Offset(m, a + 8) + 4) # Word(m, a + 16 + Offset(m, a + 16) + 4)
  THEN Rejected(c) ELSE c

MojomArray_Validate(m, t, a, size, num_handles, c) ==
  LET elem(i) == HeaderBytes + (i - 1) * ElemBytes(t.elem)
      c1 == [c EXCEPT !.next_pointer = a + Word(m, a)]
  IN  IF ~validate_array_header(m, a, t, size) THEN Rejected(c)
      ELSE IF t.elem = Pod THEN c1
      ELSE FoldLeft(LAMBDA st, i :
             IF ~st.ok THEN st
             ELSE MojomType_DispatchValidate(m, t.elem, t.nullable, a + elem(i),
                    size - elem(i), num_handles, st),
             c1, [i \in 1 .. Word(m, a + 4) |-> i])

\* A tag that is not known is accepted.
MojomUnion_Validate(m, t, nullable, a, size, num_handles, c) ==
  LET tag == Word(m, a + 4) IN
  IF tag >= Len(t.entries) \/ t.entries[tag + 1].type = Pod THEN c
  ELSE IF ~nullable /\ Word(m, a) # UnionBytes THEN Rejected(c)
  ELSE MojomType_DispatchValidate(m, t.entries[tag + 1].type, t.entries[tag + 1].nullable,
         a + 8, size - 8, num_handles, c)

MojomType_DispatchValidate(m, t, nullable, a, size, num_handles, c) ==
  LET c1 == validate_pointer(m, a, size, nullable, c)
      o == Offset(m, a)
      c2 == MojomStruct_Validate(m, t, a + o, size - o, num_handles, c1)
  IN  CASE IsPointer(t) /\ (~c1.ok \/ o = 0) -> c1
        [] IsPointer(t) /\ c1.ok /\ o # 0 ->
             IF t.kind = "array"
             THEN MojomArray_Validate(m, t, a + o, size - o, num_handles, c1)
             ELSE IF c2.ok /\ t.kind = "map" THEN MojomMap_Validate(m, a + o, c2) ELSE c2
        [] t.kind = "union" ->
             IF Word(m, a) = 0 THEN (IF nullable THEN c ELSE Rejected(c))
             ELSE MojomUnion_Validate(m, t, nullable, a, size, num_handles, c)
        [] IsHandle(t) -> validate_handle(Word(m, a), num_handles, nullable, c)
        [] t = Pod -> c

-----------------------------------------------------------------------------
(* Decoding.  A handle that is taken leaves MOJO_HANDLE_INVALID behind. *)

decode_pointer(s, a) ==
  LET o == Offset(s.mem, a) IN
  IF o = 0 THEN s ELSE [s EXCEPT !.mem = SetWord(@, a, a + o)]

\* Mutant: a handle that is taken stays in the vector too.
decode_handle_copied(s, a) ==
  LET h == Word(s.mem, a) IN
  IF h = EncodedHandleInvalid THEN [s EXCEPT !.mem = SetWord(@, a, 0)]
  ELSE [s EXCEPT !.mem = SetWord(@, a, s.handles[h + 1])]

decode_handle(s, a) ==
  LET h == Word(s.mem, a) IN
  IF h = EncodedHandleInvalid THEN [s EXCEPT !.mem = SetWord(@, a, 0)]
  ELSE IF h >= Len(s.handles) THEN [s EXCEPT !.ok = FALSE]
  ELSE [s EXCEPT !.mem = SetWord(@, a, s.handles[h + 1]), !.handles[h + 1] = 0]

RECURSIVE MojomType_DispatchDecodePointersAndHandles(_, _, _, _, _)

MojomStruct_DecodePointersAndHandles(s, t, a, size) ==
  FoldLeft(LAMBDA st, e :
             IF Word(st.mem, a + 4) < e.min_version THEN st
             ELSE MojomType_DispatchDecodePointersAndHandles(
                    [st EXCEPT !.ok = @ /\ HeaderBytes + e.offset < size],
                    e.type, e.nullable, a + HeaderBytes + e.offset,
                    size - (HeaderBytes + e.offset)),
           s, t.entries)

MojomArray_DecodePointersAndHandles(s, t, a, size) ==
  LET elem(i) == HeaderBytes + (i - 1) * ElemBytes(t.elem)
  IN  IF t.elem = Pod THEN s
      ELSE FoldLeft(LAMBDA st, i :
             MojomType_DispatchDecodePointersAndHandles(
               [st EXCEPT !.ok = @ /\ elem(i) < size],
               t.elem, t.nullable, a + elem(i), size - elem(i)),
             s, [i \in 1 .. Word(s.mem, a + 4) |-> i])

MojomUnion_DecodePointersAndHandles(s, t, a, size) ==
  LET tag == Word(s.mem, a + 4)
      s1 == [s EXCEPT !.ok = @ /\ size >= UnionBytes]
  IN  IF tag >= Len(t.entries) \/ t.entries[tag + 1].type = Pod THEN s1
      ELSE MojomType_DispatchDecodePointersAndHandles(s1,
             t.entries[tag + 1].type, t.entries[tag + 1].nullable, a + 8, size - 8)

MojomType_DispatchDecodePointersAndHandles(s, t, nullable, a, size) ==
  LET s1 == decode_pointer(s, a)
      p == Word(s1.mem, a)
      s2 == [s1 EXCEPT !.ok = @ /\ (p # 0 => p < a + size) /\ (nullable \/ p # 0)]
  IN  CASE IsPointer(t) /\ (p = 0 \/ ~s2.ok) -> s2
        [] IsStruct(t) /\ p # 0 /\ s2.ok ->
             MojomStruct_DecodePointersAndHandles(s2, t, p, size - (p - a))
        [] t.kind = "array" /\ p # 0 /\ s2.ok ->
             MojomArray_DecodePointersAndHandles(s2, t, p, size - (p - a))
        [] t.kind = "union" ->
             IF nullable /\ Word(s.mem, a) = 0 THEN s
             ELSE MojomUnion_DecodePointersAndHandles(s, t, a, size)
        [] IsHandle(t) -> decode_handle(s, a)

-----------------------------------------------------------------------------
(* The header of a message m of num_bytes bytes: size, version, ordinal,   *)
(* flags and, from version 1 on, a request id.                             *)

EXPECTS_RESPONSE == 1
IS_RESPONSE == 2
HasFlag(m, flag) == (Word(m, 12) \div flag) % 2 = 1

MojomMessage_ValidateHeader(m, num_bytes) ==
  LET version == Word(m, 4)
      header_bytes == Word(m, 0)
  IN  /\ num_bytes >= HeaderBytes
      /\ num_bytes >= header_bytes
      /\ version = 0 => /\ header_bytes = 16
                        /\ ~HasFlag(m, EXPECTS_RESPONSE)
                        /\ ~HasFlag(m, IS_RESPONSE)
      /\ version = 1 => header_bytes = 24
      /\ version > 1 => header_bytes >= 24
      /\ ~(HasFlag(m, EXPECTS_RESPONSE) /\ HasFlag(m, IS_RESPONSE))

MojomMessage_ValidateRequestExpectingResponse(m) == HasFlag(m, EXPECTS_RESPONSE)

MojomMessage_ValidateRequestWithoutResponse(m) ==
  ~HasFlag(m, EXPECTS_RESPONSE) /\ ~HasFlag(m, IS_RESPONSE)

MojomMessage_ValidateResponse(m) == HasFlag(m, IS_RESPONSE)
=============================================================================
