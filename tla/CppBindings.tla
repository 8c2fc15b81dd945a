---------------------------- MODULE CppBindings -----------------------------
(***************************************************************************)
(* The C++ bindings library and the code the C++ generator emits: sizing,  *)
(* serializing, encoding, validating, decoding and deserializing a mojom   *)
(* value.  The template specializations of the library are operators that  *)
(* dispatch on the type; the generated methods of structs and unions are   *)
(* the same operators for every struct and union type, translated from the *)
(* generator's templates.  A DCHECK or CHECK that fails makes the ok field *)
(* of the result FALSE.                                                    *)
(*                                                                         *)
(* Unions inside unions are left out, as in the C bindings.                *)
(***************************************************************************)
EXTENDS WireFormat

Align(n) == n + ((8 - (n % 8)) % 8)

IsAligned(a) == a % 8 = 0

\* ArrayDataTraits<bool>: eight bools take a byte.
BoolBytes(num_elements) == ((num_elements + 7) % (MaxWord + 1)) \div 8

\* ArrayDataTraits<T>: everything else takes whole bytes.
StorageBytes(t, num_elements) ==
  IF t.elem_num_bits = 1 THEN BoolBytes(num_elements)
  ELSE (t.elem_num_bits \div 8) * num_elements

kMaxNumElements(t) ==
  IF t.elem_num_bits = 1 THEN MaxWord ELSE (MaxWord - HeaderBytes) \div (t.elem_num_bits \div 8)

GetStorageSize(t, num_elements) == HeaderBytes + StorageBytes(t, num_elements)

\* A wrapper always writes the newest version it was generated for.
StructBytes(t) == t.versions[Len(t.versions)].num_bytes

-----------------------------------------------------------------------------
(* GetSerializedSize_ *)

RECURSIVE GetSerializedSize_(_, _)

\* Arrays of plain data, of bools, of handles and of interfaces.
FlatArraySize(t, v) == HeaderBytes + Align(StorageBytes(t, Len(v.elems)))

SumOfSizes(t, vs) == FoldLeft(LAMBDA size, v : size + GetSerializedSize_(t, v), 0, vs)

PointerArraySize(t, v) == HeaderBytes + 8 * Len(v.elems) + SumOfSizes(t.elem, v.elems)

\* The size of a union counts the union itself, in its array or elsewhere.
UnionArraySize(t, v) == HeaderBytes + SumOfSizes(t.elem, v.elems)

StringSize(v) == Align(HeaderBytes + Len(v.elems))

\* The two arrays of a map, sized from its entries.
GetBaseArraySize(t, count) ==
  IF t.elem.kind = "union" THEN 0 ELSE Align(StorageBytes(t, count))

GetItemSize(t, item) ==
  IF IsPointer(t) \/ t.kind = "union" THEN GetSerializedSize_(t, item) ELSE 0

MapSize(t, v) ==
  LET count == Len(v.fields[1].elems)
      ArrayOf(a, items) ==
        HeaderBytes + GetBaseArraySize(a, count)
        + FoldLeft(LAMBDA size, item : size + GetItemSize(a.elem, item), 0, items)
  IN  MapBytes + ArrayOf(t.entries[1].type, v.fields[1].elems)
               + ArrayOf(t.entries[2].type, v.fields[2].elems)

\* A union inside a struct is counted twice: in the struct and by itself.
StructSize(t, v) ==
  FoldLeft(LAMBDA size, i :
             IF IsHandle(t.entries[i].type) THEN size
             ELSE size + GetSerializedSize_(t.entries[i].type, v.fields[i]),
           StructBytes(t), [i \in 1 .. Len(t.entries) |-> i])

\* No size: a null pointer is dereferenced.  Every sum with it is negative.
NoSize == -MaxWord

\* The size of a struct of which the reference input is to nothing.
NullStructSize(t) ==
  IF \A i \in DOMAIN t.entries : IsHandle(t.entries[i].type) THEN StructBytes(t) ELSE NoSize

\* The pointer to a struct in a union is dereferenced without a look at it.
UnionSize(t, v) ==
  LET e == t.entries[v.tag + 1] IN
  IF IsNull(v) THEN UnionBytes
  ELSE IF v.tag >= Len(t.entries) \/ ~IsPointer(e.type) THEN UnionBytes
  ELSE IF e.type.kind = "struct" /\ IsNull(v.data) THEN UnionBytes + NullStructSize(e.type)
  ELSE UnionBytes + GetSerializedSize_(e.type, v.data)

GetSerializedSize_(t, v) ==
  CASE t.kind = "union" -> UnionSize(t, v)
    [] t.kind # "union" /\ IsNull(v) -> 0
    [] t.kind = "struct" /\ ~IsNull(v) -> StructSize(t, v)
    [] t.kind = "map" /\ ~IsNull(v) -> MapSize(t, v)
    [] t.kind = "array" /\ ~IsNull(v) ->
         IF t = String THEN StringSize(v)
         ELSE IF IsPointer(t.elem) THEN PointerArraySize(t, v)
         ELSE IF t.elem.kind = "union" THEN UnionArraySize(t, v)
         ELSE FlatArraySize(t, v)

-----------------------------------------------------------------------------
(* Serialization: s.mem is the message's zeroed memory, of which s.used    *)
(* bytes of s.size are taken; err says that a ValidationError was returned.*)

\* FixedBuffer::Allocate
Allocate(s, num_bytes) ==
  IF num_bytes = 0 \/ Align(num_bytes) > s.size - s.used THEN [s EXCEPT !.ok = FALSE]
  ELSE [s EXCEPT !.used = @ + Align(num_bytes)]

Store(s, a, w) == [s EXCEPT !.mem = SetWord(@, a, w)]

Failed(s) == s.err \/ ~s.ok

RECURSIVE Serialize(_, _, _, _)

\* A missing value that is not nullable is an error.
NullCheck(s, nullable, out) ==
  IF ~Failed(s) /\ ~nullable /\ Word(s.mem, out) = 0 THEN [s EXCEPT !.err = TRUE] ELSE s

\* The fields of a struct at a.  A generated struct returns the first error;
\* a method only logs the errors of its parameters.
SerializeFields(s, t, v, a, should_return_errors) ==
  FoldLeft(LAMBDA st, i :
             LET e == t.entries[i]
                 out == a + HeaderBytes + e.offset
                 st1 == NullCheck(Serialize(st, e.type, v.fields[i], out), e.nullable, out)
             IN  IF Failed(st) THEN st
                 ELSE IF should_return_errors THEN st1 ELSE [st1 EXCEPT !.err = FALSE],
           s, [i \in 1 .. Len(t.entries) |-> i])

\* T_Data::New
NewStruct(s, t) ==
  LET s1 == Allocate(s, StructBytes(t))
  IN  IF ~s1.ok THEN s1
      ELSE Store(Store(s1, s.used, StructBytes(t)), s.used + 4, LatestVersion(t))

\* The output pointer is only written when there is no error.
SerializeStruct(s, t, v, out) ==
  LET s1 == SerializeFields(NewStruct(s, t), t, v, s.used, TRUE)
  IN  IF Failed(s1) THEN s1 ELSE Store(s1, out, s.used)

\* Array_Data<T>::New
NewArray(s, t, num_elements) ==
  LET num_bytes == GetStorageSize(t, num_elements)
      s1 == Allocate(s, num_bytes)
  IN  IF num_elements > kMaxNumElements(t) \/ ~s1.ok THEN [s1 EXCEPT !.ok = FALSE]
      ELSE Store(Store(s1, s.used, num_bytes), s.used + 4, num_elements)

\* The elements of an array in turn, until one is an error.
EachElement(s, t, v, a, SerializeElement(_, _, _, _)) ==
  FoldLeft(LAMBDA st, i :
             LET out == a + HeaderBytes + (i - 1) * ElemBytes(t.elem) IN
             IF Failed(st) THEN st
             ELSE NullCheck(SerializeElement(st, t.elem, v.elems[i], out), t.nullable, out),
           s, [i \in 1 .. Len(v.elems) |-> i])

\* release(), PassMessagePipe(): the handle moves into the message.
SerializeHandle(s, t, v, out) == Store(s, out, IF IsNull(v) THEN 0 ELSE v.h)

\* The handle and the version of the interface.
InterfaceHandleToData(s, t, v, out) == Store(s, out, IF IsNull(v) THEN 0 ELSE v.h)

SerializeHandles(s, t, v, a) == EachElement(s, t, v, a, SerializeHandle)
SerializeInterfaces(s, t, v, a) == EachElement(s, t, v, a, InterfaceHandleToData)
SerializePointers(s, t, v, a) == EachElement(s, t, v, a, Serialize)
SerializeUnions(s, t, v, a) == EachElement(s, t, v, a, Serialize)

\* ArraySerializer<>::SerializeElements; plain data is copied.
SerializeElements(s, t, v, a) ==
  CASE t.elem = Pod -> s
    [] t.elem.kind = "handle" -> SerializeHandles(s, t, v, a)
    [] t.elem.kind = "interface" -> SerializeInterfaces(s, t, v, a)
    [] IsPointer(t.elem) -> SerializePointers(s, t, v, a)
    [] t.elem.kind = "union" -> SerializeUnions(s, t, v, a)

SerializeArray_(s, t, v, out) ==
  LET s1 == SerializeElements(NewArray(s, t, Len(v.elems)), t, v, s.used) IN
  IF t.num_elements # 0 /\ Len(v.elems) # t.num_elements THEN [s EXCEPT !.err = TRUE]
  ELSE IF Failed(s1) THEN s1 ELSE Store(s1, out, s.used)

\* The keys with all they point to come before the values.
SerializeMap_(s, t, v, out) ==
  LET s1 == NewStruct(s, t)
      Array_(st, i) ==
        IF Failed(st) THEN st
        ELSE SerializeElements(
               Store(NewArray(st, t.entries[i].type, Len(v.fields[1].elems)),
                     s.used + HeaderBytes + t.entries[i].offset, st.used),
               t.entries[i].type, v.fields[i], st.used)
      s2 == Array_(Array_(s1, 1), 2)
  IN  IF Failed(s2) THEN s2 ELSE Store(s2, out, s.used)

SerializeUnion_(s, t, v, out) ==
  IF IsNull(v) THEN Store(Store(Store(s, out, 0), out + 4, 0), out + 8, 0)
  ELSE IF v.tag >= Len(t.entries) THEN [s EXCEPT !.ok = FALSE]
  ELSE Serialize(Store(Store(s, out, UnionBytes), out + 4, v.tag),
                 t.entries[v.tag + 1].type, v.data, out + 8)

Serialize(s, t, v, out) ==
  CASE t = Pod -> s
    [] t.kind = "handle" -> SerializeHandle(s, t, v, out)
    [] t.kind = "interface" -> InterfaceHandleToData(s, t, v, out)
    [] t.kind = "union" -> SerializeUnion_(s, t, v, out)
    [] IsPointer(t) /\ IsNull(v) -> Store(s, out, 0)
    [] t.kind = "struct" /\ ~IsNull(v) -> SerializeStruct(s, t, v, out)
    [] t.kind = "map" /\ ~IsNull(v) -> SerializeMap_(s, t, v, out)
    [] t.kind = "array" /\ ~IsNull(v) -> SerializeArray_(s, t, v, out)

\* The parameters of a method, at the start of the payload.
SerializeParams(s, t, v) == SerializeFields(NewStruct(s, t), t, v, s.used, FALSE)

-----------------------------------------------------------------------------
(* EncodePointersAndHandles *)

EncodePointer(s, a) ==
  LET p == Word(s.mem, a) IN
  IF p = 0 THEN s ELSE [Store(s, a, p - a) EXCEPT !.ok = @ /\ p > a]

\* Mutant: the index is taken after the handle was added.
EncodeHandle_after(s, a) ==
  LET h == Word(s.mem, a) IN
  IF h = 0 THEN Store(s, a, EncodedHandleInvalid)
  ELSE [Store(s, a, Len(s.handles) + 1) EXCEPT !.handles = Append(@, h)]

EncodeHandle(s, a) ==
  LET h == Word(s.mem, a) IN
  IF h = 0 THEN Store(s, a, EncodedHandleInvalid)
  ELSE [Store(s, a, Len(s.handles)) EXCEPT !.handles = Append(@, h)]

RECURSIVE EncodePointersAndHandles(_, _, _)

\* What stands in the slot at a; an object is encoded before its pointer.
Encode(s, t, a) ==
  CASE IsPointer(t) ->
         EncodePointer(IF Word(s.mem, a) = 0 THEN s
                       ELSE EncodePointersAndHandles(s, t, Word(s.mem, a)), a)
    [] IsHandle(t) -> EncodeHandle(s, a)
    [] t.kind = "union" -> EncodePointersAndHandles(s, t, a)
    [] OTHER -> s

EncodeElements(s, t, a) ==
  FoldLeft(LAMBDA st, i : Encode(st, t.elem, a + HeaderBytes + (i - 1) * ElemBytes(t.elem)),
           s, [i \in 1 .. Word(s.mem, a + 4) |-> i])

\* IsHandle<Interface_Data> is false: an array of interfaces is encoded by the
\* helper for plain data.
HasPodHelper(t) == t.elem.kind \in {"pod", "interface"}

\* A union is encoded by its tag, null or not.
EncodePointersAndHandles(s, t, a) ==
  CASE IsStruct(t) ->
         FoldLeft(LAMBDA st, e : Encode(st, e.type, a + HeaderBytes + e.offset),
                  [s EXCEPT !.ok = @ /\ Word(s.mem, a + 4) = LatestVersion(t)], t.entries)
    [] t.kind = "array" -> IF HasPodHelper(t) THEN s ELSE EncodeElements(s, t, a)
    [] t.kind = "union" ->
         IF Word(s.mem, a + 4) >= Len(t.entries) THEN [s EXCEPT !.ok = FALSE]
         ELSE Encode(s, t.entries[Word(s.mem, a + 4) + 1].type, a + 8)

-----------------------------------------------------------------------------
(* Validation of the message m.  The bounds checker b keeps the memory and *)
(* the handles that are not claimed; its field ok is FALSE once an error   *)
(* was returned.                                                           *)

BoundsChecker(data, data_num_bytes, num_handles) ==
  [data_begin |-> data, data_end |-> data + data_num_bytes,
   handle_begin |-> 0, handle_end |-> num_handles, ok |-> TRUE]

Reject(b) == [b EXCEPT !.ok = FALSE]

IsValidRange(b, begin, num_bytes) ==
  /\ num_bytes > 0
  /\ begin >= b.data_begin
  /\ begin + num_bytes <= b.data_end

ClaimMemory(b, begin, num_bytes) ==
  IF IsValidRange(b, begin, num_bytes) THEN [b EXCEPT !.data_begin = begin + num_bytes]
  ELSE Reject(b)

ClaimHandle(b, index) ==
  IF index = EncodedHandleInvalid THEN b
  ELSE IF index < b.handle_begin \/ index >= b.handle_end THEN Reject(b)
  ELSE [b EXCEPT !.handle_begin = index + 1]

\* At most 32 bits.  That slot and offset do not wrap holds in this model.
ValidateEncodedPointer(m, a) == Word(m, a + 4) = 0

ValidateStructHeaderAndClaimMemory(m, a, b) ==
  IF ~IsAligned(a) \/ ~IsValidRange(b, a, HeaderBytes) \/ Word(m, a) < HeaderBytes
  THEN Reject(b) ELSE ClaimMemory(b, a, Word(m, a))

\* Up to the newest known version the size is that of the version, or of the
\* one before it; a newer struct is at least as large as the newest known.
IsKnownSize(m, a, t) ==
  IF Word(m, a + 4) <= LatestVersion(t)
  THEN Word(m, a) = SizeEntry(t, Word(m, a + 4)).num_bytes
  ELSE Word(m, a) >= StructBytes(t)

RECURSIVE Validate(_, _, _, _)

\* _validate_handle, also of the elements of an array.
ValidateHandle(m, nullable, a, b) ==
  IF ~nullable /\ Word(m, a) = EncodedHandleInvalid THEN Reject(b) ELSE ClaimHandle(b, Word(m, a))

\* _validate_object: the reference or the union in the slot at a.
ValidateObject(m, t, nullable, a, b) ==
  IF ~nullable /\ (IF t.kind = "union" THEN Word(m, a) = 0 ELSE Word(m, a) = 0 /\ Word(m, a + 4) = 0)
  THEN Reject(b)
  ELSE IF t.kind = "union" THEN Validate(m, t, a, b)
  ELSE IF ~ValidateEncodedPointer(m, a) THEN Reject(b)
  ELSE IF Word(m, a) = 0 THEN b ELSE Validate(m, t, a + Word(m, a), b)

\* The fields up to the first that the struct is too old for.
ValidateStruct(m, t, a, b) ==
  LET b1 == ValidateStructHeaderAndClaimMemory(m, a, b)
      Present(e) == Word(m, a + 4) >= e.min_version
  IN  IF ~b1.ok \/ ~IsKnownSize(m, a, t) THEN Reject(b1)
      ELSE FoldLeft(LAMBDA bc, e :
             IF ~bc.ok \/ ~Present(e) THEN bc
             ELSE IF IsHandle(e.type)
             THEN ValidateHandle(m, e.nullable, a + HeaderBytes + e.offset, bc)
             ELSE ValidateObject(m, e.type, e.nullable, a + HeaderBytes + e.offset, bc),
             b1, t.entries)

\* Map_Data::Validate
ValidateMap(m, t, a, b) ==
  LET b1 == ValidateStructHeaderAndClaimMemory(m, a, b)
      Elements(slot) == Word(m, slot + Word(m, slot) + 4)
      b2 == ValidateObject(m, t.entries[1].type, FALSE, a + 8, b1)
      b3 == ValidateObject(m, t.entries[2].type, FALSE, a + 16, b2)
  IN  IF ~b1.ok THEN b1
      ELSE IF Word(m, a) # MapBytes \/ Word(m, a + 4) # 0 THEN Reject(b1)
      ELSE IF ~b2.ok THEN b2
      ELSE IF ~b3.ok THEN b3
      ELSE IF Elements(a + 8) # Elements(a + 16) THEN Reject(b3) ELSE b3

\* ArraySerializationHelper<>::ValidateElements, one after the other.
EachSlot(m, t, a, b, ValidateSlot(_, _)) ==
  FoldLeft(LAMBDA bc, i :
             IF ~bc.ok THEN bc ELSE ValidateSlot(a + HeaderBytes + (i - 1) * ElemBytes(t.elem), bc),
           b, [i \in 1 .. Word(m, a + 4) |-> i])

ValidateHandles(m, t, a, b) ==
  EachSlot(m, t, a, b, LAMBDA slot, bc : ValidateHandle(m, t.nullable, slot, bc))
ValidatePointers(m, t, a, b) ==
  EachSlot(m, t, a, b, LAMBDA slot, bc : ValidateObject(m, t.elem, t.nullable, slot, bc))
ValidateUnions(m, t, a, b) ==
  EachSlot(m, t, a, b, LAMBDA slot, bc : ValidateObject(m, t.elem, t.nullable, slot, bc))

ValidateElements(m, t, a, b) ==
  CASE HasPodHelper(t) -> b
    [] t.elem.kind = "handle" -> ValidateHandles(m, t, a, b)
    [] IsPointer(t.elem) -> ValidatePointers(m, t, a, b)
    [] t.elem.kind = "union" -> ValidateUnions(m, t, a, b)

\* Array_Data<T>::Validate
ValidateArray(m, t, a, b) ==
  IF \/ ~IsAligned(a)
     \/ ~IsValidRange(b, a, HeaderBytes)
     \/ Word(m, a + 4) > kMaxNumElements(t)
     \/ Word(m, a) < GetStorageSize(t, Word(m, a + 4))
     \/ t.num_elements \notin {0, Word(m, a + 4)}
     \/ ~IsValidRange(b, a, Word(m, a))
  THEN Reject(b)
  ELSE ValidateElements(m, t, a, ClaimMemory(b, a, Word(m, a)))

\* A union claims no memory of its own.  Of a field that is a struct or a map
\* only the pointer is looked at, of one that is an interface nothing.
ValidateUnion(m, t, a, b) ==
  LET tag == Word(m, a + 4)
      e == t.entries[tag + 1]
  IN  IF ~IsAligned(a) THEN Reject(b)
      ELSE IF Word(m, a) = 0 \/ tag >= Len(t.entries) THEN b
      ELSE IF e.type.kind = "handle" THEN ValidateHandle(m, e.nullable, a + 8, b)
      ELSE IF e.type.kind = "array" THEN ValidateObject(m, e.type, e.nullable, a + 8, b)
      ELSE IF IsStruct(e.type)
      THEN (IF \/ ~e.nullable /\ Offset(m, a + 8) = 0
               \/ ~ValidateEncodedPointer(m, a + 8) THEN Reject(b) ELSE b)
      ELSE b

Validate(m, t, a, b) ==
  CASE t.kind = "struct" -> ValidateStruct(m, t, a, b)
    [] t.kind = "map" -> ValidateMap(m, t, a, b)
    [] t.kind = "array" -> ValidateArray(m, t, a, b)
    [] t.kind = "union" -> ValidateUnion(m, t, a, b)

-----------------------------------------------------------------------------
(* DecodePointersAndHandles.  ok is FALSE once something outside of the    *)
(* message is read, or twice the same: a pointer that was decoded once is  *)
(* an address, to which decoding again adds another.                       *)

DecodePointer(s, a) ==
  IF Offset(s.mem, a) = 0 THEN s ELSE Store(s, a, a + Offset(s.mem, a))

\* The object at a is in the message, and none of its words was in another.
Enter(s, t, a) ==
  LET words == (a \div 4) .. ((a + Extent(s.mem, t, a) - 1) \div 4) IN
  IF ~IsObject(s.mem, t, a) \/ words \cap s.seen # {} THEN [s EXCEPT !.ok = FALSE]
  ELSE [s EXCEPT !.seen = @ \cup words]

\* A handle that is fetched leaves a hole in the vector.
DecodeHandle(s, a) ==
  LET h == Word(s.mem, a) IN
  IF h = EncodedHandleInvalid THEN Store(s, a, 0)
  ELSE IF h >= Len(s.handles) THEN [s EXCEPT !.ok = FALSE]
  ELSE [Store(s, a, s.handles[h + 1]) EXCEPT !.handles[h + 1] = 0]

RECURSIVE DecodePointersAndHandles(_, _, _)

Decode(s, t, a) ==
  LET s1 == DecodePointer(s, a) IN
  CASE ~s.ok -> s
    [] s.ok /\ IsPointer(t) ->
         IF Word(s1.mem, a) = 0 THEN s1 ELSE DecodePointersAndHandles(s1, t, Word(s1.mem, a))
    [] s.ok /\ IsHandle(t) -> DecodeHandle(s, a)
    [] s.ok /\ t.kind = "union" -> DecodePointersAndHandles(s, t, a)
    [] OTHER -> s

DecodeElements(s, t, a) ==
  FoldLeft(LAMBDA st, i : Decode(st, t.elem, a + HeaderBytes + (i - 1) * ElemBytes(t.elem)),
           s, [i \in 1 .. Word(s.mem, a + 4) |-> i])

\* A union is decoded by its tag, null or not.
DecodePointersAndHandles(s, t, a) ==
  LET s1 == Enter(s, t, a) IN
  CASE IsPointer(t) /\ ~s1.ok -> s1
    [] IsStruct(t) /\ s1.ok ->
         FoldLeft(LAMBDA st, e :
                    IF Word(st.mem, a + 4) < e.min_version THEN st
                    ELSE Decode(st, e.type, a + HeaderBytes + e.offset), s1, t.entries)
    [] t.kind = "array" /\ s1.ok -> IF HasPodHelper(t) THEN s1 ELSE DecodeElements(s1, t, a)
    [] t.kind = "union" ->
         IF Word(s.mem, a + 4) >= Len(t.entries) THEN s
         ELSE Decode(s, t.entries[Word(s.mem, a + 4) + 1].type, a + 8)

-----------------------------------------------------------------------------
(* Deserialize_: the wrapper made from the decoded memory m.  The version  *)
(* is not part of a wrapper; it is kept here to tell absent fields from    *)
(* null ones.                                                              *)

RECURSIVE Deserialize_(_, _, _)

DeserializeHandle(m, a) == IF Word(m, a) = 0 THEN Null ELSE HandleV(Word(m, a))

\* A pointer is followed, a null one gives a null wrapper.
DeserializeField(t, m, a) ==
  IF IsPointer(t) THEN (IF Word(m, a) = 0 THEN Null ELSE Deserialize_(t, m, Word(m, a)))
  ELSE Deserialize_(t, m, a)

DeserializeStruct(t, m, a) ==
  StructV(Word(m, a + 4),
    [i \in DOMAIN t.entries |->
       IF Word(m, a + 4) < t.entries[i].min_version THEN Null
       ELSE DeserializeField(t.entries[i].type, m, a + HeaderBytes + t.entries[i].offset)])

\* Map(keys, values): the two arrays are zipped.
DeserializeMap(t, m, a) ==
  MapV(DeserializeField(t.entries[1].type, m, a + 8), DeserializeField(t.entries[2].type, m, a + 16))

DeserializeElements(t, m, a) ==
  IF t.elem = Pod THEN Bytes(Word(m, a + 4))
  ELSE ArrayV([i \in 1 .. Word(m, a + 4) |->
         DeserializeField(t.elem, m, a + HeaderBytes + (i - 1) * ElemBytes(t.elem))])

\* The struct of a union field is made first and filled from the pointer
\* afterwards: a null pointer leaves an empty struct.
DeserializeUnion(t, m, a) ==
  LET tag == Word(m, a + 4)
      e == t.entries[tag + 1]
  IN  IF Word(m, a) = 0 THEN Null
      ELSE IF tag >= Len(t.entries) THEN UnionV(UnknownTag, Null)
      ELSE IF e.type.kind = "struct" /\ Word(m, a + 8) = 0
      THEN UnionV(tag, StructV(0, [i \in DOMAIN e.type.entries |-> Null]))
      ELSE UnionV(tag, DeserializeField(e.type, m, a + 8))

Deserialize_(t, m, a) ==
  CASE t = Pod -> [pod |-> 0]
    [] IsHandle(t) -> DeserializeHandle(m, a)
    [] t.kind = "struct" -> DeserializeStruct(t, m, a)
    [] t.kind = "map" -> DeserializeMap(t, m, a)
    [] t.kind = "array" -> DeserializeElements(t, m, a)
    [] t.kind = "union" -> DeserializeUnion(t, m, a)

-----------------------------------------------------------------------------
(* Message headers *)

kMessageExpectsResponse == 1
kMessageIsResponse == 2
has_flag(m, flag) == (Word(m, 12) \div flag) % 2 = 1

\* MessageBuilder and MessageWithRequestIDBuilder: memory for a message with
\* that payload, and the header in it.
MessageBuilder(name, payload_size) ==
  LET size == Align(16 + payload_size) IN
  [mem |-> SetWord(SetWord(Blank(size), 0, 16), 8, name), size |-> size, used |-> 16,
   handles |-> <<>>, ok |-> TRUE, err |-> FALSE]

MessageWithRequestIDBuilder(name, payload_size, flags) ==
  LET size == Align(24 + payload_size) IN
  [mem |-> SetWord(SetWord(SetWord(SetWord(Blank(size), 0, 24), 4, 1), 8, name), 12, flags),
   size |-> size, used |-> 24, handles |-> <<>>, ok |-> TRUE, err |-> FALSE]

\* Mutant: a message may be a request and a response.
ValidateMessageHeader_both(m) ==
  LET version == Word(m, 4) IN
  /\ version = 0 => Word(m, 0) = 16
  /\ version = 1 => Word(m, 0) = 24
  /\ version > 1 => Word(m, 0) >= 24
  /\ ~(version < 1 /\ (has_flag(m, kMessageExpectsResponse) \/ has_flag(m, kMessageIsResponse)))

ValidateMessageHeader(m) ==
  LET version == Word(m, 4) IN
  /\ version = 0 => Word(m, 0) = 16
  /\ version = 1 => Word(m, 0) = 24
  /\ version > 1 => Word(m, 0) >= 24
  /\ ~(version < 1 /\ (has_flag(m, kMessageExpectsResponse) \/ has_flag(m, kMessageIsResponse)))
  /\ ~(has_flag(m, kMessageExpectsResponse) /\ has_flag(m, kMessageIsResponse))

\* MessageHeaderValidator::Validate
ValidateHeader(m, num_bytes) ==
  /\ ValidateStructHeaderAndClaimMemory(m, 0, BoundsChecker(0, num_bytes, 0)).ok
  /\ ValidateMessageHeader(m)

ValidateMessageIsRequestWithoutResponse(m) ==
  ~has_flag(m, kMessageIsResponse) /\ ~has_flag(m, kMessageExpectsResponse)

ValidateMessageIsRequestExpectingResponse(m) ==
  ~has_flag(m, kMessageIsResponse) /\ has_flag(m, kMessageExpectsResponse)

ValidateMessageIsResponse(m) ==
  ~has_flag(m, kMessageExpectsResponse) /\ has_flag(m, kMessageIsResponse)

\* The payload follows the header, whatever size the header says it has.
ValidateMessagePayload(m, num_bytes, num_handles, t) ==
  ValidateStruct(m, t, Word(m, 0), BoundsChecker(Word(m, 0), num_bytes - Word(m, 0), num_handles)).ok

-----------------------------------------------------------------------------
(* Control messages: what every interface answers besides its own methods. *)

\* 0xFFFFFFFF and 0xFFFFFFFE
kRunMessageId == MaxWord
kRunOrClosePipeMessageId == MaxWord - 1

\* The topmost bit of the name.
IsControlMessage(m) == Word(m, 8) > MaxWord \div 2

\* Two reserved words, and a struct that is empty (QueryVersion) or holds a
\* version number (QueryVersionResult, RequireVersion).
ControlParams(num_bytes) ==
  Struct(<<Version(0, 24)>>, <<Field(Struct(<<Version(0, num_bytes)>>, <<>>), 8, 0, FALSE)>>)

RunMessageParams == ControlParams(8)
RunResponseMessageParams == ControlParams(16)
RunOrClosePipeMessageParams == ControlParams(16)

ValidateControlRequest(m, num_bytes, num_handles) ==
  CASE Word(m, 8) = kRunMessageId ->
         /\ ValidateMessageIsRequestExpectingResponse(m)
         /\ ValidateMessagePayload(m, num_bytes, num_handles, RunMessageParams)
    [] Word(m, 8) = kRunOrClosePipeMessageId ->
         /\ ValidateMessageIsRequestWithoutResponse(m)
         /\ ValidateMessagePayload(m, num_bytes, num_handles, RunOrClosePipeMessageParams)
    [] OTHER -> FALSE

ValidateControlResponse(m, num_bytes, num_handles) ==
  /\ ValidateMessageIsResponse(m)
  /\ Word(m, 8) = kRunMessageId
  /\ ValidateMessagePayload(m, num_bytes, num_handles, RunResponseMessageParams)

\* The validators generated for an interface that has one method, number 0,
\* whose parameters have type t.
RequestValidator(m, num_bytes, num_handles, t, has_response) ==
  IF IsControlMessage(m) THEN ValidateControlRequest(m, num_bytes, num_handles)
  ELSE /\ Word(m, 8) = 0
       /\ IF has_response THEN ValidateMessageIsRequestExpectingResponse(m)
                          ELSE ValidateMessageIsRequestWithoutResponse(m)
       /\ ValidateMessagePayload(m, num_bytes, num_handles, t)

ResponseValidator(m, num_bytes, num_handles, t) ==
  IF IsControlMessage(m) THEN ValidateControlResponse(m, num_bytes, num_handles)
  ELSE /\ ValidateMessageIsResponse(m)
       /\ Word(m, 8) = 0
       /\ ValidateMessagePayload(m, num_bytes, num_handles, t)
=============================================================================
