----------------------------- MODULE WireFormat -----------------------------
(***************************************************************************)
(* What the C and the C++ bindings agree on: how a mojom value is laid out *)
(* in a message.  A message is memory made of 4-byte words; an object      *)
(* starts at an 8-byte boundary with a header of two words; a field of     *)
(* reference type is an 8-byte slot that holds the address of its object   *)
(* (0 is null) until it is encoded and the distance from the slot to the   *)
(* object afterwards; a handle is one word that holds the handle until it  *)
(* is encoded and its index in the message's handle vector afterwards.     *)
(*                                                                         *)
(* Types are records: the type descriptors of the C bindings, which hold   *)
(* what the C++ generator knows of the same types.  Plain data is not told *)
(* apart: a field that is neither a reference nor a handle only counts by  *)
(* the bytes it takes, and the elements of a plain array by their number.  *)
(***************************************************************************)
EXTENDS Integers, Sequences, FiniteSets, SequencesExt

\* UINT32_MAX: any number larger than every size that occurs, and 7 modulo 8.
MaxWord == 999999

\* (MojoHandle)-1, the encoding of a null handle.
EncodedHandleInvalid == MaxWord

\* 0xFFFFFFFF, the tag of a union that holds nothing its program knows.
UnknownTag == MaxWord

HeaderBytes == 8
UnionBytes == 16
MapBytes == 24

-----------------------------------------------------------------------------
(* Types *)

Pod == [kind |-> "pod"]
Handle == [kind |-> "handle"]
Interface == [kind |-> "interface"]

Array(elem, nullable, num_elements, elem_num_bits) ==
  [kind |-> "array", elem |-> elem, nullable |-> nullable,
   num_elements |-> num_elements, elem_num_bits |-> elem_num_bits]

\* A string is an array of chars of no fixed size.
String == Array(Pod, FALSE, 0, 8)

\* A field of reference or handle type of a struct.
Field(type, offset, min_version, nullable) ==
  [type |-> type, offset |-> offset, min_version |-> min_version,
   nullable |-> nullable]

Version(version, num_bytes) == [version |-> version, num_bytes |-> num_bytes]

Struct(versions, entries) ==
  [kind |-> "struct", versions |-> versions, entries |-> entries]

\* A map is a struct of two arrays.
Map(keys, values) ==
  [kind |-> "map", versions |-> <<Version(0, MapBytes)>>,
   entries |-> <<Field(keys, 0, 0, FALSE), Field(values, 8, 0, FALSE)>>]

\* A field of a union, whatever its type: the entry at position tag + 1.
Union(entries) == [kind |-> "union", entries |-> entries]
UnionField(type, nullable) == [type |-> type, nullable |-> nullable]

IsStruct(t) == t.kind \in {"struct", "map"}
IsPointer(t) == IsStruct(t) \/ t.kind = "array"
IsHandle(t) == t.kind \in {"handle", "interface"}

\* The bytes an element of type t takes inside an array.
ElemBytes(t) ==
  CASE t.kind = "handle" -> 4
    [] t.kind = "union" -> UnionBytes
    [] OTHER -> 8

\* The newest version of the struct type t that is not newer than v.
SizeEntry(t, v) ==
  LET known == {i \in DOMAIN t.versions : t.versions[i].version <= v}
  IN  t.versions[IF known = {} THEN 1
                 ELSE CHOOSE i \in known : \A j \in known : j <= i]

LatestVersion(t) == t.versions[Len(t.versions)].version

-----------------------------------------------------------------------------
(* Values *)

Null == [null |-> TRUE]
IsNull(v) == "null" \in DOMAIN v
\* A null union of a C program: its size is 0, its tag and data are old ones.
NullUnion(tag, data) == [null |-> TRUE, old_tag |-> tag, old_data |-> data]
IsLeftover(v) == "old_tag" \in DOMAIN v
HandleV(h) == [h |-> h]
StructV(version, fields) == [version |-> version, fields |-> fields]
ArrayV(elems) == [elems |-> elems]
Bytes(n) == ArrayV([i \in 1 .. n |-> [pod |-> 0]])
MapV(keys, values) == StructV(0, <<keys, values>>)
UnionV(tag, data) == [tag |-> tag, data |-> data]

\* Whether the value v may stand in a field of type t.
RECURSIVE WellTyped(_, _, _)
WellTyped(t, nullable, v) ==
  IF IsNull(v) THEN nullable
  ELSE CASE IsStruct(t) ->
              /\ \A i \in DOMAIN t.entries :
                   v.version >= t.entries[i].min_version =>
                     WellTyped(t.entries[i].type, t.entries[i].nullable, v.fields[i])
              /\ t.kind = "map" =>
                   Len(v.fields[1].elems) = Len(v.fields[2].elems)
         [] t.kind = "array" ->
              /\ t.num_elements \in {0, Len(v.elems)}
              /\ \A i \in DOMAIN v.elems : WellTyped(t.elem, t.nullable, v.elems[i])
         [] t.kind = "union" ->
              v.tag < Len(t.entries) =>
                WellTyped(t.entries[v.tag + 1].type, t.entries[v.tag + 1].nullable, v.data)
         [] OTHER -> TRUE

\* The handles of v, in the order of its fields.
RECURSIVE HandlesOf(_)
HandlesOf(v) ==
  LET dom == DOMAIN v IN
  IF "h" \in dom THEN <<v.h>>
  ELSE IF "fields" \in dom THEN FlattenSeq([i \in DOMAIN v.fields |-> HandlesOf(v.fields[i])])
  ELSE IF "elems" \in dom THEN FlattenSeq([i \in DOMAIN v.elems |-> HandlesOf(v.elems[i])])
  ELSE IF "data" \in dom THEN HandlesOf(v.data)
  ELSE <<>>

\* What a reader that knows the type t sees of v: the fields of the version v
\* was written in that t has too.  Fields v does not have are null.
RECURSIVE SeenAs(_, _)
SeenAs(t, v) ==
  IF IsNull(v) THEN Null
  ELSE CASE IsStruct(t) ->
              StructV(v.version,
                [i \in DOMAIN t.entries |->
                   IF v.version >= t.entries[i].min_version
                   THEN SeenAs(t.entries[i].type, v.fields[i]) ELSE Null])
         [] t.kind = "array" -> ArrayV([i \in DOMAIN v.elems |-> SeenAs(t.elem, v.elems[i])])
         [] t.kind = "union" ->
              UnionV(v.tag, IF v.tag < Len(t.entries)
                            THEN SeenAs(t.entries[v.tag + 1].type, v.data) ELSE Null)
         [] OTHER -> v

\* The value v of type t and every value in it, each with its type.
RECURSIVE Parts(_, _)
Parts(t, v) ==
  {[type |-> t, v |-> v]} \cup
  (IF IsNull(v) THEN {}
   ELSE CASE IsStruct(t) ->
               UNION {Parts(t.entries[i].type, v.fields[i]) :
                        i \in {k \in DOMAIN t.entries : v.version >= t.entries[k].min_version}}
          [] t.kind = "array" -> UNION {Parts(t.elem, v.elems[i]) : i \in DOMAIN v.elems}
          [] t.kind = "union" ->
               IF v.tag < Len(t.entries) THEN Parts(t.entries[v.tag + 1].type, v.data) ELSE {}
          [] OTHER -> {})

-----------------------------------------------------------------------------
(* Memory *)

Word(m, a) == m[a \div 4]
SetWord(m, a, w) == [m EXCEPT ![a \div 4] = w]

\* An encoded 64-bit offset; one above UINT32_MAX is only told to be too large.
Offset(m, a) == IF Word(m, a + 4) # 0 THEN MaxWord ELSE Word(m, a)

\* The bytes that a struct or an array of type t at a is read in.
Extent(m, t, a) ==
  IF IsStruct(t) THEN SizeEntry(t, Word(m, a + 4)).num_bytes
  ELSE HeaderBytes + (t.elem_num_bits * Word(m, a + 4) + 7) \div 8

\* The message m has room for a struct or an array of type t at a.
IsObject(m, t, a) ==
  LET num_bytes == 4 * Cardinality(DOMAIN m)
  IN  /\ a % 8 = 0
      /\ a + HeaderBytes <= num_bytes
      /\ a + Extent(m, t, a) <= num_bytes

\* The fields or elements of what stands at a, those of plain data left out.
Slots(m, t, a) ==
  LET Slot(type, nullable, at) == [type |-> type, nullable |-> nullable, at |-> at] IN
  CASE IsStruct(t) ->
         {Slot(e.type, e.nullable, a + HeaderBytes + e.offset) :
            e \in {t.entries[i] : i \in {k \in DOMAIN t.entries :
                                          Word(m, a + 4) >= t.entries[k].min_version}}}
    [] t.kind = "array" /\ t.elem # Pod ->
         {Slot(t.elem, t.nullable, a + HeaderBytes + (i - 1) * ElemBytes(t.elem)) :
            i \in 1 .. Word(m, a + 4)}
    [] t.kind = "union" /\ Word(m, a + 4) < Len(t.entries) ->
         LET e == t.entries[Word(m, a + 4) + 1] IN {Slot(e.type, e.nullable, a + 8)}
    [] OTHER -> {}

\* What stands at a in an encoded message, and what is reached from there as
\* long as the pointers lead to objects of the message.
RECURSIVE Reached(_, _, _, _)
Reached(m, t, nullable, a) ==
  LET From(s) ==
        IF ~IsPointer(s.type) THEN Reached(m, s.type, s.nullable, s.at)
        ELSE IF Offset(m, s.at) # 0 /\ IsObject(m, s.type, s.at + Offset(m, s.at))
        THEN Reached(m, s.type, s.nullable, s.at + Offset(m, s.at)) ELSE {}
  IN  {[type |-> t, nullable |-> nullable, at |-> a]} \cup UNION {From(s) : s \in Slots(m, t, a)}

Blank(num_bytes) == [i \in 0 .. (num_bytes \div 4) - 1 |-> 0]

\* The value of type t that decoded memory holds at address a: at the object
\* itself for a struct or an array, at the slot for a union or a handle.
RECURSIVE ValueAt(_, _, _)
FieldAt(t, m, a) ==
  IF ~IsPointer(t) THEN ValueAt(t, m, a)
  ELSE IF Word(m, a) = 0 THEN Null ELSE ValueAt(t, m, Word(m, a))
ValueAt(t, m, a) ==
  CASE IsStruct(t) ->
         StructV(Word(m, a + 4),
           [i \in DOMAIN t.entries |->
              IF Word(m, a + 4) >= t.entries[i].min_version
              THEN FieldAt(t.entries[i].type, m, a + HeaderBytes + t.entries[i].offset)
              ELSE Null])
    [] t.kind = "array" ->
         IF t.elem = Pod THEN Bytes(Word(m, a + 4))
         ELSE ArrayV([i \in 1 .. Word(m, a + 4) |->
                FieldAt(t.elem, m, a + HeaderBytes + (i - 1) * ElemBytes(t.elem))])
    [] t.kind = "union" ->
         IF Word(m, a) = 0 THEN Null
         ELSE IF Word(m, a + 4) >= Len(t.entries) THEN UnionV(Word(m, a + 4), Null)
         ELSE UnionV(Word(m, a + 4), FieldAt(t.entries[Word(m, a + 4) + 1].type, m, a + 8))
    [] IsHandle(t) -> IF Word(m, a) = 0 THEN Null ELSE HandleV(Word(m, a))
    [] OTHER -> [pod |-> 0]
=============================================================================
