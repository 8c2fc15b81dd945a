------------------------------- MODULE MCWire -------------------------------
(***************************************************************************)
(* The types and values that are sent.                                     *)
(***************************************************************************)
EXTENDS Wire

\* struct Inner { handle h; string? s; };
Inner == Struct(<<Version(0, 24)>>,
                <<Field(Handle, 0, 0, FALSE), Field(String, 8, 0, TRUE)>>)

\* As Inner was before s was added, and as it will be later.
InnerV0 == Struct(<<Version(0, 16)>>, <<Field(Handle, 0, 0, FALSE)>>)
InnerV2 == Struct(<<Version(0, 16), Version(2, 24)>>,
                  <<Field(Handle, 0, 0, FALSE), Field(Handle, 4, 2, TRUE), Field(String, 8, 2, TRUE)>>)

Params(entries, num_bytes) == Struct(<<Version(0, num_bytes)>>, entries)

\* void F(array<Inner?> a, Inner b);
Nested(inner) == Params(<<Field(Array(inner, TRUE, 0, 64), 0, 0, FALSE),
                          Field(inner, 8, 0, FALSE)>>, 24)

\* void F(map<string, array<handle, 2>>? m, Interface i);
Mapped == Params(<<Field(Map(Array(String, FALSE, 0, 64),
                             Array(Array(Handle, FALSE, 2, 32), FALSE, 0, 64)), 0, 0, TRUE),
                   Field(Interface, 8, 0, FALSE)>>, 24)

\* union U { int32 p; handle h; string s; }; void F(U? u, array<U> us);
AUnion == Union(<<UnionField(Pod, FALSE), UnionField(Handle, FALSE), UnionField(String, FALSE)>>)
Unions == Params(<<Field(AUnion, 0, 0, TRUE), Field(Array(AUnion, FALSE, 0, 128), 16, 0, FALSE)>>, 32)

\* struct Leaf { handle h; };
\* union V { handle? h; Inner? s; map<string, handle>? m; Interface i; Leaf? l; };
\* void F(V? v, handle? h);
Leaf == InnerV0
Holder == Union(<<UnionField(Handle, TRUE), UnionField(Inner, TRUE),
                  UnionField(Map(Array(String, FALSE, 0, 64), Array(Handle, FALSE, 0, 32)), TRUE),
                  UnionField(Interface, FALSE), UnionField(Leaf, TRUE)>>)
Holding == Params(<<Field(Holder, 0, 0, TRUE), Field(Handle, 16, 0, TRUE)>>, 32)

\* void F(array<Interface> is);
Interfaces == Params(<<Field(Array(Interface, FALSE, 0, 64), 0, 0, FALSE)>>, 16)

inner(h, s) == StructV(0, <<HandleV(h), s>>)

Both == {"C", "Cpp"}

Sent(wt, rt, v, writers) ==
  [name |-> 0, kinds |-> {"oneway", "request", "response"}, method |-> rt,
   wt |-> wt, rt |-> rt, v |-> StructV(0, v), writers |-> writers, readers |-> Both]

\* A control message of an interface whose method has no parameters.
Control(name, k, t) ==
  [name |-> name, kinds |-> {k}, method |-> Params(<<>>, 8), wt |-> t, rt |-> t,
   v |-> StructV(0, <<StructV(0, <<>>)>>), writers |-> {"Cpp"}, readers |-> {"Cpp"}]

NestedV == <<ArrayV(<<inner(1, Bytes(3)), Null>>), inner(2, Null)>>
SkewedV == <<ArrayV(<<StructV(2, <<HandleV(1), HandleV(2), Bytes(9)>>)>>),
             StructV(2, <<HandleV(3), Null, Null>>)>>
OldV == <<ArrayV(<<StructV(0, <<HandleV(1)>>)>>), StructV(0, <<HandleV(2)>>)>>
MappedV == <<MapV(ArrayV(<<Bytes(1), Bytes(0)>>),
                  ArrayV(<<ArrayV(<<HandleV(1), HandleV(2)>>), ArrayV(<<HandleV(3), HandleV(4)>>)>>)),
             HandleV(5)>>
UnionsV == <<UnionV(1, HandleV(1)), ArrayV(<<UnionV(2, Bytes(5)), UnionV(0, [pod |-> 0])>>)>>
NoUnionV == <<Null, ArrayV(<<UnionV(1, HandleV(1))>>)>>

\* What the union may hold, with what null unions of a C program may be left with.
Held == <<UnionV(0, HandleV(1)), UnionV(0, Null), UnionV(1, inner(1, Bytes(3))), UnionV(1, Null),
          UnionV(2, MapV(ArrayV(<<Bytes(1)>>), ArrayV(<<HandleV(1)>>))), UnionV(2, Null),
          UnionV(3, HandleV(1)), UnionV(4, StructV(0, <<HandleV(1)>>)), UnionV(4, Null),
          UnionV(UnknownTag, Null), Null, NullUnion(0, 0), NullUnion(0, EncodedHandleInvalid),
          NullUnion(0, 7), NullUnion(1, 0), NullUnion(1, 8), NullUnion(1, 40), NullUnion(3, 0)>>

HeldCases ==
  [i \in DOMAIN Held |-> Sent(Holding, Holding, <<Held[i], HandleV(2)>>,
                              IF IsLeftover(Held[i]) THEN {"C"} ELSE Both)]

FixedCases ==
  << Sent(Nested(Inner), Nested(Inner), NestedV, Both),
    Sent(Nested(InnerV2), Nested(InnerV0), SkewedV, Both),
    Sent(Nested(InnerV2), Nested(InnerV2), SkewedV, Both),
    Sent(Nested(InnerV0), Nested(InnerV2), OldV, Both),
    Sent(Mapped, Mapped, MappedV, Both),
    Sent(Mapped, Mapped, <<Null, HandleV(1)>>, Both),
    Sent(Unions, Unions, UnionsV, Both),
    Sent(Unions, Unions, NoUnionV, Both),
    Sent(Unions, Unions, <<NullUnion(0, 7), ArrayV(<<>>)>>, {"C"}),
    Sent(Interfaces, Interfaces, <<ArrayV(<<HandleV(1), HandleV(2)>>)>>, Both),
    \* a handle that is missing, in a struct and in a fixed array
    Sent(Nested(Inner), Nested(Inner), <<ArrayV(<<StructV(0, <<Null, Null>>)>>), inner(1, Null)>>, {"Cpp"}),
    Sent(Mapped, Mapped, <<MapV(ArrayV(<<Bytes(1)>>), ArrayV(<<ArrayV(<<HandleV(1)>>)>>)), HandleV(2)>>, {"Cpp"}),
    Control(Cpp!kRunMessageId, "request", Cpp!RunMessageParams),
    Control(Cpp!kRunMessageId, "response", Cpp!RunResponseMessageParams),
    Control(Cpp!kRunOrClosePipeMessageId, "oneway", Cpp!RunOrClosePipeMessageParams) >>

AllCases == FixedCases \o HeldCases

AllDamage == {0, 1, 2, 3, 8, 16, 24, 28, 32, 40, EncodedHandleInvalid}
=============================================================================
