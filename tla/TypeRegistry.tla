---------------------------- MODULE TypeRegistry -----------------------------
(***************************************************************************)
(* value::Type: a description of a C++ type in an array of bytes, interned *)
(* in one set for the whole program, so that equal types are equal         *)
(* pointers.  A description holds the pointers of the descriptions of the  *)
(* component types, and the accessors that were made for the C++ type which *)
(* was asked for first.                                                    *)
(***************************************************************************)
EXTENDS CxxTypes

CONSTANTS Asked,        \* the C++ types the program asks for
          MaxSize,      \* Type::max_size
          PtrSize,      \* sizeof(void*)
          Heap          \* the first address that a description may get

VARIABLES interned,     \* descriptions in the order they were made
          answers       \* what Type::of returned for each type asked for

registryVars == <<interned, answers>>

AggregateIds == <<"Array", "Custom", "Enum", "Path", "Scalar", "Set", "String",
                  "Strong", "Struct", "Tuple", "Vector">>
ScalarIds == <<"Bool", "Byte", "F32", "F64", "I8", "I16", "I32", "I64",
               "U8", "U16", "U32", "U64">>
StringIds == <<"String", "StringView">>
SetIds == <<"EnumFlags">>

\* The value of an enumerator: its place, counted from 0.
IdOf(ids, name) == (CHOOSE i \in DOMAIN ids : ids[i] = name) - 1

-----------------------------------------------------------------------------
\* Addresses: descriptions one after the other, the static arrays of names
\* (one per struct, enumeration or custom type) far behind them.
AddressOf(k) == Heap + PtrSize * k
At(address) == (address - Heap) \div PtrSize
NamesAddress(t) == Heap + PtrSize * (100 + t.tag)
\* Mutant: structs are described without the names of their fields.
HasNamesNoStruct(t) == t.agg \in {"Enum", "Custom"}
HasNames(t) == t.agg \in {"Enum", "Struct", "Custom"}

\* What each overload of Type::of passes as `init`.
InitBytes(t) ==
  <<IdOf(AggregateIds, t.agg)>> \o
  CASE t.agg = "Scalar" -> <<IdOf(ScalarIds, t.id)>>
    [] t.agg = "String" -> <<IdOf(StringIds, t.id)>>
    [] t.agg = "Set" -> <<IdOf(SetIds, t.id)>>
    [] t.agg = "Array" -> <<t.n>>
    [] t.agg \in {"Tuple", "Struct"} -> <<Len(t.bases)>>
    [] t.agg \in {"Enum", "Custom"} -> <<t.tag>>
    [] OTHER -> <<>>

\* Mutant: a struct is described by its fields themselves.
BaseTypesFlat(t) == t.bases
\* ... and as `bases`: a struct is described by the tuple of its fields.
BaseTypes(t) == IF t.agg = "Struct" THEN <<TupleType(t.bases)>> ELSE t.bases

PtrAlign(index) == ((index + PtrSize - 1) \div PtrSize) * PtrSize
\* Little-endian; addresses here are below 2^16.
ByteOf(address, k) == IF k < 2 THEN (address \div 256 ^ k) % 256 ELSE 0

\* The constructor: the size, the init bytes, and behind padding the pointers.
Storage(t, bases) ==
  LET init == InitBytes(t)
      start == PtrAlign(1 + Len(init))
      pointers == bases \o IF HasNames(t) THEN <<NamesAddress(t)>> ELSE <<>>
      size == start + PtrSize * Len(pointers)
  IN [i \in 0 .. MaxSize - 1 |->
        CASE i = 0 -> size
          [] i \in 1 .. Len(init) -> init[i]
          [] i \in start .. size - 1 ->
               ByteOf(pointers[(i - start) \div PtrSize + 1], (i - start) % PtrSize)
          [] OTHER -> 0]

SizeOf(t) == PtrAlign(1 + Len(InitBytes(t)))
             + PtrSize * (Len(BaseTypes(t)) + IF HasNames(t) THEN 1 ELSE 0)

\* The constructor asserts that a description fits.
ASSUME RegistryAssumption ==
  /\ MaxSize \in Nat /\ PtrSize \in Nat \ {0} /\ Heap \in Nat \ {0}
  /\ \A t \in Asked : SizeOf(t) <= MaxSize

\* Mutant: every description is stored, known or not.
InternAlways(types, t, bases) ==
  [types |-> Append(types, [storage |-> Storage(t, bases), access |-> t]),
   pointer |-> AddressOf(Len(types) + 1)]

\* Type::intern: the set keeps the first description of equal ones, and only
\* a new one gets accessors.
Intern(types, t, bases) ==
  LET storage == Storage(t, bases)
      known == {k \in DOMAIN types : types[k].storage = storage}
  IN IF known # {}
     THEN [types |-> types, pointer |-> AddressOf(CHOOSE k \in known : TRUE)]
     ELSE [types |-> Append(types, [storage |-> storage, access |-> t]),
           pointer |-> AddressOf(Len(types) + 1)]

\* Type::of asks for the components first, from left to right.
RECURSIVE Of(_, _), OfEach(_, _)
Of(types, t) ==
  LET bases == OfEach(types, BaseTypes(t)) IN Intern(bases.types, t, bases.pointers)
OfEach(types, ts) ==
  IF ts = <<>> THEN [types |-> types, pointers |-> <<>>]
  ELSE LET first == Of(types, Head(ts))
           rest == OfEach(first.types, Tail(ts))
       IN [types |-> rest.types, pointers |-> <<first.pointer>> \o rest.pointers]

-----------------------------------------------------------------------------
\* The views ArrayT ... VectorT: what they read from the bytes at an address.
BytesAt(address) == interned[At(address)].storage
AggregateAt(address) == AggregateIds[BytesAt(address)[1] + 1]
CountAt(address) == BytesAt(address)[2]
PointerAt(address, index) ==
  LET b == BytesAt(address)
  IN IF \A k \in 2 .. PtrSize - 1 : b[index + k] = 0
     THEN b[index] + 256 * b[index + 1] ELSE 0

ElementTypeAt(address) ==
  PointerAt(address, PtrAlign(IF AggregateAt(address) \in {"Vector", "Strong"} THEN 2 ELSE 3))
ElementTypesAt(address) ==
  [i \in 1 .. CountAt(address) |-> PointerAt(address, PtrAlign(3) + PtrSize * (i - 1))]
TupleTypeAt(address) == PointerAt(address, PtrAlign(3))
NamesAt(address) ==
  PointerAt(address, PtrAlign(3) + IF AggregateAt(address) = "Struct" THEN PtrSize ELSE 0)

\* What the printer says of the type at an address, visiting by aggregate.
Described(agg, id, n, bases, names) ==
  [agg |-> agg, id |-> id, n |-> n, bases |-> bases, names |-> names]

RECURSIVE PrintType(_)
PrintType(address) ==
  LET agg == AggregateAt(address)
      id == CountAt(address) + 1
  IN CASE agg = "Array" -> Described(agg, agg, CountAt(address), <<PrintType(ElementTypeAt(address))>>, 0)
       [] agg \in {"Vector", "Strong"} -> Described(agg, agg, 0, <<PrintType(ElementTypeAt(address))>>, 0)
       [] agg = "Set" -> Described(agg, SetIds[id], 0, <<PrintType(ElementTypeAt(address))>>, 0)
       [] agg = "Tuple" ->
            Described(agg, agg, 0, [i \in DOMAIN ElementTypesAt(address) |-> PrintType(ElementTypesAt(address)[i])], 0)
       [] agg = "Struct" ->
            Described(agg, agg, 0, PrintType(TupleTypeAt(address)).bases, NamesAt(address))
       [] agg = "Scalar" -> Described(agg, ScalarIds[id], 0, <<>>, 0)
       [] agg = "String" -> Described(agg, StringIds[id], 0, <<>>, 0)
       [] agg = "Path" -> Described(agg, agg, 0, <<>>, 0)
       [] OTHER -> Described(agg, agg, CountAt(address), <<>>, NamesAt(address))

-----------------------------------------------------------------------------
RegistryInit ==
  /\ interned = <<>>
  /\ answers = [t \in {} |-> 0]

Ask(t) ==
  LET of == Of(interned, t) IN
  /\ interned' = of.types
  /\ answers' = [u \in DOMAIN answers \union {t} |-> IF u = t THEN of.pointer ELSE answers[u]]

RegistryNext == \E t \in Asked : Ask(t)

-----------------------------------------------------------------------------
\* What should be printed for a type: its declaration, without the tag of a
\* strong type, which a description does not hold.
RECURSIVE Declared(_)
Declared(t) ==
  Described(t.agg, t.id, IF t.agg \in {"Enum", "Custom"} THEN t.tag ELSE t.n,
            [i \in DOMAIN t.bases |-> Declared(t.bases[i])],
            IF HasNames(t) THEN NamesAddress(t) ELSE 0)

\* Every answer describes the type asked for, through however many pointers:
\* nothing that the constructor lays out is overlapped, misaligned or read
\* back from elsewhere (Type::Type against the views).
AnswersDescribe == \A t \in DOMAIN answers : PrintType(answers[t]) = Declared(t)

\* Two C++ types have one description only if they are declared alike, and a
\* description is never made twice, in whatever order the types and their
\* components are asked for (Type::intern).
OneDescription ==
  /\ \A t, u \in DOMAIN answers : answers[t] = answers[u] <=> Declared(t) = Declared(u)
  /\ \A k, l \in DOMAIN interned : interned[k].storage = interned[l].storage => k = l

\* The accessors behind an answer are those of the type asked for: a Value of
\* the type is taken apart as what it is (Type::intern, value_component_access).
AccessorsFit == \A t \in DOMAIN answers : interned[At(answers[t])].access = t

\* A pointer stands for a type: for all of it and for no other.
TypesDescribed == AnswersDescribe /\ OneDescription /\ AccessorsFit
=============================================================================
