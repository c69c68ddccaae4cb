------------------------------ MODULE CxxTypes ------------------------------
(***************************************************************************)
(* The C++ types that mpk::mix::value knows, as terms, and the values they *)
(* have.  All terms have the same fields, so that any two of them can be   *)
(* compared: the aggregate, the identifier of a leaf or an enumeration,    *)
(* the element count of an array, the component types, the names of fields *)
(* or enumerators, the values of enumerators, and a tag that tells apart   *)
(* types which are declared alike.                                         *)
(***************************************************************************)
EXTENDS Integers, Sequences, FiniteSets

CxxType(agg, id, n, bases, names, values, tag) ==
  [agg |-> agg, id |-> id, n |-> n, bases |-> bases,
   names |-> names, values |-> values, tag |-> tag]

Scalar(id) == CxxType("Scalar", id, 0, <<>>, <<>>, <<>>, 0)
Text(id) == CxxType("String", id, 0, <<>>, <<>>, <<>>, 0)
PathType == CxxType("Path", "Path", 0, <<>>, <<>>, <<>>, 0)
CustomType(tag) == CxxType("Custom", "Custom", 0, <<>>, <<>>, <<>>, tag)
EnumType(tag, names, values) == CxxType("Enum", "Enum", 0, <<>>, names, values, tag)
FlagsOf(enum) == CxxType("Set", "EnumFlags", 0, <<enum>>, <<>>, <<>>, 0)
StrongType(tag, weak) == CxxType("Strong", "Strong", 0, <<weak>>, <<>>, <<>>, tag)
VectorOf(type) == CxxType("Vector", "Vector", 0, <<type>>, <<>>, <<>>, 0)
ArrayOf(n, type) == CxxType("Array", "Array", n, <<type>>, <<>>, <<>>, 0)
TupleType(types) == CxxType("Tuple", "Tuple", 0, types, <<>>, <<>>, 0)
StructType(tag, names, types) == CxxType("Struct", "Struct", 0, types, names, <<>>, tag)

\* What only the documents of mpk::mix::serial hold: optional values, variants
\* (with the type names of their alternatives), maps, bounded strings.
OptionalOf(type) == CxxType("Optional", "Optional", 0, <<type>>, <<>>, <<>>, 0)
VariantOf(names, types) == CxxType("Variant", "Variant", 0, types, names, <<>>, 0)
MapOf(key, mapped) == CxxType("Map", "Map", 0, <<key, mapped>>, <<>>, <<>>, 0)
FixedText(n) == CxxType("String", "FixedLengthString", n, <<>>, <<>>, <<>>, 0)

\* No type: what an empty Value has.
NoType == CxxType("None", "None", 0, <<>>, <<>>, <<>>, 0)

\* A value: a number (scalars, enumerations), a text (strings), its elements
\* (vectors, arrays, tuples, fields, items of a path) and its members (flags, and the
\* entries [key, mapped] of a map).  A variant has the place of its
\* alternative as number and the alternative as only element; an optional has
\* one element or none.
Data(n, s, e, k) == [n |-> n, s |-> s, e |-> e, k |-> k]
Number(n) == Data(n, "", <<>>, {})
String(s) == Data(0, s, <<>>, {})
Elements(e) == Data(0, "", e, {})
Members(k) == Data(0, "", <<>>, k)
NoData == Number(0)
\* The name in an item of a path may also view a text that lives elsewhere.
View(s) == Data(0, s, <<NoData>>, {})

\* An item of a path into a value or a document: an index or a name.
ByIndex(index) == [isIndex |-> TRUE, index |-> index, name |-> ""]
ByName(name) == [isIndex |-> FALSE, index |-> 0, name |-> name]

\* T{} for each type: ValueComponentAccessImpl::make_data.
RECURSIVE Default(_)
Default(t) ==
  CASE t.agg = "Strong" -> Default(t.bases[1])
    [] t.agg = "Array" -> Elements([i \in 1 .. t.n |-> Default(t.bases[1])])
    [] t.agg \in {"Tuple", "Struct"} -> Elements([i \in DOMAIN t.bases |-> Default(t.bases[i])])
    [] t.agg = "Variant" -> Data(1, "", <<Default(t.bases[1])>>, {})
    [] OTHER -> NoData

\* The numbers of the integral types.
RangeOf(id) ==
  CASE id = "Bool" -> 0 .. 1
    [] id = "U8" -> 0 .. 255
    [] id = "I8" -> -128 .. 127
    [] OTHER -> -32768 .. 32767

\* d is a value of type t.
RECURSIVE Conforms(_, _)
Conforms(t, d) ==
  CASE t.agg = "Strong" -> Conforms(t.bases[1], d)
    [] t.agg = "Scalar" -> d = Number(d.n) /\ d.n \in RangeOf(t.id)
    [] t.agg = "Enum" -> d = Number(d.n)
    [] t.agg = "String" -> d = String(d.s)
    [] t.agg = "Path" -> d = Elements(d.e) /\ \A i \in DOMAIN d.e : d.e[i] \in {Number(d.e[i].n), String(d.e[i].s), View(d.e[i].s)}
    [] t.agg = "Custom" -> d = Number(d.n)
    [] t.agg = "Set" -> d = Members(d.k) /\ d.k \subseteq {t.bases[1].values[i] : i \in DOMAIN t.bases[1].values}
    [] t.agg = "Vector" -> d = Elements(d.e) /\ \A i \in DOMAIN d.e : Conforms(t.bases[1], d.e[i])
    [] t.agg = "Array" -> d = Elements(d.e) /\ Len(d.e) = t.n /\ \A i \in DOMAIN d.e : Conforms(t.bases[1], d.e[i])
    [] t.agg = "Optional" -> d = Elements(d.e) /\ Len(d.e) <= 1 /\ \A i \in DOMAIN d.e : Conforms(t.bases[1], d.e[i])
    [] t.agg = "Variant" ->
         d.n \in DOMAIN t.bases /\ d = Data(d.n, "", <<d.e[1]>>, {}) /\ Conforms(t.bases[d.n], d.e[1])
    [] t.agg = "Map" ->
         /\ d = Members(d.k)
         /\ \A x \in d.k : Conforms(t.bases[1], x.key) /\ Conforms(t.bases[2], x.mapped)
         /\ \A x, y \in d.k : x.key = y.key => x = y
    [] t.agg \in {"Tuple", "Struct"} ->
         d = Elements(d.e) /\ Len(d.e) = Len(t.bases) /\ \A i \in DOMAIN d.e : Conforms(t.bases[i], d.e[i])
    [] OTHER -> d = NoData
=============================================================================
