----------------------------- MODULE DocReader -------------------------------
(***************************************************************************)
(* mpk::mix::serial::json and ::yaml: a document is read into a C++ object *)
(* whose type leads the way, in place, and written from one.  The two      *)
(* formats share their shape and differ in what a node answers.            *)
(*                                                                         *)
(* Reading comes to [err, path, data]: how it failed (none; at, an error   *)
(* that names the path; bare, one that does not), the path, and what the   *)
(* object holds then, also after a failure.                                *)
(*                                                                         *)
(* First the nodes of a parsed document, as nlohmann::json and yaml-cpp    *)
(* hand them over.  A dictionary is the sequence of its pairs in the order *)
(* of iteration.                                                           *)
(***************************************************************************)
EXTENDS CxxTypes, TLC

CONSTANT Numerals       \* texts that start with a number: text |-> [n, rest]

Node(kind, n, s, e, m) == [kind |-> kind, n |-> n, s |-> s, e |-> e, m |-> m]
Null == Node("null", 0, "", <<>>, <<>>)
Num(n) == Node("number", n, "", <<>>, <<>>)
Bool(n) == Node("bool", n, "", <<>>, <<>>)
Str(s) == Node("text", 0, s, <<>>, <<>>)
List(e) == Node("sequence", 0, "", e, <<>>)
Dict(m) == Node("dict", 0, "", <<>>, m)
\* What indexing yields where there is nothing: an invalid node in YAML, an
\* exception in JSON.
NoNode == Node("none", 0, "", <<>>, <<>>)

IsScalar(node) == node.kind \in {"number", "bool", "text"}
KeysOf(node) == {node.m[i][1] : i \in DOMAIN node.m}
\* The value of the first pair with this key.
ValueAt(node, key) ==
  LET places == {i \in DOMAIN node.m : node.m[i][1] = key}
  IN node.m[CHOOSE i \in places : \A j \in places : i <= j][2]
Repeats(node) == Cardinality(KeysOf(node)) < Len(node.m)

\* nlohmann::json keeps one of equal keys, yaml-cpp all.
RECURSIVE KeysUnique(_)
KeysUnique(node) ==
  /\ ~Repeats(node)
  /\ \A i \in DOMAIN node.e : KeysUnique(node.e[i])
  /\ \A i \in DOMAIN node.m : KeysUnique(node.m[i][2])

\* node.as<std::string>() in YAML: the text of a scalar; an empty node says null.
TextOf(node) ==
  CASE node.kind = "text" -> {node.s}
    [] node.kind = "number" -> {ToString(node.n)}
    [] node.kind = "null" -> {"null"}
    [] node.kind = "bool" -> {IF node.n = 1 THEN "true" ELSE "false"}
    [] OTHER -> {}

-----------------------------------------------------------------------------
\* Reading one value from a text: what it is when it is accepted, and what
\* the target holds when it is not.  from_chars stores a number before the
\* characters behind it are found to be too many.
Accepted(d) == [ok |-> TRUE, data |-> d]
Refused(d) == [ok |-> FALSE, data |-> d]

\* parse_int, parse_as_decimal
SimpleNumber(id, old, text) ==
  CASE text \notin DOMAIN Numerals \/ Numerals[text].n \notin RangeOf(id) -> Refused(old)
    [] Numerals[text].rest # "" -> Refused(Number(Numerals[text].n))
    [] OTHER -> Accepted(Number(Numerals[text].n))

\* parse_bool
SimpleBool(old, text) ==
  CASE text = "true" -> Accepted(Number(1))
    [] text = "false" -> Accepted(Number(0))
    [] OTHER -> Refused(old)

\* enum_cast
SimpleEnum(t, old, text) ==
  LET places == {i \in DOMAIN t.names : t.names[i] = text}
  IN IF places = {} THEN Refused(old)
     ELSE Accepted(Number(t.values[CHOOSE i \in places : TRUE]))

RECURSIVE SimpleValue(_, _, _)
SimpleValue(t, old, text) ==
  CASE t.agg = "Strong" -> SimpleValue(t.bases[1], old, text)
    [] t = Scalar("Bool") -> SimpleBool(old, text)
    [] t.agg = "Scalar" -> SimpleNumber(t.id, old, text)
    [] t.agg = "Enum" -> SimpleEnum(t, old, text)
    [] t.id = "FixedLengthString" /\ Len(text) > t.n -> Refused(old)
    [] OTHER -> Accepted(String(text))

-----------------------------------------------------------------------------
VARIABLE format         \* "json" or "yaml"

IsJson == format = "json"
Done(d) == [err |-> "none", path |-> <<>>, data |-> d]
FailedAt(path, d) == [err |-> "at", path |-> path, data |-> d]
Bare(d) == [err |-> "bare", path |-> <<>>, data |-> d]

\* node.size(): in JSON a scalar counts as one.
NodeSize(node) ==
  CASE node.kind = "sequence" -> Len(node.e)
    [] node.kind = "dict" -> Len(node.m)
    [] IsJson /\ IsScalar(node) -> 1
    [] OTHER -> 0

\* node[i]
ElementOf(node, i) == IF node.kind = "sequence" THEN node.e[i] ELSE NoNode

\* What an optional takes for nothing.
MeansNone(node) ==
  \/ node = Null
  \/ IsJson /\ node \in {List(<<>>), Dict(<<>>)}
  \/ "none" \in (IF IsJson THEN {node.s} ELSE TextOf(node))

\* nlohmann's get_to into an arithmetic type casts the number.
Wrapped(id, n) ==
  CASE id = "U8" -> n % 256
    [] id = "I8" -> ((n + 128) % 256) - 128
    [] OTHER -> n

RECURSIVE IsNumeric(_)
IsNumeric(t) == t.agg = "Scalar" \/ (t.agg = "Strong" /\ IsNumeric(t.bases[1]))
RECURSIVE LeafId(_)
LeafId(t) == IF t.agg = "Strong" THEN LeafId(t.bases[1]) ELSE t.id
JsonNumber(t, old, node) ==
  CASE LeafId(t) = "Bool" /\ node.kind = "bool" -> Accepted(Number(node.n))
    [] LeafId(t) # "Bool" /\ (node.kind = "number" \/ (node.kind = "bool" /\ LeafId(t) \notin {"I64", "U64"})) ->
         Accepted(Number(Wrapped(LeafId(t), node.n)))
    [] OTHER -> Refused(old)

IsSimple(t) == t.agg \in {"Scalar", "Strong", "String", "Enum"}
ReadSimple(t, old, node, path) ==
  LET texts == IF IsJson /\ node.kind # "text" THEN {} ELSE TextOf(node)
      read == CASE IsJson /\ IsNumeric(t) -> JsonNumber(t, old, node)
                [] texts = {} -> Refused(old)
                [] OTHER -> SimpleValue(t, old, CHOOSE s \in texts : TRUE)
  IN IF read.ok THEN Done(read.data) ELSE FailedAt(path, read.data)

\* check_field_names: every field, and no other; YAML's also sees repetitions.
FieldsNamed(t, node) == node.kind = "dict" /\ KeysOf(node) = {t.names[i] : i \in DOMAIN t.names}
FieldsFit(t, node) == FieldsNamed(t, node) /\ (IsJson \/ ~Repeats(node))

\* check_variant_fields: two pairs, which in YAML may have one key.
OnlyTypeAndValue(node) == node.kind = "dict" /\ KeysOf(node) \subseteq {"type", "value"}
VariantFieldsFit(node) == OnlyTypeAndValue(node) /\ Len(node.m) = 2

\* check_variant_type
Alternatives(t, name) == {i \in DOMAIN t.names : t.names[i] = name}
IsAlternative(t, name) == Cardinality(Alternatives(t, name)) = 1

\* with_child_node fails at the parent where the child is missing.
HasChild(node, name) == name \in KeysOf(node)

\* node_keys, in the order of the pairs; equal ones are all there.
NodeKeys(node) == [i \in DOMAIN node.m |-> node.m[i][1]]

-----------------------------------------------------------------------------
RECURSIVE ReadNode(_, _, _, _), ReadParts(_, _), ReadEntries(_, _, _, _)

\* Parts [type, old, node, path] one after the other, up to the first that
\* fails: data is the sequence of what was read, that one included.
ReadParts(parts, path) ==
  IF parts = <<>> THEN Done(<<>>)
  ELSE LET part == Head(parts)
           first == ReadNode(part.type, part.old, part.node, Append(path, part.key))
           rest == ReadParts(Tail(parts), path)
       IN IF first.err # "none" THEN [first EXCEPT !.data = <<first.data>>]
          ELSE [rest EXCEPT !.data = <<first.data>> \o @]
Part(type, old, node, key) == [type |-> type, old |-> old, node |-> node, key |-> key]

\* Fields and tuple elements that were not reached keep what they held.
Over(old, read) ==
  [read EXCEPT !.data = Elements(@ \o SubSeq(old.e, Len(@) + 1, Len(old.e)))]

\* Fields in the order of the struct, whatever the order of the document.
FieldParts(t, old, node) ==
  [i \in DOMAIN t.names |-> Part(t.bases[i], old.e[i], ValueAt(node, t.names[i]), ByName(t.names[i]))]
\* Mutant: the fields are read into a new object.
ReadStructFresh(t, old, node, path) ==
  IF ~FieldsFit(t, node) THEN FailedAt(path, old)
  ELSE Over(Default(t), ReadParts(FieldParts(t, Default(t), node), path))
ReadStruct(t, old, node, path) ==
  IF ~FieldsFit(t, node) THEN FailedAt(path, old)
  ELSE Over(old, ReadParts(FieldParts(t, old, node), path))

TupleTypes(t) == IF t.agg = "Array" THEN [i \in 1 .. t.n |-> t.bases[1]] ELSE t.bases
TupleParts(t, old, node) ==
  [i \in DOMAIN TupleTypes(t) |-> Part(TupleTypes(t)[i], old.e[i], ElementOf(node, i), ByIndex(i - 1))]
ReadTuple(t, old, node, path) ==
  IF NodeSize(node) # Len(TupleTypes(t)) THEN FailedAt(path, old)
  ELSE Over(old, ReadParts(TupleParts(t, old, node), path))

\* Mutant: the index in errors does not move on.
ElementPartsUncounted(t, node) ==
  [i \in 1 .. NodeSize(node) |-> Part(t.bases[1], Default(t.bases[1]), ElementOf(node, i), ByIndex(0))]

\* A vector is cleared, then grows by one element before each is read.
ElementParts(t, node) ==
  [i \in 1 .. NodeSize(node) |-> Part(t.bases[1], Default(t.bases[1]), ElementOf(node, i), ByIndex(i - 1))]
ReadVector(t, node, path) ==
  LET read == ReadParts(ElementParts(t, node), path) IN [read EXCEPT !.data = Elements(@)]

ReadOptional(t, node, path) ==
  IF MeansNone(node) THEN Done(Elements(<<>>))
  ELSE LET read == ReadNode(t.bases[1], Default(t.bases[1]), node, path)
       IN [read EXCEPT !.data = Elements(<<@>>)]

\* The alternative of that name, in an object of its own; the variant gets it
\* when it is whole.
ReadAlternative(t, old, i, node, path) ==
  LET read == ReadNode(t.bases[i], Default(t.bases[i]), ValueAt(node, "value"), Append(path, ByName("value")))
  IN IF read.err = "none" THEN Done(Data(i, "", <<read.data>>, {})) ELSE [read EXCEPT !.data = old]

\* The type is read first, then the value.
ReadVariant(t, old, node, path) ==
  LET name == ReadNode(Text("String"), String(""), ValueAt(node, "type"), Append(path, ByName("type")))
  IN CASE ~VariantFieldsFit(node) \/ ~HasChild(node, "type") -> FailedAt(path, old)
       [] name.err # "none" -> [name EXCEPT !.data = old]
       [] ~IsAlternative(t, name.data.s) -> FailedAt(Append(path, ByName("type")), old)
       [] ~HasChild(node, "value") -> FailedAt(path, old)
       [] OTHER -> ReadAlternative(t, old, CHOOSE i \in Alternatives(t, name.data.s) : TRUE, node, path)

\* Mutants: an entry replaces the one with its key; both are kept.
EmplacedOver(entries, key, mapped) ==
  {x \in entries : x.key # key} \union {[key |-> key, mapped |-> mapped]}
EmplacedTwice(entries, key, mapped) == entries \union {[key |-> key, mapped |-> mapped]}

\* Entries are added one after the other; one that is there stays (emplace).
\* A key that cannot be read is reported without a path.
Emplaced(entries, key, mapped) ==
  IF \E x \in entries : x.key = key THEN entries
  ELSE entries \union {[key |-> key, mapped |-> mapped]}
ReadEntries(t, old, pairs, path) ==
  IF pairs = <<>> THEN Done(old)
  ELSE LET name == Head(pairs)[1]
           key == SimpleValue(t.bases[1], Default(t.bases[1]), name)
           mapped == ReadNode(t.bases[2], Default(t.bases[2]), Head(pairs)[2], Append(path, ByName(name)))
       IN CASE ~key.ok -> Bare(old)
            [] mapped.err # "none" -> [mapped EXCEPT !.data = old]
            [] OTHER -> ReadEntries(t, Members(Emplaced(old.k, key.data, mapped.data)), Tail(pairs), path)

\* The keys, and the value that each leads to.
ReadMap(t, old, node, path) ==
  IF node.kind # "dict" THEN FailedAt(path, old)
  ELSE ReadEntries(t, old, [i \in DOMAIN node.m |-> <<NodeKeys(node)[i], ValueAt(node, NodeKeys(node)[i])>>], path)

ReadNode(t, old, node, path) ==
  CASE node = NoNode /\ (IsJson \/ ~IsSimple(t)) -> Bare(old)
    [] IsSimple(t) -> ReadSimple(t, old, node, path)
    [] t.agg = "Struct" -> ReadStruct(t, old, node, path)
    [] t.agg \in {"Tuple", "Array"} -> ReadTuple(t, old, node, path)
    [] t.agg = "Vector" -> ReadVector(t, node, path)
    [] t.agg = "Optional" -> ReadOptional(t, node, path)
    [] t.agg = "Variant" -> ReadVariant(t, old, node, path)
    [] t.agg = "Map" -> ReadMap(t, old, node, path)

-----------------------------------------------------------------------------
\* to_json, to_yaml
\* Mutant: the value of an enumerator is taken for its place.
NameOfEnumAtPlace(t, n) == IF n + 1 \in DOMAIN t.names THEN t.names[n + 1] ELSE ""
NameOfEnum(t, n) ==
  LET places == {i \in DOMAIN t.values : t.values[i] = n}
  IN IF places = {} THEN "" ELSE t.names[CHOOSE i \in places : TRUE]

Printed(t, d) ==
  CASE t.agg = "Enum" -> NameOfEnum(t, d.n)
    [] t.agg = "Scalar" -> ToString(d.n)
    [] OTHER -> d.s

RECURSIVE Written(_, _)
WrittenParts(types, parts) == [i \in DOMAIN parts |-> Written(types[i], parts[i])]
WrittenMap(t, entries) ==
  LET order == CHOOSE q \in [1 .. Cardinality(entries) -> entries] : \A i, j \in DOMAIN q : q[i] = q[j] => i = j
  IN IF IsJson /\ entries = {} THEN Null
     ELSE Dict([i \in DOMAIN order |->
                  <<Printed(t.bases[1], order[i].key), Written(t.bases[2], order[i].mapped)>>])
WrittenNumber(t, d) == IF t.id = "Bool" THEN Bool(d.n) ELSE Num(d.n)
WrittenFields(t, d) == Dict([i \in DOMAIN t.names |-> <<t.names[i], Written(t.bases[i], d.e[i])>>])
WrittenElements(t, d) == List([i \in DOMAIN d.e |-> Written(t.bases[1], d.e[i])])
WrittenOptional(t, d) == IF d.e = <<>> THEN Null ELSE Written(t.bases[1], d.e[1])
WrittenVariant(t, d) == Dict(<<<<"type", Str(t.names[d.n])>>, <<"value", Written(t.bases[d.n], d.e[1])>>>>)
Written(t, d) ==
  CASE t.agg = "Scalar" -> WrittenNumber(t, d)
    [] t.agg = "Strong" -> Written(t.bases[1], d)
    [] t.agg \in {"String", "Enum"} -> Str(Printed(t, d))
    [] t.agg = "Struct" -> WrittenFields(t, d)
    [] t.agg \in {"Tuple", "Array"} -> List(WrittenParts(TupleTypes(t), d.e))
    [] t.agg = "Vector" -> WrittenElements(t, d)
    [] t.agg = "Optional" -> WrittenOptional(t, d)
    [] t.agg = "Variant" -> WrittenVariant(t, d)
    [] t.agg = "Map" -> WrittenMap(t, d.k)
=============================================================================
