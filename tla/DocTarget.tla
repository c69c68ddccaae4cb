----------------------------- MODULE DocTarget -------------------------------
(***************************************************************************)
(* An object that documents are read into, one after the other, and that   *)
(* is written to documents.                                                *)
(***************************************************************************)
EXTENDS ValueDocs

CONSTANT Samples        \* the documents read into objects of each type

VARIABLES schema,       \* the type of the object
          target,       \* the object
          document      \* the last document written

docVars == <<format, schema, target, document>>

Incoming == {node \in Samples[schema] \union {document} : IsJson => KeysUnique(node)}

\* parse_value(value, node): in place, up to where it fails.
ReadInto(node) ==
  /\ target' = ReadNode(schema, target, node, <<>>).data
  /\ UNCHANGED <<format, schema, document>>

\* parse_value(node, Type<T>): a new object, if it does not fail.
ReadNew(node) ==
  LET read == ReadNode(schema, Default(schema), node, <<>>) IN
  /\ read.err = "none"
  /\ target' = read.data
  /\ UNCHANGED <<format, schema, document>>

Write ==
  /\ document' = Written(schema, target)
  /\ UNCHANGED <<format, schema, target>>

DocInit ==
  /\ format \in {"json", "yaml"}
  /\ schema \in DOMAIN Samples
  /\ target = Default(schema)
  /\ document = Null

DocNext ==
  \/ \E node \in Incoming : ReadInto(node) \/ ReadNew(node)
  \/ Write

-----------------------------------------------------------------------------
\* What a document means, whatever the order in which it is read: the set of
\* the values it denotes, one or none.
RECURSIVE Meaning(_, _)
Product(sets) == {f \in [DOMAIN sets -> UNION {sets[i] : i \in DOMAIN sets}] : \A i \in DOMAIN sets : f[i] \in sets[i]}
MeaningOfMap(t, node) ==
  LET keyOf(i) == SimpleValue(t.bases[1], NoData, node.m[i][1])
      mapped == [i \in DOMAIN node.m |-> Meaning(t.bases[2], ValueAt(node, node.m[i][1]))]
      first(i) == \A j \in 1 .. i - 1 : keyOf(j).data # keyOf(i).data
  IN IF node.kind # "dict" \/ \E i \in DOMAIN node.m : ~keyOf(i).ok THEN {}
     ELSE {Members({[key |-> keyOf(i).data, mapped |-> f[i]] : i \in {j \in DOMAIN f : first(j)}}) : f \in Product(mapped)}
Meaning(t, node) ==
  CASE IsSimple(t) ->
         LET read == ReadSimple(t, NoData, node, <<>>) IN IF read.err = "none" THEN {read.data} ELSE {}
    [] t.agg = "Struct" ->
         IF ~FieldsFit(t, node) THEN {}
         ELSE {Elements(f) : f \in Product([i \in DOMAIN t.names |-> Meaning(t.bases[i], ValueAt(node, t.names[i]))])}
    [] t.agg \in {"Tuple", "Array"} ->
         IF node.kind # "sequence" \/ Len(node.e) # Len(TupleTypes(t)) THEN {}
         ELSE {Elements(f) : f \in Product([i \in DOMAIN node.e |-> Meaning(TupleTypes(t)[i], node.e[i])])}
    [] t.agg = "Vector" ->
         IF NodeSize(node) > Len(node.e) THEN {}
         ELSE {Elements(f) : f \in Product([i \in DOMAIN node.e |-> Meaning(t.bases[1], node.e[i])])}
    [] t.agg = "Optional" ->
         IF MeansNone(node) THEN {Elements(<<>>)} ELSE {Elements(<<d>>) : d \in Meaning(t.bases[1], node)}
    [] t.agg = "Variant" ->
         IF ~VariantFieldsFit(node) \/ Repeats(node) THEN {}
         ELSE {Data(i, "", <<d>>, {}) : <<i, d>> \in
                 UNION {{<<i, d>> : d \in Meaning(t.bases[i], ValueAt(node, "value"))} :
                        i \in {j \in DOMAIN t.names : Meaning(Text("String"), ValueAt(node, "type")) = {String(t.names[j])}}}}
    [] t.agg = "Map" -> MeaningOfMap(t, node)

\* Maps inside an object are new ones; only the object itself may be a map
\* that has entries, and those win.
MeantFor(t, old, meant) ==
  IF t.agg = "Map"
  THEN Members(old.k \union {x \in meant.k : \A y \in old.k : y.key # x.key})
  ELSE meant

\* Where a path leads in a type and a document read as that type; below a
\* variant the type names are the enumerators of "type".
RECURSIVE Walk(_, _, _)
Below(t, node, item) ==
  CASE t.agg = "Struct" ->
         [type |-> t.bases[CHOOSE i \in DOMAIN t.names : t.names[i] = item.name], node |-> ValueAt(node, item.name)]
    [] t.agg \in {"Tuple", "Array"} -> [type |-> TupleTypes(t)[item.index + 1], node |-> ElementOf(node, item.index + 1)]
    [] t.agg = "Vector" -> [type |-> t.bases[1], node |-> ElementOf(node, item.index + 1)]
    [] t.agg = "Map" -> [type |-> t.bases[2], node |-> ValueAt(node, item.name)]
    [] item = ByName("type") ->
         [type |-> EnumType(0, t.names, [i \in DOMAIN t.names |-> i]), node |-> ValueAt(node, "type")]
    [] OTHER ->
         [type |-> t.bases[CHOOSE i \in DOMAIN t.names : {t.names[i]} = TextOf(ValueAt(node, "type"))],
          node |-> ValueAt(node, "value")]
Walk(t, node, path) ==
  IF t.agg = "Optional" THEN Walk(t.bases[1], node, path)
  ELSE IF path = <<>> THEN [type |-> t, node |-> node]
  ELSE LET next == Below(t, node, Head(path)) IN Walk(next.type, next.node, Tail(path))

\* The node itself is at fault, not one below it.
Misfit(t, node) ==
  CASE IsSimple(t) -> Meaning(t, node) = {}
    [] t.agg = "Struct" -> ~FieldsFit(t, node)
    [] t.agg \in {"Tuple", "Array"} -> NodeSize(node) # Len(TupleTypes(t))
    [] t.agg = "Variant" -> ~VariantFieldsFit(node) \/ Repeats(node)
    [] OTHER -> node.kind # "dict"

\* Objects that are written as something that reads as something else.
RECURSIVE Ambiguous(_, _)
Ambiguous(t, d) ==
  CASE t.agg = "Optional" /\ d.e # <<>> -> MeansNone(Written(t, d)) \/ Ambiguous(t.bases[1], d.e[1])
    [] t.agg = "Struct" -> \E i \in DOMAIN d.e : Ambiguous(t.bases[i], d.e[i])
    [] t.agg \in {"Tuple", "Array"} -> \E i \in DOMAIN d.e : Ambiguous(TupleTypes(t)[i], d.e[i])
    [] t.agg = "Vector" -> \E i \in DOMAIN d.e : Ambiguous(t.bases[1], d.e[i])
    [] t.agg = "Variant" -> Ambiguous(t.bases[d.n], d.e[1])
    [] t.agg = "Map" -> (IsJson /\ d.k = {}) \/ \E x \in d.k : Ambiguous(t.bases[2], x.mapped)
    [] OTHER -> FALSE

ReadNow(node) == ReadNode(schema, target, node, <<>>)

-----------------------------------------------------------------------------
\* The object always is one of its type, also after reading has failed half
\* way through it (parse_value works in place).
TargetConforms == Conforms(schema, target)

\* Reading succeeds exactly when the document means something, and the object
\* then is what it means, whatever it was before: nothing of an earlier
\* document, or of one that failed, is left in it, but for the entries of a map.
AcceptedIsMeant ==
  \A node \in Incoming :
    LET meant == Meaning(schema, node) IN
    /\ ReadNow(node).err = "none" <=> meant # {}
    /\ \A d \in meant : ReadNow(node).data = MeantFor(schema, target, d)

\* The path in an error leads to the node that is at fault itself.
ErrorNamesCulprit ==
  \A node \in Incoming :
    ReadNow(node).err = "at" =>
      LET culprit == Walk(schema, node, ReadNow(node).path) IN Misfit(culprit.type, culprit.node)

\* A failure leaves the fields before the one at fault as the document says,
\* and those behind it as they were; a variant is changed as a whole, and no
\* entry of a map is lost.
FailureStopsThere ==
  \A node \in Incoming :
    LET read == ReadNow(node) IN
    read.err # "none" =>
      /\ schema.agg = "Variant" => read.data = target
      /\ schema.agg = "Map" => target.k \subseteq read.data.k
      /\ schema.agg = "Struct" /\ read.path # <<>> =>
           LET place == CHOOSE i \in DOMAIN schema.names : schema.names[i] = Head(read.path).name IN
           \A i \in DOMAIN schema.names :
             /\ i < place => read.data.e[i] \in Meaning(schema.bases[i], ValueAt(node, schema.names[i]))
             /\ i > place => read.data.e[i] = target.e[i]

\* What is written is read back as it was, but for what reads as something
\* else: an optional that holds what stands for none, an empty map in JSON.
WrittenIsReadBack ==
  ~Ambiguous(schema, target) => ReadNode(schema, Default(schema), Written(schema, target), <<>>) = Done(target)

\* Two parsers, one of a type that the compiler knows and one of a type that
\* is known at run time, make the same of a YAML document which the first one
\* accepts; a variant is what the second one calls a value with a type.
RECURSIVE IsRunTimeType(_)
IsRunTimeType(t) ==
  t.agg \notin {"Optional", "Map", "Variant"} /\ \A i \in DOMAIN t.bases : IsRunTimeType(t.bases[i])
ParsersAgree ==
  ~IsJson => \A node \in Incoming : \A d \in Meaning(schema, node) :
    /\ IsRunTimeType(schema) => ValueFrom(schema, node) = Found(schema, d)
    /\ schema.agg = "Variant" =>
         LET registry == [s \in {schema.names[i] : i \in DOMAIN schema.names} |->
                            schema.bases[CHOOSE i \in DOMAIN schema.names : schema.names[i] = s]]
         IN IsRunTimeType(schema.bases[d.n]) =>
              TaggedValueFrom(registry, node) = Found(schema.bases[d.n], d.e[1])

\* Documents mean the same to both parsers and to the writer, and the object is
\* what was meant.
DocumentsMean == TargetConforms /\ AcceptedIsMeant /\ WrittenIsReadBack /\ ParsersAgree

\* A failure is reported where it is, and does no harm elsewhere.
FailuresAreLocal == ErrorNamesCulprit /\ FailureStopsThere
=============================================================================
