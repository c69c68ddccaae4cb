----------------------------- MODULE ValueDocs -------------------------------
(***************************************************************************)
(* serial::yaml::parse_value into a value::Value: the type is known at run *)
(* time only, and the Value is filled through its paths.  It fails as a    *)
(* whole, without saying where.                                            *)
(***************************************************************************)
EXTENDS DocReader, ValueAccess

CONSTANT PathTexts      \* the items of each text that starts with '/'

\* parse_as_decimal, into a number of its own.
DecimalOf(t, text) ==
  LET number == SimpleNumber(t.id, NoData, text)
  IN IF number.ok THEN Found(t, number.data) ELSE Failed("error")

\* ScalarParser; bytes are a TODO of the code.
ScalarOf(t, text) ==
  CASE t.id = "Byte" -> Failed("error")
    [] t.id = "Bool" -> IF text \in {"true", "false"} THEN Found(t, SimpleBool(NoData, text).data) ELSE Failed("error")
    [] OTHER -> DecimalOf(t, text)

\* value::parse_simple_value: a new Value from a text.  A text is a
\* std::string, whatever string type was asked for; a path is parsed.
RECURSIVE SimpleOf(_, _)
SimpleOf(t, text) ==
  CASE t.agg = "Scalar" -> ScalarOf(t, text)
    [] t.agg = "Enum" -> Change(t, Default(t), <<ByName("name")>>, Assign(Text("String"), String(text)))
    [] t.agg = "String" -> Found(Text("String"), String(text))
    [] t.agg = "Path" -> IF text \in DOMAIN PathTexts THEN Found(t, Elements(PathTexts[text])) ELSE Failed("error")
    [] t.agg = "Strong" ->
         LET weak == SimpleOf(t.bases[1], text)
         IN IF weak.err # "none" THEN weak
            ELSE Change(t, Default(t), <<ByName("v")>>, Assign(weak.type, weak.data))
    [] OTHER -> Failed("error")

FillSimple(t, node) ==
  IF TextOf(node) = {} THEN Failed("error") ELSE SimpleOf(t, CHOOSE s \in TextOf(node) : TRUE)

\* Nodes in YAML: what indexing leads to, or an invalid node.
ItemsOf(node) == IF node.kind = "sequence" THEN Len(node.e) ELSE Len(node.m)
ItemOf(node, key) ==
  CASE key.isIndex /\ node.kind = "sequence" -> node.e[key.index + 1]
    [] ~key.isIndex /\ node.kind = "dict" /\ key.name \in KeysOf(node) -> ValueAt(node, key.name)
    [] OTHER -> NoNode

-----------------------------------------------------------------------------
RECURSIVE Fill(_, _, _), FillKeys(_, _, _, _), FillSet(_, _, _)

\* Component by component: taken out, filled, put back.  Fields that are not
\* in the document stay as they are.
FillKeys(t, d, node, keys) ==
  IF keys = <<>> THEN Found(t, d)
  ELSE LET key == Head(keys)
           component == Get(t, d, <<key>>)
           filled == Fill(component.type, component.data, ItemOf(node, key))
           after == Change(t, d, <<key>>, Assign(filled.type, filled.data))
       IN CASE t.agg = "Struct" /\ ItemOf(node, key) = NoNode -> FillKeys(t, d, node, Tail(keys))
            [] filled.err # "none" -> filled
            [] after.err # "none" -> after
            [] OTHER -> FillKeys(t, after.data, node, Tail(keys))

FillFixed(t, d, node) ==
  IF ItemsOf(node) # Len(d.e) THEN Failed("error") ELSE FillKeys(t, d, node, PathItemKeys(t, d))

\* Mutant: the vector keeps its size.
FillVectorUnsized(t, d, node) == FillKeys(t, d, node, PathItemKeys(t, d))
FillVector(t, d, node) ==
  LET resized == Change(t, d, <<>>, Resize(ItemsOf(node))).data
  IN FillKeys(t, resized, node, PathItemKeys(t, resized))

\* A scalar cannot be indexed by a name; other nodes have no such field.
FillStruct(t, d, node) ==
  IF IsScalar(node) THEN Failed("error") ELSE FillKeys(t, d, node, PathItemKeys(t, d))

\* A set is emptied, then gets the keys listed, or all there are.
FillSet(t, members, nodes) ==
  IF nodes = <<>> THEN Found(t, Members(members))
  ELSE LET key == Fill(t.bases[1], Default(t.bases[1]), Head(nodes))
       IN IF key.err # "none" THEN key
          ELSE FillSet(t, members \union {key.data.n}, Tail(nodes))
AllKeys(t) ==
  LET names == Get(t.bases[1], Default(t.bases[1]), <<ByName("names")>>).data.e
      named(s) == Change(t.bases[1], Default(t.bases[1]), <<ByName("name")>>, Assign(Text("String"), s))
  IN {named(names[i]).data.n : i \in DOMAIN names}

Fill(t, d, node) ==
  CASE node = NoNode \/ t.agg = "Custom" -> Failed("error")
    [] t.agg \in {"Scalar", "Enum", "String", "Path", "Strong"} -> FillSimple(t, node)
    [] t.agg = "Struct" -> FillStruct(t, d, node)
    [] t.agg = "Vector" -> FillVector(t, d, node)
    [] t.agg \in {"Tuple", "Array"} -> FillFixed(t, d, node)
    [] t.agg = "Set" /\ node.kind = "sequence" -> FillSet(t, {}, node.e)
    [] t.agg = "Set" /\ TextOf(node) = {"all"} -> Found(t, Members(AllKeys(t)))
    [] OTHER -> Failed("error")

\* parse_value of a type; and of a document that names its type itself.
ValueFrom(t, node) == Fill(t, Default(t), node)
TaggedValueFrom(registry, node) ==
  LET name == TextOf(ItemOf(node, ByName("type")))
      value == ItemOf(node, ByName("value"))
  IN IF IsScalar(node) \/ name = {} \/ ~(name \subseteq DOMAIN registry) \/ value = NoNode
     THEN Failed("error")
     ELSE ValueFrom(registry[CHOOSE s \in name : TRUE], value)
=============================================================================
