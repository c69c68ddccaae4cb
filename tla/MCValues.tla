------------------------------- MODULE MCValues ------------------------------
(* Types, Values, documents and texts, one of them at a time: the subject  *)
(* moves, and the others stay as they are.                                 *)
EXTENDS TypeRegistry, ValueTree, DocTarget, SimpleTexts

VARIABLE subject

U8 == Scalar("U8")
I32 == Scalar("I32")
Txt == Text("String")
Mode == EnumType(1, <<"Foo", "Bar">>, <<0, 5>>)
Index == StrongType(1, I32)

-----------------------------------------------------------------------------
\* A tuple that fills a description to its last byte, and two structs alike.
Wide == TupleType(<<Index, Text("StringView"), PathType, CustomType(4), Mode, VectorOf(I32), Txt>>)
MCAsked ==
  {VectorOf(VectorOf(I32)), FlagsOf(Mode), Wide, TupleType(<<I32, Mode>>),
   ArrayOf(3, StructType(2, <<"a">>, <<Index>>)), StructType(3, <<"a">>, <<Index>>)}

-----------------------------------------------------------------------------
Job == StructType(2, <<"mode", "runs">>, <<Mode, VectorOf(Index)>>)
Blob == CustomType(4)
MCShapes ==
  {FlagsOf(Mode), TupleType(<<Job, ArrayOf(1, Scalar("U64"))>>), VectorOf(Txt), TupleType(<<PathType, Blob>>)}
V(t, d) == [type |-> t, data |-> d]
\* Texts and paths some of which are printed as others are.
MCSources ==
  {V(I32, Number(1)), V(Scalar("U64"), Number(1)), V(U8, Number(5)), V(U8, Number(1)),
   V(Mode, Number(5)), V(Blob, Number(1)), V(Text("StringView"), String("Bar"))}
  \union {V(Txt, String(s)) : s \in {"Bar", "Bar,Bar"}}
  \union {V(PathType, Elements(<<item>>)) : item \in {String("a"), View("a"), String("0"), Number(0)}}
InJob(q) == <<ByIndex(0)>> \o q
InMode(q) == <<ByIndex(0), ByName("mode")>> \o q
MCPaths ==
  {<<>>, InJob(<<>>), InJob(<<ByName("runs")>>), InJob(<<ByName("runs"), ByIndex(1)>>),
   InJob(<<ByName("runs"), ByIndex(1), ByName("v")>>),
   InMode(<<>>), InMode(<<ByName("index")>>), InMode(<<ByName("value")>>),
   InMode(<<ByName("name")>>), InMode(<<ByName("values"), ByIndex(0)>>),
   <<ByIndex(1), ByIndex(0)>>, <<ByIndex(1), ByIndex(1)>>, <<ByIndex(1)>>}

-----------------------------------------------------------------------------
\* 300 is out of the range of a U8, "1x" starts with a number, "none" and an
\* empty list are what an optional takes for nothing.
MCNumbers == {-1, 0, 1, 2, 3, 44, 300}
MCNumerals ==
  [s \in {ToString(n) : n \in MCNumbers} |-> [n |-> CHOOSE n \in MCNumbers : ToString(n) = s, rest |-> ""]]
  @@ "1x" :> [n |-> 1, rest |-> "x"]
MCPathTexts == "/a" :> <<String("a")>>

Named(keys, nodes) == Dict([i \in DOMAIN keys |-> <<keys[i], nodes[i]>>])
Modes == {Null, Str("Foo"), List(<<Str("Foo"), Str("Bar")>>), List(<<Str("Bar"), Num(1)>>)}

Task == StructType(2, <<"a", "b", "c">>, <<U8, VectorOf(Mode), OptionalOf(Txt)>>)
TaskDocs ==
  {Named(<<"a", "b", "c">>, <<x, y, z>>) : x \in {Num(1), Num(300), Str("1x")}, y \in Modes,
     z \in {Null, Str("none"), Str("x"), List(<<>>)}}
  \union {Named(<<"a", "b">>, <<Num(1), Null>>), Named(<<"a", "b", "c", "d">>, <<Num(1), Null, Null, Null>>),
          Named(<<"a", "a", "b", "c">>, <<Num(1), Num(2), Null, Null>>), Num(1), Null}

Rows == StructType(3, <<"a", "b">>, <<ArrayOf(2, StrongType(1, U8)), VectorOf(Mode)>>)
RowsDocs ==
  {Named(<<"b", "a">>, <<y, x>>) : y \in Modes,
     x \in {List(<<Num(1), Num(300)>>), List(<<Num(1), Num(2)>>), List(<<Num(1)>>), Str("1x"),
            Named(<<"x", "y">>, <<Null, Null>>)}}

Options == TupleType(<<OptionalOf(VectorOf(U8)), OptionalOf(Txt)>>)
OptionsDocs ==
  {List(<<x, y>>) :
     x \in {Null, Num(1), Str("none"), List(<<>>), Dict(<<>>), List(<<Num(1)>>), List(<<Num(2), Num(300)>>)},
     y \in {Null, Num(1), Str("none"), Str("Bar"), Bool(1)}}
  \union {List(<<Null>>), Named(<<"x", "y">>, <<Null, Null>>), Num(1)}

Tables == MapOf(U8, MapOf(Txt, U8))
TablesDocs ==
  {Named(<<k, l>>, <<x, y>>) : k \in {"1", "-1"}, l \in {"1", "300", "3"},
     x \in {Null, Named(<<"a">>, <<Num(1)>>)}, y \in {Dict(<<>>), Named(<<"a", "b">>, <<Num(3), Null>>)}}
  \union {Null, List(<<>>), Dict(<<>>)}

Choice == VariantOf(<<"int", "Rows">>, <<U8, Rows>>)
ChoiceDocs ==
  {Named(<<k, l>>, <<x, y>>) : k \in {"type", "value"}, l \in {"value", "typo", "type"},
     x \in {Str("int"), Str("Rows"), Num(1)}, y \in {Num(1), Str("int"), Str("1x")} \union RowsDocs}
  \union {Null, Named(<<"type">>, <<Str("int")>>)}

\* No documents for the object while another subject is at work.
Idle == Scalar("Bool")
MCSamples ==
  Task :> TaskDocs @@ Rows :> RowsDocs @@ Options :> OptionsDocs @@ Tables :> TablesDocs
  @@ MapOf(FixedText(1), VectorOf(U8)) :>
       {Named(<<k, "p">>, <<x, y>>) : k \in {"p", "q", "pq"}, x \in {Null, List(<<Num(1)>>)},
          y \in {List(<<Num(2)>>), List(<<Null>>)}}
  @@ Choice :> ChoiceDocs @@ Idle :> {}

-----------------------------------------------------------------------------
\* Other items come from the texts: no name, indices, numbers out of range.
MCRoutes ==
  {ItemOfIndex(10), ItemOfView(<<"a">>)}
  \union {ItemOfName(s) : s \in {<<"a">>, <<"1">>, <<"a", "/", "b">>}}
Unit(name, factor) == [name |-> name, factor |-> factor]
MCUnits == <<Unit("days", 24), Unit("hours", 12), Unit("min", 6), Unit("s", 2), Unit("ns", 1)>>

-----------------------------------------------------------------------------
Init ==
  /\ RegistryInit /\ TextInit
  /\ subject \in {"types", "values", "documents", "paths", "durations", "words"}
  /\ IF subject = "values" THEN ValueInit ELSE value = Empty /\ other = Empty
  /\ DocInit
  /\ subject # "documents" => format = "json" /\ schema = Idle

Next ==
  /\ subject' = subject
  /\ \/ subject = "types" /\ RegistryNext /\ UNCHANGED <<valueVars, docVars, TextVars>>
     \/ subject = "values" /\ ValueNext /\ UNCHANGED <<registryVars, docVars, TextVars>>
     \/ subject = "documents" /\ DocNext /\ UNCHANGED <<registryVars, valueVars, TextVars>>
     \/ /\ subject \in {"paths", "durations", "words"} /\ TextNext
        /\ UNCHANGED <<registryVars, valueVars, docVars>>
        /\ subject # "paths" => UNCHANGED pathVars
        /\ subject # "durations" => UNCHANGED durationVars
        /\ subject # "words" => UNCHANGED words

Spec == Init /\ [][Next]_<<subject, registryVars, valueVars, docVars, TextVars>>
=============================================================================
