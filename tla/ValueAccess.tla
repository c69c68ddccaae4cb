---------------------------- MODULE ValueAccess ------------------------------
(***************************************************************************)
(* The accessors behind value::Value: how a path leads to a component, and *)
(* what reading, assigning and resizing a component do to the whole.       *)
(*                                                                         *)
(* A path item is an index or a name.  Below an enumeration the items      *)
(* index, value and name stand for views of it which are converted back    *)
(* when the access is over (a Defer), names and values for temporaries.    *)
(***************************************************************************)
EXTENDS CxxTypes

\* What an access comes to: a component, or how it failed.  "error" is an
\* exception; "assert" a call that the code asserts against; "terminate" an
\* exception thrown by a Defer while another one is passing through it.
Found(t, d) == [err |-> "none", type |-> t, data |-> d]
Failed(err) == [err |-> err, type |-> NoType, data |-> NoData]

Size_t == Scalar("U64")
Underlying == Scalar("U8")
PlaceOf(enum, n) == {i \in DOMAIN enum.values : enum.values[i] = n}
IsNamed(enum, n) == PlaceOf(enum, n) # {}
NameOf(enum, n) == IF IsNamed(enum, n) THEN enum.names[CHOOSE i \in PlaceOf(enum, n) : TRUE] ELSE ""
ValuesNamed(enum, s) == {enum.values[i] : i \in {j \in DOMAIN enum.names : enum.names[j] = s}}
NamesVector(enum) == Elements([i \in DOMAIN enum.names |-> String(enum.names[i])])
ValuesVector(enum) == Elements([i \in DOMAIN enum.values |-> Number(enum.values[i])])

\* The component that one item leads to, or the failure.
Indexed(t, d, item) ==
  IF ~item.isIndex \/ item.index >= Len(d.e) THEN Failed("error")
  ELSE Found(IF t.agg = "Tuple" THEN t.bases[item.index + 1] ELSE t.bases[1],
             d.e[item.index + 1])

FieldNumber(t, item) == {i \in DOMAIN t.names : t.names[i] = item.name}
Field(t, d, item) ==
  CASE item.isIndex -> Failed("error")
    [] FieldNumber(t, item) = {} -> Failed("assert")
    [] OTHER -> LET i == CHOOSE i \in FieldNumber(t, item) : TRUE IN Found(t.bases[i], d.e[i])

Weak(t, d, item) ==
  IF item = ByName("v") THEN Found(t.bases[1], d) ELSE Failed("error")

\* Reading below an enumeration: views of a constant.
Facet(t, d, item) ==
  CASE item = ByName("index") ->
         IF IsNamed(t, d.n) THEN Found(Size_t, Number((CHOOSE i \in PlaceOf(t, d.n) : TRUE) - 1))
                            ELSE Failed("error")
    [] item = ByName("value") -> Found(Underlying, d)
    [] item = ByName("name") -> Found(Text("StringView"), String(NameOf(t, d.n)))
    [] item = ByName("names") -> Found(VectorOf(Text("StringView")), NamesVector(t))
    [] item = ByName("values") -> Found(VectorOf(Underlying), ValuesVector(t))
    [] OTHER -> Failed("error")

Component(t, d, item) ==
  CASE t.agg \in {"Vector", "Array", "Tuple"} -> Indexed(t, d, item)
    [] t.agg = "Struct" -> Field(t, d, item)
    [] t.agg = "Strong" -> Weak(t, d, item)
    [] t.agg = "Enum" -> Facet(t, d, item)
    [] OTHER -> Failed("assert")

\* ValueComponents::dispatch over a constant, as get and size use it.
RECURSIVE Get(_, _, _)
Get(t, d, path) ==
  IF path = <<>> THEN Found(t, d)
  ELSE LET c == Component(t, d, Head(path))
       IN IF c.err # "none" THEN c ELSE Get(c.type, c.data, Tail(path))

-----------------------------------------------------------------------------
\* What is done to the component a path ends at: assign a value, which has to
\* be of the component's type exactly, or resize.  A path grows by indices 0;
\* a text is resized to nothing only.
Assign(type, data) == [op |-> "set", type |-> type, data |-> data, size |-> 0]
Resize(size) == [op |-> "resize", type |-> NoType, data |-> NoData, size |-> size]

Resized(t, d, size) ==
  [i \in 1 .. size |-> IF i \in DOMAIN d.e THEN d.e[i]
                       ELSE IF t.agg = "Path" THEN Number(0) ELSE Default(t.bases[1])]

\* Mutant: what is assigned is taken for a value of the type.
DoUnchecked(t, d, change) ==
  CASE change.op = "set" -> Found(t, change.data)
    [] change.op = "resize" /\ t.agg = "Vector" -> Found(t, Elements(Resized(t, d, change.size)))
    [] change.op = "resize" /\ t.agg = "Path" -> Found(t, Elements(Resized(t, d, change.size)))
    [] change.op = "resize" /\ t = Text("String") -> Found(t, String(""))
    [] OTHER -> Failed("error")

Do(t, d, change) ==
  CASE change.op = "set" ->
         IF change.type = t THEN Found(t, change.data) ELSE Failed("error")
    [] change.op = "resize" /\ t.agg = "Vector" -> Found(t, Elements(Resized(t, d, change.size)))
    [] change.op = "resize" /\ t.agg = "Path" -> Found(t, Elements(Resized(t, d, change.size)))
    [] change.op = "resize" /\ t = Text("String") -> Found(t, String(""))
    [] OTHER -> Failed("error")

\* Mutants: the component was a copy; the others are not kept.
PutLost(t, d, item, c) == d
PutInNew(t, d, item, c) ==
  LET i == IF item.isIndex THEN item.index + 1 ELSE CHOOSE i \in FieldNumber(t, item) : TRUE
  IN IF t.agg = "Strong" THEN c ELSE [Default(t) EXCEPT !.e[i] = c]

\* The whole after its component at item has become c.
Put(t, d, item, c) ==
  LET i == IF item.isIndex THEN item.index + 1 ELSE CHOOSE i \in FieldNumber(t, item) : TRUE
  IN IF t.agg = "Strong" THEN c ELSE [d EXCEPT !.e[i] = c]

\* Mutant: a number is converted back whether it has a name or not.
ConvertedBackUnchecked(t, d, view, back) ==
  CASE view.err = "none" -> Found(t, Number(view.data.n))
    [] view.err = "error" /\ ~IsNamed(t, d.n) -> Failed("terminate")
    [] OTHER -> Failed(view.err)

\* The Defer of a view: converted back with and without an exception in the
\* air, where failing to convert means an exception, or termination.
ConvertedBack(t, d, view, back) ==
  CASE view.err = "none" /\ back # {} -> Found(t, Number(CHOOSE n \in back : TRUE))
    [] view.err = "none" -> Failed("error")
    [] view.err = "error" /\ ~IsNamed(t, d.n) -> Failed("terminate")
    [] OTHER -> Failed(view.err)

\* ValueComponents::dispatch over something that may be changed.
RECURSIVE Change(_, _, _, _)
ChangeFacet(t, d, path, change) ==
  LET item == Head(path)
      below(u, v) == Change(u, v, Tail(path), change)
  IN CASE item = ByName("index") /\ IsNamed(t, d.n) ->
            LET view == below(Size_t, Facet(t, d, item).data)
            IN CASE view.err # "none" -> Failed(view.err)
                 [] view.data.n >= Len(t.values) -> Failed("assert")
                 [] OTHER -> Found(t, Number(t.values[view.data.n + 1]))
       [] item = ByName("value") ->
            LET view == below(Underlying, d)
            IN ConvertedBack(t, d, view, IF IsNamed(t, view.data.n) THEN {view.data.n} ELSE {})
       [] item = ByName("name") ->
            LET view == below(Text("String"), String(NameOf(t, d.n)))
            IN ConvertedBack(t, d, view, ValuesNamed(t, view.data.s))
       [] item \in {ByName("names"), ByName("values")} ->
            LET view == below(Facet(t, d, item).type, Facet(t, d, item).data)
            IN IF view.err = "none" THEN Found(t, d) ELSE view
       [] OTHER -> Failed("error")

Change(t, d, path, change) ==
  IF path = <<>> THEN Do(t, d, change)
  ELSE IF t.agg = "Enum" THEN ChangeFacet(t, d, path, change)
  ELSE LET c == Component(t, d, Head(path))
           after == Change(c.type, c.data, Tail(path), change)
       IN CASE c.err # "none" -> c
            [] after.err # "none" -> after
            [] OTHER -> Found(t, Put(t, d, Head(path), after.data))

-----------------------------------------------------------------------------
\* path_intem_keys: what std::size counts, tuple elements, field names.  Of
\* texts, paths and sets it lists indices which dispatch asserts against.
Indices(n) == [i \in 1 .. n |-> ByIndex(i - 1)]
PathItemKeys(t, d) ==
  CASE t.agg = "Struct" -> [i \in DOMAIN t.names |-> ByName(t.names[i])]
    [] t.agg \in {"Vector", "Array", "Tuple", "Path"} -> Indices(Len(d.e))
    [] t.agg = "String" -> Indices(Len(d.s))
    [] t.agg = "Set" -> Indices(Cardinality(d.k))
    [] OTHER -> <<>>
\* The types whose keys lead to components.
IsNavigable(t) == t.agg \in {"Struct", "Vector", "Array", "Tuple"}

\* Types that are compared by ==; a struct has none, nor has what holds one.
RECURSIVE Comparable(_)
Comparable(t) ==
  /\ t.agg \notin {"Struct", "Custom"}
  /\ t.agg # "Enum" => \A i \in DOMAIN t.bases : Comparable(t.bases[i])

\* Mutant: other types are equal when they have the same components.
EqualKeys(t, a, b) ==
  IF Comparable(t) THEN a = b ELSE PathItemKeys(t, a) = PathItemKeys(t, b)

\* ValueComponentAccess::equal: other types are compared component by
\* component, each fetched by its path.
RECURSIVE Equal(_, _, _)
Equal(t, a, b) ==
  IF Comparable(t) THEN a = b
  ELSE LET keys == PathItemKeys(t, a)
           left(i) == Get(t, a, <<keys[i]>>)
           right(i) == Get(t, b, <<keys[i]>>)
       IN /\ keys = PathItemKeys(t, b)
          /\ \A i \in DOMAIN keys :
               left(i).type = right(i).type /\ Equal(left(i).type, left(i).data, right(i).data)
=============================================================================
