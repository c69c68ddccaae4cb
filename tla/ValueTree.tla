----------------------------- MODULE ValueTree -------------------------------
(***************************************************************************)
(* A value::Value in use: read, assigned, resized and emptied through      *)
(* paths, with a second Value as copy, source and comparand, and printed.  *)
(***************************************************************************)
EXTENDS ValueAccess
LOCAL Seqs == INSTANCE SequencesExt
LOCAL INSTANCE TLC

CONSTANTS Shapes,       \* the types of the Values that are made
          Paths,        \* the paths they are accessed with
          Sources,      \* the Values that are assigned, as [type, data]
          MaxLen        \* the longest vector made

VARIABLES value, other  \* two Values, as [type, data]

valueVars == <<value, other>>

Empty == [type |-> NoType, data |-> NoData]

\* What a call does to value, if it succeeds.  Calls that the code asserts
\* against are not made, and one that throws changes nothing.
Becomes(result) ==
  /\ result.err \notin {"assert", "terminate"}
  /\ value' = IF result.err = "none" THEN [value EXCEPT !.data = result.data] ELSE value
  /\ UNCHANGED other

\* Value::make(type)
Make(t) ==
  /\ value' = [type |-> t, data |-> Default(t)]
  /\ UNCHANGED other

AfterSet(path, source) ==
  Change(value.type, value.data, path, Assign(source.type, source.data))
AfterResize(path, size) == Change(value.type, value.data, path, Resize(size))
Reads(path) == Get(value.type, value.data, path)

Set(path, source) == Becomes(AfterSet(path, source))

\* The component's type is found by reading it, its default is then assigned.
AfterDefault(path) ==
  LET c == Reads(path) IN
  IF c.err # "none" THEN c
  ELSE AfterSet(path, [type |-> c.type, data |-> Default(c.type)])
SetDefault(path) == Becomes(AfterDefault(path))

ResizeAt(path, size) ==
  /\ Reads(path).type.agg = "String" => size = 0
  /\ Becomes(AfterResize(path, size))

\* insert and remove take a path and do not use it: the Value itself has to
\* be a set.
ChangeMembers(path, source, members) ==
  Becomes(IF value.type.agg = "Set" /\ source.type = value.type.bases[1]
          THEN Found(value.type, Members(members)) ELSE Failed("error"))
Insert(path, source) == ChangeMembers(path, source, value.data.k \union {source.data.n})
RemoveMember(path, source) == ChangeMembers(path, source, value.data.k \ {source.data.n})

\* Copies are deep: std::any copies what it holds.
Save == other' = value /\ UNCHANGED value
Restore == value' = other /\ value.type = other.type /\ UNCHANGED other

\* Value::get: a component becomes a Value of its own.
Extract(path) ==
  LET c == Reads(path) IN
  /\ c.err = "none"
  /\ other' = [type |-> c.type, data |-> c.data]
  /\ UNCHANGED value

ValueInit ==
  /\ value \in {[type |-> t, data |-> Default(t)] : t \in Shapes}
  /\ other = Empty

ValueNext ==
  \/ \E t \in Shapes : Make(t)
  \/ \E p \in Paths, s \in Sources \union {other} : Set(p, s)
  \/ \E p \in Paths : SetDefault(p) \/ Extract(p)
  \/ \E p \in Paths, size \in 0 .. MaxLen : ResizeAt(p, size)
  \/ \E p \in Paths, s \in Sources : Insert(p, s) \/ RemoveMember(p, s)
  \/ Save
  \/ Restore

-----------------------------------------------------------------------------
\* The text of a Value.  Leaves are written as they are, without quotes.  The
\* formatter reaches the components through the same paths as a caller of get.

\* Value::keys: the members of a set, ascending; indices and field names.
KeysIn(t, d) ==
  CASE t.agg = "Set" -> [type |-> t.bases[1], list |-> Seqs!SetToSortSeq(d.k, <)]
    [] t.agg = "Struct" -> [type |-> Text("StringView"), list |-> t.names]
    [] OTHER -> [type |-> Size_t, list |-> [i \in DOMAIN PathItemKeys(t, d) |-> i - 1]]

Joined(texts, delim) ==
  IF texts = <<>> THEN ""
  ELSE Seqs!FoldLeft(LAMBDA text, part : text \o delim \o part, Head(texts), Tail(texts))
Braced(open, texts, close) == open \o Joined(texts, ",") \o close

\* ScalarFormatter: a byte is two digits in base 16.
Hex == <<"0", "1", "2", "3", "4", "5", "6", "7", "8", "9", "a", "b", "c", "d", "e", "f">>
ScalarText(t, d) ==
  CASE t.id = "Bool" -> IF d.n = 1 THEN "true" ELSE "false"
    [] t.id = "Byte" -> Hex[(d.n \div 16) + 1] \o Hex[(d.n % 16) + 1]
    [] OTHER -> ToString(d.n)

\* operator<< of a ValuePath: names of both kinds are written alike.
IsIndex(item) == item = Number(item.n)
PrintedItem(item) == IF IsIndex(item) THEN ToString(item.n) ELSE item.s
PrintedPath(d) == "/" \o Joined([i \in DOMAIN d.e |-> PrintedItem(d.e[i])], "/")

RECURSIVE FormattedValue(_, _)
\* The component at an item, formatted, or what is thrown instead.
PartAt(t, d, item) ==
  LET c == Get(t, d, <<item>>)
  IN IF c.err = "none" THEN FormattedValue(c.type, c.data) ELSE c.err

\* Mutant: the last element is left out.
FormatSeqShort(t, d, size, open, close) ==
  Braced(open, [i \in 1 .. size - 1 |-> PartAt(t, d, ByIndex(i - 1))], close)
FormatSeq(t, d, size, open, close) ==
  Braced(open, [i \in 1 .. size |-> PartAt(t, d, ByIndex(i - 1))], close)

FormattedValue(t, d) ==
  CASE t = NoType -> "<empty>"
    [] t.agg = "Custom" -> "custom"
    [] t.agg = "Enum" -> PartAt(t, d, ByName("name"))
    [] t.agg = "Strong" -> PartAt(t, d, ByName("v"))
    [] t.agg = "Scalar" -> ScalarText(t, d)
    [] t.agg = "String" -> d.s
    [] t.agg = "Path" -> PrintedPath(d)
    [] t.agg = "Set" ->
         LET keys == KeysIn(t, d)
         IN "{" \o Joined([i \in DOMAIN keys.list |-> FormattedValue(keys.type, Number(keys.list[i]))], ", ") \o "}"
    [] t.agg = "Struct" ->
         Braced("{", [i \in DOMAIN t.names |-> t.names[i] \o "=" \o PartAt(t, d, ByName(t.names[i]))], "}")
    [] t.agg = "Tuple" -> FormatSeq(t, d, Len(t.bases), "{", "}")
    [] OTHER -> FormatSeq(t, d, Len(d.e), "[", "]")

-----------------------------------------------------------------------------
\* Value::operator== : empty Values are equal, Values of different types not.
ValuesEqual(a, b) ==
  a.type = b.type /\ (a.type # NoType => Equal(a.type, a.data, b.data))

RECURSIVE ComponentPaths(_, _)
ComponentPaths(t, d) ==
  LET keys == IF IsNavigable(t) THEN PathItemKeys(t, d) ELSE <<>> IN
  {<<>>} \union UNION {{<<keys[i]>> \o p : p \in
     LET c == Component(t, d, keys[i]) IN ComponentPaths(c.type, c.data)} : i \in DOMAIN keys}

InTemporary(path) ==
  \E i \in DOMAIN path : path[i] \in {ByName("names"), ByName("values")}

\* The data always is a value of the type, so that the accessors, which cast
\* without asking, cast to what is there: whatever was assigned, resized or
\* defaulted through whichever path (Value::set, resize, set_default).
ValuesConform ==
  /\ Conforms(value.type, value.data)
  /\ Conforms(other.type, other.data)

\* No Defer throws while an exception is passing: enumerations stay named, so
\* what a failed access converts back can be converted (dispatch over an
\* enumeration).  Types whose default is no enumerator are not among Shapes.
NeverTerminates ==
  \A p \in Paths :
    /\ \A s \in Sources : AfterSet(p, s).err # "terminate"
    /\ \A size \in 0 .. MaxLen : AfterResize(p, size).err # "terminate"

\* The data but for what is in objects of custom types, which cannot be seen.
RECURSIVE Visible(_, _)
Visible(t, d) ==
  CASE t.agg = "Custom" -> NoData
    [] t.agg = "Strong" -> Visible(t.bases[1], d)
    [] t.agg \in {"Vector", "Array"} -> [d EXCEPT !.e = [i \in DOMAIN d.e |-> Visible(t.bases[1], d.e[i])]]
    [] t.agg \in {"Tuple", "Struct"} -> [d EXCEPT !.e = [i \in DOMAIN d.e |-> Visible(t.bases[i], d.e[i])]]
    [] OTHER -> d

\* == compares what the Values hold although structs have no == of their own:
\* component by component it comes to the same.  Objects of a custom type that
\* has no == are equal to each other whatever they are, and names that view
\* their text are not equal to names that own it (ValueComponentAccess::equal).
EqualIsSame ==
  ValuesEqual(value, other) <=>
    value.type = other.type /\ Visible(value.type, value.data) = Visible(other.type, other.data)

\* Texts that cannot be taken for something else where they are printed: not
\* empty, and without the characters that stand between the parts; names of
\* paths that own their text and are no number.
CharactersIn(s) == {SubSeq(s, i, i) : i \in 1 .. Len(s)}
DecimalDigits == {ToString(n) : n \in 0 .. 9}
IsPlainText(s) == s # "" /\ CharactersIn(s) \intersect {",", "[", "]", "{", "}"} = {}
IsPlainItem(item) ==
  IsIndex(item) \/ /\ item = String(item.s)
                   /\ IsPlainText(item.s) /\ "/" \notin CharactersIn(item.s)
                   /\ ~(CharactersIn(item.s) \subseteq DecimalDigits)
RECURSIVE PrintsPlainly(_, _)
PrintsPlainly(t, d) ==
  CASE t.agg = "String" -> IsPlainText(d.s)
    [] t.agg = "Path" -> \A i \in DOMAIN d.e : IsPlainItem(d.e[i])
    [] t.agg = "Strong" -> PrintsPlainly(t.bases[1], d)
    [] t.agg \in {"Vector", "Array"} -> \A i \in DOMAIN d.e : PrintsPlainly(t.bases[1], d.e[i])
    [] t.agg \in {"Tuple", "Struct"} -> \A i \in DOMAIN d.e : PrintsPlainly(t.bases[i], d.e[i])
    [] OTHER -> TRUE

\* Two Values of a type that hold plain texts print alike only if == takes
\* them for the same: the formatter reaches every component, no access of it
\* fails, and the parts can be told apart in one line (ValueFormatter).
PrintTellsApart ==
  /\ value.type = other.type
  /\ PrintsPlainly(value.type, value.data) /\ PrintsPlainly(other.type, other.data)
  /\ FormattedValue(value.type, value.data) = FormattedValue(other.type, other.data)
  => ValuesEqual(value, other)

\* What a successful call wrote is read back at the path it was given, be it
\* a component or a view of an enumeration that is converted both ways; what
\* was resized has the length asked for and keeps what was there.
\* Assignments into the lists of names and values go to a temporary.
WrittenIsRead ==
  \A p \in {q \in Paths : ~InTemporary(q)} :
    /\ \A s \in Sources :
         LET after == AfterSet(p, s) IN
         after.err = "none" => Get(value.type, after.data, p).data = s.data
    /\ \A size \in 0 .. MaxLen :
         LET after == AfterResize(p, size)
             before == Reads(p).data.e
             now == Get(value.type, after.data, p).data.e
         IN after.err = "none" /\ Reads(p).type.agg # "String" =>
              /\ Len(now) = size
              /\ \A i \in DOMAIN before \intersect DOMAIN now : now[i] = before[i]

\* ... and it wrote nowhere else: a component that is neither on the way to
\* the place nor below it stays what it was.
WrittenThereOnly ==
  \A p \in Paths :
    \A after \in {AfterSet(p, s) : s \in Sources} \union {AfterResize(p, size) : size \in 0 .. MaxLen}
                 \union {AfterDefault(p)} :
      after.err = "none" =>
        \A q \in ComponentPaths(value.type, value.data) :
          ~Seqs!IsPrefix(q, p) /\ ~Seqs!IsPrefix(p, q) => Get(value.type, after.data, q) = Reads(q)

\* A Value stays one of its type, and no access of it ends the program.
ValuesSound == ValuesConform /\ NeverTerminates

\* Equality and text tell Values apart as their contents do.
SameValuesAgree == EqualIsSame /\ PrintTellsApart

\* A call writes where it was told to, and nowhere else.
WrittenWhereAsked == WrittenIsRead /\ WrittenThereOnly
=============================================================================
