----------------------------- MODULE SimpleTexts -----------------------------
(***************************************************************************)
(* Texts of simple things, and what is read back from them.                *)
(*                                                                         *)
(* Paths: mpk::mix::Path, which errors in documents name, and              *)
(* value::ValuePath, which Values are accessed with, print and read alike  *)
(* and are compared differently.  Their text is a sequence of characters.  *)
(*                                                                         *)
(* Durations and points in time: serial::yaml::format_nanoseconds and      *)
(* parse_simple_value.  A duration text is a number of halves and a unit,  *)
(* and its number is read into a double.  A point in time is a list of     *)
(* words of which only the kind counts: whether it has a dash (or is       *)
(* "today"), and whether it has a colon.                                   *)
(***************************************************************************)
EXTENDS Integers, Sequences, FiniteSets, SequencesExt

CONSTANTS Characters,   \* what names and texts are made of
          Letters,      \* the characters that are typed
          Routes,       \* the items a path is extended by
          MaxIndex,     \* the largest size_t
          MaxRoute,     \* the longest path made
          MaxText       \* the longest text typed

VARIABLES route, text

pathVars == <<route, text>>

Digit == <<"0", "1", "2", "3", "4", "5", "6", "7", "8", "9">>
DigitValue(c) == CHOOSE n \in 0 .. 9 : Digit[n + 1] = c
IsDigits(s) == s # <<>> /\ \A i \in DOMAIN s : \E j \in DOMAIN Digit : Digit[j] = s[i]

\* The items of a path: indices of size_t, and names, which are strings of
\* their own (owned) or views of a text that lives elsewhere.
Items == [isIndex : {TRUE}, index : 0 .. MaxIndex, name : {<<>>}, owned : {TRUE}]
         \union [isIndex : {FALSE}, index : {0}, name : Seq(Characters), owned : BOOLEAN]

ASSUME PathsAssumption ==
  /\ MaxIndex \in Nat
  /\ "/" \in Characters /\ \A i \in DOMAIN Digit : Digit[i] \in Characters
  /\ Letters \subseteq Characters /\ Routes \subseteq Items

ItemOfIndex(n) == [isIndex |-> TRUE, index |-> n, name |-> <<>>, owned |-> TRUE]
ItemOfName(s) == [isIndex |-> FALSE, index |-> 0, name |-> s, owned |-> TRUE]
ItemOfView(s) == [isIndex |-> FALSE, index |-> 0, name |-> s, owned |-> FALSE]

\* operator== of Path compares what the names say, that of ValuePath compares
\* the alternatives that hold them as well.
ItemsEqual(a, b) ==
  IF a.isIndex THEN b.isIndex /\ a.index = b.index ELSE ~b.isIndex /\ a.name = b.name
PathsEqual(p, q) == DOMAIN p = DOMAIN q /\ \A i \in DOMAIN p : ItemsEqual(p[i], q[i])
ValuePathsEqual(p, q) == p = q

\* from_chars over the whole text, or else a name; a number that is out of
\* range is a name as well.
Number10(s) ==
  LET upTo[i \in 0 .. Len(s)] == IF i = 0 THEN 0 ELSE 10 * upTo[i - 1] + DigitValue(s[i])
  IN upTo[Len(s)]
\* Mutant: a number that is out of range wraps.
ItemFromTextWrapped(s) ==
  IF IsDigits(s) THEN ItemOfIndex(Number10(s) % (MaxIndex + 1)) ELSE ItemOfName(s)
ItemFromText(s) ==
  IF IsDigits(s) /\ Number10(s) <= MaxIndex THEN ItemOfIndex(Number10(s)) ELSE ItemOfName(s)

\* The parts between the slashes, a character at a time: a slash begins a part,
\* any other character is added to the last.
Segments(s) ==
  LET upTo[i \in 0 .. Len(s)] ==
        IF i = 0 THEN << <<>> >>
        ELSE LET parts == upTo[i - 1]
             IN IF s[i] = "/" THEN Append(parts, <<>>)
                ELSE Append(Front(parts), Append(Last(parts), s[i]))
  IN upTo[Len(s)]

\* Path::from_string throws unless the text starts with a slash.
IsPathText(s) == s # <<>> /\ Head(s) = "/"
\* Mutant: what is between the last slash and the end is left out.
PathFromTextShort(s) ==
  LET parts == Segments(Tail(s)) IN [i \in 1 .. Len(parts) - 1 |-> ItemFromText(parts[i])]
PathFromText(s) ==
  LET parts == Segments(Tail(s)) IN [i \in DOMAIN parts |-> ItemFromText(parts[i])]

Decimal[n \in 0 .. MaxIndex] ==
  IF n < 10 THEN <<Digit[n + 1]>> ELSE Append(Decimal[n \div 10], Digit[(n % 10) + 1])
ItemText(item) == IF item.isIndex THEN Decimal[item.index] ELSE item.name
PathText(path) ==
  IF path = <<>> THEN <<"/">>
  ELSE FlattenSeq([i \in DOMAIN path |-> <<"/">> \o ItemText(path[i])])

-----------------------------------------------------------------------------
PathInit == route = <<>> /\ text = <<>>

\* operator/=, and what ScopedPathAppender takes back.
Descend(item) == Len(route) < MaxRoute /\ route' = Append(route, item) /\ UNCHANGED text
Ascend == route # <<>> /\ route' = Front(route) /\ UNCHANGED text

Type(c) == Len(text) < MaxText /\ text' = Append(text, c) /\ UNCHANGED route
Show == text' = PathText(route) /\ UNCHANGED route
Enter == IsPathText(text) /\ route' = PathFromText(text) /\ UNCHANGED text

PathNext ==
  \/ \E item \in Routes : Descend(item)
  \/ \E c \in Letters : Type(c)
  \/ Ascend
  \/ Show
  \/ Enter

-----------------------------------------------------------------------------
\* A path is read back from its text unless it is empty, which prints as a
\* path of one empty name does, or has a name that holds a slash or reads as
\* an index; a document with such a field names a wrong place in its errors.
\* What is read owns its names, so that a ValuePath with a name that views its
\* text is not equal to what is read either (Path and ValuePath: operator<<,
\* from_string, operator==).
IsPlain(path) ==
  path # <<>> /\ \A i \in DOMAIN path :
    path[i].isIndex \/ (ItemFromText(path[i].name) = ItemOfName(path[i].name) /\ Len(Segments(path[i].name)) = 1)
OwnsNames(path) == \A i \in DOMAIN path : path[i].owned
PrintedPathIsRead ==
  LET read == PathFromText(PathText(route)) IN
  /\ PathsEqual(read, route) <=> IsPlain(route)
  /\ ValuePathsEqual(read, route) <=> IsPlain(route) /\ OwnsNames(route)

\* A text is printed as it was typed unless it has an index that is written
\* with more digits than it needs.
ReadPathIsPrinted ==
  IsPathText(text) =>
    (PathText(PathFromText(text)) = text <=>
       \A s \in Range(Segments(Tail(text))) :
         Len(s) > 1 /\ IsDigits(s) /\ Number10(s) <= MaxIndex => s[1] # "0")

\* Paths and texts stand for each other, with these exceptions only.
PathsSurviveText == PrintedPathIsRead /\ ReadPathIsPrinted

-----------------------------------------------------------------------------
(* Durations and points in time.                                           *)

CONSTANTS Units,        \* the units from days to nanoseconds, as [name, factor]
          MaxCount,     \* the longest duration, in nanoseconds
          Exact,        \* the last integer before doubles are two apart
          MaxHalves,    \* the largest number typed, in halves
          MaxWords      \* the most words of a point in time

\* Hours and days are whole: their fraction is cut off before they are multiplied.
WholeUnits == {"hours", "days"}

\* A unit is a multiple of the next, so that the first that fits is the largest.
\* No duration has as many hours as a double can count.
ASSUME UnitsAssumption ==
  /\ Units # <<>> /\ Units \in Seq([name : STRING, factor : Nat \ {0}])
  /\ \A i, j \in DOMAIN Units : Units[i].name = Units[j].name => i = j
  /\ \A i \in DOMAIN Units \ {Len(Units)} : Units[i].factor % Units[i + 1].factor = 0
  /\ Units[Len(Units)].factor = 1
  /\ \E i \in DOMAIN Units : Units[i].name = "s"
  /\ MaxCount \in Nat /\ Exact \in Nat \ {0} /\ MaxHalves \in Nat
  /\ \A i \in DOMAIN Units : Units[i].name \in WholeUnits => MaxCount <= Exact * Units[i].factor

VARIABLES duration,     \* in nanoseconds
          written,      \* the text of a duration: halves, unit
          words         \* the words of a point in time

durationVars == <<duration, written>>

UnitName(i) == Units[i].name
FactorOf(name) == Units[CHOOSE i \in DOMAIN Units : UnitName(i) = name].factor

\* C++ rounds towards zero.
Truncated(n, d) == IF n >= 0 THEN n \div d ELSE -((-n) \div d)

DurationText(number, unit) == [halves |-> 2 * number, unit |-> unit]
\* Mutant: the number is rounded to the largest unit.
InUnitsLargest(count) == DurationText(Truncated(count, Units[1].factor), UnitName(1))
InUnits(count) ==
  LET fits == {i \in DOMAIN Units : count % Units[i].factor = 0}
      best == CHOOSE i \in fits : \A j \in fits : i <= j
  IN IF count = 0 THEN DurationText(0, "s")
     ELSE DurationText(Truncated(count, Units[best].factor), UnitName(best))

\* Doubles are a power of two apart; n is rounded to the nearest of them, and to
\* the even one between two.  It does not matter whether n counts ones or halves.
Gaps == {1, 2, 4, 8, 16, 32, 64, 128, 256, 512, 1024, 2048}
Double(n) ==
  LET gap == CHOOSE g \in Gaps : n <= Exact * g /\ \A h \in Gaps : n <= Exact * h => g <= h
      below == n \div gap
      rest == 2 * (n % gap)
  IN gap * IF rest > gap \/ (rest = gap /\ below % 2 = 1) THEN below + 1 ELSE below

\* The pattern has no sign.  A double out of the range of a duration is cast to
\* any duration there is.
IsDurationText(s) == s.halves >= 0
Nanoseconds(s) ==
  LET number == Double(s.halves)
  IN IF s.unit \in WholeUnits THEN (number \div 2) * FactorOf(s.unit)
     ELSE Double(number * FactorOf(s.unit)) \div 2
DurationsOf(s) ==
  IF Nanoseconds(s) \in 0 .. MaxCount THEN {Nanoseconds(s)} ELSE (-MaxCount - 1) .. MaxCount

-----------------------------------------------------------------------------
\* Reading the words of a point in time: a date, a time and a time zone, each
\* of which may be left out, but for the time without a date.
Word(dash, colon) == [dash |-> dash, colon |-> colon]
Parts(ok, date, time, zone) == [ok |-> ok, date |-> date, time |-> time, zone |-> zone]
Nowhere == Parts(FALSE, 0, 0, 0)

\* One turn of the loop over the words for each, with the part that is looked
\* for; places count from 1, and 0 is none.
Looking(part, found) == [part |-> part, found |-> found]
\* Mutant: a word may be a time zone with neither a date nor a time before it.
ReadWordLoose(ws, i, at) ==
  LET dated == at.part = "Date" /\ ws[i].dash
      timed == ~dated /\ at.part \in {"Date", "Time"} /\ ws[i].colon
  IN IF i > Len(ws) THEN at
     ELSE IF dated THEN Looking("Time", [at.found EXCEPT !.date = i])
     ELSE IF timed THEN Looking("TimeZone", [at.found EXCEPT !.time = i])
     ELSE IF at.part # "Invalid" THEN Looking("Invalid", [at.found EXCEPT !.zone = i])
     ELSE Looking("Invalid", Nowhere)
ReadWord(ws, i, at) ==
  LET dated == at.part = "Date" /\ ws[i].dash
      timed == ~dated /\ at.part \in {"Date", "Time"} /\ ws[i].colon
      zoned == at.part = "TimeZone" \/ (at.part # "Invalid" /\ at.found.date # 0)
  IN IF i > Len(ws) THEN at
     ELSE IF dated THEN Looking("Time", [at.found EXCEPT !.date = i])
     ELSE IF timed THEN Looking("TimeZone", [at.found EXCEPT !.time = i])
     ELSE IF zoned THEN Looking("Invalid", [at.found EXCEPT !.zone = i])
     ELSE Looking("Invalid", Nowhere)
PartsOf(ws) ==
  IF Len(ws) \notin 1 .. 3 THEN Nowhere
  ELSE ReadWord(ws, 3, ReadWord(ws, 2, ReadWord(ws, 1, Looking("Date", Parts(TRUE, 0, 0, 0))))).found

-----------------------------------------------------------------------------
DurationInit == duration = 0 /\ written = DurationText(0, "s")

WriteDuration == written' = InUnits(duration) /\ UNCHANGED duration
ReadDuration ==
  /\ IsDurationText(written)
  /\ duration' \in DurationsOf(written)
  /\ UNCHANGED written
SetDuration(count) == duration' = count /\ UNCHANGED written
TypeDuration(halves, i) ==
  written' = [halves |-> halves, unit |-> UnitName(i)] /\ UNCHANGED duration

DurationNext ==
  \/ WriteDuration
  \/ ReadDuration
  \/ \E count \in (-MaxCount - 1) .. MaxCount : SetDuration(count)
  \/ \E halves \in 0 .. MaxHalves, i \in DOMAIN Units : TypeDuration(halves, i)

\* The words are typed one after the other, and read after each.
WordsInit == words = <<>>
WordsNext ==
  /\ Len(words) < MaxWords
  /\ \E dash, colon \in BOOLEAN : words' = Append(words, Word(dash, colon))

TextVars == <<pathVars, durationVars, words>>
TextInit == PathInit /\ DurationInit /\ WordsInit
TextNext ==
  \/ PathNext /\ UNCHANGED <<durationVars, words>>
  \/ DurationNext /\ UNCHANGED <<pathVars, words>>
  \/ WordsNext /\ UNCHANGED <<pathVars, durationVars>>
TextSpec == TextInit /\ [][TextNext]_TextVars

-----------------------------------------------------------------------------
\* A duration that is written is read back as it was, as far as a double is
\* exact, and further for hours and days, which are multiplied as integers.
\* The others are read back rounded; the negative ones are written, and cannot
\* be read (format_nanoseconds, parse_simple_value).
DurationIsReadBack ==
  LET s == InUnits(duration) IN
  /\ IsDurationText(s) <=> duration >= 0
  /\ duration \in 0 .. Exact \/ (duration >= 0 /\ s.unit \in WholeUnits) => DurationsOf(s) = {duration}

\* The words are taken from left to right, each for one part: a dash makes the
\* first one the date, a colon makes the time of the one that follows it or
\* comes first, and what is left, one word at most, is the time zone.  Without
\* a date there has to be a time.
PartsFit ==
  LET found == PartsOf(words)
      dated == words # <<>> /\ words[1].dash
      next == IF dated THEN 2 ELSE 1
      timed == next <= Len(words) /\ words[next].colon
      used == next - 1 + IF timed THEN 1 ELSE 0
  IN /\ found.ok <=> Len(words) \in 1 .. 3 /\ (dated \/ timed) /\ Len(words) <= used + 1
     /\ found.ok => found = Parts(TRUE, IF dated THEN 1 ELSE 0, IF timed THEN next ELSE 0,
                                  IF Len(words) > used THEN Len(words) ELSE 0)

\* Times are read as they are written and as they are meant.
TimesSurviveText == DurationIsReadBack /\ PartsFit
=============================================================================
