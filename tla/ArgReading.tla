----------------------------- MODULE ArgReading ------------------------------
(***************************************************************************)
(* What a command line means, said of the whole line at once, and that the *)
(* word-by-word parser of ArgParser arrives at it.  A reading gives each   *)
(* word of a stretch of the line a role; only one reading is a legal one.  *)
(***************************************************************************)
EXTENDS ArgParser

\* No two options of a parser have one long name: of two such options the
\* later takes the other's place in the name table.
ASSUME NamesAssumption ==
  \A ch \in Chains : \A q \in DOMAIN ch : \A i, j \in DOMAIN ch[q] :
    ~ch[q][i].positional /\ ~ch[q][j].positional /\ ch[q][i].long = ch[q][j].long => i = j

Roles == {"value", "positional", "end", "option"}

\* The option of args that takes the word after w, if any.
Takes(args, w) ==
  LET named == CASE w.kind = "long" -> ByLong(args, w.name)
                 [] w.kind = "short" /\ Len(w.letters) = 1 -> ByShort(args, w.letters[1])
                 [] OTHER -> {}
  IN {i \in named : ~IsFlag(args, i)}

IsReading(r, args) ==
  \A i \in DOMAIN r :
    LET value == i - 1 \in DOMAIN r /\ r[i - 1] = "option" /\ Takes(args, words[i - 1]) # {}
        ended == \E j \in DOMAIN r : j < i /\ r[j] = "end"
    IN /\ r[i] = "value" <=> value
       /\ r[i] = "positional" <=> ~value /\ (words[i].kind = "plain" \/ ended)
       /\ r[i] = "end" <=> ~value /\ ~ended /\ words[i].kind = "ends"

Reading(args, from, to) == CHOOSE r \in [from .. to -> Roles] : IsReading(r, args)

PlacesOf(r, role) == {i \in DOMAIN r : r[i] = role}

\* The flags that the word at i sets.
SetBy(args, i) ==
  CASE words[i].kind = "long" -> {f \in ByLong(args, words[i].name) : IsFlag(args, f)}
    [] words[i].kind = "short" -> Flags(args, words[i])

\* The words that give argument a a value, set it, or are the positional
\* word for it: the n-th one is for the n-th positional argument.
ValuesFor(r, args, a) == {i \in PlacesOf(r, "value") : a \in Takes(args, words[i - 1])}
SetsFor(r, args, a) == {i \in PlacesOf(r, "option") : a \in SetBy(args, i)}
PlacesFor(r, args, a) ==
  LET places == PlacesOf(r, "positional")
      mine(i) == Rank(places, i) <= Len(Positionals(args)) /\ Positionals(args)[Rank(places, i)] = a
  IN {i \in places : mine(i)}

\* What argument a of args is given by reading r: the last of its values, its
\* positional word, 1 if it is a flag that is set, and else its default, 0.
Greatest(S) == CHOOSE i \in S : \A j \in S : j <= i
Given(r, args, a) ==
  Greatest({0} \union ValuesFor(r, args, a) \union {1 : i \in SetsFor(r, args, a)}
               \union PlacesFor(r, args, a))

\* The options that the word at i names, up to where it is wrong.
Mentions(args, i) ==
  CASE words[i].kind = "long" -> ByLong(args, words[i].name)
    [] words[i].kind = "short" -> Flags(args, words[i]) \union StopsAt(args, words[i])
Mentioned(r, args) == UNION {Mentions(args, i) : i \in PlacesOf(r, "option")}

IsUnknown(args, i) ==
  CASE words[i].kind = "long" -> ByLong(args, words[i].name) = {}
    [] words[i].kind = "short" -> Unknown(args, words[i])
IsCombined(args, i) ==
  words[i].kind = "short" /\ StopsAt(args, words[i]) # {} /\ Takes(args, words[i]) = {}

\* What is wrong with a command line that is read as r and ends at `to`.
Problems(r, args, to, more) ==
  LET options == PlacesOf(r, "option")
      ungiven == {a \in DOMAIN args : args[a].mandatory /\ Given(r, args, a) = 0}
      holds == [unknown |-> \E i \in options : IsUnknown(args, i),
                combined |-> \E i \in options : IsCombined(args, i),
                value |-> to \in options /\ Takes(args, words[to]) # {},
                positional |-> \E a \in ungiven : args[a].positional,
                option |-> \E a \in ungiven \ Mentioned(r, args) : ~args[a].positional,
                extra |-> ~more /\ to < Len(words)]
  IN {k \in DOMAIN holds : holds[k]}

-----------------------------------------------------------------------------
(* Properties.  The running parser's stretch of the line ends before index.*)

Last == index - 1
Read == Reading(Args, start[p], Last)

\* The error kinds of run(), "" for none.
Errors == {"", "unknown", "combined", "value", "positional", "option", "extra"}

TypeOK ==
  /\ chain \in Chains /\ p \in DOMAIN chain
  /\ index \in 1 .. Len(words) + 1
  /\ \A q \in DOMAIN start : start[q] \in 1 .. index
  /\ posIndex \in 0 .. Len(Positionals(Args))
  /\ awaiting \in {0} \union {i \in DOMAIN Args : ~IsFlag(Args, i)}
  /\ optionsEnded \in BOOLEAN /\ lastArg \in BOOLEAN
  /\ pc \in {"loop", "finished", "thrown"}
  /\ \A q \in DOMAIN chain :
       /\ err[q] \in Errors
       /\ \A i \in DOMAIN chain[q] : dst[q][i] \in 0 .. Len(words)

\* At every moment of the loop the destinations hold what the words so far
\* mean, errors or not: a caller that looks at help() before validate() sees
\* the flag wherever it stood (command_line_args.cpp:142-172).
AssignedAsRead ==
  LET r == Read IN \A i \in DOMAIN Args : dst[p][i] = Given(r, Args, i)

\* The parser is where its words have brought it.
LineAsRead == TypeOK /\ AssignedAsRead

\* run() reports an error exactly when the line is wrong, and the error it
\* is left with names something that is wrong, although later errors
\* overwrite earlier ones (84-86) and the checks after the loop come in a
\* fixed order (174-208).
ErrorsAreTrue ==
  pc = "finished" =>
    LET r == Read
        wrong == Problems(r, Args, Last, MoreFollow)
    IN IF wrong = {} THEN err[p] = "" ELSE err[p] \in wrong

\* A parser with others behind it takes the words up to its last positional
\* one and no more; if it declares none, the options before the first
\* positional word (153-164).
LeavesTheRest ==
  pc = "finished" /\ MoreFollow /\ Last < Len(words) =>
    LET r == Read IN
    IF Positionals(Args) # <<>>
      THEN /\ Cardinality(PlacesOf(r, "positional")) = Len(Positionals(Args))
           /\ r[Last] = "positional"
      ELSE Reading(Args, start[p], index)[index] = "positional"
=============================================================================
