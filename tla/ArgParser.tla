------------------------------ MODULE ArgParser ------------------------------
(***************************************************************************)
(* The command-line parser of mpk::mix, ArgParser::run                     *)
(* (src/util/command_line_args.cpp), one word of argv per step.  Parsers   *)
(* can be chained: each is told whether more follow and they share the     *)
(* index into argv, so a command and its subcommands read one line.        *)
(*                                                                         *)
(* A word is what the loop tells apart: "plain" (empty, no leading dash,   *)
(* or a digit second), "ends" (--), "long" with its name, or "short" with  *)
(* its letters, none for a lone dash.  What reaches a destination is the   *)
(* position of the word it came from; 0 is the default.                    *)
(***************************************************************************)
EXTENDS Naturals, Sequences, FiniteSets

CONSTANTS
  Chains,    \* lines of parsers, each a sequence of argument declarations
  Words,     \* the words a command line is made of
  MaxWords,  \* bound on the length of a command line
  NoShort    \* the '\0' of an argument without a short name

\* One declaration; a flag is never mandatory (command_line_args.hpp:85-87)
\* and a positional has neither a short name nor a trigger.
IsArg(a) ==
  /\ a.mandatory \in BOOLEAN /\ a.positional \in BOOLEAN
  /\ a.kind \in {"string", "parsed", "flag"}
  /\ a.kind = "flag" => ~a.mandatory /\ ~a.positional
  /\ a.positional => a.short = NoShort

\* A letter is a character of a C string, and '\0' is none.
IsWord(w) ==
  /\ w.kind \in {"plain", "ends", "long", "short"}
  /\ w.kind = "short" => w.letters \in Seq({w.letters[k] : k \in DOMAIN w.letters} \ {NoShort})

IsParser(args) ==
  /\ args \in Seq({args[i] : i \in DOMAIN args})
  /\ \A i \in DOMAIN args : IsArg(args[i])

\* There is a first parser.
IsChain(ch) ==
  /\ ch \in Seq({ch[q] : q \in DOMAIN ch}) \ {<<>>}
  /\ \A q \in DOMAIN ch : IsParser(ch[q])

ASSUME ArgAssumption ==
  /\ MaxWords \in Nat
  /\ \A ch \in Chains : IsChain(ch)
  /\ \A w \in Words : IsWord(w)

VARIABLES
  chain, words,  \* the parsers and the command line (argv after the program)
  start,         \* start[p]: parse_state.index when parser p was started
  index,         \* parse_state.index
  posIndex, longSeen, shortSeen,
  awaiting,      \* the argument consume_next belongs to, 0 for none
  optionsEnded,  \* last_option_processed
  lastArg,       \* last_arg_processed
  err,           \* err[p]: kind of run_error_, "" for none
  dst,           \* dst[p][i]: what argument i of parser p was given
  pc             \* "loop", "finished" (run returned), "thrown"

locals == <<posIndex, longSeen, shortSeen, awaiting, optionsEnded, lastArg>>
vars == <<chain, words, start, index, locals, err, dst, pc>>

p == Len(start)
Args == chain[p]
MoreFollow == p < Len(chain)
Word == words[index]

\* The elements of a set of numbers, counted from the least.
Rank(S, i) == Cardinality({j \in S : j <= i})
Nth(S, n) == CHOOSE i \in S : Rank(S, i) = n

\* The positional arguments, in the order of their declaration.
Positionals(args) ==
  LET S == {i \in DOMAIN args : args[i].positional}
  IN [n \in 1 .. Cardinality(S) |-> Nth(S, n)]

\* The maps from names to options: of two declarations the later one stays.
Named(args, field, key) ==
  {i \in DOMAIN args :
     /\ ~args[i].positional /\ args[i][field] = key
     /\ \A j \in DOMAIN args : ~args[j].positional /\ args[j][field] = key => j <= i}
ByLong(args, key) == Named(args, "long", key)
ByShort(args, key) == Named(args, "short", key)

IsFlag(args, i) == args[i].kind = "flag"

-----------------------------------------------------------------------------
InLoop == pc = "loop" /\ index <= Len(words) /\ ~lastArg

\* Whether the word is read as a positional one (lines 153-156).
ReadAsPositional == Word.kind = "plain" \/ optionsEnded
AtPositional == InLoop /\ awaiting = 0 /\ ReadAsPositional
AtOption(kind) == InLoop /\ awaiting = 0 /\ ~ReadAsPositional /\ Word.kind = kind

Advance == index' = index + 1 /\ UNCHANGED <<chain, words, start, pc>>

Give(i) == dst' = [dst EXCEPT ![p][i] = index]

\* Mutant: of two values for one option the first stays.
ReadValueFirstWins ==
  /\ InLoop /\ awaiting # 0
  /\ IF dst[p][awaiting] = 0 THEN Give(awaiting) ELSE UNCHANGED dst
  /\ awaiting' = 0
  /\ Advance
  /\ UNCHANGED <<posIndex, longSeen, shortSeen, optionsEnded, lastArg, err>>

ReadValue ==
  /\ InLoop /\ awaiting # 0
  /\ Give(awaiting)
  /\ awaiting' = 0
  /\ Advance
  /\ UNCHANGED <<posIndex, longSeen, shortSeen, optionsEnded, lastArg, err>>

\* Mutant: the loop reads on after the last positional word of a command.
ReadPositionalReadsOn ==
  /\ AtPositional /\ posIndex < Len(Positionals(Args))
  /\ Give(Positionals(Args)[posIndex + 1])
  /\ posIndex' = posIndex + 1
  /\ Advance
  /\ UNCHANGED <<longSeen, shortSeen, awaiting, optionsEnded, lastArg, err>>

ReadPositional ==
  /\ AtPositional /\ posIndex < Len(Positionals(Args))
  /\ Give(Positionals(Args)[posIndex + 1])
  /\ posIndex' = posIndex + 1
  /\ lastArg' = (MoreFollow /\ posIndex' = Len(Positionals(Args)))
  /\ Advance
  /\ UNCHANGED <<longSeen, shortSeen, awaiting, optionsEnded, err>>

\* parse_simple_value rejects the word: run() is left by an exception.
ConsumeThrows ==
  /\ \/ InLoop /\ awaiting # 0 /\ Args[awaiting].kind = "parsed"
     \/ /\ AtPositional
        /\ posIndex < Len(Positionals(Args))
        /\ Args[Positionals(Args)[posIndex + 1]].kind = "parsed"
  /\ pc' = "thrown"
  /\ UNCHANGED <<chain, words, start, index, locals, err, dst>>

EndOptions ==
  /\ AtOption("ends")
  /\ optionsEnded' = TRUE
  /\ Advance
  /\ UNCHANGED <<posIndex, longSeen, shortSeen, awaiting, lastArg, err, dst>>

\* Mutant: an option given by one name is not recorded under the other.
SpecifiedByLong(options) ==
  /\ longSeen' = longSeen \union {Args[i].long : i \in options}
  /\ shortSeen' = shortSeen

\* Both names of an option count as specified, whichever was used.
Specified(options) ==
  /\ longSeen' = longSeen \union {Args[i].long : i \in options}
  /\ shortSeen' = shortSeen \union ({Args[i].short : i \in options} \ {NoShort})

\* trigger() sets the flag, a valued option waits for the next word.
Trigger(flags) ==
  dst' = [dst EXCEPT ![p] = [i \in DOMAIN Args |-> IF i \in flags THEN 1 ELSE @[i]]]

ReadLong ==
  /\ AtOption("long")
  /\ LET option == ByLong(Args, Word.name)
         flag == {i \in option : IsFlag(Args, i)}
     IN /\ Specified(option)
        /\ Trigger(flag)
        /\ awaiting' \in IF option = flag THEN {0} ELSE option
        /\ err' = IF option = {} THEN [err EXCEPT ![p] = "unknown"] ELSE err
  /\ Advance
  /\ UNCHANGED <<posIndex, optionsEnded, lastArg>>

-----------------------------------------------------------------------------
(* A group of letters is obeyed letter by letter up to the first one that  *)
(* is unknown, or that takes a value and is not alone; the letters before  *)
(* it have had their effect.                                               *)

Letter(args, w, k) == ByShort(args, w.letters[k])
Obeyed(args, w, k) ==
  \A j \in 1 .. k : Letter(args, w, j) # {} /\ \A i \in Letter(args, w, j) : IsFlag(args, i)
Flags(args, w) ==
  UNION {Letter(args, w, k) : k \in {j \in DOMAIN w.letters : Obeyed(args, w, j)}}
Stops(args, w) ==
  {k \in DOMAIN w.letters : ~Obeyed(args, w, k) /\ Obeyed(args, w, k - 1)}
StopsAt(args, w) == UNION {Letter(args, w, k) : k \in Stops(args, w)}

ReadLetters(awaited, error) ==
  /\ AtOption("short")
  /\ Specified(Flags(Args, Word) \union StopsAt(Args, Word))
  /\ Trigger(Flags(Args, Word))
  /\ awaiting' \in IF awaited = {} THEN {0} ELSE awaited
  /\ err' = IF error = "" THEN err ELSE [err EXCEPT ![p] = error]
  /\ Advance
  /\ UNCHANGED <<posIndex, optionsEnded, lastArg>>

Unknown(args, w) == Stops(args, w) # {} /\ StopsAt(args, w) = {}

ReadShort ==
  LET valued == StopsAt(Args, Word)
      alone == Len(Word.letters) = 1
  IN ReadLetters(IF alone THEN valued ELSE {},
                 CASE Unknown(Args, Word) -> "unknown"
                   [] valued # {} /\ ~alone -> "combined"
                   [] OTHER -> "")

-----------------------------------------------------------------------------
\* One positional word more than there are arguments ends the loop.
LoopOver ==
  /\ pc = "loop"
  /\ \/ index > Len(words) \/ lastArg
     \/ AtPositional /\ posIndex = Len(Positionals(Args))

Mandatory(S) == \E i \in S : Args[i].mandatory

\* The checks after the loop, in their order; the first that applies
\* replaces whatever the loop had to say.
Complaints ==
  LET left == {Positionals(Args)[k] : k \in posIndex + 1 .. Len(Positionals(Args))}
      options == {i \in DOMAIN Args : ~Args[i].positional}
      long == {i \in options : /\ i \in ByLong(Args, Args[i].long)
                               /\ Args[i].long \notin longSeen}
      short == {i \in options : /\ i \in ByShort(Args, Args[i].short)
                                /\ Args[i].short \notin shortSeen \union {NoShort}}
  IN << [holds |-> awaiting # 0, what |-> "value"],
        [holds |-> Mandatory(left), what |-> "positional"],
        [holds |-> Mandatory(long), what |-> "option"],
        [holds |-> Mandatory(short), what |-> "option"],
        [holds |-> ~MoreFollow /\ index <= Len(words), what |-> "extra"] >>

Finish ==
  /\ LoopOver
  /\ LET said == {k \in DOMAIN Complaints : Complaints[k].holds}
         first == CHOOSE k \in said : \A j \in said : k <= j
     IN err' = IF said = {} THEN err ELSE [err EXCEPT ![p] = Complaints[first].what]
  /\ pc' = "finished"
  /\ UNCHANGED <<chain, words, start, index, locals, dst>>

\* The locals of a call of run(), which builds its name tables anew.
FreshLocals ==
  /\ posIndex' = 0 /\ awaiting' = 0
  /\ longSeen' = {} /\ shortSeen' = {}
  /\ optionsEnded' = FALSE /\ lastArg' = FALSE

\* Mutant: what the first parser read as positional counts for the second.
RunNextKeepsCount ==
  /\ pc = "finished" /\ MoreFollow
  /\ start' = Append(start, index)
  /\ awaiting' = 0 /\ longSeen' = {} /\ shortSeen' = {}
  /\ optionsEnded' = FALSE /\ lastArg' = FALSE
  /\ pc' = "loop"
  /\ UNCHANGED <<chain, words, index, posIndex, err, dst>>

\* The caller runs the parser of the subcommand on the same parse state.
RunNext ==
  /\ pc = "finished" /\ MoreFollow
  /\ start' = Append(start, index)
  /\ FreshLocals
  /\ pc' = "loop"
  /\ UNCHANGED <<chain, words, index, err, dst>>

Init ==
  /\ chain \in Chains
  /\ words \in UNION {[1 .. n -> Words] : n \in 0 .. MaxWords}
  /\ start = <<1>> /\ index = 1
  /\ posIndex = 0 /\ awaiting = 0
  /\ longSeen = {} /\ shortSeen = {}
  /\ optionsEnded = FALSE /\ lastArg = FALSE
  /\ err = [q \in DOMAIN chain |-> ""]
  /\ dst = [q \in DOMAIN chain |-> [i \in DOMAIN chain[q] |-> 0]]
  /\ pc = "loop"

Next ==
  \/ ReadValue \/ ReadPositional \/ ConsumeThrows \/ EndOptions
  \/ ReadLong \/ ReadShort
  \/ Finish \/ RunNext

Spec == Init /\ [][Next]_vars
=============================================================================
