----------------------------- MODULE MCArgParser -----------------------------
(* A command, and two commands with subcommands, on every line of at most  *)
(* MaxWords words.                                                         *)
EXTENDS ArgReading

Declare(long, short, kind, positional, mandatory) ==
  [long |-> long, short |-> short, kind |-> kind,
   positional |-> positional, mandatory |-> mandatory]

Source == Declare("source", NoShort, "string", TRUE, TRUE)
Count == Declare("count", NoShort, "parsed", TRUE, FALSE)
Out == Declare("out", "o", "parsed", FALSE, TRUE)
Mode == Declare("mode", NoShort, "string", FALSE, FALSE)
Help == Declare("help", "h", "flag", FALSE, FALSE)

MCChains == { << <<Source, Out, Count, Help>> >>,
              << <<Help, Source>>, <<Out, Count>> >>,
              << <<Mode, Help>>, <<Source, Out>>, <<Help>> >> }

Long(name) == [kind |-> "long", name |-> name]
Short(letters) == [kind |-> "short", letters |-> letters]

MCWords == {[kind |-> "plain"], [kind |-> "ends"],
            Long("out"), Long("mode"), Long("help"),
            Short(<<"o">>), Short(<<"h", "o">>), Short(<<"h", "x">>), Short(<<>>)}
=============================================================================
