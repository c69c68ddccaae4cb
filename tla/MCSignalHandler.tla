--------------------------- MODULE MCSignalHandler ---------------------------
(* SignalHandler with two objects and two signals.                         *)
EXTENDS SignalHandler

CONSTANTS t1, t2

\* One of the objects is made with a stop source.
Scene(builders, receivers, most, throws) ==
  [builders |-> builders, receivers |-> receivers, deliveries |-> most, throws |-> throws,
   sources |-> {CHOOSE o \in Objects : TRUE}]

\* One thread that signals interrupt; two that race as well; a thread of its own
\* for the signals.
MCScenes ==
  {Scene({t1}, {t1}, 3, FALSE), Scene({t1, t2}, {t1, t2}, 1, TRUE), Scene({t1}, {t2}, 2, FALSE)}
SignalledScene == {Scene({t1}, {t1}, 1, FALSE)}
QuietScene == {Scene({t1}, {t1}, 0, TRUE)}
=============================================================================
