------------------------------ MODULE MCSpeech ------------------------------
EXTENDS Speech

Hears(by, endpointing, polite, drops) ==
  [part |-> "hear", stream |-> by, vad |-> endpointing, polite |-> polite, drops |-> drops]

\* Realtime with a VAD whose caller falls silent before the input ends or is cut
\* off, and whose socket holds or breaks; without a VAD, likewise; in segments;
\* and the two other parts.
MCCalls ==
  {Hears("realtime", TRUE, p, d) : p \in BOOLEAN, d \in BOOLEAN} \union
  {Hears("realtime", FALSE, TRUE, FALSE), Hears("realtime", FALSE, TRUE, TRUE), Hears("segments", FALSE, FALSE, FALSE),
   [Hears("segments", FALSE, FALSE, FALSE) EXCEPT !.part = "say"], [Hears("segments", FALSE, FALSE, FALSE) EXCEPT !.part = "filter"]}
=============================================================================
