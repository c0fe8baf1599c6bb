----------------------------- MODULE MCActions -----------------------------
(* Actions on small instances, one for each kind of tool the call offers.   *)
EXTENDS Actions

Bank == {"read", "prepare", "execute"}
Foreground(e, v, tools, n) == [engaged |-> e, background |-> FALSE, voice |-> v, tools |-> tools, turns |-> n]
Background == [engaged |-> TRUE, background |-> TRUE, voice |-> FALSE, tools |-> Bank, turns |-> 5]
MCConfs ==
  {Foreground(e, FALSE, Bank, 5) : e \in BOOLEAN}
    \union {Foreground(TRUE, TRUE, {"prepare", "execute"}, 4)}
    \union {Foreground(e, FALSE, {"ticket", "email"}, 4) : e \in BOOLEAN}
    \union {Foreground(TRUE, FALSE, {"email", tool}, 4) : tool \in {"prepare", "directory"}}
    \union {Background, [Background EXCEPT !.voice = TRUE, !.turns = 3]}
=============================================================================
