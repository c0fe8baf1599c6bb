------------------------------ MODULE MCTurns ------------------------------
(* Turns on small instances: two different sentences, and a spelling        *)
(* variant of the first that normalize() identifies with it.               *)
EXTENDS Turns

MCTexts == {"a", "A", "b"}
MCNorm == [t \in MCTexts |-> IF t = "A" THEN "a" ELSE t]

\* A caller who is heard revising a sentence.
Revising == [engaged |-> TRUE, grace |-> FALSE, greets |-> FALSE, notices |-> 0,
             tools |-> {}, heard |-> MCTexts, typed |-> {}]
\* A greeted caller who speaks and types while replies end or transfer the call.
Tooled == [engaged |-> TRUE, grace |-> TRUE, greets |-> TRUE, notices |-> 0,
           tools |-> {"end_call", "transfer"}, heard |-> {"a"}, typed |-> {"b"}]
\* The same without engagement, where the recognizer's loop answers finals.
Legacy == [Tooled EXCEPT !.engaged = FALSE, !.grace = FALSE, !.tools = {}]
\* Announcements of background work.
Noticed == [Revising EXCEPT !.notices = 1, !.heard = {"a"}]

MCConfs == {Revising, Tooled, Legacy, Noticed}
=============================================================================
