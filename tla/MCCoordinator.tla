---------------------------- MODULE MCCoordinator ----------------------------
(* Coordinator for TLC: a request "a" and one that ASR may confuse with it. *)
EXTENDS Coordinator

\* Early hypotheses of two requests; the model's end_call with short turns; the
\* speech gate, the reply grace, idle check-ins and the absent caller's goodbye;
\* a gate the model may open with a first reply.
Guessing == [texts |-> {"a", "b"}, on |-> {"flush"}, tools |-> {}, idle |-> 0]
Ending == [texts |-> {"a"}, on |-> {"minimum", "endCall"}, tools |-> {"end"}, idle |-> 0]
Engaged == [texts |-> {"a"}, on |-> {"grace", "engagement", "pilot", "endCall"},
            tools |-> {"end", "off", "bad"}, idle |-> 1]
Opened == [texts |-> {"a"}, on |-> {"engagement", "endCall"},
           tools |-> {"end", "say", "bad"}, idle |-> 0]

MCConfigs == {Guessing, Ending, Engaged, Opened}
MCSame == {<<t, t>> : t \in {"a", "b"}}
MCNone == {}
=============================================================================
