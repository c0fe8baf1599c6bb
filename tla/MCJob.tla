-------------------------------- MODULE MCJob --------------------------------
(* The reference pipeline's calls on small instances.                         *)
EXTENDS Job

Plain == [host |-> "room", service |-> TRUE, capacity |-> FALSE, outbound |-> FALSE, recording |-> FALSE, transfer |-> FALSE,
          words |-> 0, uses |-> FALSE, memory |-> FALSE, ends |-> FALSE, breaks |-> FALSE, stays |-> FALSE]
Bare == [Plain EXCEPT !.service = FALSE]

MCConfs ==
  { [Plain EXCEPT !.words = 3], [Plain EXCEPT !.recording = TRUE, !.words = 1], [Plain EXCEPT !.uses = TRUE, !.host = "browser", !.breaks = TRUE],
    [Bare EXCEPT !.host = "sip", !.capacity = TRUE, !.outbound = TRUE, !.breaks = TRUE, !.ends = TRUE],
    [Plain EXCEPT !.host = "sip", !.capacity = TRUE, !.transfer = TRUE, !.words = 1],
    [Bare EXCEPT !.host = "browser", !.memory = TRUE, !.stays = TRUE] }
==============================================================================
