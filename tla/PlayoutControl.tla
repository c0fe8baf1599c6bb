--------------------------- MODULE PlayoutControl ---------------------------
(***************************************************************************)
(* The attempt-scoped control state of the playout actor and the effect of *)
(* its five control commands (rust/src/playout.rs, `State` and             *)
(* `State::control`).  The commands are pure operators on a record, so the *)
(* actor itself (module Playout) and the coordinator that drives it        *)
(* (module Coordinator) share one definition of what a command does.       *)
(*                                                                         *)
(* A playout state is a record                                             *)
(*   id          the attempt that owns the sink, NoAttempt when there is   *)
(*               none                                                      *)
(*   highest     the greatest attempt id ever begun                        *)
(*   authorized  the owner may submit PCM                                  *)
(*   enabled     the model's speech gate; it outlives an attempt           *)
(*   ended       the owner's End has been accepted                         *)
(***************************************************************************)
EXTENDS Naturals

NoAttempt == 0

NewPlayout ==
  [id |-> NoAttempt, highest |-> 0, authorized |-> FALSE,
   enabled |-> TRUE, ended |-> FALSE]

PlayoutStates(maxId) ==
  [id : 0..maxId, highest : 0..maxId, authorized : BOOLEAN,
   enabled : BOOLEAN, ended : BOOLEAN]

(***************************************************************************)
(* `State::clear`: the owner is forgotten; the speech gate is left alone.  *)
(***************************************************************************)
Cleared(s) ==
  [s EXCEPT !.id = NoAttempt, !.authorized = FALSE, !.ended = FALSE]

Owns(s, id) == s.id = id /\ id # NoAttempt

\* Control::Begin: an id that is not new is refused.
BeginOk(s, id) == id > s.highest
AfterBegin(s, id) ==
  IF BeginOk(s, id) THEN [Cleared(s) EXCEPT !.highest = id, !.id = id] ELSE s

\* Control::Authorize: only the owner can be authorized.
AfterAuthorize(s, id) ==
  IF Owns(s, id) THEN [s EXCEPT !.authorized = TRUE] ELSE s

\* Control::Cancel: only the owner can be cancelled.
AfterCancel(s, id) == IF Owns(s, id) THEN Cleared(s) ELSE s

\* Control::Speech: only an authorized owner moves the gate.
SpeechOk(s, id) == Owns(s, id) /\ s.authorized
AfterSpeech(s, id, on) ==
  IF SpeechOk(s, id) THEN [s EXCEPT !.enabled = on] ELSE s

PcmAllowedUnauthorized(s, id) == Owns(s, id) /\ s.enabled /\ ~s.ended

\* The guard on Audio::Pcm: the frame's attempt owns an open, live sink.
PcmAllowed(s, id) == Owns(s, id) /\ s.authorized /\ s.enabled /\ ~s.ended

\* The guard on Audio::End.
EndAllowed(s, id) == Owns(s, id) /\ s.authorized /\ ~s.ended
=============================================================================
