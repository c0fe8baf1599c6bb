------------------------------- MODULE Speech -------------------------------
(***************************************************************************)
(* The LiveKit agent's speech: what the caller says on its way to the          *)
(* recognizer, and what the agent says on its way to the room.  The parts do   *)
(* not share state; a behaviour is one of them, chosen by the call.           *)
(***************************************************************************)
EXTENDS Transcriber, Synthesizer, NoiseFilter

vars == <<conf, tvars, svars, nf>>

Init ==
  /\ conf \in Calls /\ TranscriberInit /\ SynthesizerInit /\ NoiseInit
  /\ conf.part # "say" => voice = "default"
  /\ conf.part # "filter" => nf.enabled

Transcribing == conf.part = "hear" /\ TranscriberNext /\ UNCHANGED <<conf, svars, nf>>
Synthesizing == conf.part = "say" /\ SynthesizerNext /\ UNCHANGED <<conf, tvars, nf>>
Filtering == conf.part = "filter" /\ NoiseNext /\ UNCHANGED <<conf, tvars, svars>>

Next == Transcribing \/ Synthesizing \/ Filtering

Spec == Init /\ [][Next]_vars

\* Every task runs, the VAD reports the silence it was given and then ends,
\* and the recognizer answers a commit.
FairSpec ==
  /\ Spec
  /\ WF_vars(Transcribing /\ Recognizes) /\ WF_vars(Transcribing /\ Answers)
  /\ WF_vars(Transcribing /\ mic.ended /\ FallsSilent) /\ WF_vars(Transcribing /\ mic.ended /\ InputEnds)

-----------------------------------------------------------------------------
\* Nothing the caller says is lost, repeated or put elsewhere on its way: not by
\* the noise filter, not between two generations of the recognizer, and what
\* is reported of it is reported inside speech.
CallerHeard == AudioKept /\ WholeUtterance /\ Bracketed
=============================================================================
