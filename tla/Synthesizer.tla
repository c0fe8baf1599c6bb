---------------------------- MODULE Synthesizer ----------------------------
(***************************************************************************)
(* The LiveKit agent's speech synthesis (odion_tts.py): one stream per         *)
(* sentence, its retries, the switch to the default voice, and what is pushed  *)
(* to the room.  Sentences are synthesised one after another; a failed _run    *)
(* is the framework's to report.                                            *)
(***************************************************************************)
EXTENDS Integers, Sequences

CONSTANTS
  MaxSentences,   \* bound: sentences
  Attempts,       \* retry_attempts
  InitialBuffer,  \* initial_buffer_ms, in frames
  MaxFrames       \* bound: frames of a response

ASSUME SynthesizerAssumption ==
  MaxSentences \in Nat /\ Attempts \in Nat \ {0} /\ InitialBuffer \in Nat /\ MaxFrames \in Nat

VARIABLES
  voice,   \* OdionTTS._opts: the voice of the session, "clone" or "default"
  stream,  \* ChunkedStream: sentence, where, its options' voice, attempt, frames received and pushed
  heard    \* the frames pushed to the room

svars == <<voice, stream, heard>>

Sentence(n, v) == [n |-> n, at |-> "request", voice |-> v, own |-> v, attempt |-> 1, got |-> 0, pushed |-> 0]

SynthesizerInit ==
  /\ voice \in {"clone", "default"} /\ heard = <<>>
  /\ stream = [Sentence(0, voice) EXCEPT !.at = "over"]

\* synthesize: the stream copies the session's options.
Synthesize ==
  /\ stream.at = "over" /\ stream.n < MaxSentences
  /\ stream' = Sentence(stream.n + 1, voice)
  /\ UNCHANGED <<voice, heard>>

Fails == stream' = [stream EXCEPT !.at = "over"]

\* _should_retry_request: a service that says it is not ready, and on RunPod
\* the transient statuses.
Retryable(status) == status \in {"notReady", "throttled"}

\* _should_fallback_to_default: a clone that is missing or a 5xx.
CloneUnavailable(status) == status \in {"notReady", "missing", "server"}

\* Mutant of FallBack: only this stream changes its voice.
FallBackOnce == UNCHANGED voice

\* The rest of the session keeps the default voice.
FallBack == voice' = "default"

\* A status of 400 or more, before any audio: tried again, or once more with
\* the default voice when the clone is missing or the service fails.
StatusError ==
  /\ stream.at = "request"
  /\ \E status \in {"notReady", "throttled", "missing", "server", "refused"} :
       IF stream.attempt < Attempts /\ Retryable(status)
       THEN stream' = [stream EXCEPT !.attempt = @ + 1] /\ UNCHANGED voice
       ELSE IF stream.own = "clone" /\ stream.voice = "clone" /\ CloneUnavailable(status)
       THEN stream' = [stream EXCEPT !.voice = "default", !.attempt = 1] /\ FallBack
       ELSE Fails /\ UNCHANGED voice
  /\ UNCHANGED heard

Responds ==
  /\ stream.at = "request" /\ stream' = [stream EXCEPT !.at = "body", !.got = 0, !.pushed = 0]
  /\ UNCHANGED <<voice, heard>>

\* Frames from..to of a response, pushed to the room.
Push(to) == heard' = heard \o [i \in 1..(to - stream.pushed) |-> [n |-> stream.n, frame |-> stream.pushed + i, voice |-> stream.voice]]

\* A chunk of the body: held until the initial buffer is full.
ReceivesAudio ==
  /\ stream.at = "body" /\ stream.got < MaxFrames
  /\ LET got == stream.got + 1
         to == IF stream.pushed > 0 \/ got >= InitialBuffer THEN got ELSE 0
     IN /\ stream' = [stream EXCEPT !.got = got, !.pushed = to]
        /\ Push(to)
  /\ UNCHANGED voice

\* The body's end, or a broken one after some audio: the buffer is pushed.
BodyEnds ==
  /\ stream.at = "body"
  /\ Push(stream.got) /\ stream' = [stream EXCEPT !.at = "over", !.pushed = stream.got]
  /\ UNCHANGED voice

\* Mutant of Unreached: the handlers of _stream_once see the bare exceptions.
UnreachedTriesAgain ==
  stream' = IF stream.attempt < Attempts THEN [stream EXCEPT !.at = "request", !.attempt = @ + 1]
            ELSE [stream EXCEPT !.at = "over"]

\* A timeout or a broken connection, wrapped by _stream_request: the retries
\* of _stream_once are for exceptions that never reach it.
Unreached == stream' = [stream EXCEPT !.at = "over"]

BreaksOff ==
  /\ stream.at \in {"request", "body"} /\ Unreached
  /\ UNCHANGED <<voice, heard>>

\* The agent is interrupted: the stream is closed where it is.
Interrupts ==
  /\ stream.at # "over" /\ Fails
  /\ UNCHANGED <<voice, heard>>

SynthesizerNext == Synthesize \/ StatusError \/ Responds \/ ReceivesAudio \/ BodyEnds \/ BreaksOff \/ Interrupts

\* No caller hears a part of a sentence twice: whatever is retried or falls back
\* does so before the first frame is pushed (odion_tts.py:440, 620).  And a
\* session that fell back to the default voice is not heard in the clone again
\* (odion_tts.py:400: "Keep the remainder of the session on the same fallback voice").
SpokenOnce ==
  \A i, j \in DOMAIN heard : i < j =>
    /\ heard[i].n < heard[j].n \/ (heard[i].n = heard[j].n /\ heard[i].frame < heard[j].frame)
    /\ heard[i].voice = "default" => heard[j].voice = "default"

-----------------------------------------------------------------------------
(* The inductive invariant behind SpokenOnce: what was heard is of sentences *)
(* up to the present one, of that only what it has pushed, and in a voice the *)
(* session has not left.                                                     *)

Voices == {"clone", "default"}
StreamSet ==
  [n : Nat, at : {"request", "body", "over"}, voice : Voices, own : Voices, attempt : Nat, got : Nat, pushed : Nat]
FrameSet == [n : Nat, frame : Nat, voice : Voices]

SpokenInv ==
  /\ voice \in Voices /\ stream \in StreamSet /\ heard \in Seq(FrameSet)
  /\ stream.voice = voice /\ stream.pushed <= stream.got
  /\ \A i \in DOMAIN heard :
       /\ heard[i].n <= stream.n
       /\ heard[i].n = stream.n => stream.at # "request" /\ heard[i].frame <= stream.pushed
       /\ heard[i].voice = "default" => voice = "default"
  /\ SpokenOnce
=============================================================================
