------------------------------- MODULE Turns -------------------------------
(***************************************************************************)
(* Turn ownership in the Python pipeline (latency_lab/pipeline.py) over     *)
(* its LiveKit transport (latency_lab/livekit_worker.py).                   *)
(*                                                                         *)
(* Everything runs on one asyncio loop, so a coroutine is interrupted only  *)
(* where it awaits.  The actors are the caller's input (audio frames and    *)
(* typed text, serialised by input_lock), the recognizer's receive loop     *)
(* (partials and finals), the stability timer, the final timeout, the task  *)
(* that answers a final, and one generation task per attempt.  Each action  *)
(* is the code between two awaits.                                          *)
(*                                                                         *)
(* The waits of _cancel_attempt are the interesting ones: `cq' holds the    *)
(* coroutines inside it, in the order in which they will be resumed.        *)
(***************************************************************************)
EXTENDS Naturals, Sequences, FiniteSets, SequencesExt

CONSTANTS
  Texts,        \* transcripts, as far as the pipeline tells them apart
  Norm,         \* normalize(): Texts -> what is compared
  Finals,       \* the transcripts a final may carry
  Echo,         \* transcripts that repeat the recognizer's context
  Confs,        \* the calls explored: settings, tools on offer, what is heard and typed
  MaxTurns,     \* bound: caller turns
  MaxAttempts,  \* bound: generations at a time
  MaxChunks,    \* bound: audio chunks of one generation
  MaxNotices    \* bound: announcements

None == "none"

ASSUME TurnsAssumption ==
  /\ Norm \in [Texts -> Texts] /\ Finals \subseteq Texts /\ Echo \subseteq Texts
  /\ Confs \subseteq [engaged : BOOLEAN, grace : BOOLEAN, greets : BOOLEAN, notices : 0 .. MaxNotices,
                     tools : SUBSET {"end_call", "transfer"}, heard : SUBSET Texts, typed : SUBSET Texts]
  /\ \A c \in Confs : c.grace => c.engaged
  /\ MaxTurns \in Nat /\ MaxAttempts \in Nat /\ MaxChunks \in Nat /\ MaxNotices \in Nat
  /\ None \notin Texts

VARIABLES
  conf,     \* the settings of this call, and its caller
  p,        \* fields of ConversationPipeline and of the transport
  A,        \* the attempts somebody refers to
  cq,       \* coroutines waiting inside _cancel_attempt, in the order of their wait
  inp,      \* the coroutine that holds input_lock
  rcv,      \* the recognizer's receive loop
  stab,     \* stability_task
  timer,    \* final_timeout_task
  resp,     \* _final_response_task, or the receive loop while it answers
  asked,    \* turns whose utterance was committed and not yet transcribed
  finals,   \* history: normalised texts retained as finals
  notices   \* announcements made so far

vars == <<conf, p, A, cq, inp, rcv, stab, timer, resp, asked, finals, notices>>

Attempts == 1 .. MaxAttempts
Opening == 0            \* the turn id of the opening greeting
NoTurn == MaxTurns + 1  \* turn_id is None

Attempt(hyp, auth, pc) ==
  [hyp |-> hyp, auth |-> auth, cancelled |-> FALSE, complete |-> FALSE,
   held |-> 0, made |-> 0, tool |-> None, cap |-> 0, pc |-> pc]

NoAttempt == Attempt(None, FALSE, "done")
\* Mutant of Same: the final is not compared with the hypothesis.
SameUnchecked(h, text) == h # None

\* Two transcripts normalize() does not tell apart.
Same(h, text) == h # None /\ Norm[h] = Norm[text]

Idle == [pc |-> "ready", text |-> None, turn |-> NoTurn, old |-> NoTurn]

\* The fields of a new pipeline.
New == [state |-> "idle", turn |-> NoTurn, number |-> 0, att |-> 0, last |-> None,
        final |-> None, cand |-> FALSE, candTurn |-> NoTurn, buf |-> None,
        closed |-> {}, ending |-> FALSE, handoff |-> "no", playing |-> FALSE,
        over |-> FALSE]

Init ==
  /\ conf \in Confs
  /\ p = New
  /\ A = [a \in Attempts |-> NoAttempt]
  /\ cq = <<>>
  /\ inp = Idle /\ rcv = Idle
  /\ stab = Idle /\ timer = Idle /\ resp = Idle
  /\ asked = {} /\ finals = {} /\ notices = 0

----------------------------------------------------------------------------
(* The transport and the client events it raises, as functions of p.        *)

\* client_event("tts_start"), raised by the first chunk of a playback.
TtsStart(q) == IF q.playing THEN q ELSE [q EXCEPT !.playing = TRUE, !.state = "playing"]

\* client_event("tts_stop").
TtsStop(q, B) ==
  IF conf.engaged /\ q.att # 0 /\ ~B[q.att].complete /\ ~B[q.att].cancelled
  THEN [q EXCEPT !.state = "releasing"]
  ELSE [q EXCEPT !.closed = IF q.turn = NoTurn THEN @ ELSE @ \union {q.turn},
                 !.state = "idle", !.turn = NoTurn, !.att = 0]

\* LiveKitPCMTransport.send("stop_tts").
StopTts(q, B) == [(IF q.playing THEN TtsStop(q, B) ELSE q) EXCEPT !.playing = FALSE]

\* Mutant of FinishPlayout: a drained playback always ends the turn.
FinishPlayoutAlways(q, B, cap) ==
  LET r == TtsStop(q, B) IN [r EXCEPT !.playing = IF r.att = 0 THEN FALSE ELSE @]

\* _finish_playout: the drained playback ends the turn only if the attempt
\* that was current when "tts_end" was sent still is.
FinishPlayout(q, B, cap) ==
  LET r == IF q.att = cap THEN TtsStop(q, B) ELSE q
  IN [r EXCEPT !.playing = IF r.att = 0 THEN FALSE ELSE @]

ClearCandidate(q) == [q EXCEPT !.cand = FALSE, !.candTurn = NoTurn, !.buf = None]

----------------------------------------------------------------------------
(* _cancel_attempt                                                          *)

\* Attempts nobody can refer to any more are used again: the model keeps at
\* most MaxAttempts at a time, not in all.
Fresh == {a \in Attempts :
            /\ A[a].pc = "done" /\ a # p.att /\ resp.old # a
            /\ \A i \in 1 .. Len(cq) : cq[i].att # a
            /\ \A b \in Attempts : A[b].pc \in {"drain", "apology"} => A[b].cap # a}
NextAttempt == CHOOSE a \in Fresh : \A b \in Fresh : a <= b

\* A coroutine that is cancelled leaves the queue, where it waits at most once.
PlaceOf(q, who) == CHOOSE i \in 1 .. Len(q) : q[i].who = who
Leaves(q, k) == [i \in 1 .. Len(q) - 1 |-> IF i < k THEN q[i] ELSE q[i + 1]]
Without(q, who) ==
  IF \E i \in 1 .. Len(q) : q[i].who = who THEN Leaves(q, PlaceOf(q, who)) ELSE q

\* Mutants of CancelBegins: the answering task is left running; the attempt is
\* marked but its task goes on.
CancelBeginsKeepsTask(who) ==
  /\ p.att # 0
  /\ A' = [A EXCEPT ![p.att].cancelled = TRUE, ![p.att].pc = "done", ![p.att].held = 0]
  /\ resp' = IF who = "resp" THEN [resp EXCEPT !.pc = "replace"] ELSE resp
  /\ cq' = Append(cq, [who |-> who, att |-> p.att, woken |-> FALSE])

CancelBeginsKeepsGenerating(who) ==
  /\ p.att # 0
  /\ A' = [A EXCEPT ![p.att].cancelled = TRUE, ![p.att].held = 0]
  /\ resp' = IF who = "resp" THEN [resp EXCEPT !.pc = "replace"] ELSE IF conf.engaged THEN Idle ELSE resp
  /\ cq' = Append(IF conf.engaged /\ who # "resp" THEN Without(cq, "resp") ELSE cq,
                  [who |-> who, att |-> p.att, woken |-> FALSE])

\* Its code up to the first wait: the task that answers a final is cancelled
\* (unless it is the one that cancels), then the attempt and its task.
CancelBegins(who) ==
  /\ p.att # 0
  /\ A' = [A EXCEPT ![p.att].cancelled = TRUE, ![p.att].pc = "done",
                    ![p.att].held = 0]
  /\ resp' = IF who = "resp" THEN [resp EXCEPT !.pc = "replace"] ELSE IF conf.engaged THEN Idle ELSE resp
  /\ cq' = Append(IF conf.engaged /\ who # "resp" THEN Without(cq, "resp") ELSE cq,
                  [who |-> who, att |-> p.att, woken |-> FALSE])

\* Its code after the waits: stop_tts for an authorized attempt, and no attempt.
CancelEnds(who) == ~p.over /\ cq # <<>> /\ Head(cq).who = who

Cancelled ==
  LET a == Head(cq).att
  IN [(IF A[a].auth THEN StopTts(p, A) ELSE p) EXCEPT !.att = 0]

\* The end of the cancelled task wakes all who wait for it, one after the
\* other, before the loop runs anything else.
Rest == [i \in 1 .. Len(cq) - 1 |-> [cq[i + 1] EXCEPT !.woken = @ \/ cq[i + 1].att = cq[1].att]]
Waking == cq # <<>> /\ Head(cq).woken
Running == ~p.over /\ ~Waking

\* The cancelled attempt, once nobody else waits for it or releases its audio.
Dropped ==
  LET a == Head(cq).att
  IN IF resp.old = a \/ \E i \in 2 .. Len(cq) : cq[i].att = a THEN A ELSE [A EXCEPT ![a] = NoAttempt]

\* With nothing to cancel _cancel_attempt only ends the answering task.
Unanswered == IF conf.engaged THEN Without(cq, "resp") ELSE cq
NothingToCancel ==
  /\ p.att = 0
  /\ resp' = IF conf.engaged THEN Idle ELSE resp
  /\ cq' = Unanswered

----------------------------------------------------------------------------
(* The caller's input: audio(), _speech_started, _speech_ended, text().      *)

Hears == inp.pc = "ready" /\ Running /\ p.handoff = "no"

Interruptible == {"idle", "playing", "releasing"}

CandidateStarts ==
  /\ Hears /\ p.state \in Interruptible /\ ~p.cand
  /\ p' = [p EXCEPT !.cand = TRUE, !.candTurn = p.number + 1]
  /\ UNCHANGED <<conf, A, cq, inp, rcv, stab, timer, resp, asked, finals, notices>>

CandidateCancelled ==
  /\ Hears /\ p.state \in Interruptible /\ p.cand
  /\ p' = ClearCandidate(p)
  /\ UNCHANGED <<conf, A, cq, inp, rcv, stab, timer, resp, asked, finals, notices>>

\* _speech_started after its cancellation: a new turn, and the partial that
\* was buffered while the speech was a candidate.
NewTurn(q, t, old, text) ==
  [ClearCandidate(q) EXCEPT
     !.number = @ + 1, !.turn = t, !.last = text, !.final = None, !.state = "speaking",
     !.closed = (IF old = NoTurn THEN @ ELSE @ \union {old}) \ {t}]

\* on_partial for the buffered partial: the stability task is scheduled anew.
Buffered(text) == IF text # None THEN [Idle EXCEPT !.pc = "armed", !.text = text] ELSE stab
Rescheduled(q, text) == IF text # None THEN Without(q, "stab") ELSE q

SpeechIgnored ==
  /\ Hears /\ p.state \in Interruptible /\ p.cand /\ p.ending
  /\ p' = ClearCandidate(p)
  /\ UNCHANGED <<conf, A, cq, inp, rcv, stab, timer, resp, asked, finals, notices>>

SpeechStarts ==
  /\ Hears /\ p.state \in Interruptible /\ p.cand /\ ~p.ending /\ p.number < MaxTurns
  /\ IF p.state = "idle" \/ p.att = 0
     THEN /\ resp' = IF conf.engaged /\ p.state # "idle" THEN Idle ELSE resp
          /\ cq' = Rescheduled(IF p.state = "idle" THEN cq ELSE Unanswered, p.buf)
          /\ p' = NewTurn(p, p.candTurn, IF p.state = "idle" THEN NoTurn ELSE p.turn, p.buf)
          /\ stab' = Buffered(p.buf)
          /\ UNCHANGED <<A, inp>>
     ELSE /\ CancelBegins("inp")
          /\ inp' = [pc |-> "barge", text |-> p.buf, turn |-> p.candTurn, old |-> p.turn]
          /\ UNCHANGED <<p, stab>>
  /\ UNCHANGED <<conf, rcv, timer, asked, finals, notices>>

BargeIn ==
  /\ inp.pc = "barge" /\ CancelEnds("inp")
  /\ p' = NewTurn(Cancelled, inp.turn, inp.old, inp.text)
  /\ stab' = Buffered(inp.text)
  /\ cq' = Rescheduled(Rest, inp.text) /\ inp' = Idle /\ A' = Dropped
  /\ UNCHANGED <<conf, rcv, timer, resp, asked, finals, notices>>

\* _speech_ended: the state changes before the commit is sent ...
SpeechEnds ==
  /\ Hears /\ p.state \in {"speaking", "speculating"}
  /\ p' = [p EXCEPT !.state = "awaiting_final"]
  /\ asked' = IF p.turn = NoTurn THEN asked ELSE asked \union {p.turn}
  /\ inp' = [Idle EXCEPT !.pc = "commit"]
  /\ UNCHANGED <<conf, A, cq, rcv, stab, timer, resp, finals, notices>>

\* Mutant of Committed: no timeout is armed.
CommittedUntimed ==
  /\ inp.pc = "commit" /\ Running
  /\ cq' = Without(cq, "timer")
  /\ inp' = Idle
  /\ UNCHANGED <<conf, p, A, rcv, stab, timer, resp, asked, finals, notices>>

\* ... and the timeout is armed after it, for the turn that is then current.
Committed ==
  /\ inp.pc = "commit" /\ Running
  /\ timer' = [Idle EXCEPT !.pc = "armed", !.turn = p.turn]
  /\ cq' = Without(cq, "timer")
  /\ inp' = Idle
  /\ UNCHANGED <<conf, p, A, rcv, stab, resp, asked, finals, notices>>

----------------------------------------------------------------------------
(* on_final and the answer to it.                                           *)

\* on_final's early returns.
Accepts(q, text) ==
  /\ text \notin Echo /\ ~q.ending /\ q.turn # NoTurn
  /\ q.state = "awaiting_final" /\ q.final = None

Answering(q, text) ==
  [pc |-> IF conf.grace THEN "grace" ELSE "answer", text |-> text, turn |-> q.turn, old |-> NoTurn]

\* _start_attempt when no attempt is stored.
StartsAttempt(B, text, auth) ==
  /\ Fresh # {}
  /\ A' = [B EXCEPT ![NextAttempt] = Attempt(text, auth, "stream")]

\* Mutant of TypedAccepted: a typed turn does not advance the number.
TypedAcceptedUncounted(q) == [ClearCandidate(q) EXCEPT
  !.turn = q.number + 1, !.final = None, !.last = None, !.state = "awaiting_final"]

\* The turn text() opens once the old attempt is cancelled.
TypedAccepted(q) == [ClearCandidate(q) EXCEPT
  !.number = @ + 1, !.turn = q.number + 1, !.final = None, !.last = None,
  !.state = "awaiting_final"]

\* text() from its cancellation on: the timers are cancelled, a turn is opened
\* and on_final runs in the same step (nothing is published for typed text).  A
\* final that was published during the cancellation is no longer answered.
TypedFinal(q, B, text, queue, answering) ==
  LET r == TypedAccepted(q)
      ok == Accepts(r, text)
  IN /\ stab' = Idle /\ timer' = Idle
     /\ LET waiting == Without(Without(queue, "stab"), "timer")
        IN cq' = IF ok /\ conf.engaged THEN Without(waiting, "resp") ELSE waiting
     /\ finals' = IF ok THEN finals \union {Norm[text]} ELSE finals
     /\ CASE ~ok -> p' = r /\ resp' = answering /\ A' = B
          [] ok /\ conf.engaged ->
               /\ p' = [r EXCEPT !.final = text, !.state = "releasing"]
               /\ resp' = Answering(r, text)
               /\ A' = B
          [] ok /\ ~conf.engaged ->
               /\ StartsAttempt(B, text, TRUE)
               /\ p' = [r EXCEPT !.final = text, !.state = "releasing", !.att = NextAttempt]
               /\ resp' = answering

Types(text) ==
  /\ Hears /\ p.number < MaxTurns
  /\ IF p.att = 0
     THEN /\ TypedFinal(p, A, text, Unanswered, IF conf.engaged THEN Idle ELSE resp)
          /\ UNCHANGED inp
     ELSE /\ CancelBegins("inp")
          /\ inp' = [Idle EXCEPT !.pc = "text", !.text = text]
          /\ UNCHANGED <<p, stab, timer, finals>>
  /\ UNCHANGED <<conf, rcv, asked, notices>>

TypedSubmitted ==
  /\ inp.pc = "text" /\ CancelEnds("inp")
  /\ TypedFinal(Cancelled, Dropped, inp.text, Rest, resp)
  /\ inp' = Idle
  /\ UNCHANGED <<conf, rcv, asked, notices>>

\* The recognizer's loop is free: it is not inside on_partial or on_final.
\* Without engagement it runs the whole answer itself.
RcvFree == rcv.pc = "ready" /\ Running /\ (conf.engaged \/ resp.pc = "ready")

\* A committed utterance is transcribed; on_final up to its first await, the
\* publication of the transcript.
FinalArrives(t, text) ==
  /\ RcvFree /\ t \in asked
  /\ asked' = asked \ {t}
  /\ IF Accepts(p, text)
     THEN /\ p' = [p EXCEPT !.final = text]
          /\ timer' = Idle /\ cq' = Without(cq, "timer")
          /\ finals' = finals \union {Norm[text]}
          /\ rcv' = [Idle EXCEPT !.pc = "publish", !.text = text]
     ELSE UNCHANGED <<p, timer, cq, finals, rcv>>
  /\ UNCHANGED <<conf, A, inp, stab, resp, notices>>

\* The provider fails or returns nothing; only the timeout ends the turn.
FinalLost(t) ==
  /\ RcvFree /\ t \in asked
  /\ asked' = asked \ {t}
  /\ UNCHANGED <<conf, p, A, cq, inp, rcv, stab, timer, resp, finals, notices>>

\* on_final after the publication.
FinalPublished ==
  /\ rcv.pc = "publish" /\ Running
  /\ rcv' = Idle
  /\ stab' = Idle
  /\ cq' = IF conf.engaged THEN Without(Without(cq, "stab"), "resp") ELSE Without(cq, "stab")
  /\ p' = IF conf.engaged THEN [p EXCEPT !.state = "releasing"] ELSE p
  /\ resp' = Answering(p, rcv.text)
  /\ UNCHANGED <<conf, A, inp, timer, asked, finals, notices>>

\* _respond_after_reply_grace: a candidate gets one more confirmation window,
\* and a turn that is no longer the one to answer is given up ...
Outdated == p.turn # resp.turn \/ p.state # "releasing"

GraceElapses ==
  /\ resp.pc \in {"grace", "window"} /\ Running
  /\ IF resp.pc = "grace" /\ p.cand /\ p.turn = resp.turn
     THEN resp' = [resp EXCEPT !.pc = "window"]
     ELSE Outdated /\ resp' = Idle
  /\ UNCHANGED <<conf, p, A, cq, inp, rcv, stab, timer, asked, finals, notices>>

\* ... otherwise the elapsed grace runs on into _respond_to_final; without a
\* grace the task starts there, and looks at no turn.
GraceOver ==
  /\ Running
  /\ \/ resp.pc = "answer"
     \/ resp.pc = "window" /\ ~Outdated
     \/ resp.pc = "grace" /\ ~Outdated /\ ~p.cand

\* _respond_to_final: a speculative attempt for the same words is authorized
\* and its held audio released; another one is cancelled.
Authorize ==
  /\ GraceOver /\ p.att # 0
  /\ Same(A[p.att].hyp, resp.text)
  /\ A' = [A EXCEPT ![p.att].auth = TRUE]
  /\ p' = [p EXCEPT !.state = "releasing"]
  /\ resp' = [resp EXCEPT !.pc = "release", !.old = p.att]
  /\ UNCHANGED <<conf, cq, inp, rcv, stab, timer, asked, finals, notices>>

Discard ==
  /\ GraceOver /\ p.att # 0
  /\ ~Same(A[p.att].hyp, resp.text)
  /\ CancelBegins("resp")
  /\ UNCHANGED <<conf, p, inp, rcv, stab, timer, asked, finals, notices>>

Answer ==
  /\ GraceOver /\ p.att = 0
  /\ StartsAttempt(A, resp.text, TRUE)
  /\ p' = [p EXCEPT !.att = NextAttempt, !.state = "releasing"]
  /\ resp' = Idle
  /\ UNCHANGED <<conf, cq, inp, rcv, stab, timer, asked, finals, notices>>

FreshAnswer ==
  /\ resp.pc = "replace" /\ CancelEnds("resp")
  /\ StartsAttempt(Dropped, resp.text, TRUE)
  /\ p' = [Cancelled EXCEPT !.att = NextAttempt, !.state = "releasing"]
  /\ cq' = Rest /\ resp' = Idle
  /\ UNCHANGED <<conf, inp, rcv, stab, timer, asked, finals, notices>>

\* _release_held: one held chunk per step; a cancelled attempt sends nothing.
ReleaseChunk ==
  /\ resp.pc = "release" /\ Running
  /\ A[resp.old].held > 0
  /\ A' = [A EXCEPT ![resp.old].held = @ - 1]
  /\ p' = IF A[resp.old].cancelled THEN p ELSE TtsStart(p)
  /\ UNCHANGED <<conf, cq, inp, rcv, stab, timer, resp, asked, finals, notices>>

\* The last held chunk is out: if the generation is complete, "tts_end" is sent
\* from here, for the attempt that is current now.
Released ==
  /\ resp.pc = "release" /\ Running
  /\ A[resp.old].held = 0
  /\ resp' = IF A[resp.old].complete THEN [resp EXCEPT !.pc = "drain", !.old = p.att] ELSE Idle
  /\ UNCHANGED <<conf, p, A, cq, inp, rcv, stab, timer, asked, finals, notices>>

ReleaseDrained ==
  /\ resp.pc = "drain" /\ Running
  /\ p' = FinishPlayout(p, A, resp.old)
  /\ A' = IF p.att = resp.old /\ p.att # 0 /\ p'.att = 0 /\ A[p.att].pc = "done"
          THEN [A EXCEPT ![p.att] = NoAttempt] ELSE A
  /\ resp' = Idle
  /\ UNCHANGED <<conf, cq, inp, rcv, stab, timer, asked, finals, notices>>

----------------------------------------------------------------------------
(* Partials and speculation.                                                *)

\* on_partial: buffered before the speech is confirmed, ignored outside it;
\* a revision cancels the speculative attempt, then the timer is re-armed.
Partial(text) ==
  /\ RcvFree /\ text \notin Echo /\ ~p.ending
  /\ \/ /\ p.turn = NoTurn /\ p.cand
        /\ p' = [p EXCEPT !.buf = text]
        /\ UNCHANGED <<A, cq, rcv, stab, resp>>
     \/ /\ p.turn # NoTurn /\ p.state \in {"speaking", "speculating"}
        /\ p.turn \notin p.closed /\ text # p.last
        /\ p' = [p EXCEPT !.last = text]
        /\ IF p.att # 0 /\ ~Same(A[p.att].hyp, text)
           THEN /\ CancelBegins("rcv")
                /\ rcv' = [Idle EXCEPT !.pc = "revise", !.text = text]
                /\ UNCHANGED stab
           ELSE /\ stab' = [Idle EXCEPT !.pc = "armed", !.text = text]
                /\ cq' = Without(cq, "stab")
                /\ UNCHANGED <<A, rcv, resp>>
  /\ UNCHANGED <<conf, inp, timer, asked, finals, notices>>

Revised ==
  /\ rcv.pc = "revise" /\ CancelEnds("rcv")
  /\ p' = Cancelled
  /\ cq' = Without(Rest, "stab")
  /\ stab' = [Idle EXCEPT !.pc = "armed", !.text = rcv.text]
  /\ rcv' = Idle /\ A' = Dropped
  /\ UNCHANGED <<conf, inp, timer, resp, asked, finals, notices>>

\* _stable_after_delay.
StableStale ==
  /\ stab.pc = "armed" /\ Running
  /\ stab.text # p.last \/ p.state \notin {"speaking", "speculating"}
  /\ stab' = Idle
  /\ UNCHANGED <<conf, p, A, cq, inp, rcv, timer, resp, asked, finals, notices>>

Speculate ==
  /\ stab.pc = "armed" /\ Running
  /\ stab.text = p.last /\ p.state \in {"speaking", "speculating"}
  /\ IF p.att = 0
     THEN /\ StartsAttempt(A, stab.text, FALSE)
          /\ p' = [p EXCEPT !.att = NextAttempt, !.state = "speculating"]
          /\ stab' = Idle
          /\ UNCHANGED <<cq, resp>>
     ELSE /\ CancelBegins("stab")
          /\ stab' = [stab EXCEPT !.pc = "replace"]
          /\ UNCHANGED p
  /\ UNCHANGED <<conf, inp, rcv, timer, asked, finals, notices>>

\* The replaced attempt is gone; the state is set without another look at it.
Respeculate ==
  /\ stab.pc = "replace" /\ CancelEnds("stab")
  /\ StartsAttempt(Dropped, stab.text, FALSE)
  /\ p' = [Cancelled EXCEPT !.att = NextAttempt, !.state = "speculating"]
  /\ cq' = Rest /\ stab' = Idle
  /\ UNCHANGED <<conf, inp, rcv, timer, resp, asked, finals, notices>>

----------------------------------------------------------------------------
(* _final_timeout                                                           *)

TimeoutStale ==
  /\ timer.pc = "armed" /\ Running
  /\ p.turn # timer.turn \/ p.state # "awaiting_final"
  /\ timer' = Idle
  /\ UNCHANGED <<conf, p, A, cq, inp, rcv, stab, resp, asked, finals, notices>>

\* The timeout is many seconds long; a cancellation, a commit or the publication
\* of a transcript that began before it is over when it fires.
Timeout ==
  /\ timer.pc = "armed" /\ Running /\ rcv.pc # "publish" /\ inp.pc # "commit" /\ cq = <<>>
  /\ p.turn = timer.turn /\ p.state = "awaiting_final"
  /\ IF p.att = 0
     THEN /\ NothingToCancel
          /\ p' = [p EXCEPT !.state = "recovering_stt"]
          /\ timer' = [timer EXCEPT !.pc = "recover"]
          /\ UNCHANGED A
     ELSE /\ CancelBegins("timer")
          /\ timer' = [timer EXCEPT !.pc = "cancel"]
          /\ UNCHANGED p
  /\ UNCHANGED <<conf, inp, rcv, stab, asked, finals, notices>>

TimeoutCancelled ==
  /\ timer.pc = "cancel" /\ CancelEnds("timer")
  /\ p' = [Cancelled EXCEPT !.state = "recovering_stt"]
  /\ cq' = Rest /\ A' = Dropped
  /\ timer' = [timer EXCEPT !.pc = "recover", !.turn = Cancelled.turn]
  /\ UNCHANGED <<conf, inp, rcv, stab, resp, asked, finals, notices>>

\* stt.recover() returned or failed: the turn that timed out is closed either way.
Recovered ==
  /\ timer.pc = "recover" /\ Running
  /\ p' = [p EXCEPT !.state = "idle", !.turn = NoTurn,
                    !.closed = IF timer.turn = NoTurn THEN @ ELSE @ \union {timer.turn}]
  /\ timer' = Idle
  /\ UNCHANGED <<conf, A, cq, inp, rcv, stab, resp, asked, finals, notices>>

----------------------------------------------------------------------------
(* Generation tasks: _generate, _synthesize_phrases, and speak_opening.       *)

Others == <<conf, cq, inp, rcv, stab, timer, resp, asked, finals, notices>>

\* A synthesized chunk is sent when the attempt is authorized, held otherwise.
SentOrHeld(a) ==
  /\ A' = [A EXCEPT ![a].made = @ + 1, ![a].held = IF A[a].auth THEN @ ELSE @ + 1]
  /\ p' = IF A[a].auth THEN TtsStart(p) ELSE p

\* The model streams a phrase, and the voice returns its audio.
GenChunk(a) ==
  /\ A[a].pc = "stream" /\ A[a].made < MaxChunks /\ Running
  /\ SentOrHeld(a)
  /\ UNCHANGED Others

\* The model selected end_call (offered to a committed turn only) or the
\* transfer (whose execution waits for the authorization event).
GenTool(a, tool) ==
  /\ A[a].pc = "stream" /\ A[a].tool = None /\ A[a].hyp # None /\ A[a].auth /\ Running
  /\ A' = [A EXCEPT ![a].tool = tool]
  /\ p' = IF tool = "end_call" THEN [p EXCEPT !.ending = TRUE] ELSE p
  /\ UNCHANGED Others

\* All audio was produced.  An authorized attempt is committed and sends
\* "tts_end"; a speculative one waits for _release_held.
GenComplete(a) ==
  /\ A[a].pc = "stream" /\ A[a].made > 0 /\ Running
  /\ A' = [A EXCEPT ![a].complete = TRUE, ![a].cap = p.att,
                    ![a].pc = IF A[a].auth THEN "drain" ELSE "done"]
  /\ UNCHANGED p /\ UNCHANGED Others

\* The provider failed.  A transient failure of a committed turn is spoken
\* (GenChunk, GenComplete); any other one is only reported.
GenError(a) ==
  /\ A[a].pc = "stream" /\ A[a].hyp # None /\ Running
  /\ A' = [A EXCEPT ![a].pc = "done"]
  /\ UNCHANGED p /\ UNCHANGED Others

\* A finished task: the attempt is forgotten unless it is still stored.
Finished(a, q) == [A EXCEPT ![a] = IF q.att = a THEN [@ EXCEPT !.pc = "done"] ELSE NoAttempt]

\* "tts_end" returned: the queue is empty, so nothing is still being released
\* into it.  Then the transfer or the end of the call.
GenDrained(a) ==
  /\ A[a].pc = "drain" /\ Running
  /\ ~(resp.pc = "release" /\ resp.old = a)
  /\ LET q == FinishPlayout(p, A, A[a].cap)
     IN CASE A[a].tool = "transfer" -> /\ p' = [q EXCEPT !.handoff = "progress"]
                                       /\ A' = [A EXCEPT ![a].pc = "transfer"]
          [] OTHER -> p' = q /\ A' = Finished(a, q)
  /\ A[a].tool # "end_call"
  /\ UNCHANGED Others

TransferConnects(a) ==
  /\ A[a].pc = "transfer" /\ Running
  /\ p' = [p EXCEPT !.handoff = "active"]
  /\ A' = Finished(a, p)
  /\ UNCHANGED Others

\* The failure is spoken by the same attempt while input stays off.
TransferFails(a) ==
  /\ A[a].pc = "transfer" /\ Running
  /\ p' = IF A[a].cancelled THEN p ELSE TtsStart(p)
  /\ A' = [A EXCEPT ![a].pc = "apology", ![a].cap = p.att]
  /\ UNCHANGED Others

\* The apology is seconds long; a cancellation that began before it has ended.
Apologized(a) ==
  /\ A[a].pc = "apology" /\ Running /\ cq = <<>>
  /\ p' = [FinishPlayout(p, A, A[a].cap) EXCEPT !.handoff = "no"]
  /\ A' = Finished(a, p')
  /\ UNCHANGED Others

\* speak_opening, run when the call starts: a synthetic turn, in state
\* "generating" until it is heard.
OpeningStarts ==
  /\ conf.greets /\ p.state = "idle" /\ p.number = 0 /\ Opening \notin p.closed /\ Running
  /\ StartsAttempt(A, None, TRUE)
  /\ p' = [p EXCEPT !.turn = Opening, !.att = NextAttempt, !.state = "generating"]
  /\ UNCHANGED Others

\* Its finally clause, after the playback or after a failure.
OpeningEnds(a) ==
  /\ p.att = a /\ p.turn = Opening /\ A[a].pc \in {"done", "stream"} /\ Running
  /\ p' = [p EXCEPT !.state = "idle", !.turn = NoTurn, !.att = 0, !.closed = @ \union {Opening},
                    !.playing = @ /\ A[a].pc = "done"]
  /\ A' = [A EXCEPT ![a] = NoAttempt]
  /\ UNCHANGED Others

\* announce(): the line is spoken by an attempt that is not stored, and no
\* "tts_end" follows it.
Announce ==
  /\ notices < conf.notices /\ Running
  /\ notices' = notices + 1
  /\ p' = TtsStart(p)
  /\ UNCHANGED <<conf, A, cq, inp, rcv, stab, timer, resp, asked, finals>>

\* close(): every task is cancelled and the pipeline is dropped.
Close ==
  /\ p' = [New EXCEPT !.over = TRUE]
  /\ A' = [a \in Attempts |-> NoAttempt]
  /\ cq' = <<>> /\ inp' = Idle /\ rcv' = Idle /\ stab' = Idle /\ timer' = Idle /\ resp' = Idle
  /\ asked' = {} /\ finals' = {} /\ notices' = 0
  /\ UNCHANGED conf

\* The farewell drained: end_call_handler deletes the room.
CallEnds(a) ==
  /\ A[a].pc = "drain" /\ A[a].tool = "end_call" /\ Running
  /\ ~(resp.pc = "release" /\ resp.old = a)
  /\ Close

\* The caller hangs up.
HangUp == Running /\ Close

Generates(a) ==
  \/ GenChunk(a) \/ GenComplete(a) \/ GenError(a) \/ GenDrained(a) \/ CallEnds(a)
  \/ TransferConnects(a) \/ TransferFails(a) \/ Apologized(a) \/ OpeningEnds(a)
  \/ \E tool \in conf.tools : GenTool(a, tool)

Answers == GraceElapses \/ Authorize \/ Discard \/ Answer \/ ReleaseChunk \/ Released \/ ReleaseDrained

Next ==
  \/ BargeIn \/ TypedSubmitted \/ Revised \/ Respeculate \/ TimeoutCancelled \/ FreshAnswer
  \/ CandidateStarts \/ CandidateCancelled \/ SpeechIgnored \/ SpeechStarts
  \/ SpeechEnds \/ Committed
  \/ \E text \in conf.typed : Types(text)
  \/ \E t \in asked : FinalLost(t) \/ \E text \in Finals : FinalArrives(t, text)
  \/ FinalPublished \/ Answers
  \/ \E text \in conf.heard : Partial(text)
  \/ StableStale \/ Speculate \/ TimeoutStale \/ Timeout \/ Recovered
  \/ \E a \in Attempts : Generates(a)
  \/ OpeningStarts \/ Announce \/ HangUp

Spec == Init /\ [][Next]_vars

\* Timers fire, providers answer or fail, the loop runs every ready coroutine.
Fairness ==
  /\ WF_vars(BargeIn \/ TypedSubmitted \/ Revised \/ Respeculate \/ TimeoutCancelled \/ FreshAnswer)
  /\ WF_vars(Committed) /\ WF_vars(FinalPublished) /\ WF_vars(Answers)
  /\ WF_vars(StableStale \/ Speculate) /\ WF_vars(TimeoutStale \/ Timeout \/ Recovered)
  /\ \A a \in Attempts : WF_vars(GenChunk(a) \/ GenComplete(a) \/ GenDrained(a) \/ CallEnds(a) \/ Apologized(a) \/ OpeningEnds(a))

FairSpec == Spec /\ Fairness

----------------------------------------------------------------------------
(* Properties                                                               *)

Live(a) == A[a].pc = "stream" /\ ~A[a].cancelled

\* With engagement, every generation that can still be heard is the stored one:
\* no interleaving of the waits in _cancel_attempt with _start_attempt leaves a
\* reply that barge-in cannot reach.
NoOrphan == conf.engaged => \A a \in Attempts : Live(a) /\ A[a].auth => p.att = a

\* Nothing a caller did not finally say is answered aloud: an attempt that may
\* be heard was generated for words retained as a final (or is the greeting).
OnlyFinalHeard ==
  \A a \in Attempts : A[a].auth /\ A[a].hyp # None => Norm[A[a].hyp] \in finals

\* The states in which the caller has the floor.
Listening == {"speaking", "speculating", "awaiting_final", "recovering_stt"}

\* on_final does not look at the turn again after publishing the transcript,
\* nor does the task that answers it (without a grace, or while it cancels
\* another reply).  If a typed turn or a failed handoff replaces the caller's
\* turn meanwhile and he speaks again, the late answer takes the floor in that
\* third turn, and the reply it starts may end later ones: the floor is promised
\* up to the second turn, and beyond it where neither can happen.
Undisturbed == conf.engaged /\ (p.number < 3 \/ (conf.typed = {} /\ "transfer" \notin conf.tools))

\* A turn's id is new, although the candidate's was computed before the speech
\* was confirmed and the turns before it are closed by whoever ends them.
NewId == p'.turn \notin {p.turn, NoTurn, Opening} => p'.turn > p.number /\ p'.turn \notin p.closed

\* The caller's turn is his own (with engagement).  Its id is new; while he speaks no
\* audio of a reply is pushed or released, and only the recognizer's answer,
\* its timeout, his own next input or the end of the call takes the floor away
\* (announcements, and a handoff, during which input is off, apart).
FloorKept ==
  [][/\ NewId
     /\ \A a \in Attempts :
          Undisturbed /\ ~p'.over
            /\ \/ A[a].pc = "stream" /\ A[a].made < A'[a].made /\ A'[a].auth
               \/ resp.pc = "release" /\ resp.old = a /\ A[a].held > A'[a].held /\ ~A'[a].cancelled
          => p.state \notin Listening
     /\ Undisturbed /\ p.state \in {"speaking", "speculating"} /\ notices = 0 /\ notices' = 0
            /\ p'.number = p.number /\ p.final = None /\ ~p'.over /\ p.handoff = "no"
          => p'.state \in {"speaking", "speculating", "awaiting_final"}]_vars

Waits == {"awaiting_final", "recovering_stt"}

\* The caller is never left unheard: waiting for a final, and recovering the
\* recognizer, both end (with engagement, unless a farewell is ending the call).
AwaitingResolves == (conf.engaged /\ p.state \in Waits) ~> (p.over \/ p.ending \/ p.state \notin Waits)

-----------------------------------------------------------------------------
(* The inductive invariant behind OnlyFinalHeard                             *)

Words == Texts \union {None}
AttemptSet ==
  [hyp : Words, auth : BOOLEAN, cancelled : BOOLEAN, complete : BOOLEAN, held : Nat, made : Nat,
   tool : {None, "end_call", "transfer"}, cap : 0 .. MaxAttempts,
   pc : {"stream", "drain", "transfer", "apology", "done"}]
PipelineSet ==
  [state : {"idle", "speaking", "speculating", "awaiting_final", "recovering_stt", "releasing", "playing", "generating"},
   turn : Nat, number : Nat, att : 0 .. MaxAttempts, last : Words, final : Words, cand : BOOLEAN, candTurn : Nat,
   buf : Words, closed : SUBSET Nat, ending : BOOLEAN, handoff : {"no", "progress", "active"}, playing : BOOLEAN, over : BOOLEAN]
CoroutineSet(places) == [pc : places \union {"ready"}, text : Words, turn : Nat, old : Nat]

TurnTypes ==
  /\ conf \in Confs /\ p \in PipelineSet /\ A \in [Attempts -> AttemptSet]
  /\ inp \in CoroutineSet({"barge", "text", "commit"}) /\ rcv \in CoroutineSet({"publish", "revise"})
  /\ stab \in CoroutineSet({"armed", "replace"}) /\ timer \in CoroutineSet({"armed", "cancel", "recover"})
  /\ resp \in CoroutineSet({"grace", "window", "answer", "replace", "release", "drain"})
  /\ asked \subseteq Nat /\ finals \subseteq Texts /\ notices \in Nat
  /\ (resp.pc = "drain" => resp.old \in 0 .. MaxAttempts) /\ (resp.pc = "release" => resp.old \in Attempts)

\* The final on its way from on_final to the attempt that answers it.
FinalsRetained ==
  /\ rcv.pc = "publish" => rcv.text # None /\ Norm[rcv.text] \in finals
  /\ resp.pc \in {"grace", "window", "answer", "replace"} => resp.text # None /\ Norm[resp.text] \in finals
  /\ inp.pc = "text" => inp.text # None

HeardInv == TurnTypes /\ FinalsRetained /\ OnlyFinalHeard

-----------------------------------------------------------------------------
(* The inductive invariant behind NoOrphan (with engagement)                  *)

Entries == [who : {"inp", "rcv", "stab", "timer", "resp"}, att : Attempts, woken : BOOLEAN]
InCancel == {"barge", "text"}

\* All who wait, wait for the end of one task; the answering task is the last.
Queue(q) ==
  /\ q \in Seq(Entries)
  /\ \A i, j \in 1 .. Len(q) :
       i < j => q[i].who \notin {q[j].who, "resp"} /\ q[i].att = q[j].att /\ q[i].woken = q[j].woken

\* Whoever waits is where _cancel_attempt is called, and a timeout that cancels
\* is not overtaken by a final.
Waiters(q, i, rc, s, t, r) ==
  /\ \A k \in 1 .. Len(q) :
       /\ q[k].who = "inp" => i.pc \in InCancel
       /\ q[k].who = "rcv" => rc.pc = "revise"
       /\ q[k].who = "stab" => s.pc = "replace"
       /\ q[k].who = "timer" => t.pc = "cancel"
       /\ q[k].who = "resp" => r.pc = "replace"
  /\ rc.pc = "publish" => t.pc # "cancel"

\* Until the cancelled task has ended, its attempt is the stored one or none is;
\* an answer begun meanwhile, and a playback that ends meanwhile, are overruled by
\* the caller's input, which waits too.
Pending(q, P, B, i, rc, r) ==
  \A k \in 1 .. Len(q) : ~q[k].woken =>
    /\ B[q[k].att].pc = "done" /\ P.att \in {0, q[k].att}
    /\ P.att = 0 => P.state \in {"idle", "playing"} /\ r.pc = "ready"
    /\ P.att = 0 \/ r.pc \notin {"ready", "replace"} =>
         i.pc \in InCancel /\ rc.pc # "publish" /\ P.state # "awaiting_final"

\* A generation that can be heard is stored, and nobody is cancelling it.
Stored(q, P, B) ==
  \A a \in Attempts :
    /\ B[a].pc = "stream" => ~B[a].complete /\ ~B[a].cancelled
    /\ B[a].pc = "stream" /\ B[a].auth => P.att = a /\ q = <<>>
    /\ B[a].pc = "drain" => B[a].cap = a

\* Before the caller's first turn there is at most the greeting.
Greeting(q, P, B, i, rc, s, t, r) ==
  /\ P.candTurn # Opening /\ i.turn # Opening
  /\ P.turn = Opening => P.number = 0 /\ P.state # "idle"
  /\ P.number = 0 =>
       /\ P.state \in {"idle", "generating", "playing", "releasing"}
       /\ i.pc # "commit" /\ rc.pc = "ready" /\ s.pc = "ready" /\ t.pc = "ready" /\ r.pc = "ready"
       /\ P.turn = Opening \/ Opening \in P.closed \/
            (P.att = 0 /\ q = <<>> /\ \A a \in Attempts : B[a].pc = "done")

OrphanInv ==
  conf.engaged => /\ Queue(cq) /\ Waiters(cq, inp, rcv, stab, timer, resp) /\ Pending(cq, p, A, inp, rcv, resp)
                  /\ Stored(cq, p, A) /\ Greeting(cq, p, A, inp, rcv, stab, timer, resp)

-----------------------------------------------------------------------------
(* The inductive invariant behind NewId                                       *)

\* Turn, closed turns and the turn a timeout will close are old ids, the one
\* computed for a candidate, or kept while a barge-in waits, is the next.
Ids(q, i, t) ==
  /\ q.turn \in 0 .. q.number \union {NoTurn} /\ t.turn \in 0 .. q.number \union {NoTurn}
  /\ q.closed \subseteq 0 .. q.number
  /\ q.cand => q.candTurn = q.number + 1
  /\ i.pc = "barge" => i.turn = q.number + 1 /\ i.old \in 0 .. q.number \union {NoTurn}
IdInv == Ids(p, inp, timer)
=============================================================================
