----------------------------- MODULE Coordinator -----------------------------
(***************************************************************************)
(* The turn coordinator of a call (rust/src/rvc/coordinator.rs): one actor *)
(* that owns the caller's turn, the authoritative transcript and the       *)
(* attempt to answer it.                                                   *)
(*                                                                         *)
(* The actor's fields are one record c, so that every method of the code   *)
(* is an operator from a record to a record and methods call each other as *)
(* they do in the code.  ev is the internal event channel, through which   *)
(* timers and generation tasks report; what they sent stays in it when     *)
(* they are aborted.  Everything else the loop selects on (audio frames,   *)
(* ASR results, typed text, room callbacks) is the environment's choice,   *)
(* stale ASR results included.  Durations are dropped: that a frame        *)
(* completes the minimum speech or the end silence is a choice.            *)
(*                                                                         *)
(* Transcripts stand for their normal forms; "" is the empty transcript.   *)
(* Business tools, transfers, device approval, the second ASR and memory   *)
(* compaction are not part of this module.                                 *)
(***************************************************************************)
EXTENDS PlayoutControl, Sequences

CONSTANTS
  Configs,      \* the configurations a call may be started with
  Similar,      \* pairs <<hypothesis, final>> that count as the same request
  Echo,         \* transcripts that repeat the private ASR hint
  Short,        \* partials below stable_min_chars
  MaxTurn,      \* bound: caller turns
  MaxAttempt,   \* bound: attempts after which no input starts another
  MaxRev,       \* bound: background invalidations after which no new
                \* candidate is heard and no engagement prepared
  EventCap      \* bound: capacity of the internal channel

Flags == {"flush", "minimum", "grace", "fallback", "engagement", "pilot",
          "endCall", "localized"}

ASSUME CoordinatorAssumption ==
  /\ \A k \in Configs :
       /\ "" \notin k.texts /\ k.on \subseteq Flags /\ k.idle \in Nat
       /\ k.tools \subseteq {"end", "off", "open", "say", "bad"}
  /\ MaxTurn \in Nat /\ MaxAttempt \in Nat
  /\ MaxRev \in Nat /\ EventCap \in Nat \ {0}

VARIABLES c, ev

vars == <<c, ev>>

Texts == c.conf.texts                    \* transcripts, all but the empty one
LlmTools == c.conf.tools                 \* the tool calls a reply may hold
MaxIdle == c.conf.idle                   \* engagement_max_idle_updates
FlushOn == "flush" \in c.conf.on         \* stt_speculative_flush_ms > 0
MinimumOn == "minimum" \in c.conf.on     \* min_utterance_ms, min_voiced_frame_percent
GraceOn == "grace" \in c.conf.on         \* reply_grace_seconds > 0
FallbackOn == "fallback" \in c.conf.on   \* empty_response_fallback_enabled
EngagementOn == "engagement" \in c.conf.on
PilotOn == "pilot" \in c.conf.on         \* inactivity_pilot_enabled
EndCallOn == "endCall" \in c.conf.on     \* the agent has builtin://end_call
Localized == "localized" \in c.conf.on   \* the agent does not speak English

Quiet == {"Idle", "Playing", "Releasing"}
Hearing == {"Speaking", "Speculating"}

NoTimer == [turn |-> 0, text |-> "", waited |-> FALSE]
NoTask == [rev |-> 0, kind |-> "none", turn |-> 0]

NoAtt ==
  [id |-> 0, hyp |-> "", auth |-> FALSE, task |-> "none", told |-> FALSE,
   started |-> FALSE, answer |-> FALSE, tool |-> "none", direct |-> "no",
   owner |-> 0, kind |-> "none", rev |-> 0, endReq |-> FALSE,
   endOffered |-> FALSE, spec |-> FALSE, speech |-> FALSE]

(***************************************************************************)
(* The fields of c: conf (the configuration, on the set of its flags that  *)
(* are set), st, turn, next (the last attempt id), att; cand (a speech     *)
(* candidate), silent (silence_ms > 0), pre (preconfirm), part             *)
(* (last_partial), fin (final_text); flushRev, flushed, susp; the timers   *)
(* stable, timer (final_timeout) and grace (the handle final_response,     *)
(* with graces the grace timers that run, held or not); speech             *)
(* (speech_enabled), ending (call_ending), hang (the EndCall the room was  *)
(* asked for), opened; rev, eng (the engagement task), checks, closeAt;    *)
(* finals (the turns with an accepted final); pl (the playout); open (the  *)
(* loop runs).                                                             *)
(***************************************************************************)
Init ==
  /\ \E k \in Configs : c =
         [conf |-> k, st |-> "Idle", turn |-> 0, next |-> 0, att |-> NoAtt,
          cand |-> FALSE, silent |-> FALSE, pre |-> "", part |-> "",
          fin |-> "", flushRev |-> 0, flushed |-> 0, susp |-> FALSE,
          stable |-> NoTimer, timer |-> 0, grace |-> NoTimer,
          graces |-> {}, speech |-> TRUE, ending |-> FALSE, hang |-> "no",
          opened |-> FALSE, rev |-> 0, eng |-> NoTask, checks |-> 0,
          closeAt |-> FALSE, finals |-> {}, pl |-> NewPlayout, open |-> TRUE]
  /\ ev = << >>

-----------------------------------------------------------------------------
(* Cancelling                                                              *)

\* invalidate_background: what was prepared before is out of date.
Invalidate(s) == [s EXCEPT !.rev = @ + 1, !.eng = NoTask]

\* cancel: the attempt, its task, the reply grace and the stability timer.
Cancel(s) ==
  [s EXCEPT !.graces = @ \ {s.grace}, !.grace = NoTimer, !.att = NoAtt,
            !.stable = NoTimer, !.pl = AfterCancel(s.pl, s.att.id)]

Fail(s) ==
  [Cancel(s) EXCEPT !.ending = FALSE, !.cand = FALSE, !.pre = "",
                    !.silent = FALSE, !.st = "Idle"]

Shutdown(s) ==
  [Cancel(Invalidate(s)) EXCEPT !.timer = 0, !.pl = Cleared(@), !.open = FALSE]

-----------------------------------------------------------------------------
(* Starting an attempt (begin_direct)                                      *)

Begin(s, text, authorized, direct) ==
  LET id == s.next + 1
      free == Cancel(s)
      begun == AfterBegin(free.pl, id)
  IN  [free EXCEPT
        !.next = id,
        !.pl = IF authorized
               THEN AfterSpeech(AfterAuthorize(begun, id), id, s.speech)
               ELSE begun,
        !.att = [NoAtt EXCEPT !.id = id, !.hyp = text, !.auth = authorized,
                   !.task = "run", !.direct = direct, !.owner = s.turn,
                   !.rev = s.rev, !.spec = ~authorized, !.speech = s.speech,
                   !.endOffered = direct = "no" /\ EndCallOn /\ s.turn > 0
                                  /\ s.speech],
        !.st = IF authorized THEN "Releasing"
               ELSE IF s.st = "AwaitingFinal" THEN s.st ELSE "Speculating"]

\* begin_facts: fixed speech is rephrased by the model outside English.
Facts == IF Localized THEN "facts" ELSE "verbatim"

-----------------------------------------------------------------------------
(* Tools: end_call and the speech gate ("off", "open" without and "say"    *)
(* with a first reply); "bad" is any other name or malformed arguments     *)

ApplyEndCall(s) ==
  IF ~s.att.endOffered /\ s.att.spec
  THEN Begin(s, s.fin, TRUE, "no")
  ELSE LET closing == [s EXCEPT !.ending = TRUE]
           farewell == IF s.att.task = "none"
                       THEN Begin(closing, s.fin, TRUE, Facts) ELSE closing
       IN  [farewell EXCEPT !.att.endReq = TRUE]

ApplyGate(s, tool) ==
  LET gated == Cancel(Invalidate([s EXCEPT !.speech = tool # "off"]))
  IN  IF tool = "say" THEN Begin(gated, s.fin, TRUE, Facts)
      ELSE [gated EXCEPT !.st = "Idle"]

\* apply_tool: nothing happens before the attempt is authorized.
ApplyTool(s) ==
  LET tool == s.att.tool
      taken == [s EXCEPT !.att.tool = "none"]
  IN  IF ~s.att.auth \/ tool = "none" THEN s
      ELSE IF tool = "end" /\ EndCallOn /\ s.speech THEN ApplyEndCall(taken)
      ELSE IF tool \in {"off", "open", "say"} /\ EngagementOn
      THEN ApplyGate(taken, tool)
      ELSE Fail(taken)

-----------------------------------------------------------------------------
(* Transcripts                                                             *)

\* partial: a changed hypothesis cancels the attempt made for the old one
\* and waits to become stable.
Partial(s, text) ==
  LET heard == [s EXCEPT !.part = text]
      kept == IF s.att.id # 0 /\ s.att.hyp # text THEN Cancel(heard) ELSE heard
  IN  IF s.ending \/ text \in Echo THEN s
      ELSE IF s.cand /\ s.st \in Quiet THEN [s EXCEPT !.pre = text]
      ELSE IF s.st \notin Hearing THEN s
      ELSE IF s.part = text \/ text \in Short THEN heard
      ELSE [kept EXCEPT !.stable = [NoTimer EXCEPT !.turn = s.turn, !.text = text]]

HypothesisOk(s, turn, revision) ==
  /\ turn = s.turn /\ revision = s.flushRev /\ s.flushed = turn
  /\ s.st \in Hearing \cup {"AwaitingFinal"}
  /\ s.silent \/ s.st = "AwaitingFinal"
  /\ s.fin = "" /\ s.speech

\* hypothesis: the completed transcript of the early flush.
Hypothesis(s, turn, revision, text) ==
  LET heard == [s EXCEPT !.stable = NoTimer, !.part = text]
  IN  IF ~HypothesisOk(s, turn, revision) THEN s
      ELSE IF s.att.id # 0 /\ s.att.hyp = text THEN heard
      ELSE Begin(heard, text, FALSE, "no")

\* unavailable: the turn will get no final; listen again.
Unavailable(s, turn) ==
  IF turn # s.turn \/ s.st # "AwaitingFinal" THEN s
  ELSE [Cancel(s) EXCEPT !.cand = FALSE, !.pre = "", !.part = "",
                         !.silent = FALSE, !.timer = 0, !.st = "Idle"]

AgreesAlways(s, text) == s.att.id # 0

\* The attempt was made for what the caller turned out to say.
Agrees(s, text) == s.att.id # 0 /\ <<s.att.hyp, text>> \in Similar

\* respond_to_final: release the attempt that guessed right, or start over.
RespondToFinal(s, text) ==
  LET released == [s EXCEPT !.att.auth = TRUE, !.st = "Releasing"]
  IN  IF ~Agrees(s, text) THEN Begin(Cancel(s), text, TRUE, "no")
      ELSE IF s.att.tool # "none" THEN ApplyTool(released)
      ELSE [released EXCEPT !.pl = AfterAuthorize(@, s.att.id)]

\* schedule_final_response
Schedule(s, turn, text, waited) ==
  LET grace == [turn |-> turn, text |-> text, waited |-> waited]
  IN  [s EXCEPT !.grace = grace, !.graces = @ \cup {grace}]

\* The owned final of the turn that waits for it, and the first one.
FinalOk(s, turn) == turn = s.turn /\ s.st = "AwaitingFinal" /\ s.fin = ""

\* final_text
FinalText(s, turn, text) ==
  LET stored == [s EXCEPT !.timer = 0, !.stable = NoTimer, !.fin = text,
                          !.closeAt = FALSE, !.finals = @ \cup {turn}]
  IN  IF s.ending \/ text \in Echo \/ ~FinalOk(s, turn) THEN s
      ELSE IF text = "" THEN Unavailable(s, turn)
      ELSE IF GraceOn
      THEN [Schedule(stored, turn, text, FALSE) EXCEPT !.st = "Releasing"]
      ELSE RespondToFinal(stored, text)

\* text: a typed message is a turn of its own, committed at once.
Text(s, text) ==
  LET turn == s.turn + 1
      typed == [Cancel(Invalidate(s)) EXCEPT
                 !.timer = 0, !.turn = turn, !.closeAt = FALSE, !.susp = FALSE,
                 !.fin = "", !.part = "", !.cand = FALSE, !.pre = "",
                 !.silent = FALSE, !.st = "AwaitingFinal"]
  IN  IF s.ending THEN s ELSE FinalText(typed, turn, text)

-----------------------------------------------------------------------------
(* Audio frames (audio), of a call that is not ending                      *)

\* Speech after the early flush: its hypothesis is void.
Resumed(s) ==
  IF s.silent /\ s.susp /\ s.st \in Hearing
  THEN [Cancel(s) EXCEPT !.flushRev = @ + 1, !.susp = FALSE, !.part = ""]
  ELSE s

Candidate(s) == IF s.cand THEN s ELSE [Invalidate(s) EXCEPT !.cand = TRUE]

\* The minimum of speech is reached: barge in and open the next turn.
Confirmed(s) ==
  LET quiet == IF s.st \in {"Playing", "Releasing"}
               THEN Cancel(Candidate(s)) ELSE Candidate(s)
      next == [quiet EXCEPT
                 !.turn = @ + 1, !.part = "", !.fin = "", !.cand = FALSE,
                 !.silent = FALSE, !.susp = FALSE, !.checks = 0,
                 !.closeAt = FALSE, !.st = "Speaking", !.pre = ""]
  IN  IF s.pre = "" THEN next ELSE Partial(next, s.pre)

\* The first silent frame flushes the realtime ASR, once per turn.
Flushed(s) ==
  IF ~s.silent /\ FlushOn /\ s.flushed # s.turn
  THEN [s EXCEPT !.flushed = s.turn, !.susp = TRUE, !.flushRev = @ + 1]
  ELSE s

Discarded(s) ==
  [s EXCEPT !.cand = FALSE, !.pre = "", !.silent = FALSE, !.st = "Idle"]

CommittedUntimed(s) == [s EXCEPT !.silent = FALSE, !.st = "AwaitingFinal"]

\* The end silence is reached: commit the utterance and wait for its final.
Committed(s) ==
  [s EXCEPT !.silent = FALSE, !.st = "AwaitingFinal", !.timer = s.turn]

SpeechFrame(reached) ==
  /\ c.open /\ ~c.ending
  /\ c.cand \/ c.st \notin Quiet \/ c.rev < MaxRev
  /\ \/ /\ c.st \in Quiet /\ ~reached
        /\ c' = Candidate(c)
     \/ /\ c.st \in Quiet /\ reached
        /\ c.turn < MaxTurn
        /\ c' = Confirmed(c)
     \/ /\ c.st \notin Quiet /\ ~reached
        /\ c' = [Resumed(c) EXCEPT !.silent = FALSE]
  /\ UNCHANGED ev

SilentFrame(reached, tooShort) ==
  /\ c.open /\ ~c.ending
  /\ \/ /\ c.cand /\ c.st \in Quiet /\ ~reached
        /\ c' = [c EXCEPT !.cand = FALSE, !.pre = ""]
     \/ /\ c.st \in Hearing /\ ~reached
        /\ c' = [Flushed(c) EXCEPT !.silent = TRUE]
     \/ /\ c.st \in Hearing /\ reached
        /\ c' = IF MinimumOn /\ tooShort THEN Discarded(Flushed(c))
                ELSE Committed(Flushed(c))
  /\ UNCHANGED ev

\* An unusable frame, or more audio than one utterance may hold.
InvalidFrame == c.open /\ ~c.ending /\ c' = Fail(c) /\ UNCHANGED ev

-----------------------------------------------------------------------------
(* Proactive speech: an idle check-in, then a goodbye                      *)

IdleSafe(s) ==
  s.speech /\ ~s.ending /\ s.st = "Idle" /\ ~s.cand /\ s.att.id = 0

ScheduleIdleClose(s) ==
  IF PilotOn /\ IdleSafe(s) THEN [s EXCEPT !.closeAt = TRUE] ELSE s

EndIdleCall(s) ==
  IF PilotOn /\ IdleSafe(s)
  THEN [Invalidate(s) EXCEPT !.ending = TRUE, !.closeAt = FALSE,
                             !.hang = "absent"]
  ELSE s

\* What follows a check-in or a goodbye, spoken or not.
AfterProactive(s, kind) ==
  CASE kind = "idle" -> ScheduleIdleClose(s)
    [] kind = "close" -> EndIdleCall(s)
    [] OTHER -> s

\* The owner of proactive speech has the top bit set: no caller turn.
Synthetic(s) == MaxTurn + 1 + s.next + 1

EngagementReadyUnchecked(s, e) ==
  LET idle == [s EXCEPT !.eng = NoTask]
      spoken == Begin([idle EXCEPT !.turn = Synthetic(s)], "", TRUE, "verbatim")
  IN  IF s.att.id # 0 THEN idle
      ELSE IF e.res = "silent" THEN AfterProactive(idle, e.kind)
      ELSE [spoken EXCEPT !.turn = s.turn, !.att.kind = e.kind, !.att.rev = e.rev]

\* Internal::EngagementReady
EngagementReady(s, e) ==
  LET idle == [s EXCEPT !.eng = NoTask]
      spoken == Begin([idle EXCEPT !.turn = Synthetic(s)], "", TRUE, "verbatim")
  IN  IF e.rev # s.rev \/ ~IdleSafe(s) THEN idle
      ELSE IF e.res = "silent" THEN AfterProactive(idle, e.kind)
      ELSE [spoken EXCEPT !.turn = s.turn, !.att.kind = e.kind, !.att.rev = e.rev]

Prepare(kind) ==
  /\ c.next < MaxAttempt /\ c.rev < MaxRev
  /\ c' = [c EXCEPT !.eng = [rev |-> c.rev, kind |-> kind, turn |-> c.turn],
                    !.checks = IF kind = "idle" THEN @ + 1 ELSE @]
  /\ UNCHANGED ev

\* idle_opportunity, once next_idle has passed.
IdleOpportunity ==
  /\ c.open /\ EngagementOn /\ IdleSafe(c) /\ c.finals # {}
  /\ c.checks < MaxIdle /\ c.eng = NoTask
  /\ Prepare("idle")

\* maybe_idle_close, once idle_close_at has passed; if it is not safe to
\* speak the clock is moved and nothing else changes.
MaybeIdleClose ==
  /\ c.open /\ PilotOn /\ IdleSafe(c) /\ c.closeAt /\ c.eng = NoTask
  /\ Prepare("close")

-----------------------------------------------------------------------------
(* Internal events                                                         *)

\* Internal::FinalAfterGrace: a speech candidate is waited for once.  The
\* handle is dropped, which stops no timer.
FinalAfterGrace(s, e) ==
  LET over == [s EXCEPT !.grace = NoTimer]
  IN  IF e.turn # s.turn \/ s.st # "Releasing" \/ s.fin # e.text \/ s.ending
      THEN over
      ELSE IF s.cand /\ ~e.waited
      THEN Schedule(over, e.turn, e.text, TRUE)
      ELSE RespondToFinal(over, e.text)

Stable(s, e) ==
  IF /\ e.turn = s.turn /\ e.text = s.part /\ s.speech
     /\ s.st \in Hearing \cup {"AwaitingFinal"}
  THEN Begin(s, e.text, FALSE, "no") ELSE s

Token(s, id) ==
  IF s.att.id = id /\ s.att.task # "none" THEN [s EXCEPT !.att.answer = TRUE]
  ELSE s

ToolStranding(s, id, tool) ==
  IF s.att.id # id THEN s
  ELSE [s EXCEPT !.att.tool = tool, !.att.task = "none", !.att.answer = FALSE,
                 !.pl = AfterCancel(@, id)]

\* Internal::Tool: end_call lets the farewell of the same reply go on; any
\* other tool stops the reply.
Tool(s, id, tool) ==
  IF s.att.id # id THEN s
  ELSE IF tool = "end" /\ EndCallOn /\ s.speech /\ s.att.auth
  THEN ApplyTool([s EXCEPT !.att.tool = tool])
  ELSE ApplyTool([s EXCEPT !.att.tool = tool, !.att.task = "none",
                           !.att.answer = FALSE, !.pl = AfterCancel(@, id)])

AudioStart(s, id) ==
  IF s.att.id = id /\ s.att.auth THEN [s EXCEPT !.st = "Playing"] ELSE s

\* Internal::Done with an error.
DoneErr(s, res) ==
  LET stopped == [Cancel(s) EXCEPT !.st = "Idle"]
  IN  IF s.att.kind # "none"
      THEN IF s.att.rev = s.rev THEN AfterProactive(stopped, s.att.kind)
           ELSE stopped
      ELSE IF s.att.direct = "facts" THEN stopped
      ELSE IF ~s.att.auth
      THEN [Cancel(s) EXCEPT !.st = IF s.st = "Speculating" THEN "Speaking"
                                    ELSE s.st]
      ELSE IF s.att.direct = "no" /\ s.speech /\ res = "llm"
      THEN Begin(Cancel(s), s.fin, TRUE, Facts)
      ELSE Fail(s)

\* Internal::Done after the queue drained.
DoneOk(s) ==
  LET empty == s.att.direct = "no" /\ ~s.att.answer
      over == [s EXCEPT !.att = NoAtt, !.st = "Idle"]
  IN  IF FallbackOn /\ s.speech /\ empty
      THEN Begin(Cancel(s), s.fin, TRUE, "verbatim")
      ELSE IF s.att.endReq /\ empty
      THEN [Begin(s, s.fin, TRUE, "verbatim") EXCEPT !.att.endReq = TRUE]
      ELSE IF s.att.endReq THEN [over EXCEPT !.hang = "goodbye"]
      ELSE IF s.att.rev = s.rev THEN AfterProactive(over, s.att.kind)
      ELSE over

Done(s, id, res) ==
  IF s.att.id # id \/ s.att.tool # "none" THEN s
  ELSE IF res = "ok" THEN DoneOk(s) ELSE DoneErr(s, res)

\* internal: the handler of one event.
Internal(s, e) ==
  CASE e.type = "grace"   -> FinalAfterGrace(s, e)
    [] e.type = "stable"  -> Stable(s, e)
    [] e.type = "timeout" -> Unavailable(s, e.turn)
    [] e.type = "engage"  -> EngagementReady(s, e)
    [] e.type = "token"   -> Token(s, e.id)
    [] e.type = "tool"    -> Tool(s, e.id, e.tool)
    [] e.type = "audio"   -> AudioStart(s, e.id)
    [] e.type = "done"    -> Done(s, e.id, e.res)

HandleInternal ==
  /\ c.open /\ ev # << >>
  /\ c' = Internal(c, Head(ev)) /\ ev' = Tail(ev)

-----------------------------------------------------------------------------
(* Timers and the generation task: they send, and block while ev is full   *)

Sends(msg) == c.open /\ Len(ev) < EventCap /\ ev' = Append(ev, msg)

StableFires ==
  /\ c.stable # NoTimer
  /\ Sends([type |-> "stable", turn |-> c.stable.turn, text |-> c.stable.text])
  /\ c' = [c EXCEPT !.stable = NoTimer]

FinalTimeout ==
  /\ c.timer # 0 /\ Sends([type |-> "timeout", turn |-> c.timer])
  /\ c' = [c EXCEPT !.timer = 0]

GraceFires(g) ==
  /\ g \in c.graces
  /\ Sends([type |-> "grace", turn |-> g.turn, text |-> g.text, waited |-> g.waited])
  /\ c' = [c EXCEPT !.graces = @ \ {g}]

\* prepare_engagement ends with speech, or with nothing to say.
Prepared(res) ==
  /\ c.eng # NoTask
  /\ Sends([type |-> "engage", rev |-> c.eng.rev, kind |-> c.eng.kind,
            turn |-> c.eng.turn, res |-> res])
  /\ c' = [c EXCEPT !.eng = NoTask]

Generating == c.att.task \in {"run", "closing"}

GenToken ==
  /\ Generating /\ ~c.att.told
  /\ Sends([type |-> "token", id |-> c.att.id])
  /\ c' = [c EXCEPT !.att.told = TRUE]

\* The reply's tool calls come one after another.  The tokenizer stops for ever
\* at the first that is not end_call; after end_call it goes on to play, and to
\* the calls that follow (a second end_call changes nothing and is left out).
GenTool(tool) ==
  /\ c.att.direct = "no"
  /\ c.att.task = "run" \/ (c.att.task = "closing" /\ tool # "end")
  /\ Sends([type |-> "tool", id |-> c.att.id, tool |-> tool])
  /\ c' = [c EXCEPT !.att.task = IF tool = "end" THEN "closing" ELSE "pend"]

GenDone(res) ==
  /\ Sends([type |-> "done", id |-> c.att.id, res |-> res])
  /\ c' = [c EXCEPT !.att.task = "sent",
                    !.pl.ended = (res = "ok") \/ @]

\* The first held frame is released to the playout, which may refuse it.
GenAudio ==
  /\ Generating /\ c.att.auth /\ c.att.speech /\ ~c.att.started
  /\ c.att.told \/ c.att.kind # "none"
  /\ IF PcmAllowed(c.pl, c.att.id)
     THEN /\ Sends([type |-> "audio", id |-> c.att.id])
          /\ c' = [c EXCEPT !.att.started = TRUE]
     ELSE GenDone("err")

\* Everything was generated and authorized: finish the playout.
GenFinish ==
  /\ Generating /\ c.att.auth
  /\ c.att.direct = "verbatim" => c.att.told
  /\ GenDone(IF EndAllowed(c.pl, c.att.id) THEN "ok" ELSE "err")

\* A provider fails; the model being unreachable shows before any output.
GenFails(res) ==
  /\ Generating
  /\ res = "llm" => c.att.task = "run" /\ ~c.att.told /\ c.att.direct # "verbatim"
  /\ GenDone(res)

-----------------------------------------------------------------------------
(* The environment                                                         *)

Fresh == c.open /\ c.next < MaxAttempt

AsrPartial(text) == Fresh /\ c' = Partial(c, text) /\ UNCHANGED ev

AsrHypothesis(turn, revision, text) ==
  Fresh /\ c' = Hypothesis(c, turn, revision, text) /\ UNCHANGED ev

AsrFinal(turn, text) == c.open /\ c' = FinalText(c, turn, text) /\ UNCHANGED ev

AsrUnavailable(turn) == c.open /\ c' = Unavailable(c, turn) /\ UNCHANGED ev

\* The realtime ASR fails for good: the loop is left.
AsrError == c.open /\ c' = [Fail(c) EXCEPT !.open = FALSE] /\ ev' = << >>

CallerText(text) ==
  Fresh /\ c.turn < MaxTurn /\ c' = Text(c, text) /\ UNCHANGED ev

\* Ready and ClientReady have both been seen: maybe_opening.
Opening ==
  /\ c.open /\ ~c.opened /\ c.turn = 0 /\ c.att.id = 0 /\ c.st = "Idle"
  /\ c' = [Begin(c, "", TRUE, "verbatim") EXCEPT !.opened = TRUE]
  /\ UNCHANGED ev

\* Input::EndCallFailed: the room could not be closed.
EndCallFailed ==
  /\ Fresh /\ c.hang # "no"
  /\ c' = [c EXCEPT !.ending = FALSE, !.hang = "no", !.closeAt = (c.hang = "absent")]
  /\ UNCHANGED ev

Close == c.open /\ c' = Shutdown(c) /\ ev' = << >>

-----------------------------------------------------------------------------
Frames ==
  \/ \E reached \in BOOLEAN : SpeechFrame(reached)
  \/ \E reached, tooShort \in BOOLEAN : SilentFrame(reached, tooShort)
  \/ InvalidFrame

Asr ==
  \/ \E text \in Texts : AsrPartial(text)
  \/ \E turn \in 1..c.turn, text \in Texts :
       \E revision \in 1..c.flushRev : AsrHypothesis(turn, revision, text)
  \/ \E turn \in 1..c.turn, text \in Texts \cup {""} : AsrFinal(turn, text)
  \/ \E turn \in 1..c.turn : AsrUnavailable(turn)
  \/ AsrError

Room ==
  \/ \E text \in Texts : CallerText(text)
  \/ Opening \/ EndCallFailed \/ Close

GraceEnds == \E g \in c.graces : GraceFires(g)

Timers == StableFires \/ FinalTimeout \/ GraceEnds

Engaging ==
  \/ IdleOpportunity \/ MaybeIdleClose
  \/ \E res \in {"speak", "silent"} : Prepared(res)

Generation ==
  \/ GenToken \/ GenAudio \/ GenFinish
  \/ \E tool \in LlmTools : GenTool(tool)
  \/ \E res \in {"err", "llm"} : GenFails(res)

Next ==
  HandleInternal \/ Frames \/ Asr \/ Room \/ Timers \/ Engaging \/ Generation

Spec == Init /\ [][Next]_vars

(***************************************************************************)
(* The loop handles its events; the final timeout and the reply grace are  *)
(* timers; an authorized generation ends, because every provider call in   *)
(* it is under a timeout.  Nothing is assumed of the caller, the ASR or a  *)
(* generation that was not authorized.                                     *)
(***************************************************************************)
GenEnds == GenFinish \/ \E res \in {"err", "llm"} : GenFails(res)

FairSpec ==
  /\ Spec /\ WF_vars(HandleInternal) /\ WF_vars(FinalTimeout)
  /\ WF_vars(GraceEnds) /\ WF_vars(c.att.auth /\ GenEnds)

-----------------------------------------------------------------------------
(* Properties                                                              *)

\* The playout would play a frame of the attempt that owns it.
Audible == PcmAllowed(c.pl, c.pl.id)

\* No PCM is released but for the live, authorized attempt and with the speech
\* gate open; a caller turn's attempt answers the current turn (a minimum
\* utterance apart, whose discard keeps the guess), only after that turn's
\* accepted final, which it must agree with when it was speculative.  Events of
\* aborted attempts may still be in the channel.
OnlyFinalSpeaks ==
  /\ c.att.id # 0 /\ ~MinimumOn => c.att.owner = c.turn \/ c.att.kind # "none"
  /\ Audible =>
       /\ c.speech /\ c.att.id = c.pl.id /\ c.att.auth
       /\ c.att.kind = "none" => c.turn \in c.finals \cup {0}
       /\ c.att.spec => <<c.att.hyp, c.fin>> \in Similar

Queued(type) == \E i \in 1..Len(ev) : ev[i].type = type /\ ev[i].turn = c.turn

\* How an ending call forgets that it ends: the fallback for an empty reply
\* replaces the farewell (coordinator.rs:4349); a localized farewell fails
\* (4197); or the reply that called end_call then calls set_speech_enabled, which
\* cancels the attempt and leaves call_ending set (3198-3236).  When that call
\* disables speech the gate stays shut, which tells these calls from the others;
\* when it enables speech nothing does but that the model may call it.
Forgets(s) ==
  \/ {"fallback", "localized"} \cap s.conf.on # {}
  \/ ~s.speech
  \/ "engagement" \in s.conf.on /\ {"open", "say"} \cap s.conf.tools # {}

\* There is always something that will move the call on: the wait for a final
\* is under the safety timer, armed or fired; a reply that is released or
\* played has its authorized attempt (where no reply grace is configured, which
\* a failed speculation cancels for good); a call that is ending is being closed by
\* the room, or its farewell is live and will ask for that, whatever else the
\* same reply calls after end_call.  Two exceptions: a typed message that repeats
\* the ASR's private hint is suppressed after its turn has begun
\* (coordinator.rs:1856), and the wait has no timer; and the code leaves a call
\* ending with nobody to close it in the cases of Forgets.
NeverStranded ==
  c.open =>
    /\ c.st = "AwaitingFinal" /\ Texts \cap Echo = {} => c.timer = c.turn \/ Queued("timeout")
    /\ c.st \in {"Releasing", "Playing"} /\ ~GraceOn => c.att.id # 0 /\ c.att.auth
    /\ c.ending /\ ~Forgets(c) => c.hang # "no" \/ c.att.endReq

CurrentActs ==
  /\ c'.speech # c.speech \/ (c'.ending /\ ~c.ending /\ c'.hang # "absent") =>
       /\ c.turn \in c'.finals /\ (c.att.owner = c.turn \/ MinimumOn)
       /\ c.att.spec => <<c.att.hyp, c'.fin>> \in Similar
  /\ c'.att.kind # "none" /\ c'.next # c.next =>
       Head(ev).turn = c.turn /\ ~c.cand /\ c.speech
  /\ c'.turn = c.turn /\ c.fin # "" => c'.fin = c.fin
  /\ c.ending => /\ c'.turn = c.turn /\ c'.finals = c.finals
                 /\ c'.next # c.next => c'.att.direct # "no"

\* Only what is current acts on the call.  The speech gate moves and the model
\* ends the call on the current turn's accepted final, never by speculation;
\* proactive speech prepared before the caller's last turn, or while he may be
\* starting to speak, is never begun; an accepted final is not replaced; and
\* while a call is ending no caller input opens a turn or starts a reply.
OnlyCurrentActs == [][CurrentActs]_vars

\* A turn never waits for ever: neither for its final nor for its reply to be
\* played, replaced or given up (without the reply grace).
TurnResolves ==
  \A st \in {"AwaitingFinal", "Releasing"} :
    (c.st = st /\ ~GraceOn) ~> (c.st # st \/ ~c.open)

-----------------------------------------------------------------------------
(* The inductive invariant behind OnlyFinalSpeaks, NeverStranded and        *)
(* OnlyCurrentActs: what holds of the actor's record, and what its pending  *)
(* events may still say about it                                            *)

TextSet == {""} \cup UNION {k.texts : k \in Configs}
Responding == {"Releasing", "Playing"}
TimerSet == [turn : Nat, text : TextSet, waited : BOOLEAN]
TaskSet == [rev : Nat, kind : {"idle", "close"}, turn : Nat] \cup {NoTask}
AttSet ==
  [id : Nat, hyp : TextSet, auth : BOOLEAN, task : {"none", "run", "closing", "pend", "sent"},
   told : BOOLEAN, started : BOOLEAN, answer : BOOLEAN,
   tool : {"none", "end", "off", "open", "say", "bad"}, direct : {"no", "facts", "verbatim"},
   owner : Nat, kind : {"none", "idle", "close"}, rev : Nat, endReq : BOOLEAN,
   endOffered : BOOLEAN, spec : BOOLEAN, speech : BOOLEAN]
PlSet == [id : Nat, highest : Nat, authorized : BOOLEAN, enabled : BOOLEAN, ended : BOOLEAN]
CallSet ==
  [conf : Configs, st : Quiet \cup Hearing \cup {"AwaitingFinal"}, turn : Nat, next : Nat, att : AttSet,
   cand : BOOLEAN, silent : BOOLEAN, pre : TextSet, part : TextSet, fin : TextSet,
   flushRev : Nat, flushed : Nat, susp : BOOLEAN, stable : TimerSet, timer : Nat, grace : TimerSet,
   graces : SUBSET [turn : Nat, text : TextSet \ {""}, waited : BOOLEAN], speech : BOOLEAN,
   ending : BOOLEAN, hang : {"no", "absent", "goodbye"}, opened : BOOLEAN, rev : Nat, eng : TaskSet,
   checks : Nat, closeAt : BOOLEAN, finals : SUBSET Nat, pl : PlSet, open : BOOLEAN]
EventSet ==
  [type : {"grace"}, turn : Nat, text : TextSet \ {""}, waited : BOOLEAN]
    \cup [type : {"stable"}, turn : Nat, text : TextSet]
    \cup [type : {"timeout"}, turn : Nat]
    \cup [type : {"engage"}, rev : Nat, kind : {"idle", "close"}, turn : Nat, res : {"speak", "silent"}]
    \cup [type : {"token", "audio"}, id : Nat \ {0}]
    \cup [type : {"tool"}, id : Nat \ {0}, tool : {"end", "off", "open", "say", "bad"}]
    \cup [type : {"done"}, id : Nat \ {0}, res : {"ok", "err", "llm"}]

CallTypes(s) ==
  /\ s \in CallSet
  /\ s.att.id = 0 => s.att = NoAtt
  /\ s.att.id <= s.next /\ s.pl.highest <= s.next

\* The playout plays for the attempt, or has been told that its owner ended.
OnePlayout(s) ==
  /\ s.pl.id # 0 => s.pl.id = s.att.id \/ s.pl.ended
  /\ s.pl.id # 0 /\ s.pl.id = s.att.id =>
       (s.pl.authorized => s.att.auth) /\ (s.pl.enabled => s.speech)
  /\ s.att.spec => s.speech

\* An authorized attempt answers the final of the turn.
ForFinal(s) ==
  s.att.auth =>
    /\ s.st \in Responding
    /\ s.att.direct = "no" => s.turn \in s.finals
    /\ s.att.kind = "none" => s.turn \in s.finals \cup {0}
    /\ s.att.spec => <<s.att.hyp, s.fin>> \in Similar

\* What kinds of attempts there are.
Kinds(s) ==
  /\ s.att.kind # "none" => s.att.direct # "no"
  /\ s.att.tool # "none" =>
       s.att.direct = "no" /\ s.att.task # "run" /\ s.att.tool \in s.conf.tools
  /\ s.att.endReq => /\ s.att.auth /\ s.att.kind = "none"
                     /\ s.att.direct = "no" =>
                          s.att.task # "run" /\ (s.att.spec => s.att.endOffered)
                     /\ s.att.direct = "facts" => "localized" \in s.conf.on
  /\ s.att.id # 0 /\ "minimum" \notin s.conf.on =>
       s.st # "Idle" /\ (s.att.owner = s.turn \/ s.att.kind # "none")

\* A reply without an attempt exists under the reply grace only.
Replies(s) ==
  /\ s.fin # "" => s.turn \in s.finals
  /\ s.open /\ s.st \in Responding /\ "grace" \notin s.conf.on => s.att.auth

\* Proactive speech is prepared for the present.
Current(s) == s.eng # NoTask => s.eng.rev = s.rev /\ s.eng.turn = s.turn /\ ~s.cand

\* An ending call listens to nobody, and something will close it.
Closing(s) ==
  s.ending =>
    /\ s.st \in Quiet
    /\ s.att.id # 0 => s.att.endReq \/ s.att.direct # "no"
    /\ s.open /\ ~Forgets(s) => s.hang # "no" \/ s.att.endReq

CallInv(s) ==
  CallTypes(s) /\ OnePlayout(s) /\ ForFinal(s) /\ Kinds(s) /\ Replies(s) /\ Current(s) /\ Closing(s)

\* The model was unreachable: such a reply has no tool call.
Unreached(e, id) == e.type = "done" /\ e.res = "llm" /\ e.id = id
Decisive(e, id) == (e.type = "tool" /\ e.id = id) \/ Unreached(e, id)

Producing == {"run", "closing"}

\* What a pending event still means to the actor.
EventInv(s, e) ==
  /\ e.type \in {"token", "tool", "audio", "done"} => e.id <= s.next
  /\ e.type = "done" /\ e.res = "ok" /\ e.id = s.att.id =>
       s.att.auth /\ (s.pl.id = e.id => s.pl.ended)
  /\ e.type = "tool" => /\ e.tool \in s.conf.tools
                        /\ e.id = s.att.id => s.att.direct = "no" /\ s.att.task # "run"
  /\ Unreached(e, s.att.id) /\ s.att.direct = "no" =>
       ~s.att.endReq /\ s.att.tool = "none" /\ s.att.task \notin Producing
  /\ e.type = "engage" => e.rev <= s.rev /\ (e.rev = s.rev => e.turn = s.turn /\ ~s.cand)

\* The events in the channel q.
QueueInv(s, q) ==
  /\ q \in Seq(EventSet)
  /\ \A i \in 1..Len(q) : EventInv(s, q[i])
  /\ s.att.direct = "no" =>
       \A i, j \in 1..Len(q) : Unreached(q[i], s.att.id) /\ Decisive(q[j], s.att.id) => i = j

\* The wait for a final is timed.
Timed(s, q) ==
  s.open /\ s.st = "AwaitingFinal" /\ s.conf.texts \cap Echo = {} =>
    s.timer = s.turn \/ \E i \in 1..Len(q) : q[i].type = "timeout" /\ q[i].turn = s.turn

CoordInv == CallInv(c) /\ QueueInv(c, ev) /\ Timed(c, ev)
=============================================================================
