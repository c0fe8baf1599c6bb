---------------------------- MODULE Transcriber ----------------------------
(***************************************************************************)
(* The LiveKit agent's recognition streams (odion_stt.py): the realtime       *)
(* stream over one socket, with or without an endpointing VAD, and the stream *)
(* of one request per segment.                                              *)
(*                                                                         *)
(* The realtime stream is three tasks: one that feeds the VAD, one that       *)
(* sends what the VAD reports, and one that receives.  A generation is the    *)
(* recognizer's unit: it is armed by commit(final=false), filled by append    *)
(* and closed by commit(final=true), and answers with deltas and one done.    *)
(* An action is the code between two awaits.  Audio is a unit <<utterance,    *)
(* place>>; what the recognizer makes of it is its choice.                   *)
(***************************************************************************)
EXTENDS Integers, Sequences, SequencesExt

CONSTANTS
  Calls,     \* the streams to check
  MaxUtts,   \* bound: utterances
  MaxUnits,  \* bound: units of audio in an utterance
  MaxLines,  \* bound: events of a segment
  Chunk      \* ODION_STT_REALTIME_CHUNK_MS, in units

ASSUME TranscriberAssumption ==
  /\ MaxUtts \in Nat /\ MaxUnits \in Nat /\ MaxLines \in Nat /\ Chunk \in Nat \ {0}
  /\ \A c \in Calls : c.vad \in BOOLEAN

VARIABLES
  conf,  \* the stream: realtime or not, with a VAD, how it may end
  mic,   \* the caller: the utterance, its units, the input's end and the VAD's
  vad,   \* events of the VAD not yet read, _vad_speech_active, _vad_events_drained
  ep,    \* _endpoint_on_silence, or _send_audio without a VAD: where, and pending
  gen,   \* _generation_ready, _generation_has_audio, _generation_final_requested
  rx,    \* _receive_events
  out,   \* _speaking, _raw_transcript, and the events sent to the agent
  srv,   \* external: generations, appends no generation took, answers, the socket
  run    \* _run: "on", "over", "failed"

tvars == <<mic, vad, ep, gen, rx, out, srv, run>>

TranscriberInit ==
  /\ mic = [utt |-> 0, units |-> 0, said |-> {}, talking |-> FALSE, ended |-> FALSE, closed |-> FALSE]
  /\ vad = [q |-> <<>>, active |-> FALSE, drained |-> FALSE]
  /\ ep = [at |-> "next", pending |-> <<>>]
  /\ gen = [ready |-> FALSE, audio |-> FALSE, final |-> FALSE]
  /\ rx = "connect"
  /\ out = [speaking |-> FALSE, raw |-> FALSE, events |-> <<>>]
  /\ srv = [gens |-> <<>>, stray |-> {}, inbox |-> <<>>, line |-> "open"]
  /\ run = "on"

Realtime == conf.stream = "realtime"
On == run = "on" /\ Realtime

----------------------------------------------------------------------------
(* The caller and the VAD                                                    *)

Event(type, frames) == vad' = [vad EXCEPT !.q = Append(@, [type |-> type, frames |-> frames])]

\* A first unit starts an utterance, silence ends it.  The VAD lags behind the
\* input: it may still report after the input's end.
Says(u, i) == [mic EXCEPT !.utt = u, !.units = i, !.said = @ \union {<<u, i>>}, !.talking = TRUE]

StartsSpeech ==
  /\ On /\ ~mic.closed /\ ~mic.talking /\ mic.utt < MaxUtts
  /\ mic' = Says(mic.utt + 1, 1) /\ Event("start", <<<<mic.utt + 1, 1>>>>)
  /\ UNCHANGED <<ep, gen, rx, out, srv, run>>

SpeaksOn ==
  /\ On /\ ~mic.closed /\ mic.talking /\ mic.units < MaxUnits
  /\ mic' = Says(mic.utt, mic.units + 1) /\ Event("speech", <<<<mic.utt, mic.units + 1>>>>)
  /\ UNCHANGED <<ep, gen, rx, out, srv, run>>

FallsSilent ==
  /\ On /\ ~mic.closed /\ mic.talking
  /\ mic' = [mic EXCEPT !.talking = FALSE] /\ Event("end", <<>>)
  /\ UNCHANGED <<ep, gen, rx, out, srv, run>>

\* _send_audio: the channel ends, then the VAD's events do.
InputEnds ==
  /\ On /\ (~mic.ended \/ ~mic.closed) /\ (mic.ended /\ conf.polite => ~mic.talking)
  /\ mic' = [mic EXCEPT !.ended = TRUE, !.closed = mic.ended \/ ~conf.vad]
  /\ UNCHANGED <<vad, ep, gen, rx, out, srv, run>>

----------------------------------------------------------------------------
(* The recognizer                                                           *)

Open == srv.gens # <<>> /\ ~Last(srv.gens).final

\* input_audio_buffer.append
Appended(units) ==
  IF Open THEN [srv EXCEPT !.gens[Len(srv.gens)].audio = @ \o units]
  ELSE [srv EXCEPT !.stray = @ \union Range(units)]

\* input_audio_buffer.commit, final false and final true
Arms == [srv EXCEPT !.gens = Append(@, [audio |-> <<>>, final |-> FALSE, told |-> FALSE, done |-> FALSE])]
Commits == IF Open THEN [srv EXCEPT !.gens[Len(srv.gens)].final = TRUE] ELSE srv

Answers ==
  /\ On /\ srv.line = "open" /\ srv.gens # <<>>
  /\ LET g == Len(srv.gens) IN
     \/ /\ ~srv.gens[g].told /\ ~srv.gens[g].done /\ srv.gens[g].audio # <<>>
        /\ srv' = [srv EXCEPT !.gens[g].told = TRUE, !.inbox = Append(@, [type |-> "delta", g |-> g, text |-> TRUE])]
     \/ /\ srv.gens[g].final /\ ~srv.gens[g].done
        /\ \E text \in BOOLEAN :
             srv' = [srv EXCEPT !.gens[g].done = TRUE, !.inbox = Append(@, [type |-> "done", g |-> g, text |-> text])]
  /\ UNCHANGED <<mic, vad, ep, gen, rx, out, run>>

Hangs ==
  /\ On /\ conf.drops /\ srv.line = "open" /\ rx # "connect" /\ srv' = [srv EXCEPT !.line = "dropped"]
  /\ UNCHANGED <<mic, vad, ep, gen, rx, out, run>>

----------------------------------------------------------------------------
(* Sending                                                                  *)

\* _endpoint_on_silence reads an event; without a VAD every unit is sent.
ReadsEvent ==
  /\ On /\ rx # "connect" /\ ep.at = "next" /\ vad.q # <<>>
  /\ LET e == Head(vad.q) IN
     \/ /\ e.type = "start" \/ ~conf.vad
        /\ ep' = [at |-> "flush", pending |-> (IF conf.vad THEN <<>> ELSE ep.pending) \o e.frames]
        /\ vad' = [vad EXCEPT !.q = Tail(@), !.active = conf.vad]
     \/ /\ e.type = "speech" /\ conf.vad
        /\ ep' = IF vad.active THEN [at |-> "flush", pending |-> ep.pending \o e.frames] ELSE ep
        /\ vad' = [vad EXCEPT !.q = Tail(@)]
     \/ /\ e.type = "end" /\ conf.vad
        /\ ep' = [ep EXCEPT !.at = IF vad.active THEN "rest" ELSE "next"]
        /\ vad' = [vad EXCEPT !.q = Tail(@)]
  /\ UNCHANGED <<mic, gen, rx, out, srv, run>>

\* Mutant of Appendable: the chunk does not wait for the next generation.
AppendableAtOnce == TRUE

\* _send_audio_chunk waits for _generation_ready.
Appendable == gen.ready

\* _flush_audio: whole chunks, each awaited.
FlushesAudio ==
  /\ On /\ ep.at = "flush"
  /\ IF Len(ep.pending) < Chunk
     THEN ep' = [ep EXCEPT !.at = "next"] /\ UNCHANGED <<gen, srv>>
     ELSE /\ Appendable
          /\ srv' = Appended(SubSeq(ep.pending, 1, Chunk))
          /\ ep' = [ep EXCEPT !.pending = SubSeq(@, Chunk + 1, Len(@))]
          /\ gen' = [gen EXCEPT !.audio = TRUE]
  /\ UNCHANGED <<mic, vad, rx, out, run>>

\* The end of an utterance, or of all: what is pending, then the commit.
SendsRest ==
  /\ On /\ ep.at \in {"rest", "lastRest"}
  /\ ep.pending # <<>> => Appendable
  /\ srv' = IF ep.pending = <<>> THEN srv ELSE Appended(ep.pending)
  /\ gen' = [gen EXCEPT !.audio = @ \/ ep.pending # <<>>]
  /\ ep' = [at |-> IF ep.at = "rest" THEN "commit" ELSE "lastCommit", pending |-> <<>>]
  /\ vad' = [vad EXCEPT !.active = FALSE]
  /\ UNCHANGED <<mic, rx, out, run>>

\* _finalize_generation, forced where there is no VAD.
Finalizes ==
  /\ On /\ ep.at \in {"commit", "lastCommit"}
  /\ IF gen.final \/ (conf.vad /\ ~gen.audio) THEN UNCHANGED <<gen, srv>>
     ELSE gen.ready /\ gen' = [gen EXCEPT !.ready = FALSE, !.final = TRUE] /\ srv' = Commits
  /\ ep' = [ep EXCEPT !.at = IF ep.at = "commit" THEN "next" ELSE "over"]
  /\ UNCHANGED <<mic, vad, rx, out, run>>

\* Mutant of Drains: the socket is left open when there is nothing to commit.
DrainsLeavesOpen ==
  /\ On /\ rx # "connect" /\ ep.at = "next" /\ vad.q = <<>> /\ mic.closed
  /\ vad' = [vad EXCEPT !.drained = TRUE]
  /\ ep' = [ep EXCEPT !.at = IF vad.active \/ ~conf.vad THEN "lastRest" ELSE "over"]
  /\ UNCHANGED <<mic, gen, rx, out, srv, run>>

\* Nothing more to read: with nothing to commit the socket is closed.
Drains ==
  /\ On /\ rx # "connect" /\ ep.at = "next" /\ vad.q = <<>> /\ mic.closed
  /\ vad' = [vad EXCEPT !.drained = TRUE]
  /\ ep' = [ep EXCEPT !.at = IF vad.active \/ ~conf.vad THEN "lastRest" ELSE "over"]
  /\ srv' = IF srv.line = "open" /\ conf.vad /\ ~vad.active /\ ~gen.audio THEN [srv EXCEPT !.line = "closed"] ELSE srv
  /\ UNCHANGED <<mic, gen, rx, out, run>>

----------------------------------------------------------------------------
(* Receiving                                                                *)

\* _emit_transcript
Emitted(o, kind, g) ==
  [o EXCEPT !.events = (IF o.speaking THEN @ ELSE Append(@, <<"START", g>>)) \o <<<<kind, g>>>>, !.speaking = TRUE]

\* _process_delta: an interim that is blank or a repeat is not reported.
ProcessDelta(g) == \E new \in BOOLEAN : out' = IF new THEN [Emitted(out, "INTERIM", g) EXCEPT !.raw = TRUE] ELSE [out EXCEPT !.raw = TRUE]

\* Mutant of ProcessDone: the end of speech is reported and not remembered.
ProcessDoneSpeaking(g, text) ==
  \E latin \in BOOLEAN :
    LET o == IF (text \/ out.raw) /\ latin THEN Emitted(out, "FINAL", g) ELSE out IN
    out' = [o EXCEPT !.raw = FALSE, !.events = IF o.speaking THEN Append(@, <<"END", g>>) ELSE @]

\* _process_done: the final text or what the deltas had of it, unless nothing
\* of it is left in the language's letters.
ProcessDone(g, text) ==
  \E latin \in BOOLEAN :
    LET o == IF (text \/ out.raw) /\ latin THEN Emitted(out, "FINAL", g) ELSE out IN
    out' = [speaking |-> FALSE, raw |-> FALSE, events |-> IF o.speaking THEN Append(o.events, <<"END", g>>) ELSE o.events]

\* _connect_ws, _arm_generation
Connects == /\ On /\ rx = "connect" /\ rx' = "arm" /\ UNCHANGED <<mic, vad, ep, gen, out, srv, run>>

Armed ==
  /\ On /\ rx = "arm" /\ rx' = "receive"
  /\ srv' = IF srv.line = "open" THEN Arms ELSE srv
  /\ gen' = [gen EXCEPT !.ready = TRUE]
  /\ UNCHANGED <<mic, vad, ep, out, run>>

Receives ==
  /\ On /\ rx = "receive" /\ srv.inbox # <<>>
  /\ srv' = [srv EXCEPT !.inbox = Tail(@)]
  /\ LET msg == Head(srv.inbox) IN
     \/ msg.type = "delta" /\ ProcessDelta(msg.g) /\ UNCHANGED <<gen, rx>>
     \/ /\ msg.type = "done" /\ ProcessDone(msg.g, msg.text)
        /\ IF mic.ended /\ (~conf.vad \/ vad.drained) THEN rx' = "over" /\ UNCHANGED gen
           ELSE rx' = "arm" /\ gen' = [gen EXCEPT !.audio = FALSE, !.final = FALSE]
  /\ UNCHANGED <<mic, vad, ep, run>>

\* The socket closed: the end of a stream whose input ended, else an error.
SeesClose ==
  /\ On /\ rx = "receive" /\ srv.inbox = <<>> /\ srv.line # "open"
  /\ IF mic.ended THEN rx' = "over" /\ UNCHANGED run ELSE rx' = rx /\ run' = "failed"
  /\ UNCHANGED <<mic, vad, ep, gen, out, srv>>

\* A send on a closed socket raises; so do a failed connection and an error event.
Raises ==
  /\ On /\ conf.drops
  /\ \/ rx = "connect"
     \/ rx # "over" /\ srv.inbox # <<>>
     \/ srv.line = "dropped" /\ (rx # "over" \/ ep.at # "over")
  /\ run' = "failed"
  /\ UNCHANGED <<mic, vad, ep, gen, rx, out, srv>>

\* _run: every task has returned; the usage is reported either way.
Returns ==
  /\ On /\ rx = "over" /\ ep.at = "over" /\ run' = "over"
  /\ UNCHANGED <<mic, vad, ep, gen, rx, out, srv>>

----------------------------------------------------------------------------
(* _OdionSTTStream: a request per segment, answered in lines                  *)

Segment(kinds) == ~Realtime /\ run = "on" /\ rx \in kinds

Collects ==
  /\ Segment({"connect"}) /\ mic.units < MaxUnits /\ mic' = [mic EXCEPT !.units = @ + 1]
  /\ UNCHANGED <<vad, ep, gen, rx, out, srv, run>>

\* A flush, or the end of the input, posts what was collected, if anything.
Transcribes ==
  /\ Segment({"connect"}) /\ mic.utt < MaxUtts
  /\ mic' = [mic EXCEPT !.utt = @ + 1, !.units = 0, !.ended = (mic.utt + 1 = MaxUtts)]
  /\ rx' = IF mic.units > 0 THEN "receive" ELSE "connect"
  /\ UNCHANGED <<vad, ep, gen, out, srv, run>>

\* _speech_event_from_payload: what a line may be; any other is ignored.
LineEvents == {"START", "INTERIM", "FINAL", "END"}

\* _process_stream_line: the service may report speech itself.
ProcessLine ==
  /\ Segment({"receive"}) /\ Len(out.events) < MaxLines * mic.utt
  /\ \E kind \in LineEvents :
       out' = CASE kind = "START" -> [out EXCEPT !.speaking = TRUE, !.events = Append(@, <<kind, mic.utt>>)]
                [] kind = "END" -> [out EXCEPT !.speaking = FALSE, !.events = Append(@, <<kind, mic.utt>>)]
                [] kind = "INTERIM" -> Emitted(out, kind, mic.utt)
                [] kind = "FINAL" -> LET o == Emitted(out, kind, mic.utt) IN
                                     [o EXCEPT !.speaking = FALSE, !.events = Append(@, <<"END", mic.utt>>)]
  /\ UNCHANGED <<mic, vad, ep, gen, rx, srv, run>>

\* The response ended, or failed and took the stream with it.
SegmentOver ==
  /\ Segment({"receive"}) /\ rx' = "connect" /\ run' \in {"on", "failed"}
  /\ UNCHANGED <<mic, vad, ep, gen, out, srv>>

SegmentsEnd ==
  /\ Segment({"connect"}) /\ mic.ended /\ run' = "over"
  /\ UNCHANGED <<mic, vad, ep, gen, rx, out, srv>>

Recognizes ==
  \/ ReadsEvent \/ FlushesAudio \/ SendsRest \/ Finalizes \/ Drains
  \/ Connects \/ Armed \/ Receives \/ SeesClose \/ Returns
Segments == Collects \/ Transcribes \/ ProcessLine \/ SegmentOver \/ SegmentsEnd
TranscriberNext == StartsSpeech \/ SpeaksOn \/ FallsSilent \/ InputEnds \/ Answers \/ Hangs \/ Raises \/ Recognizes \/ Segments

----------------------------------------------------------------------------
(* Properties                                                               *)

\* What the caller says in one breath reaches the recognizer as one
\* generation, however late it answers: in order, with nothing of another
\* utterance in it and nothing sent between two generations; and a stream that
\* returned with its socket left every word in a generation that was
\* transcribed (odion_stt.py:705, 834, 883).
WholeUtterance ==
  LET audio(g) == srv.gens[g].audio IN
  /\ srv.stray # {} => srv.line = "dropped"
  /\ conf.vad => \A g \in DOMAIN srv.gens : \A i \in DOMAIN audio(g) : audio(g)[i] = <<audio(g)[1][1], i>>
  /\ conf.vad => \A g, h \in DOMAIN srv.gens : g < h /\ audio(g) # <<>> /\ audio(h) # <<>> => audio(g)[1][1] < audio(h)[1][1]
  /\ run = "over" /\ srv.line # "dropped" => mic.said \subseteq UNION {Range(audio(g)) : g \in {h \in DOMAIN srv.gens : srv.gens[h].done}}

\* A transcript is reported inside speech: after a START with no END since,
\* and a final is followed by its END, over any number of generations and
\* segments (odion_stt.py:934, 948, 1115).
Bracketed ==
  \A i \in DOMAIN out.events :
    /\ out.events[i][1] \in {"INTERIM", "FINAL"} =>
         \E j \in 1..(i - 1) : out.events[j][1] = "START" /\ \A k \in j..i : out.events[k][1] # "END"
    /\ out.events[i][1] = "FINAL" => i < Len(out.events) /\ out.events[i + 1][1] = "END"

\* The receiver has returned, and the task that sends has words for a generation
\* that nobody arms any more: it waits for ever.  The transcript of the utterance
\* before came when the VAD had nothing more to report (odion_stt.py:883), which needs
\* an input that ends while the caller speaks; or the socket closed after the input
\* had ended (851).
Stranded == rx = "over" /\ ~gen.ready /\ ep.pending # <<>> /\ (~conf.polite \/ srv.line = "dropped")

\* Once the input ended the stream ends, whether the caller was silent by then or
\* was cut off, and whatever the recognizer still owes or has lost with its socket
\* (odion_stt.py:774, 851, 883); but for the task being stranded, which an input that
\* ends in silence on a socket that holds excludes.
StreamEnds == (mic.ended /\ Realtime) ~> (run # "on" \/ Stranded)

-----------------------------------------------------------------------------
(* The inductive invariant behind WholeUtterance and Bracketed               *)

Units == Nat \X Nat
MicSet == [utt : Nat, units : Nat, said : SUBSET Units, talking : BOOLEAN, ended : BOOLEAN, closed : BOOLEAN]
VadEvents == [type : {"start", "speech", "end"}, frames : Seq(Units)]
VadSet == [q : Seq(VadEvents), active : BOOLEAN, drained : BOOLEAN]
EpSet == [at : {"next", "flush", "rest", "commit", "lastRest", "lastCommit", "over"}, pending : Seq(Units)]
GenSet == [ready : BOOLEAN, audio : BOOLEAN, final : BOOLEAN]
OutSet == [speaking : BOOLEAN, raw : BOOLEAN, events : Seq(LineEvents \X Nat)]
Generations == [audio : Seq(Units), final : BOOLEAN, told : BOOLEAN, done : BOOLEAN]
Messages == [type : {"delta", "done"}, g : Nat, text : BOOLEAN]
SrvSet == [gens : Seq(Generations), stray : SUBSET Units, inbox : Seq(Messages), line : {"open", "dropped", "closed"}]

HearTypes ==
  /\ conf.vad \in BOOLEAN /\ mic \in MicSet /\ vad \in VadSet /\ ep \in EpSet /\ gen \in GenSet /\ out \in OutSet
  /\ srv \in SrvSet /\ rx \in {"connect", "arm", "receive", "over"} /\ run \in {"on", "over", "failed"}

\* The stream's flags tell the state of the recognizer's generations: only the
\* last is not done, it is open when the flags say so, its done is the last
\* message, and what it holds is known to the flags.
Generating ==
  LET last == srv.gens[Len(srv.gens)] IN
  /\ \A g \in DOMAIN srv.gens : /\ g < Len(srv.gens) => srv.gens[g].done
                                /\ srv.gens[g].done => srv.gens[g].final
  /\ gen.ready => ~gen.final
  /\ gen.ready /\ srv.line = "open" => Open
  /\ Open => gen.ready
  /\ rx \in {"connect", "arm"} => ~gen.ready /\ ~gen.final /\ ~gen.audio /\ (srv.gens # <<>> => last.done)
  /\ \A m \in DOMAIN srv.inbox : srv.inbox[m].type = "done" =>
       m = Len(srv.inbox) /\ gen.final /\ rx = "receive" /\ srv.gens # <<>> /\ last.done
  /\ srv.gens # <<>> /\ ~last.done /\ last.final => gen.final /\ (rx = "receive" \/ srv.line # "open")
  /\ srv.gens # <<>> /\ ~last.done /\ last.audio # <<>> => gen.audio
  /\ srv.line = "closed" => ep.at = "over" /\ ~gen.audio
  /\ rx = "over" /\ srv.line # "dropped" =>
       (gen.ready => srv.line = "closed") /\ \A g \in DOMAIN srv.gens : srv.gens[g].done \/ srv.gens[g].audio = <<>>

\* What is pending, and whether the caller is in an utterance, at each place
\* of the task that sends.
Endpointing ==
  /\ mic.closed => mic.ended
  /\ ep.at \in {"lastRest", "lastCommit", "over"} => vad.q = <<>> /\ mic.closed
  /\ ep.at \in {"commit", "lastCommit", "over"} => ep.pending = <<>>
  /\ conf.vad /\ ~vad.active => ep.pending = <<>>
  /\ conf.vad /\ ep.at \in {"flush", "rest", "lastRest"} => vad.active
  /\ ep.at \in {"commit", "lastCommit", "over"} => ~vad.active
  /\ ~conf.vad => ~vad.active /\ ep.at \notin {"rest", "commit"}

\* The VAD's events: an utterance is its start, its speech unit after unit and
\* its end, and a later one is of a later utterance.
Queued ==
  /\ \A i \in DOMAIN vad.q :
       /\ vad.q[i].type = "end" => vad.q[i].frames = <<>>
       /\ vad.q[i].type # "end" => Len(vad.q[i].frames) = 1 /\ vad.q[i].frames[1][1] <= mic.utt
       /\ vad.q[i].type = "start" => vad.q[i].frames[1][2] = 1
       /\ i < Len(vad.q) =>
            IF vad.q[i].type = "end" THEN vad.q[i + 1].type = "start"
            ELSE \/ vad.q[i + 1].type = "end"
                 \/ /\ vad.q[i + 1].type = "speech"
                    /\ vad.q[i + 1].frames[1] = <<vad.q[i].frames[1][1], vad.q[i].frames[1][2] + 1>>
       /\ i = Len(vad.q) =>
            IF vad.q[i].type = "end" THEN ~mic.talking
            ELSE mic.talking /\ vad.q[i].frames[1] = <<mic.utt, mic.units>>
  /\ \A i, j \in DOMAIN vad.q : i < j /\ vad.q[i].type # "end" /\ vad.q[j].type = "start" =>
       vad.q[i].frames[1][1] < vad.q[j].frames[1][1]

\* Every unit said is with the recognizer, pending, or in an event.
Kept ==
  srv.line # "dropped" =>
    \A x \in mic.said :
      \/ \E g \in DOMAIN srv.gens : x \in Range(srv.gens[g].audio)
      \/ x \in Range(ep.pending)
      \/ \E i \in DOMAIN vad.q : x \in Range(vad.q[i].frames)

\* What the open generation holds.
Held == IF Open THEN srv.gens[Len(srv.gens)].audio ELSE <<>>

\* Unless the recognizer is out of reach.
Live == srv.line # "dropped" \/ Open

\* Utterance u is being sent: what is held and pending is u from its first
\* unit on, the next event goes on with it, and u is between the generations
\* before and the utterances after.
Breath(u) ==
  LET all == Held \o ep.pending IN
  /\ all # <<>> /\ \A i \in DOMAIN all : all[i] = <<u, i>>
  /\ \A g \in DOMAIN srv.gens : srv.gens[g].audio # <<>> /\ ~(Open /\ g = Len(srv.gens)) => srv.gens[g].audio[1][1] < u
  /\ \A i \in DOMAIN vad.q : vad.q[i].type = "start" => u < vad.q[i].frames[1][1]
  /\ ep.at \in {"next", "flush"} =>
       IF vad.q = <<>> THEN mic.talking /\ mic.utt = u /\ mic.units = Len(all)
       ELSE \/ vad.q[1].type = "end"
            \/ vad.q[1].type = "speech" /\ vad.q[1].frames[1] = <<u, Len(all) + 1>>

Breathing ==
  conf.vad /\ Live =>
    /\ vad.active => \E u \in 0..mic.utt : Breath(u)
    /\ ~vad.active /\ ep.at = "next" => Held = <<>>
    /\ ep.at = "rest" \/ (~vad.active /\ ep.at \in {"next", "commit"}) =>
         IF vad.q = <<>> THEN ~mic.talking ELSE vad.q[1].type = "start"
    /\ \A g \in DOMAIN srv.gens : srv.gens[g].audio # <<>> =>
         /\ srv.gens[g].audio[1][1] <= mic.utt
         /\ \A i \in DOMAIN vad.q : vad.q[i].type = "start" => srv.gens[g].audio[1][1] < vad.q[i].frames[1][1]

\* A stream of segments has no recognizer's socket.
Segmented ==
  ~Realtime => /\ mic.said = {} /\ ~mic.talking /\ ~mic.closed /\ rx # "over" /\ vad.q = <<>> /\ ep.at = "next"
               /\ srv.gens = <<>> /\ srv.inbox = <<>> /\ srv.line = "open"
               /\ ~gen.ready /\ ~gen.final /\ ~gen.audio

\* A stream that returned had its tasks return.
Returned == run = "over" /\ Realtime => rx = "over" /\ ep.at = "over"

\* While the stream is speaking the last START has no END after it.
Speaking ==
  out.speaking => \E j \in DOMAIN out.events :
    out.events[j][1] = "START" /\ \A k \in j..Len(out.events) : out.events[k][1] # "END"

\* No generation has more or less than one utterance from its beginning on,
\* nor one of an utterance before the last.
Uncut ==
  LET audio(g) == srv.gens[g].audio IN
  /\ srv.stray # {} => srv.line = "dropped"
  /\ conf.vad => \A g \in DOMAIN srv.gens : \A i \in DOMAIN audio(g) : audio(g)[i] = <<audio(g)[1][1], i>>
  /\ conf.vad => \A g, h \in DOMAIN srv.gens : g < h /\ audio(g) # <<>> /\ audio(h) # <<>> => audio(g)[1][1] < audio(h)[1][1]

HearInv ==
  /\ HearTypes /\ Generating /\ Endpointing /\ Queued /\ Kept /\ Breathing /\ Segmented /\ Returned /\ Uncut
  /\ Speaking /\ Bracketed
=============================================================================
