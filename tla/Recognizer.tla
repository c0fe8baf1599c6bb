----------------------------- MODULE Recognizer -----------------------------
(***************************************************************************)
(* From a caller's speech to its final transcript: the recognizer clients   *)
(* of latency_lab (RSTTClient of providers.py in its three modes, SBPNClient *)
(* of pidgin.py) composed with the realtime server they stream to            *)
(* (deployment/stable/npu/asr) and with the turns of the pipeline that       *)
(* feeds them (module Turns has that side in full).                          *)
(*                                                                         *)
(*   batch     partials over the socket, the final by an HTTP request, the   *)
(*             two never at once on the shared engine                       *)
(*   chat      the same, and the socket again when the request fails         *)
(*   realtime  the final over the socket                                     *)
(*   sbpn      the final over the socket, an HTTP request when that fails     *)
(*                                                                         *)
(* Speech is a set of chunks, two for a turn: its first and its last.  Each  *)
(* action is the code between two awaits; a closing handshake is one step    *)
(* with the server's cleanup.                                               *)
(***************************************************************************)
EXTENDS Naturals, Sequences, FiniteSets

CONSTANTS
  MaxTurns,    \* bound: caller turns
  MaxSockets,  \* bound: sockets at a time
  Modes        \* the modes explored

ASSUME RecognizerAssumption ==
  /\ MaxTurns \in Nat /\ MaxSockets \in Nat
  /\ Modes \subseteq {"batch", "chat", "realtime", "sbpn"}

VARIABLES
  mode,
  phase,    \* the pipeline: idle, speaking, awaiting, recovering
  turn,     \* the caller's turn, and how much of it was spoken
  ws,       \* self.ws, 0 for None
  recvTask, \* self.recv_task: the socket it reads
  socks,    \* the sockets: client side, server side and what is in between
  lock,     \* _inference_mode_lock: the task of a turn, the recovery, or 0
  task,     \* the final's task of each turn
  force,    \* _force_realtime_final_once
  sb,       \* SBPNClient: [pending, degraded, streamed]
  finals    \* what on_final was given, for each turn that was current

vars == <<mode, phase, turn, ws, recvTask, socks, lock, task, force, sb, finals>>

Turns == 1 .. MaxTurns
Sockets == 1 .. MaxSockets
Recovery == MaxTurns + 1
Chunks(t) == {<<t, 1>>, <<t, 2>>}
Sentinel == <<0, 0>>
NoSocket == [st |-> "none", recv |-> "none", gen |-> "none", queue |-> <<>>, heard |-> {}, out |-> <<>>]
Opened == [NoSocket EXCEPT !.st = "open", !.recv = "run", !.gen = "run"]

Init ==
  /\ mode \in Modes
  /\ phase = "idle" /\ turn = [id |-> 0, part |-> 0, typed |-> FALSE]
  /\ ws = 0 /\ recvTask = 0 /\ socks = [s \in Sockets |-> NoSocket]
  /\ lock = 0 /\ task = [t \in Turns |-> "none"] /\ force = FALSE
  /\ sb = [pending |-> FALSE, degraded |-> FALSE, streamed |-> FALSE]
  /\ finals = [t \in Turns |-> <<>>]

Unused == {s \in Sockets : socks[s].st # "open" /\ socks[s].recv # "run" /\ recvTask # s}
Fresh == CHOOSE s \in Unused : \A r \in Unused : s <= r
IsOpen(s) == s # 0 /\ socks[s].st = "open"

----------------------------------------------------------------------------
(* Sockets.  Opening one starts a generation on the server (commit           *)
(* final=false); three failed attempts leave none.                          *)

Opens == IF Unused = {} THEN {<<0, socks>>} ELSE {<<0, socks>>, <<Fresh, [socks EXCEPT ![Fresh] = Opened]>>}

\* The client closes a socket and the server cleans up: it cancels the generation.
Shut(S, s) == [S EXCEPT ![s].st = "gone", ![s].gen = "none", ![s].queue = <<>>, ![s].heard = {}, ![s].out = <<>>]

\* To a socket: the queue of the server takes a chunk or the sentinel.
Sends(S, s, items) == [S EXCEPT ![s].queue = @ \o items]

\* connect(), and the reconnection of a commit that finds no socket.
Connect ==
  /\ phase = "idle" /\ turn.id = 0 /\ ws = 0 /\ lock = 0
  /\ \E o \in Opens : ws' = o[1] /\ socks' = o[2] /\ recvTask' = (IF o[1] = 0 THEN recvTask ELSE o[1]) /\ o[1] # 0
  /\ UNCHANGED <<mode, phase, turn, lock, task, force, sb, finals>>

\* The network or the server drops a socket.
Drops(s) ==
  /\ socks[s].st = "open"
  /\ socks' = Shut(socks, s)
  /\ UNCHANGED <<mode, phase, turn, ws, recvTask, lock, task, force, sb, finals>>

----------------------------------------------------------------------------
(* RealtimeConnection: the server.                                          *)

\* _run_generation consumes the queue; the sentinel ends the audio.
Consumes(s) ==
  /\ socks[s].gen = "run" /\ socks[s].queue # <<>> /\ Head(socks[s].queue) # Sentinel
  /\ socks' = [socks EXCEPT ![s].queue = Tail(@), ![s].heard = @ \union {Head(socks[s].queue)}]
  /\ UNCHANGED <<mode, phase, turn, ws, recvTask, lock, task, force, sb, finals>>

\* transcription.done is sent before the task is over.
SendsDone(s) ==
  /\ socks[s].gen = "run" /\ socks[s].queue # <<>> /\ Head(socks[s].queue) = Sentinel
  /\ socks' = [socks EXCEPT ![s].queue = Tail(@), ![s].gen = "ending", ![s].heard = {},
                            ![s].out = Append(@, [kind |-> "done", heard |-> socks[s].heard])]
  /\ UNCHANGED <<mode, phase, turn, ws, recvTask, lock, task, force, sb, finals>>

GenerationEnds(s) ==
  /\ socks[s].gen = "ending"
  /\ socks' = [socks EXCEPT ![s].gen = "none"]
  /\ UNCHANGED <<mode, phase, turn, ws, recvTask, lock, task, force, sb, finals>>

\* The engine fails: an error event, and the generation is over.
EngineFails(s) ==
  /\ socks[s].st = "open" /\ socks[s].gen = "run"
  /\ socks' = [socks EXCEPT ![s].gen = "none", ![s].out = Append(@, [kind |-> "error", heard |-> {}])]
  /\ UNCHANGED <<mode, phase, turn, ws, recvTask, lock, task, force, sb, finals>>

\* start_generation: nothing when the task is not over.
Rearmed(S, s) == IF S[s].st = "open" /\ S[s].gen = "none" THEN [S EXCEPT ![s].gen = "run"] ELSE S

----------------------------------------------------------------------------
(* The caller speaks.                                                       *)

\* Speech after the previous turn was resolved.
TurnStarts ==
  /\ phase = "idle" /\ turn.id < MaxTurns
  /\ phase' = "speaking" /\ turn' = [id |-> turn.id + 1, part |-> 0, typed |-> turn.typed]
  /\ UNCHANGED <<mode, ws, recvTask, socks, lock, task, force, sb, finals>>

Chunk == <<turn.id, turn.part + 1>>
Speaks == phase = "speaking" /\ turn.part < 2 /\ turn' = [turn EXCEPT !.part = @ + 1]

\* RSTTClient.append: without a socket the chunk is only kept locally; a
\* failed send forgets the socket, which is closing.
AppendAudio ==
  /\ mode # "sbpn" /\ Speaks
  /\ \/ IsOpen(ws) /\ socks' = Sends(socks, ws, <<Chunk>>) /\ UNCHANGED ws
     \/ IsOpen(ws) /\ socks' = Shut(socks, ws) /\ ws' = 0
     \/ ~IsOpen(ws) /\ UNCHANGED <<socks, ws>>
  /\ UNCHANGED <<mode, phase, recvTask, lock, task, force, sb, finals>>

\* SBPNClient.append: a socket lost during the turn, the length limit or a
\* failed send leave the turn to the batch request.
AppendSbpn ==
  /\ mode = "sbpn" /\ Speaks
  /\ IF sb.pending \/ sb.degraded THEN UNCHANGED <<ws, socks, sb, recvTask>>
     ELSE \/ /\ IsOpen(ws)
             /\ socks' = Sends(socks, ws, <<Chunk>>) /\ sb' = [sb EXCEPT !.streamed = TRUE]
             /\ UNCHANGED <<ws, recvTask>>
          \/ /\ ~IsOpen(ws) /\ ~sb.streamed /\ Unused # {}
             /\ ws' = Fresh /\ recvTask' = Fresh
             /\ socks' = Sends([socks EXCEPT ![Fresh] = Opened], Fresh, <<Chunk>>)
             /\ sb' = [sb EXCEPT !.streamed = TRUE]
          \/ /\ sb' = [sb EXCEPT !.degraded = TRUE]
             /\ IF IsOpen(ws) THEN socks' = Shut(socks, ws) ELSE UNCHANGED socks
             /\ ws' = 0 /\ UNCHANGED recvTask
  /\ UNCHANGED <<mode, phase, lock, task, force, finals>>

Commits == phase = "speaking" /\ turn.part = 2 /\ phase' = "awaiting"

\* commit(): the final is a task of its own, but for the realtime mode.
CommitTask ==
  /\ mode \in {"batch", "chat"} /\ Commits
  /\ task' = [task EXCEPT ![turn.id] = "wait"]
  /\ UNCHANGED <<mode, turn, ws, recvTask, socks, lock, force, sb, finals>>

\* Mutant of CommitRealtime: a new socket gets only what is said from now on.
CommitRealtimeNoResend ==
  /\ mode = "realtime" /\ Commits
  /\ IF IsOpen(ws) THEN socks' = Sends(socks, ws, <<Sentinel>>) /\ UNCHANGED <<ws, recvTask>>
     ELSE /\ lock = 0
          /\ \E o \in Opens :
               /\ ws' = o[1]
               /\ recvTask' = IF o[1] = 0 THEN recvTask ELSE o[1]
               /\ socks' = IF o[1] = 0 THEN socks ELSE Sends(o[2], o[1], <<Sentinel>>)
  /\ UNCHANGED <<mode, turn, lock, task, force, sb, finals>>

\* _commit_realtime_final: on a new socket the whole turn is sent again.
CommitRealtime ==
  /\ mode = "realtime" /\ Commits
  /\ IF IsOpen(ws) THEN socks' = Sends(socks, ws, <<Sentinel>>) /\ UNCHANGED <<ws, recvTask>>
     ELSE /\ lock = 0
          /\ \E o \in Opens :
               /\ ws' = o[1]
               /\ recvTask' = IF o[1] = 0 THEN recvTask ELSE o[1]
               /\ socks' = IF o[1] = 0 THEN socks
                           ELSE Sends(o[2], o[1], <<<<turn.id, 1>>, <<turn.id, 2>>, Sentinel>>)
  /\ UNCHANGED <<mode, turn, lock, task, force, sb, finals>>

----------------------------------------------------------------------------
(* on_final.  The transcript carries no turn: it is taken for the current    *)
(* one, which it resolves unless it was typed over.                         *)

Delivers(heard) ==
  /\ finals' = [finals EXCEPT ![turn.id] = Append(@, heard)]
  /\ phase' = IF phase = "awaiting" THEN "idle" ELSE phase

\* text(): the caller types instead; the final that is due is not cancelled.
Types ==
  /\ phase = "awaiting"
  /\ phase' = "idle" /\ turn' = [turn EXCEPT !.typed = TRUE]
  /\ UNCHANGED <<mode, ws, recvTask, socks, lock, task, force, sb, finals>>

----------------------------------------------------------------------------
(* _run_authoritative_batch and _run_authoritative_chat                      *)

At(t, pc) == task[t] = pc

\* Mutant of Locks: the request is made while the socket is open.
LocksOpen(t) ==
  /\ At(t, "wait") /\ lock = 0
  /\ lock' = t /\ task' = [task EXCEPT ![t] = "post"]
  /\ ws' = 0
  /\ UNCHANGED <<mode, phase, turn, recvTask, socks, force, sb, finals>>

Locks(t) ==
  /\ At(t, "wait") /\ lock = 0
  /\ lock' = t /\ task' = [task EXCEPT ![t] = "quiesce"]
  /\ ws' = 0 /\ socks' = IF IsOpen(ws) THEN Shut(socks, ws) ELSE socks
  /\ UNCHANGED <<mode, phase, turn, recvTask, force, sb, finals>>

\* _quiesce_realtime_locked: the receiver has ended before the request is made.
Quiesced(t) ==
  /\ At(t, "quiesce") /\ (recvTask # 0 => socks[recvTask].recv # "run")
  /\ recvTask' = 0 /\ task' = [task EXCEPT ![t] = "post"]
  /\ UNCHANGED <<mode, phase, turn, ws, socks, lock, force, sb, finals>>

\* Mutant of Transcribed: a text that came goes to the fallback too.
TranscribedTwice(t) ==
  /\ At(t, "post") /\ mode \in {"batch", "chat"}
  /\ Delivers(Chunks(t))
  /\ task' = [task EXCEPT ![t] = "fallback"]
  /\ UNCHANGED <<mode, turn, ws, recvTask, socks, lock, force, sb>>

Transcribed(t) ==
  /\ At(t, "post") /\ mode \in {"batch", "chat"}
  /\ Delivers(Chunks(t))
  /\ task' = [task EXCEPT ![t] = "resume"]
  /\ UNCHANGED <<mode, turn, ws, recvTask, socks, lock, force, sb>>

\* Timeout, HTTP error, an empty text or an echo of the context.
NotTranscribed(t) ==
  /\ At(t, "post") /\ mode \in {"batch", "chat"}
  /\ task' = [task EXCEPT ![t] = IF mode = "chat" THEN "fallback" ELSE "resume"]
  /\ UNCHANGED <<mode, phase, turn, ws, recvTask, socks, lock, force, sb, finals>>

\* Mutant of Resumes: without a new socket the lock is not released.
ResumesLocked(t) ==
  /\ task[t] \in {"resume", "fallback"}
  /\ \E o \in Opens :
       LET asks == At(t, "fallback") /\ o[1] # 0
       IN /\ ws' = o[1] /\ recvTask' = o[1]
          /\ socks' = IF asks THEN Sends(o[2], o[1], <<<<t, 1>>, <<t, 2>>, Sentinel>>) ELSE o[2]
          /\ force' = (asks \/ force)
          /\ lock' = IF o[1] = 0 THEN lock ELSE 0
  /\ task' = [task EXCEPT ![t] = "end"]
  /\ UNCHANGED <<mode, phase, turn, sb, finals>>

\* The socket is opened again; a failed chat request then streams the whole
\* turn over it and takes the socket's answer.
Resumes(t) ==
  /\ task[t] \in {"resume", "fallback"}
  /\ \E o \in Opens :
       LET asks == At(t, "fallback") /\ o[1] # 0
       IN /\ ws' = o[1] /\ recvTask' = o[1]
          /\ socks' = IF asks THEN Sends(o[2], o[1], <<<<t, 1>>, <<t, 2>>, Sentinel>>) ELSE o[2]
          /\ force' = (asks \/ force)
  /\ lock' = 0 /\ task' = [task EXCEPT ![t] = "end"]
  /\ UNCHANGED <<mode, phase, turn, sb, finals>>

----------------------------------------------------------------------------
(* _receive                                                                 *)

Message(s, kind) == socks[s].recv = "run" /\ socks[s].out # <<>> /\ Head(socks[s].out).kind = kind
Read(s) == [socks EXCEPT ![s].out = Tail(@)]

\* transcription.done: authoritative in realtime mode or after a failed chat
\* request; then the server is armed again.
DoneRead(s) ==
  /\ mode # "sbpn" /\ Message(s, "done")
  /\ force' = FALSE
  /\ IF mode = "realtime" \/ force THEN Delivers(Head(socks[s].out).heard) ELSE UNCHANGED <<finals, phase>>
  /\ socks' = Rearmed(Read(s), s)
  /\ UNCHANGED <<mode, turn, ws, recvTask, lock, task, sb>>

\* The receiver ends: an error event, or the socket is gone.
ReceiverEnds(s) ==
  /\ Message(s, "error") \/ (socks[s].recv = "run" /\ socks[s].st = "gone")
  /\ socks' = [socks EXCEPT ![s].recv = "end", ![s].out = <<>>]
  /\ ws' = IF ws = s THEN 0 ELSE ws
  /\ UNCHANGED <<mode, phase, turn, recvTask, lock, task, force, sb, finals>>

----------------------------------------------------------------------------
(* SBPNClient: commit, _finalize                                             *)

\* commit() while the last final is due resets the client first.
CommitSbpn ==
  /\ mode = "sbpn" /\ Commits
  /\ LET S == IF sb.pending /\ ws # 0 THEN Shut(socks, ws) ELSE socks
     IN /\ socks' = S
        /\ task' = [t \in Turns |-> IF t = turn.id THEN "begin" ELSE IF sb.pending THEN "end" ELSE task[t]]
        /\ ws' = IF sb.pending THEN 0 ELSE ws
        /\ sb' = IF sb.pending THEN [pending |-> TRUE, degraded |-> FALSE, streamed |-> FALSE]
                 ELSE [sb EXCEPT !.pending = TRUE]
  /\ UNCHANGED <<mode, turn, recvTask, lock, force, finals>>

\* The stream is asked when it holds the turn, the batch request otherwise.
Finalizes(t) ==
  /\ At(t, "begin")
  /\ IF IsOpen(ws) /\ sb.streamed /\ ~sb.degraded
     THEN /\ socks' = Sends(socks, ws, <<Sentinel>>) /\ UNCHANGED ws
          /\ task' = [task EXCEPT ![t] = "stream"]
     ELSE /\ socks' = IF ws # 0 THEN Shut(socks, ws) ELSE socks
          /\ ws' = 0 /\ task' = [task EXCEPT ![t] = "request"]
  /\ UNCHANGED <<mode, phase, turn, recvTask, lock, force, sb, finals>>

Reset == [pending |-> FALSE, degraded |-> FALSE, streamed |-> FALSE]

\* transcription.done resolves the future that waits, if any; the socket stays
\* for the next turn.
DoneSbpn(s) ==
  /\ mode = "sbpn" /\ Message(s, "done")
  /\ IF \E t \in Turns : At(t, "stream")
     THEN /\ Delivers(Head(socks[s].out).heard)
          /\ sb' = Reset /\ task' = [t \in Turns |-> IF At(t, "stream") THEN "end" ELSE task[t]]
     ELSE UNCHANGED <<finals, phase, sb, task>>
  /\ socks' = Rearmed(Read(s), s)
  /\ UNCHANGED <<mode, turn, ws, recvTask, lock, force>>

\* Thirty seconds, an empty text or a lost socket: the batch request.
StreamFails(t) ==
  /\ At(t, "stream")
  /\ socks' = IF ws # 0 THEN Shut(socks, ws) ELSE socks
  /\ ws' = 0 /\ task' = [task EXCEPT ![t] = "request"]
  /\ UNCHANGED <<mode, phase, turn, recvTask, lock, force, sb, finals>>

RequestAnswered(t) ==
  /\ At(t, "request")
  /\ Delivers(Chunks(t))
  /\ sb' = Reset /\ task' = [task EXCEPT ![t] = "end"]
  /\ UNCHANGED <<mode, turn, ws, recvTask, socks, lock, force>>

\* on_stt_final_unavailable: the pipeline recovers the client and closes the turn.
RequestFails(t) ==
  /\ At(t, "request")
  /\ phase' = IF phase = "awaiting" THEN "recovering" ELSE phase
  /\ sb' = Reset /\ task' = [task EXCEPT ![t] = "end"]
  /\ UNCHANGED <<mode, turn, ws, recvTask, socks, lock, force, finals>>

----------------------------------------------------------------------------
(* recover(): after a final that does not come, or a false start of speech.  *)

FinalTimeout ==
  /\ phase = "awaiting"
  /\ phase' = "recovering"
  /\ UNCHANGED <<mode, turn, ws, recvTask, socks, lock, task, force, sb, finals>>

FalseStart ==
  /\ phase = "idle" /\ turn.id > 0 /\ turn.id < MaxTurns
  /\ phase' = "recovering"
  /\ UNCHANGED <<mode, turn, ws, recvTask, socks, lock, task, force, sb, finals>>

\* The socket is closed and its receiver cancelled, under the lock, for which a
\* task of a final waits since before ...
RecoverLocks ==
  /\ phase = "recovering" /\ mode # "sbpn" /\ lock = 0 /\ \A t \in Turns : ~At(t, "wait")
  /\ lock' = Recovery
  /\ ws' = 0 /\ recvTask' = 0
  /\ socks' = [s \in Sockets |-> [(IF s = ws THEN Shut(socks, ws) ELSE socks)[s]
                                    EXCEPT !.recv = IF s = recvTask THEN "end" ELSE @]]
  /\ UNCHANGED <<mode, phase, turn, task, force, sb, finals>>

\* ... and a new one opened.
Recovered ==
  /\ lock = Recovery
  /\ \E o \in Opens : ws' = o[1] /\ recvTask' = o[1] /\ socks' = o[2]
  /\ lock' = 0 /\ phase' = "idle"
  /\ UNCHANGED <<mode, turn, task, force, sb, finals>>

\* SBPNClient.recover: the final's task is cancelled.
RecoverSbpn ==
  /\ phase = "recovering" /\ mode = "sbpn"
  /\ task' = [t \in Turns |-> IF task[t] = "none" THEN "none" ELSE "end"]
  /\ socks' = IF ws # 0 THEN Shut(socks, ws) ELSE socks
  /\ ws' = 0 /\ sb' = Reset /\ phase' = "idle"
  /\ UNCHANGED <<mode, turn, recvTask, lock, force, finals>>

----------------------------------------------------------------------------
Server(s) == Consumes(s) \/ SendsDone(s) \/ GenerationEnds(s)
Receiver(s) == DoneRead(s) \/ DoneSbpn(s) \/ ReceiverEnds(s)
Final(t) ==
  \/ Locks(t) \/ Quiesced(t) \/ Transcribed(t) \/ NotTranscribed(t) \/ Resumes(t)
  \/ Finalizes(t) \/ StreamFails(t) \/ RequestAnswered(t) \/ RequestFails(t)
Recovers == RecoverLocks \/ Recovered \/ RecoverSbpn

Next ==
  \/ Connect \/ TurnStarts \/ AppendAudio \/ AppendSbpn \/ CommitTask \/ CommitRealtime \/ CommitSbpn \/ Types
  \/ FinalTimeout \/ FalseStart \/ Recovers
  \/ \E s \in Sockets : Server(s) \/ Receiver(s) \/ EngineFails(s) \/ Drops(s)
  \/ \E t \in Turns : Final(t)

Spec == Init /\ [][Next]_vars

\* Requests, handshakes and connections have timeouts; a closed socket ends its
\* receiver; the final has its own timeout.  The lock is handed on in the order
\* of the waiters.
FairSpec ==
  /\ Spec /\ WF_vars(FinalTimeout) /\ SF_vars(RecoverLocks) /\ WF_vars(Recovered \/ RecoverSbpn)
  /\ \A s \in Sockets : WF_vars(Receiver(s))
  /\ \A t \in Turns : SF_vars(Locks(t)) /\ WF_vars(Final(t))

----------------------------------------------------------------------------
(* Properties                                                               *)

\* The engine never decodes a stream and a request of one call at once
\* (_inference_mode_lock; KNOWN_ISSUES.md:36 tells of the crash that caused).
NoOverlap ==
  \A t \in Turns : At(t, "post") => \A s \in Sockets : socks[s].st = "open" => socks[s].gen = "none"

\* A transcript is of exactly the turn it is taken for, first word to last,
\* whatever was lost, sent again or recovered, and a turn never gets two, as a
\* stream and its fallback could.  Transcripts carry no turn, so the caller must
\* not have typed while one was due.
FinalIsTurn ==
  ~turn.typed => \A t \in Turns : /\ Len(finals[t]) <= 1
                                 /\ \A i \in DOMAIN finals[t] : finals[t][i] = Chunks(t)

\* The final's task and the recovery never wait for each other for ever: a turn
\* that was committed is over in the end, and so is its task.
Resolved ==
  /\ (phase \in {"awaiting", "recovering"}) ~> (phase \in {"idle", "speaking"})
  /\ \A t \in Turns : (task[t] # "none") ~> (task[t] = "end")

----------------------------------------------------------------------------
(* The inductive invariant the proofs use.                                   *)

Chunkset == (0 .. MaxTurns) \X (0 .. 2)
SocketSet ==
  [st : {"none", "open", "gone"}, recv : {"none", "run", "end"}, gen : {"none", "run", "ending"},
   queue : Seq(Chunkset), heard : SUBSET Chunkset, out : Seq([kind : {"done", "error"}, heard : SUBSET Chunkset])]
Locking == {"quiesce", "post", "resume", "fallback"}
Asking == {"begin", "stream", "request"}
Due == {"wait", "quiesce", "post", "fallback"} \union Asking

RecognizerTypes ==
  /\ mode \in Modes /\ phase \in {"idle", "speaking", "awaiting", "recovering"}
  /\ turn \in [id : 0 .. MaxTurns, part : 0 .. 2, typed : BOOLEAN]
  /\ ws \in Sockets \union {0} /\ recvTask \in Sockets \union {0}
  /\ socks \in [Sockets -> SocketSet] /\ lock \in 0 .. Recovery /\ force \in BOOLEAN
  /\ task \in [Turns -> {"none", "wait", "end"} \union Locking \union Asking]
  /\ sb \in [pending : BOOLEAN, degraded : BOOLEAN, streamed : BOOLEAN]
  /\ finals \in [Turns -> Seq(SUBSET Chunkset)]

\* Only the socket the client uses generates or has something to say, one
\* message at a time: a generation starts when the last one's answer was read.
Streams(w) ==
  /\ Len(w.out) <= 1 /\ (w.gen = "run" => w.out = <<>>)
  /\ w.out # <<>> /\ w.out[1].kind = "error" => w.gen = "none"
OneStream ==
  \A s \in Sockets : /\ Streams(socks[s])
                     /\ socks[s].gen # "none" \/ socks[s].out # <<>> => s = ws /\ socks[s].st = "open"

\* Who holds the lock, and that the socket is closed meanwhile.
Locked ==
  /\ lock # 0 => ws = 0 /\ mode # "sbpn"
  /\ lock = Recovery => phase = "recovering" /\ \A t \in Turns : task[t] \notin Due
  /\ \A t \in Turns : /\ task[t] \in Locking => lock = t
                      /\ task[t] \in Locking \union {"wait"} => mode \in {"batch", "chat"}
                      /\ task[t] \in Asking => mode = "sbpn"
                      /\ task[t] = "fallback" => mode = "chat"

\* What the server has of the turn, heard or not; nothing follows the sentinel.
Items(q) == {q[i] : i \in DOMAIN q}
Content(w) == w.heard \union (Items(w.queue) \ {Sentinel})
Asked(w) == Sentinel \in Items(w.queue)
Answered(w) == w.out # <<>> /\ w.out[1].kind = "done"
Said == {<<turn.id, i>> : i \in 1 .. turn.part}
SentinelLast(w) == \A i \in DOMAIN w.queue : w.queue[i] = Sentinel => i = Len(w.queue)

Owed == phase \in {"awaiting", "recovering"} /\ turn.id \in Turns /\ turn.part = 2 /\ finals[turn.id] = <<>>

\* A turn is owed a transcript by one party: its task, or the stream.
OneAnswer ==
  /\ \A t \in Turns : /\ finals[t] \in {<<>>, <<Chunks(t)>>} /\ (t > turn.id => finals[t] = <<>>)
                      /\ t > turn.id => task[t] = "none"
                      /\ task[t] \in Due => t = turn.id /\ Owed
  /\ phase # "idle" => turn.id \in Turns
  /\ phase = "speaking" => finals[turn.id] = <<>> /\ task[turn.id] = "none"
  /\ phase = "awaiting" => turn.part = 2 /\ finals[turn.id] = <<>>

\* What the stream holds of the turn it was asked for, and of the one it will be.
AskedOfTurn(w) ==
  /\ SentinelLast(w)
  /\ Asked(w) \/ Answered(w) => /\ Owed /\ mode # "batch" /\ (mode = "chat" => task[turn.id] = "end")
                                /\ mode = "sbpn" => task[turn.id] = "stream"
  /\ Asked(w) => Content(w) = Said /\ ~Answered(w)
  /\ Answered(w) => w.out[1].heard = Said /\ w.queue = <<>> /\ w.heard = {}
HoldsTurn(w) ==
  mode \in {"realtime", "sbpn"} =>
    /\ phase = "idle" => w.queue = <<>> /\ w.heard = {}
    /\ phase = "speaking" \/ (\E t \in Turns : task[t] = "begin") => Content(w) = Said
StreamOfTurn == IsOpen(ws) => AskedOfTurn(socks[ws]) /\ HoldsTurn(socks[ws])

\* SBPNClient: what its flags tell of the turn.
Flags ==
  mode = "sbpn" =>
    /\ phase = "idle" => sb = Reset
    /\ phase = "speaking" => /\ ~sb.pending /\ (turn.part = 0 => sb = Reset)
                             /\ turn.part > 0 => sb.streamed \/ sb.degraded
    /\ sb.degraded => ws = 0
    /\ \A t \in Turns : task[t] = "request" => ws = 0

FinalInv == ~turn.typed => OneAnswer /\ StreamOfTurn /\ Flags
RecognizerInv == RecognizerTypes /\ OneStream /\ Locked /\ FinalInv
=============================================================================
