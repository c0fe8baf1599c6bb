------------------------------- MODULE Playout -------------------------------
(***************************************************************************)
(* The playout actor (rust/src/playout.rs): one task that owns the native  *)
(* audio source, fed by a control channel and a bounded audio channel.     *)
(*                                                                         *)
(* Control commands come from one caller that awaits each reply (the       *)
(* coordinator).  PCM and End come from one generation task per attempt,   *)
(* which also awaits each reply but may be aborted while its message is    *)
(* still queued.  A chunk is submitted to the SDK in pieces of at most one *)
(* quantum (10 ms), and control is polled first between and during pieces. *)
(*                                                                         *)
(* Samples are counted, not valued: the SDK buffer is the sequence of the  *)
(* attempts its samples belong to, Silence for the zero padding of a last  *)
(* partial quantum.  Real time is the action Tick, one quantum long.       *)
(***************************************************************************)
EXTENDS PlayoutControl, Sequences, FiniteSets

CONSTANTS MaxAttempt,   \* attempt ids are 1..MaxAttempt
          Quantum,      \* samples in 10 ms
          MaxChunk,     \* largest PCM chunk, in samples
          QueueCap,     \* capacity of the audio channel
          SinkCap,      \* samples the SDK buffers before it delays a callback
          MaxSends,     \* bound: PCM/End messages one attempt's task sends
          MaxCalls      \* bound: control commands issued

ASSUME PlayoutAssumption ==
  /\ MaxAttempt \in Nat \ {0}
  /\ Quantum \in Nat \ {0}
  /\ MaxChunk \in Nat \ {0}
  /\ QueueCap \in Nat \ {0}
  /\ SinkCap \in Nat
  /\ MaxSends \in Nat
  /\ MaxCalls \in Nat

Attempts == 1..MaxAttempt
Silence == 0
NoCommand == [op |-> "none", id |-> NoAttempt, on |-> FALSE]
Commands ==
  [op : {"begin", "authorize", "cancel"}, id : Attempts, on : {FALSE}]
  \cup [op : {"speech"}, id : Attempts, on : BOOLEAN]
  \cup {[op |-> "shutdown", id |-> NoAttempt, on |-> FALSE]}
Frames == [kind : {"pcm"}, id : Attempts, len : 1..MaxChunk]
          \cup [kind : {"end"}, id : Attempts, len : {0}]

VARIABLES
  pl,         \* the control state, a record of PlayoutControl
  waiter,     \* the attempt whose finish() awaits the drain, or NoAttempt
  due,        \* samples until `deadline`
  remainder,  \* samples of the last partial quantum
  ctl,        \* the command awaiting a reply, or NoCommand
  queue,      \* the audio channel
  pc,         \* where the actor is: select, capture, drain or closed
  cur,        \* the frame being captured; len counts what is left of it
  polled,     \* the current piece has been handed to the SDK
  buffer,     \* samples the SDK has not played yet
  prod,       \* what each attempt's generation task awaits
  sent,       \* messages each generation task has sent
  calls,      \* commands issued
  permitted   \* history: attempts whose Authorize was ever accepted

actor == <<pl, waiter, due, remainder, pc, cur, polled, buffer, permitted>>
vars == <<pl, waiter, due, remainder, ctl, queue, pc, cur, polled, buffer,
          prod, sent, calls, permitted>>

NoFrame == [kind |-> "none", id |-> NoAttempt, len |-> 0]

Init ==
  /\ pl = NewPlayout
  /\ waiter = NoAttempt /\ due = 0 /\ remainder = 0
  /\ ctl = NoCommand /\ queue = << >>
  /\ pc = "select" /\ cur = NoFrame /\ polled = FALSE /\ buffer = << >>
  /\ prod = [a \in Attempts |-> "idle"]
  /\ sent = [a \in Attempts |-> 0]
  /\ calls = 0 /\ permitted = {}

-----------------------------------------------------------------------------
(* The callers                                                             *)

Reply(p, a, to) ==
  [x \in Attempts |-> IF x = a /\ p[x] \in {"pcm", "end"} THEN to ELSE p[x]]

\* begin / authorize / cancel / speech_decision / shutdown
Call(c) ==
  /\ pc # "closed" /\ ctl = NoCommand /\ calls < MaxCalls
  /\ ctl' = c /\ calls' = calls + 1
  /\ UNCHANGED <<actor, queue, prod, sent>>

\* push and finish
Send(f) ==
  /\ pc # "closed" /\ prod[f.id] = "idle" /\ sent[f.id] < MaxSends
  /\ Len(queue) < QueueCap
  /\ queue' = Append(queue, f)
  /\ prod' = [prod EXCEPT ![f.id] = f.kind]
  /\ sent' = [sent EXCEPT ![f.id] = @ + 1]
  /\ UNCHANGED <<actor, ctl, calls>>

\* The generation task is aborted; a message it has sent stays queued.
Abort(a) ==
  /\ prod[a] \in {"idle", "pcm", "end"}
  /\ prod' = [prod EXCEPT ![a] = "gone"]
  /\ UNCHANGED <<actor, ctl, queue, sent, calls>>

-----------------------------------------------------------------------------
(* Control commands                                                        *)

AfterControl(s, c) ==
  CASE c.op = "begin"     -> AfterBegin(s, c.id)
    [] c.op = "authorize" -> AfterAuthorize(s, c.id)
    [] c.op = "cancel"    -> AfterCancel(s, c.id)
    [] c.op = "speech"    -> AfterSpeech(s, c.id, c.on)
    [] OTHER              -> Cleared(s)

\* The command stops the capture in progress (first component of `control`).
Aborts(s, c) ==
  \/ c.op = "begin" /\ BeginOk(s, c.id)
  \/ c.op = "cancel" /\ Owns(s, c.id)
  \/ c.op = "speech" /\ SpeechOk(s, c.id) /\ ~c.on
  \/ c.op = "shutdown"

FlushesNotOnCancel(s, c) == Aborts(s, c) /\ c.op # "cancel"

\* Every aborting command clears the SDK buffer and fails the waiter.
Flushes(s, c) == Aborts(s, c)

\* What a command does to the actor, wherever it is received.
Obey(c) ==
  /\ pl' = AfterControl(pl, c)
  /\ permitted' = IF c.op = "authorize" /\ Owns(pl, c.id)
                  THEN permitted \cup {c.id} ELSE permitted
  /\ ctl' = NoCommand
  /\ IF Flushes(pl, c)
     THEN /\ buffer' = << >> /\ due' = 0 /\ remainder' = 0
          /\ waiter' = NoAttempt
          /\ prod' = Reply(prod, waiter, "idle")
     ELSE UNCHANGED <<buffer, due, remainder, waiter, prod>>

\* The task ends: the sink is cleared and both channels are dropped, so every
\* pending reply resolves to Closed.
CloseWith(s) ==
  /\ pl' = Cleared(s)
  /\ waiter' = NoAttempt /\ due' = 0 /\ remainder' = 0
  /\ ctl' = NoCommand /\ queue' = << >>
  /\ pc' = "closed" /\ cur' = NoFrame /\ polled' = FALSE /\ buffer' = << >>
  /\ prod' = [a \in Attempts |->
                IF prod[a] \in {"pcm", "end"} THEN "idle" ELSE prod[a]]
  /\ UNCHANGED <<sent, calls, permitted>>

\* A command received at the top of the actor's loop.
SelectControl ==
  /\ pc = "select" /\ ctl # NoCommand
  /\ IF ctl.op = "shutdown" THEN CloseWith(pl)
     ELSE Obey(ctl) /\ UNCHANGED <<queue, pc, cur, polled, sent, calls>>

\* finish() resolves once the local queue is estimated to have drained.
SelectDrained ==
  /\ pc = "select" /\ ctl = NoCommand
  /\ waiter # NoAttempt /\ due = 0
  /\ prod' = Reply(prod, waiter, "drained")
  /\ waiter' = NoAttempt
  /\ UNCHANGED <<pl, due, remainder, ctl, queue, pc, cur, polled, buffer,
                 sent, calls, permitted>>

-----------------------------------------------------------------------------
(* Audio frames                                                            *)

Piece(len) == IF len < Quantum THEN len ELSE Quantum

StartPieceNoDeadline(f) ==
  /\ remainder' = (remainder + Piece(f.len)) % Quantum
  /\ due' = due
  /\ cur' = f /\ polled' = FALSE /\ pc' = "capture"

\* The prologue of capture_piece: account for the piece, then build a future
\* the SDK has not seen yet.
StartPiece(f) ==
  /\ remainder' = (remainder + Piece(f.len)) % Quantum
  /\ due' = due + Piece(f.len)
  /\ cur' = f /\ polled' = FALSE /\ pc' = "capture"

FrameReady == pc = "select" /\ ctl = NoCommand
              /\ ~(waiter # NoAttempt /\ due = 0) /\ queue # << >>

Padding(a) == [kind |-> "end", id |-> a, len |-> Quantum - remainder]

SelectPcm ==
  /\ FrameReady /\ Head(queue).kind = "pcm"
  /\ queue' = Tail(queue)
  /\ LET f == Head(queue) IN
       IF PcmAllowed(pl, f.id)
       THEN StartPiece(f) /\ UNCHANGED prod
       ELSE /\ prod' = Reply(prod, f.id, "idle")
            /\ UNCHANGED <<remainder, due, cur, polled, pc>>
  /\ UNCHANGED <<pl, waiter, ctl, buffer, sent, calls, permitted>>

SelectEnd ==
  /\ FrameReady /\ Head(queue).kind = "end"
  /\ queue' = Tail(queue)
  /\ LET a == Head(queue).id IN
       \/ /\ ~EndAllowed(pl, a)
          /\ prod' = Reply(prod, a, "idle")
          /\ UNCHANGED <<pl, waiter, remainder, due, cur, polled, pc>>
       \/ /\ EndAllowed(pl, a) /\ remainder > 0
          /\ StartPiece(Padding(a))
          /\ UNCHANGED <<pl, waiter, prod>>
       \/ /\ EndAllowed(pl, a) /\ remainder = 0
          /\ pl' = [pl EXCEPT !.ended = TRUE] /\ waiter' = a
          /\ UNCHANGED <<prod, remainder, due, cur, polled, pc>>
  /\ UNCHANGED <<ctl, buffer, sent, calls, permitted>>

Samples(f) ==
  [i \in 1..Piece(f.len) |-> IF f.kind = "end" THEN Silence ELSE f.id]

\* The SDK takes the piece the first time the capture future is polled; the
\* biased select polls the control channel before it.
CapturePoll ==
  /\ pc = "capture" /\ ctl = NoCommand /\ ~polled
  /\ polled' = TRUE /\ buffer' = buffer \o Samples(cur)
  /\ UNCHANGED <<pl, waiter, due, remainder, ctl, queue, pc, cur, prod, sent,
                 calls, permitted>>

\* The SDK calls back once the buffer has room: next piece, or the frame's end.
CaptureReady ==
  /\ pc = "capture" /\ ctl = NoCommand /\ polled /\ Len(buffer) <= SinkCap
  /\ LET left == cur.len - Piece(cur.len) IN
       \/ /\ left > 0
          /\ StartPiece([cur EXCEPT !.len = left])
          /\ UNCHANGED <<pl, waiter, prod>>
       \/ /\ left = 0
          /\ pc' = "select" /\ cur' = NoFrame /\ polled' = FALSE
          /\ IF cur.kind = "end"
             THEN /\ pl' = [pl EXCEPT !.ended = TRUE] /\ waiter' = cur.id
                  /\ UNCHANGED prod
             ELSE /\ prod' = Reply(prod, cur.id, "idle")
                  /\ UNCHANGED <<pl, waiter>>
          /\ UNCHANGED <<remainder, due>>
  /\ UNCHANGED <<ctl, queue, buffer, sent, calls, permitted>>

\* The SDK refuses the piece: the adapter closes.
CaptureFails == pc = "capture" /\ ctl = NoCommand /\ CloseWith(pl)

CaptureControlAfterCallback ==
  /\ pc = "capture" /\ ctl # NoCommand
  /\ polled /\ Len(buffer) <= SinkCap
  /\ Obey(ctl)
  /\ pc' = CASE ~Aborts(pl, ctl) -> "capture"
             [] ctl.op = "shutdown" -> "drainstop"
             [] OTHER -> "drain"
  /\ UNCHANGED <<queue, cur, polled, sent, calls>>

\* A command that arrives during a capture; an aborting one leaves the piece
\* to be drained before anything else is done.
CaptureControl ==
  /\ pc = "capture" /\ ctl # NoCommand
  /\ Obey(ctl)
  /\ pc' = CASE ~Aborts(pl, ctl) -> "capture"
             [] ctl.op = "shutdown" -> "drainstop"
             [] OTHER -> "drain"
  /\ UNCHANGED <<queue, cur, polled, sent, calls>>

\* Within 100 ms the piece completes.  One the SDK had not seen is submitted
\* by this very await, after the buffer was cleared, unless the SDK fails it.
DrainCompletes ==
  /\ pc = "drain"
  /\ buffer' \in {buffer} \cup (IF polled THEN {} ELSE {buffer \o Samples(cur)})
  /\ prod' = Reply(prod, cur.id, "idle")
  /\ pc' = "select" /\ cur' = NoFrame /\ polled' = FALSE
  /\ UNCHANGED <<pl, waiter, due, remainder, ctl, queue, sent, calls, permitted>>

\* The callback stays outstanding, or the command was Shutdown: close.
DrainCloses == pc \in {"drain", "drainstop"} /\ CloseWith(pl)

\* Every handle of the actor was dropped without a Shutdown.
Orphaned ==
  /\ pc \in {"select", "capture"} /\ ctl = NoCommand
  /\ \A a \in Attempts : prod[a] \in {"drained", "gone"}
  /\ CloseWith(pl)

-----------------------------------------------------------------------------
(* Real time: 10 ms pass and the SDK plays one full quantum if it has one. *)
(* None passes between the accounting of a piece and its first poll, which *)
(* are one poll of the task.                                               *)

Tick ==
  /\ due > 0 \/ Len(buffer) >= Quantum
  /\ ~(pc = "capture" /\ ~polled)
  /\ due' = IF due > Quantum THEN due - Quantum ELSE 0
  /\ buffer' = IF Len(buffer) >= Quantum
               THEN SubSeq(buffer, Quantum + 1, Len(buffer)) ELSE buffer
  /\ UNCHANGED <<pl, waiter, remainder, ctl, queue, pc, cur, polled, prod,
                 sent, calls, permitted>>

-----------------------------------------------------------------------------
Callers == \/ \E c \in Commands : Call(c)
           \/ \E f \in Frames : Send(f)
           \/ \E a \in Attempts : Abort(a)

\* Steps the actor takes without the SDK or its callers: 100 ms is a bound.
Control == SelectControl \/ CaptureControl \/ DrainCompletes \/ DrainCloses
Audio == SelectDrained \/ SelectPcm \/ SelectEnd \/ CapturePoll
Sdk == CaptureReady \/ Tick

Next == Callers \/ Control \/ Audio \/ Sdk \/ CaptureFails \/ Orphaned

Spec == Init /\ [][Next]_vars

(***************************************************************************)
(* The actor is a tokio task, so its own steps are taken; a drain ends one *)
(* way or the other because it is under a 100 ms timeout.  Nothing is said *)
(* of the SDK: SdkPlays, a native source that keeps playing and answering, *)
(* is the hypothesis of the one property that needs it.                    *)
(***************************************************************************)
FairSpec == Spec /\ WF_vars(Control) /\ WF_vars(Audio)
SdkPlays == WF_vars(CaptureReady) /\ WF_vars(Tick)

-----------------------------------------------------------------------------
(* Properties                                                              *)

\* Every variable keeps its type, and the actor's bookkeeping is consistent.
TypeOK ==
  /\ pl \in PlayoutStates(MaxAttempt)
  /\ waiter \in 0..MaxAttempt
  /\ due \in Nat /\ remainder \in 0..(Quantum - 1)
  /\ ctl \in Commands \cup {NoCommand}
  /\ queue \in Seq(Frames)
  /\ pc \in {"select", "capture", "drain", "drainstop", "closed"}
  /\ cur \in [kind : {"none", "pcm", "end"}, id : 0..MaxAttempt, len : Nat]
  /\ polled \in BOOLEAN
  /\ buffer \in Seq(0..MaxAttempt)
  /\ prod \in [Attempts -> {"idle", "pcm", "end", "drained", "gone"}]
  /\ sent \in [Attempts -> 0..MaxSends]
  /\ calls \in 0..MaxCalls
  /\ permitted \subseteq Attempts

\* No sample of an attempt that was never authorized is handed to the SDK,
\* however Begin, Authorize and a queued Pcm interleave.
OnlyPermittedAudio ==
  \A i \in 1..Len(buffer) : buffer[i] \in permitted \cup {Silence}

\* With the speech gate closed, at most the one piece in flight is still to
\* be heard.
MutedBound == ~pl.enabled => Len(buffer) <= Quantum

\* When finish() is about to report LocalQueueDrained, at most one quantum
\* (a piece left behind by an aborted capture) is still unplayed.
DrainedBound == waiter # NoAttempt /\ due = 0 => Len(buffer) <= Quantum

\* What may still be heard of a reply that is over: one piece at most, whether
\* it was muted while a capture was built or its drain is reported.
ResidueBound == MutedBound /\ DrainedBound

\* finish() reports a drain only for the attempt that owns the sink, that was
\* authorized and whose End was accepted: never for a cancelled one.
DrainedOnlyForOwner ==
  [][\A a \in Attempts :
       prod'[a] = "drained" /\ prod[a] # "drained" =>
         Owns(pl, a) /\ pl.authorized /\ pl.ended]_vars

\* Every control command is answered, even when the native source never
\* completes another callback; every push and every finish is answered while
\* the native source runs.
Answered ==
  /\ (ctl # NoCommand) ~> (ctl = NoCommand)
  /\ SdkPlays => \A a \in Attempts :
       (prod[a] \in {"pcm", "end"}) ~> (prod[a] \notin {"pcm", "end"})
=============================================================================
