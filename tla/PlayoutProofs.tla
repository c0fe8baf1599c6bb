---------------------------- MODULE PlayoutProofs ----------------------------
(***************************************************************************)
(* Proofs about the playout actor for every number of attempts, quantum,   *)
(* chunk size and capacity.                                                *)
(*                                                                         *)
(* The inductive invariant is TypeOK together with                         *)
(*   Ownership    what is being captured belongs to the authorized owner,  *)
(*                and so does the finish() that waits for the drain;       *)
(*   Flushed      a capture that is being drained was preceded by a clear; *)
(*   Accounted    the drain estimate lags the buffer by at most a quantum; *)
(*   Muted        a closed speech gate leaves nothing to pad or capture.   *)
(***************************************************************************)
EXTENDS Playout, SequenceTheorems, TLAPS

Ownership ==
  /\ pc = "capture" => /\ cur.kind \in {"pcm", "end"}
                       /\ Owns(pl, cur.id) /\ pl.authorized
                       /\ waiter = NoAttempt
  /\ pc \in {"capture", "drain"} => cur.id \in permitted
  /\ pl.authorized => pl.id \in permitted
  /\ waiter # NoAttempt => waiter = pl.id /\ pl.authorized /\ pl.ended

Flushed == pc \in {"drain", "drainstop", "closed"} =>
             buffer = << >> /\ due = 0 /\ waiter = NoAttempt

Accounted ==
  Len(buffer) + (IF pc = "capture" /\ ~polled THEN Piece(cur.len) ELSE 0)
    <= due + Quantum

Muted == ~pl.enabled => remainder = 0 /\ pc # "capture" /\ Len(buffer) <= Quantum

PlayoutInv ==
  TypeOK /\ Ownership /\ Flushed /\ Accounted /\ Muted /\ OnlyPermittedAudio

-----------------------------------------------------------------------------
(* Facts about the operators.                                              *)

\* A piece is never longer than a quantum nor than the chunk it is cut from.
LEMMA PieceBound ==
  ASSUME NEW n \in Nat
  PROVE  Piece(n) \in Nat /\ Piece(n) <= Quantum /\ Piece(n) <= n
BY PlayoutAssumption DEF Piece

\* clear() forgets the owner and its flags, and keeps the gate.
LEMMA ClearedFields ==
  ASSUME NEW s \in PlayoutStates(MaxAttempt)
  PROVE  /\ Cleared(s) \in PlayoutStates(MaxAttempt)
         /\ Cleared(s).id = NoAttempt /\ Cleared(s).highest = s.highest
         /\ Cleared(s).authorized = FALSE
         /\ Cleared(s).enabled = s.enabled
         /\ Cleared(s).ended = FALSE
<1>1. 0 \in 0..MaxAttempt BY PlayoutAssumption
<1>2. QED BY <1>1, Zenon DEF PlayoutStates, NoAttempt, Cleared

\* Begin makes a fresh, unauthorized owner.
LEMMA BeginFields ==
  ASSUME NEW s \in PlayoutStates(MaxAttempt), NEW a \in Attempts, BeginOk(s, a)
  PROVE  /\ AfterBegin(s, a) \in PlayoutStates(MaxAttempt)
         /\ AfterBegin(s, a).id = a /\ AfterBegin(s, a).highest = a
         /\ AfterBegin(s, a).authorized = FALSE
         /\ AfterBegin(s, a).enabled = s.enabled
         /\ AfterBegin(s, a).ended = FALSE
<1>1. a \in 0..MaxAttempt BY PlayoutAssumption DEF Attempts
<1>2. QED BY <1>1, ClearedFields, Zenon DEF PlayoutStates, AfterBegin

\* Authorize touches one flag, and only the owner's.
LEMMA AuthorizeFields ==
  ASSUME NEW s \in PlayoutStates(MaxAttempt), NEW a \in Attempts
  PROVE  /\ AfterAuthorize(s, a) \in PlayoutStates(MaxAttempt)
         /\ AfterAuthorize(s, a).id = s.id /\ AfterAuthorize(s, a).highest = s.highest
         /\ (AfterAuthorize(s, a).enabled <=> s.enabled) /\ AfterAuthorize(s, a).ended = s.ended
         /\ AfterAuthorize(s, a).authorized <=> s.authorized \/ Owns(s, a)
<1>1. CASE Owns(s, a)
  BY <1>1, Zenon DEF PlayoutStates, AfterAuthorize
<1>2. CASE ~Owns(s, a)
  BY <1>2, Zenon DEF PlayoutStates, AfterAuthorize
<1>3. QED BY <1>1, <1>2, Zenon

\* What each kind of command carries.
LEMMA CommandFields ==
  ASSUME NEW c \in Commands
  PROVE  /\ c.op \in {"begin", "authorize", "cancel", "speech", "shutdown"}
         /\ c.op # "shutdown" => c.id \in Attempts
         /\ c.on \in BOOLEAN
<1>1. CASE c \in [op : {"begin", "authorize", "cancel"}, id : Attempts, on : {FALSE}]
  BY <1>1, Zenon
<1>2. CASE c \in [op : {"speech"}, id : Attempts, on : BOOLEAN]
  BY <1>2, Zenon
<1>3. CASE c = [op |-> "shutdown", id |-> NoAttempt, on |-> FALSE]
  BY <1>3, Zenon
<1>4. QED BY <1>1, <1>2, <1>3, Zenon DEF Commands

\* A speech decision touches the gate only.
LEMMA SpeechFields ==
  ASSUME NEW s \in PlayoutStates(MaxAttempt), NEW c \in Commands, c.op = "speech"
  PROVE  /\ AfterControl(s, c) \in PlayoutStates(MaxAttempt)
         /\ AfterControl(s, c).id = s.id
         /\ AfterControl(s, c).highest = s.highest
         /\ (AfterControl(s, c).authorized <=> s.authorized)
         /\ AfterControl(s, c).ended = s.ended
         /\ SpeechOk(s, c.id) => (AfterControl(s, c).enabled <=> c.on)
         /\ ~SpeechOk(s, c.id) => (AfterControl(s, c).enabled <=> s.enabled)
<1>1. c.on \in BOOLEAN BY CommandFields, Zenon
<1>2. AfterControl(s, c) =
        IF SpeechOk(s, c.id) THEN [s EXCEPT !.enabled = c.on] ELSE s
  BY DEF AfterControl, AfterSpeech
<1>3. CASE SpeechOk(s, c.id)
  <2>1. AfterControl(s, c) = [s EXCEPT !.enabled = c.on] BY <1>2, <1>3, Zenon
  <2>2. QED BY <1>1, <1>3, <2>1, Zenon DEF PlayoutStates
<1>4. CASE ~SpeechOk(s, c.id)
  <2>1. AfterControl(s, c) = s BY <1>2, <1>4, Zenon
  <2>2. QED BY <1>4, <2>1, Zenon DEF PlayoutStates
<1>5. QED BY <1>3, <1>4, Zenon

\* A command that does not stop the capture leaves the owner as it was, and
\* does not close the gate.
LEMMA NotAborting ==
  ASSUME NEW s \in PlayoutStates(MaxAttempt), NEW c \in Commands, ~Aborts(s, c)
  PROVE  /\ AfterControl(s, c) \in PlayoutStates(MaxAttempt)
         /\ AfterControl(s, c).id = s.id
         /\ AfterControl(s, c).highest = s.highest
         /\ AfterControl(s, c).ended = s.ended
         /\ s.authorized => AfterControl(s, c).authorized
         /\ AfterControl(s, c).authorized =>
              s.authorized \/ (c.op = "authorize" /\ Owns(s, c.id))
         /\ ~AfterControl(s, c).enabled => ~s.enabled
<1>1. CASE c.op = "begin"
  BY <1>1, Zenon DEF Aborts, AfterControl, AfterBegin
<1>2. CASE c.op = "cancel"
  BY <1>2, Zenon DEF Aborts, AfterControl, AfterCancel
<1>3. CASE c.op = "authorize"
  <2>1. c.id \in Attempts BY <1>3, CommandFields, Zenon
  <2>2. AfterControl(s, c) = AfterAuthorize(s, c.id) BY <1>3 DEF AfterControl
  <2>3. QED BY <1>3, <2>1, <2>2, AuthorizeFields, Zenon
<1>4. CASE c.op = "speech"
  <2>1. SpeechOk(s, c.id) => c.on
    BY <1>4, CommandFields, Zenon DEF Aborts
  <2>2. QED BY <1>4, <2>1, SpeechFields, Zenon
<1>5. CASE c.op = "shutdown" BY <1>5 DEF Aborts
<1>6. QED BY <1>1, <1>2, <1>3, <1>4, <1>5, CommandFields, Zenon

\* A command that stops the capture keeps at most the authorized owner it
\* found.
LEMMA Aborting ==
  ASSUME NEW s \in PlayoutStates(MaxAttempt), NEW c \in Commands, Aborts(s, c)
  PROVE  /\ AfterControl(s, c) \in PlayoutStates(MaxAttempt)
         /\ AfterControl(s, c).authorized =>
              s.authorized /\ AfterControl(s, c).id = s.id
         /\ s.highest < AfterControl(s, c).id
            \/ AfterControl(s, c).id \in {s.id, NoAttempt}
<1>1. CASE c.op = "begin"
  <2>1. c.id \in Attempts /\ BeginOk(s, c.id)
    BY <1>1, CommandFields, Zenon DEF Aborts
  <2>2. AfterControl(s, c) = AfterBegin(s, c.id) BY <1>1 DEF AfterControl
  <2>3. s.highest < c.id BY <2>1 DEF BeginOk, PlayoutStates, Attempts
  <2>4. QED BY <2>1, <2>2, <2>3, BeginFields, ZenonT(60)
<1>2. CASE c.op = "cancel"
  <2>1. AfterControl(s, c) = Cleared(s)
    BY <1>2 DEF AfterControl, AfterCancel, Aborts
  <2>2. QED BY <2>1, ClearedFields, Zenon
<1>3. CASE c.op = "authorize" BY <1>3 DEF Aborts
<1>4. CASE c.op = "speech" BY <1>4, SpeechFields, Zenon
<1>5. CASE c.op = "shutdown"
  <2>1. AfterControl(s, c) = Cleared(s) BY <1>5 DEF AfterControl
  <2>2. QED BY <2>1, ClearedFields, Zenon
<1>6. QED BY <1>1, <1>2, <1>3, <1>4, <1>5, CommandFields, Zenon

\* A reply changes only the state of a waiting producer.
LEMMA ReplyType ==
  ASSUME NEW p \in [Attempts -> {"idle", "pcm", "end", "drained", "gone"}],
         NEW a, NEW to \in {"idle", "drained"}
  PROVE  Reply(p, a, to) \in [Attempts -> {"idle", "pcm", "end", "drained", "gone"}]
BY DEF Reply

\* The samples of a piece, and the attempt they belong to.
LEMMA SamplesType ==
  ASSUME NEW f \in [kind : {"none", "pcm", "end"}, id : 0..MaxAttempt, len : Nat]
  PROVE  /\ Samples(f) \in Seq(0..MaxAttempt)
         /\ Len(Samples(f)) = Piece(f.len)
         /\ \A i \in 1..Piece(f.len) : Samples(f)[i] \in {f.id, Silence}
<1>1. Piece(f.len) \in Nat BY PieceBound
<1>2. \A i \in 1..Piece(f.len) : Samples(f)[i] \in {f.id, Silence}
  BY Zenon DEF Samples
<1>3. {f.id, Silence} \subseteq 0..MaxAttempt BY PlayoutAssumption DEF Silence
<1>4. Samples(f) \in [1..Piece(f.len) -> 0..MaxAttempt]
  BY <1>2, <1>3, Zenon DEF Samples
<1>5. Samples(f) \in Seq(0..MaxAttempt) /\ Len(Samples(f)) = Piece(f.len)
  <2> DEFINE n == Piece(f.len)
             sam == Samples(f)
  <2>1. n \in Nat /\ sam \in [1..n -> 0..MaxAttempt] BY <1>1, <1>4
  <2> HIDE DEF n, sam
  <2> DEFINE S == 0..MaxAttempt
  <2> HIDE DEF S
  <2>0. sam \in [1..n -> S] BY <2>1 DEF S
  <2>2. sam \in Seq(S) BY <2>0, <2>1, SeqDef
  <2>3. sam \in [1..Len(sam) -> 0..MaxAttempt] /\ Len(sam) \in Nat
    BY <2>2, LenProperties DEF S
  <2>4. 1..n = 1..Len(sam) BY <2>1, <2>3
  <2>5. Len(sam) = n BY <2>1, <2>3, <2>4
  <2>6. QED BY <2>2, <2>5 DEF n, sam, S
<1>6. QED BY <1>2, <1>5

\* Accepting End sets one flag of the owner.
LEMMA EndedFields ==
  ASSUME NEW s \in PlayoutStates(MaxAttempt)
  PROVE  /\ [s EXCEPT !.ended = TRUE] \in PlayoutStates(MaxAttempt)
         /\ [s EXCEPT !.ended = TRUE].id = s.id
         /\ [s EXCEPT !.ended = TRUE].highest = s.highest
         /\ ([s EXCEPT !.ended = TRUE].authorized <=> s.authorized)
         /\ ([s EXCEPT !.ended = TRUE].enabled <=> s.enabled)
         /\ [s EXCEPT !.ended = TRUE].ended
BY Zenon DEF PlayoutStates

-----------------------------------------------------------------------------
(* Type correctness.                                                       *)

LEMMA InitType == Init => TypeOK
<1> SUFFICES ASSUME Init PROVE TypeOK OBVIOUS
<1>1. 0 \in 0..MaxAttempt /\ 0 \in 0..MaxSends /\ 0 \in 0..MaxCalls
      /\ 0 \in 0..(Quantum - 1)
  BY PlayoutAssumption
<1>2. pl \in PlayoutStates(MaxAttempt)
  BY <1>1, Zenon DEF Init, NewPlayout, PlayoutStates, NoAttempt
<1>3. queue \in Seq(Frames) /\ buffer \in Seq(0..MaxAttempt)
  BY EmptySeq DEF Init
<1>4. cur \in [kind : {"none", "pcm", "end"}, id : 0..MaxAttempt, len : Nat]
  BY <1>1 DEF Init, NoFrame, NoAttempt
<1>5. prod \in [Attempts -> {"idle", "pcm", "end", "drained", "gone"}]
      /\ sent \in [Attempts -> 0..MaxSends]
  BY <1>1 DEF Init
<1>6. QED BY <1>1, <1>2, <1>3, <1>4, <1>5 DEF Init, TypeOK, NoAttempt

\* The types of what CloseWith leaves behind.
LEMMA CloseType ==
  ASSUME TypeOK, CloseWith(pl)
  PROVE  TypeOK'
<1>1. pl' \in PlayoutStates(MaxAttempt) BY ClearedFields DEF TypeOK, CloseWith
<1>2. queue' \in Seq(Frames) /\ buffer' \in Seq(0..MaxAttempt)
  BY EmptySeq DEF CloseWith
<1>3. 0 \in 0..MaxAttempt /\ 0 \in 0..(Quantum - 1) BY PlayoutAssumption
<1>4. cur' \in [kind : {"none", "pcm", "end"}, id : 0..MaxAttempt, len : Nat]
  BY <1>3 DEF CloseWith, NoFrame, NoAttempt
<1>5. prod' \in [Attempts -> {"idle", "pcm", "end", "drained", "gone"}]
  BY DEF CloseWith, TypeOK
<1>6. QED BY <1>1, <1>2, <1>3, <1>4, <1>5 DEF CloseWith, TypeOK, NoAttempt

\* The types of what a command leaves behind.
LEMMA ObeyType ==
  ASSUME TypeOK, ctl # NoCommand, Obey(ctl)
  PROVE  /\ pl' \in PlayoutStates(MaxAttempt) /\ waiter' \in 0..MaxAttempt
         /\ due' \in Nat /\ remainder' \in 0..(Quantum - 1)
         /\ ctl' = NoCommand /\ buffer' \in Seq(0..MaxAttempt)
         /\ prod' \in [Attempts -> {"idle", "pcm", "end", "drained", "gone"}]
         /\ permitted' \subseteq Attempts
<1>1. ctl \in Commands BY DEF TypeOK
<1>2. pl' \in PlayoutStates(MaxAttempt)
  BY <1>1, Aborting, NotAborting, Zenon DEF Obey, TypeOK
<1>3. permitted' \subseteq Attempts
  BY <1>1, CommandFields DEF Obey, TypeOK
<1>4. 0 \in 0..MaxAttempt /\ 0 \in 0..(Quantum - 1) BY PlayoutAssumption
<1>5. CASE Flushes(pl, ctl)
  <2>1. buffer' \in Seq(0..MaxAttempt) BY <1>5, EmptySeq DEF Obey
  <2>2. prod' \in [Attempts -> {"idle", "pcm", "end", "drained", "gone"}]
    <3>1. prod' = Reply(prod, waiter, "idle") BY <1>5 DEF Obey
    <3>2. QED BY <3>1, ReplyType DEF TypeOK
  <2>3. QED BY <1>2, <1>3, <1>4, <1>5, <2>1, <2>2 DEF Obey, NoAttempt
<1>6. CASE ~Flushes(pl, ctl) BY <1>2, <1>3, <1>6 DEF Obey, TypeOK
<1>7. QED BY <1>5, <1>6

\* A piece being started is well typed.
LEMMA StartType ==
  ASSUME TypeOK, NEW f, StartPiece(f),
         f \in [kind : {"none", "pcm", "end"}, id : 0..MaxAttempt, len : Nat]
  PROVE  /\ remainder' \in 0..(Quantum - 1) /\ due' \in Nat
         /\ cur' \in [kind : {"none", "pcm", "end"}, id : 0..MaxAttempt, len : Nat]
         /\ polled' = FALSE /\ pc' = "capture"
<1>1. Piece(f.len) \in Nat BY PieceBound
<1>2. QED BY <1>1, PlayoutAssumption, SMTT(30) DEF StartPiece, TypeOK

LEMMA NextType == TypeOK /\ [Next]_vars => TypeOK'
<1> SUFFICES ASSUME TypeOK, [Next]_vars PROVE TypeOK' OBVIOUS
<1>1. ASSUME NEW c \in Commands, Call(c) PROVE TypeOK'
  BY <1>1, PlayoutAssumption DEF TypeOK, Call, actor
<1>2. ASSUME NEW f \in Frames, Send(f) PROVE TypeOK'
  <2>1. f.id \in Attempts /\ f.kind \in {"pcm", "end"} BY DEF Frames
  <2>2. queue' \in Seq(Frames) BY <1>2 DEF Send, TypeOK
  <2>3. prod' \in [Attempts -> {"idle", "pcm", "end", "drained", "gone"}]
    BY <1>2, <2>1 DEF Send, TypeOK
  <2>4. sent' \in [Attempts -> 0..MaxSends]
    BY <1>2, <2>1, PlayoutAssumption DEF Send, TypeOK
  <2>5. QED BY <1>2, <2>2, <2>3, <2>4 DEF Send, TypeOK, actor
<1>3. ASSUME NEW a \in Attempts, Abort(a) PROVE TypeOK'
  BY <1>3 DEF TypeOK, Abort, actor
<1>4. CASE SelectControl
  <2>1. CASE ctl.op = "shutdown" BY <1>4, <2>1, CloseType DEF SelectControl
  <2>2. CASE ctl.op # "shutdown"
    BY <1>4, <2>2, ObeyType DEF SelectControl, TypeOK
  <2>3. QED BY <2>1, <2>2
<1>5. CASE SelectDrained
  <2>1. prod' \in [Attempts -> {"idle", "pcm", "end", "drained", "gone"}]
    BY <1>5, ReplyType DEF SelectDrained, TypeOK
  <2>2. QED BY <1>5, <2>1, PlayoutAssumption DEF SelectDrained, TypeOK, NoAttempt
<1>6. CASE SelectPcm
  <2>1. Head(queue) \in Frames /\ queue' \in Seq(Frames)
    BY <1>6, HeadTailProperties DEF SelectPcm, FrameReady, TypeOK
  <2>2. Head(queue) \in [kind : {"none", "pcm", "end"}, id : 0..MaxAttempt, len : Nat]
    BY <2>1, PlayoutAssumption DEF Frames, Attempts
  <2>3. prod' \in [Attempts -> {"idle", "pcm", "end", "drained", "gone"}]
    BY <1>6, ReplyType DEF SelectPcm, TypeOK
  <2>4. CASE PcmAllowed(pl, Head(queue).id)
    BY <1>6, <2>1, <2>2, <2>3, <2>4, StartType DEF SelectPcm, TypeOK
  <2>5. CASE ~PcmAllowed(pl, Head(queue).id)
    BY <1>6, <2>1, <2>3, <2>5 DEF SelectPcm, TypeOK
  <2>6. QED BY <2>4, <2>5
<1>7. CASE SelectEnd
  <2> DEFINE a == Head(queue).id
  <2>1. Head(queue) \in Frames /\ queue' \in Seq(Frames)
    BY <1>7, HeadTailProperties DEF SelectEnd, FrameReady, TypeOK
  <2>2. a \in Attempts /\ a \in 0..MaxAttempt
    BY <2>1, PlayoutAssumption DEF Frames, Attempts
  <2>3. prod' \in [Attempts -> {"idle", "pcm", "end", "drained", "gone"}]
    BY <1>7, ReplyType DEF SelectEnd, TypeOK
  <2>4. CASE ~EndAllowed(pl, a)
    BY <1>7, <2>1, <2>3, <2>4 DEF SelectEnd, TypeOK
  <2>5. CASE EndAllowed(pl, a) /\ remainder > 0
    <3>1. Padding(a) \in [kind : {"none", "pcm", "end"}, id : 0..MaxAttempt, len : Nat]
      BY <2>2, PlayoutAssumption DEF Padding, TypeOK
    <3>2. StartPiece(Padding(a)) /\ UNCHANGED <<pl, waiter, prod>>
          /\ UNCHANGED <<ctl, buffer, sent, calls, permitted>>
      BY <1>7, <2>5 DEF SelectEnd
    <3>3. QED BY <2>1, <3>1, <3>2, StartType DEF TypeOK
  <2>6. CASE EndAllowed(pl, a) /\ ~(remainder > 0)
    <3>1. pl' \in PlayoutStates(MaxAttempt) /\ waiter' \in 0..MaxAttempt
      BY <1>7, <2>2, <2>6, EndedFields DEF SelectEnd, TypeOK
    <3>2. UNCHANGED <<prod, remainder, due, cur, polled, pc>>
          /\ UNCHANGED <<ctl, buffer, sent, calls, permitted>>
      BY <1>7, <2>6 DEF SelectEnd
    <3>3. QED BY <2>1, <3>1, <3>2 DEF TypeOK
  <2>7. QED BY <2>4, <2>5, <2>6
<1>8. CASE CapturePoll
  <2>1. buffer' \in Seq(0..MaxAttempt)
    BY <1>8, SamplesType, ConcatProperties DEF CapturePoll, TypeOK
  <2>2. QED BY <1>8, <2>1 DEF CapturePoll, TypeOK
<1>9. CASE CaptureReady
  <2> DEFINE left == cur.len - Piece(cur.len)
  <2>1. cur \in [kind : {"none", "pcm", "end"}, id : 0..MaxAttempt, len : Nat]
    BY DEF TypeOK
  <2>2. left \in Nat BY <2>1, PieceBound
  <2>3. CASE left > 0
    <3>1. [cur EXCEPT !.len = left] \in [kind : {"none", "pcm", "end"}, id : 0..MaxAttempt, len : Nat]
      BY <2>1, <2>2
    <3>2. StartPiece([cur EXCEPT !.len = left]) /\ UNCHANGED <<pl, waiter, prod>>
      BY <1>9, <2>3 DEF CaptureReady
    <3>3. QED BY <1>9, <3>1, <3>2, StartType DEF CaptureReady, TypeOK
  <2>4. CASE left = 0
    <3>1. cur' \in [kind : {"none", "pcm", "end"}, id : 0..MaxAttempt, len : Nat]
      BY <1>9, <2>4, PlayoutAssumption DEF CaptureReady, NoFrame, NoAttempt
    <3>2. pl' \in PlayoutStates(MaxAttempt) /\ waiter' \in 0..MaxAttempt
      BY <1>9, <2>1, <2>4, EndedFields DEF CaptureReady, TypeOK
    <3>3. prod' = prod \/ prod' = Reply(prod, cur.id, "idle")
      BY <1>9, <2>4 DEF CaptureReady
    <3>4. prod' \in [Attempts -> {"idle", "pcm", "end", "drained", "gone"}]
      BY <3>3, ReplyType, SMTT(30) DEF TypeOK
    <3>5. pc' = "select" /\ polled' = FALSE /\ UNCHANGED <<remainder, due>>
          /\ UNCHANGED <<ctl, queue, buffer, sent, calls, permitted>>
      BY <1>9, <2>4 DEF CaptureReady
    <3>6. QED BY <3>1, <3>2, <3>4, <3>5 DEF TypeOK
  <2>5. QED BY <2>2, <2>3, <2>4
<1>10. CASE CaptureFails BY <1>10, CloseType DEF CaptureFails
<1>11. CASE CaptureControl
  <2>1. pc' \in {"capture", "drain", "drainstop"} BY <1>11 DEF CaptureControl
  <2>2. QED BY <1>11, <2>1, ObeyType DEF CaptureControl, TypeOK
<1>12. CASE DrainCompletes
  <2>0. buffer \o Samples(cur) \in Seq(0..MaxAttempt)
    BY SamplesType, ConcatProperties DEF TypeOK
  <2>1. buffer' \in Seq(0..MaxAttempt)
    BY <1>12, <2>0, Zenon DEF DrainCompletes, TypeOK
  <2>2. prod' \in [Attempts -> {"idle", "pcm", "end", "drained", "gone"}]
    BY <1>12, ReplyType DEF DrainCompletes, TypeOK
  <2>3. cur' \in [kind : {"none", "pcm", "end"}, id : 0..MaxAttempt, len : Nat]
    BY <1>12, PlayoutAssumption DEF DrainCompletes, NoFrame, NoAttempt
  <2>4. QED BY <1>12, <2>1, <2>2, <2>3 DEF DrainCompletes, TypeOK
<1>13. CASE DrainCloses BY <1>13, CloseType DEF DrainCloses
<1>14. CASE Orphaned BY <1>14, CloseType DEF Orphaned
<1>15. CASE Tick
  <2>1. buffer' \in Seq(0..MaxAttempt)
    <3>1. CASE Len(buffer) >= Quantum
      BY <1>15, <3>1, SubSeqProperties, PlayoutAssumption, SMTT(30) DEF Tick, TypeOK
    <3>2. CASE ~(Len(buffer) >= Quantum) BY <1>15, <3>2 DEF Tick, TypeOK
    <3>3. QED BY <3>1, <3>2
  <2>2. due' \in Nat BY <1>15, PlayoutAssumption DEF Tick, TypeOK
  <2>3. QED BY <1>15, <2>1, <2>2 DEF Tick, TypeOK
<1>16. CASE UNCHANGED vars BY <1>16 DEF TypeOK, vars
<1>17. QED
  BY <1>1, <1>2, <1>3, <1>4, <1>5, <1>6, <1>7, <1>8, <1>9, <1>10, <1>11, <1>12,
     <1>13, <1>14, <1>15, <1>16
  DEF Next, Callers, Control, Audio, Sdk

\* Type correctness of the playout actor, for every value of the constants.
THEOREM TypeCorrect == Spec => []TypeOK
BY InitType, NextType, PTL DEF Spec

-----------------------------------------------------------------------------
(* Safety.                                                                 *)

LEMMA InitInv == Init => PlayoutInv
<1> SUFFICES ASSUME Init PROVE PlayoutInv OBVIOUS
<1>1. TypeOK BY InitType
<1>2. ~pl.authorized /\ pl.enabled BY Zenon DEF Init, NewPlayout
<1>3. Len(buffer) = 0 BY EmptySeq DEF Init
<1>4. QED
  BY <1>1, <1>2, <1>3, PlayoutAssumption
  DEF Init, PlayoutInv, Ownership, Flushed, Accounted, Muted, OnlyPermittedAudio

\* Closing leaves nothing owned, buffered or awaited.
LEMMA CloseInv ==
  ASSUME PlayoutInv, CloseWith(pl)
  PROVE  PlayoutInv'
<1>1. TypeOK' BY CloseType DEF PlayoutInv
<1>2. ~pl'.authorized BY ClearedFields, Zenon DEF CloseWith, PlayoutInv, TypeOK
<1>3. Len(buffer') = 0 BY EmptySeq DEF CloseWith
<1>4. due' = 0 /\ remainder' = 0 /\ pc' = "closed" /\ waiter' = NoAttempt
      /\ buffer' = << >>
  BY DEF CloseWith
<1>5. Ownership' BY <1>2, <1>4 DEF Ownership
<1>6. QED
  BY <1>1, <1>3, <1>4, <1>5, PlayoutAssumption
  DEF PlayoutInv, Flushed, Accounted, Muted, OnlyPermittedAudio

\* A command received at the top of the loop or during a capture.
LEMMA ObeyInv ==
  ASSUME PlayoutInv, ctl # NoCommand, Obey(ctl), TypeOK',
         UNCHANGED <<cur, polled>>,
         ~(pc = "capture" /\ Aborts(pl, ctl)) => pc' = pc,
         pc = "select" \/ pc = "capture",
         pc = "capture" /\ Aborts(pl, ctl) => pc' \in {"drain", "drainstop"}
  PROVE  PlayoutInv'
<1>1. ctl \in Commands /\ pl \in PlayoutStates(MaxAttempt)
  BY DEF PlayoutInv, TypeOK
<1>2. pl' = AfterControl(pl, ctl) BY DEF Obey
<1>3. CASE Aborts(pl, ctl)
  <2>1. buffer' = << >> /\ due' = 0 /\ remainder' = 0 /\ waiter' = NoAttempt
    BY <1>3 DEF Obey, Flushes
  <2>2. pl'.authorized => pl.authorized /\ pl'.id = pl.id
    BY <1>1, <1>2, <1>3, Aborting, Zenon
  <2>3. permitted' = permitted
    BY <1>1, <1>3 DEF Obey, Aborts
  <2>4. Len(buffer') = 0 BY <2>1, EmptySeq
  <2>5. pc' # "capture" BY <1>3
  <2>6. Ownership'
    BY <2>1, <2>2, <2>3, <2>5 DEF PlayoutInv, Ownership
  <2>7. QED
    BY <2>1, <2>4, <2>5, <2>6, PlayoutAssumption
    DEF PlayoutInv, Flushed, Accounted, Muted, OnlyPermittedAudio
<1>4. CASE ~Aborts(pl, ctl)
  <2>1. UNCHANGED <<buffer, due, remainder, waiter, pc, cur, polled>>
    BY <1>4 DEF Obey, Flushes
  <2>2. /\ pl'.id = pl.id /\ (pl.authorized => pl'.authorized)
        /\ pl'.ended = pl.ended
        /\ (pl'.authorized => pl.authorized
                              \/ (ctl.op = "authorize" /\ Owns(pl, ctl.id)))
        /\ (~pl'.enabled => ~pl.enabled)
    BY <1>1, <1>2, <1>4, NotAborting, Zenon
  <2>3. permitted \subseteq permitted' BY DEF Obey
  <2>4. pl'.authorized => pl'.id \in permitted'
    BY <2>2, <2>3, Zenon DEF Obey, PlayoutInv, Ownership, Owns
  <2>5. Ownership'
    BY <2>1, <2>2, <2>3, <2>4, Zenon DEF PlayoutInv, Ownership, Owns
  <2>6. Muted' BY <2>1, <2>2 DEF PlayoutInv, Muted
  <2>7. Flushed' /\ Accounted' /\ OnlyPermittedAudio'
    BY <2>1, <2>3 DEF PlayoutInv, Flushed, Accounted, OnlyPermittedAudio
  <2>8. QED BY <2>5, <2>6, <2>7 DEF PlayoutInv
<1>5. QED BY <1>3, <1>4

\* Starting a piece for the authorized owner of an open gate.
LEMMA StartInv ==
  ASSUME PlayoutInv, TypeOK', NEW f, StartPiece(f), f.len \in Nat,
         f.kind \in {"pcm", "end"}, Owns(pl, f.id), pl.authorized, pl.enabled,
         waiter = NoAttempt, pc = "select" \/ (pc = "capture" /\ polled),
         UNCHANGED <<pl, waiter, buffer, permitted>>
  PROVE  PlayoutInv'
<1>1. cur' = f /\ pc' = "capture" /\ polled' = FALSE /\ due' = due + Piece(f.len)
  BY DEF StartPiece
<1>2. Ownership' BY <1>1 DEF PlayoutInv, Ownership, Owns
<1>3. Piece(f.len) \in Nat BY PieceBound
<1>4. Accounted'
  <2>1. Len(buffer) \in Nat /\ due \in Nat
    BY LenProperties DEF PlayoutInv, TypeOK
  <2>2. Len(buffer) <= due + Quantum BY DEF PlayoutInv, Accounted
  <2>3. QED BY <1>1, <1>3, <2>1, <2>2, PlayoutAssumption DEF Accounted
<1>5. QED BY <1>1, <1>2, <1>4 DEF PlayoutInv, Flushed, Muted, OnlyPermittedAudio

\* Appending a piece's samples keeps the buffer's samples permitted.
LEMMA AppendPermitted ==
  ASSUME TypeOK, OnlyPermittedAudio, cur.id \in permitted
  PROVE  LET b == buffer \o Samples(cur) IN
         /\ Len(b) = Len(buffer) + Piece(cur.len)
         /\ \A i \in 1..Len(b) : b[i] \in permitted \cup {Silence}
<1> DEFINE s == Samples(cur)
           b == buffer \o s
<1>1. /\ s \in Seq(0..MaxAttempt) /\ Len(s) = Piece(cur.len)
      /\ \A i \in 1..Piece(cur.len) : s[i] \in {cur.id, Silence}
      /\ Piece(cur.len) \in Nat
  BY SamplesType, PieceBound DEF TypeOK
<1>2. buffer \in Seq(0..MaxAttempt) /\ Len(buffer) \in Nat
  BY LenProperties DEF TypeOK
<1>3. /\ Len(b) = Len(buffer) + Len(s)
      /\ \A i \in 1..Len(buffer) + Len(s) :
           b[i] = IF i <= Len(buffer) THEN buffer[i] ELSE s[i - Len(buffer)]
  BY <1>1, <1>2, ConcatProperties
<1> HIDE DEF s, b
<1>4. ASSUME NEW i \in 1..Len(b) PROVE b[i] \in permitted \cup {Silence}
  <2>1. CASE i <= Len(buffer)
    BY <1>1, <1>2, <1>3, <2>1 DEF OnlyPermittedAudio
  <2>2. CASE ~(i <= Len(buffer))
    <3>1. i - Len(buffer) \in 1..Piece(cur.len) BY <1>1, <1>2, <1>3, <2>2
    <3>2. b[i] = s[i - Len(buffer)] BY <1>1, <1>2, <1>3, <2>2
    <3>3. QED BY <1>1, <3>1, <3>2
  <2>3. QED BY <2>1, <2>2
<1>5. QED BY <1>1, <1>3, <1>4 DEF b, s

LEMMA NextInv == PlayoutInv /\ [Next]_vars => PlayoutInv'
<1> SUFFICES ASSUME PlayoutInv, [Next]_vars PROVE PlayoutInv' OBVIOUS
<1>0. TypeOK /\ TypeOK' BY NextType DEF PlayoutInv
<1>1. ASSUME NEW c \in Commands, Call(c) PROVE PlayoutInv'
  BY <1>0, <1>1
  DEF Call, actor, PlayoutInv, Ownership, Flushed, Accounted, Muted,
      OnlyPermittedAudio
<1>2. ASSUME NEW f \in Frames, Send(f) PROVE PlayoutInv'
  BY <1>0, <1>2
  DEF Send, actor, PlayoutInv, Ownership, Flushed, Accounted, Muted,
      OnlyPermittedAudio
<1>3. ASSUME NEW a \in Attempts, Abort(a) PROVE PlayoutInv'
  BY <1>0, <1>3
  DEF Abort, actor, PlayoutInv, Ownership, Flushed, Accounted, Muted,
      OnlyPermittedAudio
<1>4. CASE SelectControl
  <2>1. CASE ctl.op = "shutdown" BY <1>4, <2>1, CloseInv DEF SelectControl
  <2>2. CASE ctl.op # "shutdown"
    BY <1>0, <1>4, <2>2, ObeyInv DEF SelectControl
  <2>3. QED BY <2>1, <2>2
<1>5. CASE SelectDrained
  BY <1>0, <1>5
  DEF SelectDrained, PlayoutInv, Ownership, Flushed, Accounted, Muted,
      OnlyPermittedAudio
<1>6. CASE SelectPcm
  <2> DEFINE f == Head(queue)
  <2>1. f \in Frames /\ f.kind = "pcm"
    BY <1>0, <1>6, HeadTailProperties DEF SelectPcm, FrameReady, TypeOK
  <2>2. CASE PcmAllowed(pl, f.id)
    <3>1. f.len \in Nat BY <2>1 DEF Frames
    <3>2. Owns(pl, f.id) /\ pl.authorized /\ pl.enabled /\ ~pl.ended
      BY <2>2, Zenon DEF PcmAllowed
    <3>3. waiter = NoAttempt BY <3>2, Zenon DEF PlayoutInv, Ownership
    <3>4. StartPiece(f) /\ UNCHANGED <<pl, waiter, buffer, permitted>>
          /\ pc = "select"
      BY <1>6, <2>2 DEF SelectPcm, FrameReady
    <3>5. QED BY <1>0, <2>1, <3>1, <3>2, <3>3, <3>4, StartInv
  <2>3. CASE ~PcmAllowed(pl, f.id)
    BY <1>0, <1>6, <2>3
    DEF SelectPcm, PlayoutInv, Ownership, Flushed, Accounted, Muted,
        OnlyPermittedAudio
  <2>4. QED BY <2>2, <2>3
<1>7. CASE SelectEnd
  <2> DEFINE a == Head(queue).id
  <2>0. pc = "select" BY <1>7 DEF SelectEnd, FrameReady
  <2>1. CASE ~EndAllowed(pl, a)
    BY <1>0, <1>7, <2>1
    DEF SelectEnd, PlayoutInv, Ownership, Flushed, Accounted, Muted,
        OnlyPermittedAudio
  <2>2. CASE EndAllowed(pl, a)
    <3>1. Owns(pl, a) /\ pl.authorized /\ ~pl.ended
      BY <2>2, Zenon DEF EndAllowed
    <3>2. CASE remainder > 0
      <4>1. pl.enabled BY <1>0, <3>2, SMTT(30) DEF PlayoutInv, Muted, TypeOK
      <4>2. waiter = NoAttempt BY <3>1, Zenon DEF PlayoutInv, Ownership
      <4>3. StartPiece(Padding(a)) /\ UNCHANGED <<pl, waiter, buffer, permitted>>
        BY <1>7, <2>2, <3>2 DEF SelectEnd
      <4>4. Padding(a).len \in Nat /\ Padding(a).kind = "end" /\ Padding(a).id = a
        BY <1>0, PlayoutAssumption DEF Padding, TypeOK
      <4>5. QED BY <1>0, <2>0, <3>1, <4>1, <4>2, <4>3, <4>4, StartInv
    <3>3. CASE ~(remainder > 0)
      <4>1. pl' = [pl EXCEPT !.ended = TRUE] /\ waiter' = a
            /\ UNCHANGED <<remainder, due, cur, polled, pc, buffer, permitted>>
        BY <1>7, <2>2, <3>3 DEF SelectEnd
      <4>2. pl'.id = pl.id /\ (pl'.authorized <=> pl.authorized) /\ pl'.ended
            /\ (pl'.enabled <=> pl.enabled)
        BY <1>0, <4>1, EndedFields, Zenon DEF TypeOK
      <4>3. Ownership'
        BY <2>0, <3>1, <4>1, <4>2 DEF PlayoutInv, Ownership, Owns
      <4>4. QED
        BY <1>0, <2>0, <4>1, <4>2, <4>3
        DEF PlayoutInv, Flushed, Accounted, Muted, OnlyPermittedAudio
    <3>4. QED BY <3>2, <3>3
  <2>3. QED BY <2>1, <2>2
<1>8. CASE CapturePoll
  <2>1. cur.id \in permitted /\ pc = "capture" /\ ~polled
    BY <1>8 DEF CapturePoll, PlayoutInv, Ownership
  <2>2. /\ Len(buffer') = Len(buffer) + Piece(cur.len)
        /\ OnlyPermittedAudio'
    BY <1>0, <1>8, <2>1, AppendPermitted
    DEF CapturePoll, PlayoutInv, OnlyPermittedAudio
  <2>3. UNCHANGED <<pl, waiter, due, remainder, pc, cur, permitted>> /\ polled'
    BY <1>8 DEF CapturePoll
  <2>4. QED
    BY <1>0, <2>1, <2>2, <2>3
    DEF PlayoutInv, Ownership, Flushed, Accounted, Muted
<1>9. CASE CaptureReady
  <2> DEFINE left == cur.len - Piece(cur.len)
  <2>1. cur.len \in Nat /\ left \in Nat
    <3>1. cur.len \in Nat BY <1>0 DEF TypeOK
    <3>2. QED BY <3>1, PieceBound
  <2>2. pc = "capture" /\ polled /\ UNCHANGED <<buffer, permitted>>
    BY <1>9 DEF CaptureReady
  <2>3. Owns(pl, cur.id) /\ pl.authorized /\ pl.enabled /\ waiter = NoAttempt
        /\ cur.kind \in {"pcm", "end"}
    BY <2>2 DEF PlayoutInv, Ownership, Muted
  <2>4. CASE left > 0
    <3> DEFINE f == [cur EXCEPT !.len = left]
    <3>1. f.len = left /\ f.id = cur.id /\ f.kind = cur.kind BY <1>0 DEF TypeOK
    <3>2. StartPiece(f) /\ UNCHANGED <<pl, waiter>>
      BY <1>9, <2>4 DEF CaptureReady
    <3>3. QED BY <1>0, <2>1, <2>2, <2>3, <3>1, <3>2, StartInv
  <2>5. CASE left = 0
    <3>1. pc' = "select" /\ UNCHANGED <<remainder, due>>
      BY <1>9, <2>5 DEF CaptureReady
    <3>2. CASE cur.kind = "end"
      <4>1. pl' = [pl EXCEPT !.ended = TRUE] /\ waiter' = cur.id
        BY <1>9, <2>5, <3>2 DEF CaptureReady
      <4>2. pl'.id = pl.id /\ (pl'.authorized <=> pl.authorized) /\ pl'.ended
            /\ (pl'.enabled <=> pl.enabled)
        BY <1>0, <4>1, EndedFields, Zenon DEF TypeOK
      <4>3. Ownership'
        BY <2>2, <2>3, <3>1, <4>1, <4>2 DEF PlayoutInv, Ownership, Owns
      <4>4. QED
        BY <1>0, <2>2, <2>3, <3>1, <4>2, <4>3
        DEF PlayoutInv, Flushed, Accounted, Muted, OnlyPermittedAudio
    <3>3. CASE cur.kind # "end"
      <4>1. UNCHANGED <<pl, waiter>> BY <1>9, <2>5, <3>3 DEF CaptureReady
      <4>2. QED
        BY <1>0, <2>2, <2>3, <3>1, <4>1
        DEF PlayoutInv, Ownership, Flushed, Accounted, Muted, OnlyPermittedAudio
    <3>4. QED BY <3>2, <3>3
  <2>6. QED BY <2>1, <2>4, <2>5
<1>10. CASE CaptureFails BY <1>10, CloseInv DEF CaptureFails
<1>11. CASE CaptureControl
  <2>1. pc = "capture" /\ ctl # NoCommand /\ Obey(ctl) /\ UNCHANGED <<cur, polled>>
    BY <1>11 DEF CaptureControl
  <2>2. CASE Aborts(pl, ctl)
    <3>1. pc' \in {"drain", "drainstop"} BY <1>11, <2>2 DEF CaptureControl
    <3>2. QED BY <1>0, <2>1, <2>2, <3>1, ObeyInv
  <2>3. CASE ~Aborts(pl, ctl)
    <3>1. pc' = pc BY <1>11, <2>1, <2>3 DEF CaptureControl, Aborts
    <3>2. QED BY <1>0, <2>1, <2>3, <3>1, ObeyInv
  <2>4. QED BY <2>2, <2>3
<1>12. CASE DrainCompletes
  <2>1. /\ pc = "drain" /\ pc' = "select"
        /\ UNCHANGED <<pl, waiter, due, remainder, permitted>>
    BY <1>12 DEF DrainCompletes
  <2>2. cur.id \in permitted /\ buffer = << >> /\ Len(buffer) = 0
        /\ waiter = NoAttempt /\ due = 0
    BY <2>1, EmptySeq DEF PlayoutInv, Ownership, Flushed
  <2>3. buffer' = buffer \/ buffer' = buffer \o Samples(cur)
    BY <1>12, Zenon DEF DrainCompletes
  <2>4. Piece(cur.len) \in Nat /\ Piece(cur.len) <= Quantum
    BY <1>0, PieceBound DEF TypeOK
  <2>5. Len(buffer') <= Quantum /\ Len(buffer') \in Nat /\ OnlyPermittedAudio'
    BY <1>0, <2>1, <2>2, <2>3, <2>4, AppendPermitted, PlayoutAssumption
    DEF PlayoutInv, OnlyPermittedAudio
  <2>6. QED
    BY <1>0, <2>1, <2>2, <2>5, PlayoutAssumption
    DEF PlayoutInv, Ownership, Flushed, Accounted, Muted
<1>13. CASE DrainCloses BY <1>13, CloseInv DEF DrainCloses
<1>14. CASE Orphaned BY <1>14, CloseInv DEF Orphaned
<1>15. CASE Tick
  <2>1. Len(buffer) \in Nat /\ due \in Nat BY <1>0, LenProperties DEF TypeOK
  <2>2. UNCHANGED <<pl, waiter, remainder, pc, cur, polled, permitted>>
        /\ ~(pc = "capture" /\ ~polled)
    BY <1>15 DEF Tick
  <2>3. /\ Len(buffer') <= Len(buffer) /\ Len(buffer') \in Nat
        /\ Len(buffer) >= Quantum => Len(buffer') = Len(buffer) - Quantum
        /\ Len(buffer) < Quantum => buffer' = buffer
        /\ OnlyPermittedAudio'
    <3>1. CASE Len(buffer) >= Quantum
      <4>1. buffer' = SubSeq(buffer, Quantum + 1, Len(buffer))
        BY <1>15, <3>1 DEF Tick
      <4>2. /\ Len(buffer') = Len(buffer) - Quantum
            /\ \A i \in 1..(Len(buffer) - Quantum) :
                 buffer'[i] = buffer[i + Quantum]
        BY <1>0, <2>1, <3>1, <4>1, PlayoutAssumption, SMTT(30) DEF TypeOK
      <4>3. QED
        BY <2>1, <2>2, <3>1, <4>2, PlayoutAssumption
        DEF PlayoutInv, OnlyPermittedAudio
    <3>2. CASE Len(buffer) < Quantum
      BY <1>15, <2>1, <2>2, <3>2, PlayoutAssumption
      DEF Tick, PlayoutInv, OnlyPermittedAudio
    <3>3. QED BY <2>1, <3>1, <3>2, PlayoutAssumption
  <2>4. Accounted'
    BY <1>15, <2>1, <2>2, <2>3, PlayoutAssumption DEF Tick, PlayoutInv, Accounted
  <2>5. Flushed' /\ Muted'
    <3>1. pc \in {"drain", "drainstop", "closed"} => FALSE
      BY <1>15, EmptySeq, PlayoutAssumption DEF Tick, PlayoutInv, Flushed
    <3>2. QED BY <2>1, <2>2, <2>3, <3>1, PlayoutAssumption DEF PlayoutInv, Flushed, Muted
  <2>6. Ownership' BY <2>2 DEF PlayoutInv, Ownership
  <2>7. QED BY <1>0, <2>3, <2>4, <2>5, <2>6 DEF PlayoutInv
<1>16. CASE UNCHANGED vars
  BY <1>0, <1>16
  DEF vars, PlayoutInv, Ownership, Flushed, Accounted, Muted, OnlyPermittedAudio
<1>17. QED
  BY <1>1, <1>2, <1>3, <1>4, <1>5, <1>6, <1>7, <1>8, <1>9, <1>10, <1>11, <1>12,
     <1>13, <1>14, <1>15, <1>16
  DEF Next, Callers, Control, Audio, Sdk

\* The inductive invariant holds of every behaviour.
THEOREM Invariance == Spec => []PlayoutInv
BY InitInv, NextInv, PTL DEF Spec

\* Whatever the interleaving, no sample of an attempt that was never
\* authorized reaches the native source.
THEOREM OnlyPermittedAudioHolds == Spec => []OnlyPermittedAudio
<1>1. PlayoutInv => OnlyPermittedAudio BY DEF PlayoutInv
<1>2. QED BY <1>1, Invariance, PTL

\* When finish() is about to report the drain, at most one quantum is unplayed.
THEOREM DrainedBoundHolds == Spec => []DrainedBound
<1>1. PlayoutInv => DrainedBound
  <2> SUFFICES ASSUME PlayoutInv, waiter # NoAttempt, due = 0
               PROVE  Len(buffer) <= Quantum
    BY DEF DrainedBound
  <2>1. pc # "capture" BY DEF PlayoutInv, Ownership
  <2>2. QED BY <2>1, PlayoutAssumption DEF PlayoutInv, Accounted
<1>2. QED BY <1>1, Invariance, PTL

\* A closed speech gate leaves at most the piece in flight to be heard.
THEOREM MutedBoundHolds == Spec => []MutedBound
<1>1. PlayoutInv => MutedBound BY DEF PlayoutInv, Muted, MutedBound
<1>2. QED BY <1>1, Invariance, PTL

\* What may still be heard of a muted or drained reply is one piece at most.
THEOREM ResidueBoundHolds == Spec => []ResidueBound
<1>1. MutedBound /\ DrainedBound => ResidueBound BY DEF ResidueBound
<1>2. QED BY <1>1, MutedBoundHolds, DrainedBoundHolds, PTL

\* A drain is reported only for the authorized owner whose End was accepted.
THEOREM DrainedOnlyForOwnerHolds == Spec => DrainedOnlyForOwner
<1>1. ASSUME PlayoutInv, [Next]_vars, NEW a \in Attempts,
             prod'[a] = "drained", prod[a] # "drained"
      PROVE  Owns(pl, a) /\ pl.authorized /\ pl.ended
  <2>0. prod \in [Attempts -> {"idle", "pcm", "end", "drained", "gone"}]
    BY <1>1 DEF PlayoutInv, TypeOK
  <2>1. CASE SelectDrained
    <3>1. a = waiter BY <1>1, <2>0, <2>1 DEF SelectDrained, Reply
    <3>2. waiter # NoAttempt BY <2>1 DEF SelectDrained
    <3>3. QED BY <1>1, <3>1, <3>2 DEF PlayoutInv, Ownership, Owns
  <2>2. CASE ~SelectDrained
    <3>1. prod'[a] = prod[a] \/ prod'[a] \in {"idle", "pcm", "end", "gone"}
      <4>1. ASSUME NEW f \in Frames, Send(f)
            PROVE  prod'[a] = prod[a] \/ prod'[a] \in {"pcm", "end"}
        BY <2>0, <4>1 DEF Send, Frames
      <4>2. ASSUME NEW b \in Attempts, Abort(b)
            PROVE  prod'[a] = prod[a] \/ prod'[a] = "gone"
        BY <2>0, <4>2 DEF Abort
      <4>3. ASSUME NEW w, prod' = Reply(prod, w, "idle")
            PROVE  prod'[a] = prod[a] \/ prod'[a] = "idle"
        BY <4>3, <1>1 DEF Reply
      <4>4. ASSUME CloseWith(pl) PROVE prod'[a] = prod[a] \/ prod'[a] = "idle"
        BY <4>4, <1>1 DEF CloseWith
      <4>5. ASSUME Obey(ctl) PROVE prod'[a] = prod[a] \/ prod'[a] = "idle"
        BY <4>5, <4>3 DEF Obey
      <4>6. CASE UNCHANGED prod BY <4>6
      <4>7. CASE SelectPcm
        BY <4>3, <4>6, <4>7 DEF SelectPcm
      <4>8. CASE SelectEnd
        BY <4>3, <4>6, <4>8 DEF SelectEnd
      <4>9. CASE CaptureReady
        BY <4>3, <4>6, <4>9 DEF CaptureReady
      <4>10. CASE DrainCompletes BY <4>3, <4>10 DEF DrainCompletes
      <4>11. CASE SelectControl BY <4>4, <4>5, <4>11 DEF SelectControl
      <4>12. CASE CaptureControl BY <4>5, <4>12 DEF CaptureControl
      <4>13. CASE CaptureFails \/ DrainCloses \/ Orphaned
        BY <4>4, <4>13 DEF CaptureFails, DrainCloses, Orphaned
      <4>14. CASE (\E c \in Commands : Call(c)) \/ CapturePoll \/ Tick \/ UNCHANGED vars
        BY <4>6, <4>14 DEF Call, CapturePoll, Tick, vars
      <4>15. QED
        BY <1>1, <2>2, <4>1, <4>2, <4>7, <4>8, <4>9, <4>10, <4>11, <4>12, <4>13, <4>14
        DEF Next, Callers, Control, Audio, Sdk
    <3>2. QED BY <1>1, <3>1
  <2>3. QED BY <2>1, <2>2
<1>2. PlayoutInv /\ [Next]_vars =>
        [\A a \in Attempts : prod'[a] = "drained" /\ prod[a] # "drained" =>
           Owns(pl, a) /\ pl.authorized /\ pl.ended]_vars
  BY <1>1
<1>3. QED BY <1>2, Invariance, PTL DEF Spec, DrainedOnlyForOwner
=============================================================================
